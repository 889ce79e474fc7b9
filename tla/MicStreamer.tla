----------------------------- MODULE MicStreamer -----------------------------
(***************************************************************************)
(* MicrophoneAdtsStreamer of the microphone module                         *)
(* (bionic_cat_microphone_module/src/capture_audio.cpp): a producer thread *)
(* reads periods from the sound card and pushes each into two bounded      *)
(* queues, an encoder thread turns its queue into AAC frames and publishes *)
(* them, and a localizer thread (when localization is enabled) consumes    *)
(* the other. One mutex, queue_mtx_, guards both queues, and one condition *)
(* variable, queue_cv_, wakes both consumers. The owner calls start and    *)
(* stop, one call at a time (MicrophoneNode holds stream_mtx_ around both).*)
(*                                                                         *)
(* A period is named by its number in the stream of captured periods, and  *)
(* holds PeriodBlocks blocks of samples; an AAC frame takes FrameBlocks.   *)
(*                                                                         *)
(* queue_mtx_ is held for longer than one step only by a consumer that has *)
(* found nothing to do and is about to sleep ("block"). running_ is        *)
(* changed without the mutex.                                              *)
(***************************************************************************)
EXTENDS Integers, Sequences

CONSTANTS
  max_queue_size_, (* Most periods in a queue: 32.                           *)
  PeriodBlocks,    (* Blocks of a captured period (period_size, frame_size). *)
  FrameBlocks,     (* Blocks of an AAC frame (1024 samples for AAC-LC).      *)
  Failures,        (* What may fail: "open", "init", "read", "encode".       *)
  MaxPeriods,      (* Bound of the model: periods captured in a behaviour.   *)
  MaxSessions      (* Bound of the model: calls of start that succeed.       *)

ASSUME StreamerAssumption ==
  /\ max_queue_size_ \in Nat \ {0}
  /\ PeriodBlocks \in Nat \ {0}
  /\ FrameBlocks  \in Nat \ {0}
  /\ Failures \subseteq {"open", "init", "read", "encode"}
  /\ MaxPeriods \in Nat
  /\ MaxSessions \in Nat

VARIABLES
  opc,            (* owner: "idle" (no call in progress); in stop: "notify",  *)
                  (* "join"; in start, stop done: "open"                      *)
  reopen,         (* is it start that called stop?                            *)
  was_running,    (* what stop found in running_                              *)
  localize,       (* enable_localization of the start in progress             *)
  sessions,       (* calls of start that succeeded                            *)
  running,        (* running_                                                 *)
  cap,            (* is the capture device open? (cap_.pcm_)                  *)
  enc,            (* is the AAC encoder open? (enc_.encoder_)                 *)
  ppc,            (* producer: "none" (joined), "loop", "read", "push",       *)
                  (* "notify", "exited"                                       *)
  epc,            (* encoder: "none", "loop", "lock", "block" (about to       *)
                  (* sleep, mutex held), "waiting", "encode", "publish",      *)
                  (* "exited"                                                 *)
  lpc,            (* localizer: the same, with "locate"                       *)
  encode_queue,   (* encode_queue_                                            *)
  localize_queue, (* localize_queue_                                          *)
  mono_cache,     (* blocks waiting for a whole AAC frame                     *)
  seq,            (* encoder: number of the next message                      *)
  pts,            (* encoder: AAC frames encoded since the thread began       *)
  published,      (* the last message given to data_cb_                       *)
  located,        (* the last period the localizer took                       *)
  captured        (* periods pushed so far (not in the code)                  *)

owner    == << opc, reopen, was_running, localize, sessions >>
devices  == << cap, enc >>
queues   == << encode_queue, localize_queue, captured >>
encoding == << mono_cache, seq, pts, published >>
vars     == << owner, devices, running, ppc, epc, lpc, queues, encoding, located >>

Gone == {"none", "exited"}

(* Before any message was published. (The session of a message is not in   *)
(* the code.)                                                              *)
NoMessage == [session |-> 0, seq |-> -1, pts |-> -1, blocks |-> << >>]

(* The blocks of period p. *)
Blocks(p) == [j \in 1 .. PeriodBlocks |-> (p - 1) * PeriodBlocks + j]

(* No consumer is between finding its queue empty and falling asleep. *)
MutexFree == epc # "block" /\ lpc # "block"

Init ==
  /\ opc = "idle" /\ reopen = FALSE /\ was_running = FALSE
  /\ localize = FALSE /\ sessions = 0
  /\ running = FALSE
  /\ cap = FALSE /\ enc = FALSE
  /\ ppc = "none" /\ epc = "none" /\ lpc = "none"
  /\ encode_queue = << >> /\ localize_queue = << >> /\ captured = 0
  /\ mono_cache = << >> /\ seq = 0 /\ pts = 0 /\ published = NoMessage
  /\ located = 0

-----------------------------------------------------------------------------
(* The owner: start and stop. *)

(* stop begins: running_.exchange(false). *)
ExchangeRunning ==
  /\ was_running' = running
  /\ running' = FALSE
  /\ opc' = IF running THEN "notify" ELSE "join"

Stop ==
  /\ opc = "idle"
  /\ ExchangeRunning
  /\ reopen' = FALSE
  /\ UNCHANGED << localize, sessions, devices, ppc, epc, lpc, queues, encoding,
                  located >>

(* start(cfg) with enable_localization = loc: it calls stop first. *)
Start(loc) ==
  /\ opc = "idle" /\ sessions < MaxSessions
  /\ ExchangeRunning
  /\ reopen' = TRUE
  /\ localize' = loc
  /\ UNCHANGED << sessions, devices, ppc, epc, lpc, queues, encoding, located >>

(* The consumers asleep on queue_cv_ wake, and will take the mutex again. *)
WakeAll ==
  /\ epc' = IF epc = "waiting" THEN "lock" ELSE epc
  /\ lpc' = IF lpc = "waiting" THEN "lock" ELSE lpc

(* A mutant: stop notifies without the mutex. *)
StopNotifyUnlocked ==
  /\ opc = "notify"
  /\ WakeAll
  /\ opc' = "join"
  /\ UNCHANGED << reopen, was_running, localize, sessions, devices, running, ppc,
                  queues, encoding, located >>

(* stop notifies with the mutex held. *)
StopNotify ==
  /\ opc = "notify" /\ MutexFree
  /\ WakeAll
  /\ opc' = "join"
  /\ UNCHANGED << reopen, was_running, localize, sessions, devices, running, ppc,
                  queues, encoding, located >>

(* A mutant: the device and the encoder are closed before the joins. *)
CloseBeforeJoin ==
  /\ opc = "join"
  /\ cap' = (cap /\ ~was_running)
  /\ enc' = (enc /\ ~was_running)
  /\ opc' = IF reopen THEN "open" ELSE "idle"
  /\ UNCHANGED << reopen, was_running, localize, sessions, running, ppc, epc, lpc,
                  queues, encoding, located >>

(* The joins return. A stop that found the streamer running closes the     *)
(* device and the encoder (and calls ctrl_cb_, which only prints); one     *)
(* that did not leaves them as they are.                                   *)
Join ==
  /\ opc = "join"
  /\ {ppc, epc, lpc} \subseteq Gone
  /\ ppc' = "none" /\ epc' = "none" /\ lpc' = "none"
  /\ cap' = (cap /\ ~was_running)
  /\ enc' = (enc /\ ~was_running)
  /\ opc' = IF reopen THEN "open" ELSE "idle"
  /\ UNCHANGED << reopen, was_running, localize, sessions, running, queues, encoding,
                  located >>

(* start, after stop: openMulti closes a device left open, and fails. *)
OpenFails ==
  /\ opc = "open" /\ "open" \in Failures
  /\ cap' = FALSE
  /\ opc' = "idle"
  /\ UNCHANGED << reopen, was_running, localize, sessions, enc, running, ppc, epc, lpc,
                  queues, encoding, located >>

(* start, after stop: openMulti succeeds and init closes an encoder left   *)
(* open, and fails; the device is closed again.                            *)
InitFails ==
  /\ opc = "open" /\ "init" \in Failures
  /\ cap' = FALSE
  /\ enc' = FALSE
  /\ opc' = "idle"
  /\ UNCHANGED << reopen, was_running, localize, sessions, running, ppc, epc, lpc,
                  queues, encoding, located >>

(* start, after stop: device and encoder are open, the threads are created *)
(* and the start is announced. The queues keep what the last session left. *)
Opened ==
  /\ opc = "open"
  /\ cap' = TRUE
  /\ enc' = TRUE
  /\ running' = TRUE
  /\ ppc' = "loop"
  /\ epc' = "loop"
  /\ lpc' = IF localize THEN "loop" ELSE "none"
  /\ mono_cache' = << >>
  /\ seq' = 0
  /\ pts' = 0
  /\ sessions' = sessions + 1
  /\ opc' = "idle"
  /\ UNCHANGED << reopen, was_running, localize, queues, published, located >>

-----------------------------------------------------------------------------
(* The producer: run. *)

ProducerLoop ==
  /\ ppc = "loop"
  /\ ppc' = IF running THEN "read" ELSE "exited"
  /\ UNCHANGED << owner, devices, running, epc, lpc, queues, encoding, located >>

(* readMultiPeriod returns a period. *)
ReadPeriod ==
  /\ ppc = "read" /\ cap
  /\ captured < MaxPeriods
  /\ ppc' = "push"
  /\ UNCHANGED << owner, devices, running, epc, lpc, queues, encoding, located >>

(* readMultiPeriod returns no data. (Past the bound of the model it always *)
(* does.)                                                                  *)
ReadNothing ==
  /\ ppc = "read" /\ cap
  /\ captured = MaxPeriods
  /\ ppc' = "loop"
  /\ UNCHANGED << owner, devices, running, epc, lpc, queues, encoding, located >>

(* readMultiPeriod fails: the thread ends, and running_ stays true. *)
ReadFails ==
  /\ ppc = "read"
  /\ "read" \in Failures \/ ~cap
  /\ ppc' = "exited"
  /\ UNCHANGED << owner, devices, running, epc, lpc, queues, encoding, located >>

(* A mutant: a full queue is not shortened first. *)
PushPeriodUnbounded ==
  /\ ppc = "push" /\ MutexFree
  /\ ppc' = "notify"
  /\ captured' = captured + 1
  /\ encode_queue' = Append(encode_queue, captured + 1)
  /\ localize_queue' = Append(localize_queue, captured + 1)
  /\ UNCHANGED << owner, devices, running, epc, lpc, encoding, located >>

(* A mutant: the new period is dropped from a full queue, not the oldest. *)
PushDropsNewest(q, p) == IF Len(q) >= max_queue_size_ THEN q ELSE Append(q, p)

(* A full queue loses its oldest period; then period p is appended. *)
Push(q, p) == Append(IF Len(q) >= max_queue_size_ THEN Tail(q) ELSE q, p)

(* The period goes into both queues, localization enabled or not. *)
PushPeriod ==
  /\ ppc = "push" /\ MutexFree
  /\ ppc' = "notify"
  /\ captured' = captured + 1
  /\ encode_queue' = Push(encode_queue, captured + 1)
  /\ localize_queue' = Push(localize_queue, captured + 1)
  /\ UNCHANGED << owner, devices, running, epc, lpc, encoding, located >>

(* A mutant: notify_one, with two consumers on the condition variable. *)
NotifyOne ==
  /\ ppc = "notify"
  /\ ppc' = "loop"
  /\ \/ lpc = "waiting" /\ lpc' = "lock" /\ epc' = epc
     \/ epc = "waiting" /\ epc' = "lock" /\ lpc' = lpc
     \/ lpc # "waiting" /\ epc # "waiting" /\ UNCHANGED << epc, lpc >>
  /\ UNCHANGED << owner, devices, running, queues, encoding, located >>

(* queue_cv_.notify_all, the mutex released. *)
Notify ==
  /\ ppc = "notify"
  /\ ppc' = "loop"
  /\ WakeAll
  /\ UNCHANGED << owner, devices, running, queues, encoding, located >>

-----------------------------------------------------------------------------
(* The encoder: runEncode. *)

EncoderLoop ==
  /\ epc = "loop"
  /\ epc' = IF running THEN "lock" ELSE "exited"
  /\ UNCHANGED << owner, devices, running, ppc, lpc, queues, encoding, located >>

(* With the mutex: stopped and nothing left, the thread ends; still        *)
(* running and nothing there, it is going to sleep.                        *)
EncoderFindsNothing ==
  /\ epc = "lock" /\ MutexFree /\ encode_queue = << >>
  /\ epc' = IF running THEN "block" ELSE "exited"
  /\ UNCHANGED << owner, devices, running, ppc, lpc, queues, encoding, located >>

(* It sleeps, and the mutex is released in the same instant. *)
EncoderSleeps ==
  /\ epc = "block"
  /\ epc' = "waiting"
  /\ UNCHANGED << owner, devices, running, ppc, lpc, queues, encoding, located >>

(* A spurious wake-up that finds something to do. (One that does not goes  *)
(* back to sleep.)                                                         *)
EncoderWakes ==
  /\ epc = "waiting" /\ (~running \/ encode_queue # << >>)
  /\ epc' = "lock"
  /\ UNCHANGED << owner, devices, running, ppc, lpc, queues, encoding, located >>

AfterCaching(cache) == IF Len(cache) >= FrameBlocks THEN "encode" ELSE "loop"

(* A mutant: the newest period is taken. *)
EncoderTakesNewest ==
  /\ epc = "lock" /\ MutexFree /\ encode_queue # << >>
  /\ encode_queue' = SubSeq(encode_queue, 1, Len(encode_queue) - 1)
  /\ mono_cache' = mono_cache \o Blocks(encode_queue[Len(encode_queue)])
  /\ epc' = AfterCaching(mono_cache')
  /\ UNCHANGED << owner, devices, running, ppc, lpc, localize_queue, captured,
                  seq, pts, published, located >>

(* With the mutex: the oldest period is taken (even when stopped), and its *)
(* first channel goes into the cache.                                      *)
EncoderTakes ==
  /\ epc = "lock" /\ MutexFree /\ encode_queue # << >>
  /\ encode_queue' = Tail(encode_queue)
  /\ mono_cache' = mono_cache \o Blocks(Head(encode_queue))
  /\ epc' = AfterCaching(mono_cache')
  /\ UNCHANGED << owner, devices, running, ppc, lpc, localize_queue, captured,
                  seq, pts, published, located >>

RestOfCache == SubSeq(mono_cache, FrameBlocks + 1, Len(mono_cache))

(* encode takes a frame's worth of samples and has nothing to give yet (it *)
(* buffers inside).                                                        *)
EncodeNoOutput ==
  /\ epc = "encode" /\ enc
  /\ mono_cache' = RestOfCache
  /\ pts' = pts + 1
  /\ epc' = AfterCaching(RestOfCache)
  /\ UNCHANGED << owner, devices, running, ppc, lpc, queues, seq, published, located >>

(* encode returns an AAC frame: it is given to data_cb_, which publishes   *)
(* it and waits for the broker.                                            *)
Encode ==
  /\ epc = "encode" /\ enc
  /\ mono_cache' = RestOfCache
  /\ published' = [session |-> sessions, seq |-> seq, pts |-> pts,
                   blocks |-> SubSeq(mono_cache, 1, FrameBlocks)]
  /\ seq' = seq + 1
  /\ pts' = pts + 1
  /\ epc' = "publish"
  /\ UNCHANGED << owner, devices, running, ppc, lpc, queues, located >>

(* data_cb_ returns, published or not. *)
PublishReturns ==
  /\ epc = "publish"
  /\ epc' = AfterCaching(mono_cache)
  /\ UNCHANGED << owner, devices, running, ppc, lpc, queues, encoding, located >>

(* encode fails: the encoder thread itself ends the session, without the   *)
(* mutex and without waking anyone.                                        *)
EncodeFails ==
  /\ epc = "encode"
  /\ "encode" \in Failures \/ ~enc
  /\ running' = FALSE
  /\ epc' = "loop"
  /\ UNCHANGED << owner, devices, ppc, lpc, queues, encoding, located >>

-----------------------------------------------------------------------------
(* The localizer: runLocalize. *)

LocalizerLoop ==
  /\ lpc = "loop"
  /\ lpc' = IF running THEN "lock" ELSE "exited"
  /\ UNCHANGED << owner, devices, running, ppc, epc, queues, encoding, located >>

LocalizerFindsNothing ==
  /\ lpc = "lock" /\ MutexFree /\ localize_queue = << >>
  /\ lpc' = IF running THEN "block" ELSE "exited"
  /\ UNCHANGED << owner, devices, running, ppc, epc, queues, encoding, located >>

LocalizerSleeps ==
  /\ lpc = "block"
  /\ lpc' = "waiting"
  /\ UNCHANGED << owner, devices, running, ppc, epc, queues, encoding, located >>

LocalizerWakes ==
  /\ lpc = "waiting" /\ (~running \/ localize_queue # << >>)
  /\ lpc' = "lock"
  /\ UNCHANGED << owner, devices, running, ppc, epc, queues, encoding, located >>

LocalizerTakes ==
  /\ lpc = "lock" /\ MutexFree /\ localize_queue # << >>
  /\ localize_queue' = Tail(localize_queue)
  /\ located' = Head(localize_queue)
  /\ lpc' = "locate"
  /\ UNCHANGED << owner, devices, running, ppc, epc, encode_queue, captured, encoding >>

(* The period is localized, its result published, or skipped. *)
Locate ==
  /\ lpc = "locate"
  /\ lpc' = "loop"
  /\ UNCHANGED << owner, devices, running, ppc, epc, queues, encoding, located >>

-----------------------------------------------------------------------------
Owner == StopNotify \/ Join \/ OpenFails \/ InitFails \/ Opened

Producer == ProducerLoop \/ ReadPeriod \/ ReadNothing \/ ReadFails \/ PushPeriod \/ Notify

Encoder ==
  \/ EncoderLoop \/ EncoderFindsNothing \/ EncoderSleeps
  \/ EncoderTakes \/ EncodeNoOutput \/ Encode \/ PublishReturns \/ EncodeFails

Localizer ==
  \/ LocalizerLoop \/ LocalizerFindsNothing \/ LocalizerSleeps
  \/ LocalizerTakes \/ Locate

Next ==
  \/ Stop
  \/ \E loc \in BOOLEAN : Start(loc)
  \/ Owner
  \/ Producer
  \/ Encoder
  \/ EncoderWakes
  \/ Localizer
  \/ LocalizerWakes

(* Every thread that can take a step does: the sound card delivers, the    *)
(* broker answers, a call of the owner goes on. Nobody has to call start   *)
(* or stop, and no spurious wake-up is counted on.                         *)
Fairness ==
  /\ WF_vars(Owner)
  /\ WF_vars(Producer)
  /\ WF_vars(Encoder)
  /\ WF_vars(Localizer)

Spec == Init /\ [][Next]_vars

FairSpec == Spec /\ Fairness

-----------------------------------------------------------------------------
Periods == 1 .. MaxPeriods

Messages == [session : Nat, seq : Nat, pts : Nat, blocks : Seq(Nat)]

(* Every variable has values of its type: no queue is longer than its      *)
(* bound, and the cache holds less than a frame and a period together      *)
(* (capture_audio.cpp: run, runEncode).                                    *)
TypeOK ==
  /\ opc \in {"idle", "notify", "join", "open"}
  /\ reopen \in BOOLEAN /\ was_running \in BOOLEAN /\ localize \in BOOLEAN
  /\ running \in BOOLEAN /\ cap \in BOOLEAN /\ enc \in BOOLEAN
  /\ sessions \in 0 .. MaxSessions
  /\ ppc \in {"none", "loop", "read", "push", "notify", "exited"}
  /\ epc \in {"none", "loop", "lock", "block", "waiting", "encode", "publish", "exited"}
  /\ lpc \in {"none", "loop", "lock", "block", "waiting", "locate", "exited"}
  /\ encode_queue \in Seq(Periods) /\ Len(encode_queue) <= max_queue_size_
  /\ localize_queue \in Seq(Periods) /\ Len(localize_queue) <= max_queue_size_
  /\ captured \in 0 .. MaxPeriods
  /\ mono_cache \in Seq(Nat) /\ Len(mono_cache) < FrameBlocks + PeriodBlocks
  /\ seq \in Nat /\ pts \in Nat
  /\ published \in Messages \cup {NoMessage}
  /\ located \in 0 .. MaxPeriods

(* A queue holds the newest periods: none is missing inside it, and it     *)
(* ends with the last one captured, whatever was dropped when it was full  *)
(* and whatever sessions began and ended in between.                       *)
HoldsNewest(q) == \A i \in 1 .. Len(q) : q[i] = captured - Len(q) + i

QueuesHoldNewest == HoldsNewest(encode_queue) /\ HoldsNewest(localize_queue)

(* The device stays open while the producer reads from it and the encoder  *)
(* while the encoder thread uses it: stop closes neither under a thread.   *)
OpenWhileUsed ==
  /\ ppc \notin Gone => cap
  /\ epc \notin Gone => enc

LastBlock(m) == IF m.blocks = << >> THEN 0 ELSE m.blocks[Len(m.blocks)]

(* A new message follows on from the last one published. *)
FollowsOn ==
  published' # published =>
    /\ published'.seq =
         IF published'.session = published.session THEN published.seq + 1 ELSE 0
    /\ published'.blocks[1] > LastBlock(published)
    /\ \A i \in 1 .. FrameBlocks - 1 : published'.blocks[i] < published'.blocks[i + 1]

(* The stream a subscriber sees: within a session the messages are         *)
(* numbered 0, 1, 2, ... without a gap; over all sessions their samples    *)
(* are in the order they were captured, none published twice, whatever was *)
(* dropped on the way.                                                     *)
InCaptureOrder == [][FollowsOn]_vars

Asleep(c) == c \in {"block", "waiting"}

(* No notification is missed (run, stop): a consumer sleeps over a period  *)
(* in its queue, or over the end of a session that stop ends, only while   *)
(* the notification is still to come; when stop joins, nobody sleeps.      *)
NoMissedNotify ==
  /\ Asleep(epc) /\ encode_queue # << >> => ppc = "notify"
  /\ Asleep(lpc) /\ localize_queue # << >> => ppc = "notify"
  /\ Asleep(epc) /\ ~running => opc = "notify"
  /\ opc = "join" /\ was_running => ~Asleep(epc) /\ ~Asleep(lpc)

(* No wake-up is lost: a period in a consumer's queue leaves it (taken, or *)
(* dropped from a full queue) unless the session ends first.               *)
EveryPeriodServed ==
  \A p \in Periods :
    /\ (p \in {encode_queue[i] : i \in 1 .. Len(encode_queue)} /\ running)
         ~> (p \notin {encode_queue[i] : i \in 1 .. Len(encode_queue)} \/ ~running)
    /\ (p \in {localize_queue[i] : i \in 1 .. Len(localize_queue)} /\ running /\ lpc # "none")
         ~> (p \notin {localize_queue[i] : i \in 1 .. Len(localize_queue)} \/ ~running)

(* A stop that finds the streamer running returns, whatever fails at the   *)
(* same time.                                                              *)
CleanStopReturns == (opc = "notify") ~> (opc \in {"idle", "open"})

(* "若未运行，仍需 join 可能存在的线程": a stop that finds the streamer not *)
(* running joins the threads there may be, and returns.                    *)
StopReturns == (opc = "join") ~> (opc \in {"idle", "open"})

=============================================================================
