------------------------------- MODULE MicNode -------------------------------
(***************************************************************************)
(* The microphone program (bionic_cat_microphone_module/src/main.cpp,      *)
(* microphone_node.cpp): the MQTT callback thread queues START and STOP    *)
(* commands, a worker thread acts on them, and the main thread starts the  *)
(* node, waits, and stops it. A signal runs MicrophoneNode::stop on the    *)
(* main thread, on top of whatever that thread was doing, so that two      *)
(* frames of the main thread may be inside stop.                           *)
(*                                                                         *)
(* The streamer (module MicStreamer) appears as streamer_ and whether its  *)
(* threads still do anything. It is started without localization, and then *)
(* its stop returns.                                                       *)
(*                                                                         *)
(* control_mtx_ is held for longer than one step by a worker about to fall *)
(* asleep ("block") and by a stop about to notify ("notify").              *)
(***************************************************************************)
EXTENDS MqttSubscriber, Sequences

CONSTANTS
  MaxCommands,  (* Bound of the model: control messages.            *)
  MaxSignals    (* Bound of the model: signals sent to the program. *)

ASSUME NodeAssumption == MaxCommands \in Nat /\ MaxSignals \in Nat

VARIABLES
  pc,        (* where the two frames of the main thread are. In init: "connect", *)
             (* "subscribe", "running", "spawn"; in run: "run"; in stop: "halt", *)
             (* "lock", "notify", "join", "stream", "disconnect"; "exited"; no   *)
             (* handler: "none"; "crashed": the process is gone                  *)
  final,     (* is main in its last stop? "no"; "reset": g_node.reset();         *)
             (* "exit": g_node is destroyed after main returned 1                *)
  signals,   (* signals delivered so far                                         *)
  running,   (* running_                                                         *)
  cpc,       (* MQTT callback: "idle", "notify" (command pushed)                 *)
  queue,     (* control_queue_: the is_start of each command                     *)
  received,  (* commands pushed so far (not in the code)                         *)
  last,      (* the is_start of the last command pushed (not in the code)        *)
  wpc,       (* worker: "none" (not joinable), "loop", "lock", "block",          *)
             (* "waiting", "act" (command popped), "exited", "joined"            *)
  cmd,       (* worker: the is_start of the command it acts on                   *)
  stream,    (* streamer_: "none", "live", or "dead" (its threads gave up)       *)
  refused    (* did the command last acted on fail to start the streamer?        *)
             (* (not in the code)                                                *)

main     == << pc, final, signals, running >>
commands == << cpc, queue, received, last >>
worker   == << wpc, cmd >>
streamer == << stream, refused >>
vars     == << session, main, commands, worker, streamer >>

Frames == {"main", "handler"}

(* The main thread runs its innermost frame. *)
Executing(f) == f = "handler" \/ pc["handler"] = "none"

MutexFree == wpc # "block" /\ \A f \in Frames : pc[f] # "notify"

Init ==
  /\ SessionInit
  /\ pc = [f \in Frames |-> IF f = "main" THEN "connect" ELSE "none"]
  /\ final = "no" /\ signals = 0 /\ running = FALSE
  /\ cpc = "idle" /\ queue = << >> /\ received = 0 /\ last = FALSE
  /\ wpc = "none" /\ cmd = FALSE
  /\ stream = "none" /\ refused = FALSE

Goto(f, l) == pc' = [pc EXCEPT ![f] = l]

-----------------------------------------------------------------------------
(* The main thread: init and run. *)

(* init: a client does not connect, or the topic is not subscribed. *)
InitFails ==
  /\ Executing("main") /\ pc["main"] \in {"connect", "subscribe"}
  /\ Goto("main", "halt")
  /\ final' = "exit"
  /\ UNCHANGED << session, signals, running, commands, worker, streamer >>

(* init: the two publishers and the subscriber are connected. *)
Connect ==
  /\ Executing("main") /\ pc["main"] = "connect"
  /\ ConnectSucceeds
  /\ Goto("main", "subscribe")
  /\ UNCHANGED << final, signals, running, commands, worker, streamer >>

Subscribe ==
  /\ Executing("main") /\ pc["main"] = "subscribe"
  /\ SubscribeSucceeds
  /\ Goto("main", "running")
  /\ UNCHANGED << final, signals, running, commands, worker, streamer >>

SetRunning ==
  /\ Executing("main") /\ pc["main"] = "running"
  /\ running' = TRUE
  /\ Goto("main", "spawn")
  /\ UNCHANGED << session, final, signals, commands, worker, streamer >>

SpawnWorker ==
  /\ Executing("main") /\ pc["main"] = "spawn"
  /\ wpc' = "loop"
  /\ Goto("main", "run")
  /\ UNCHANGED << session, final, signals, running, commands, cmd, streamer >>

(* run looks at running_ every 300 ms. *)
RunEnds ==
  /\ Executing("main") /\ pc["main"] = "run" /\ ~running
  /\ Goto("main", "halt")
  /\ UNCHANGED << session, final, signals, running, commands, worker, streamer >>

-----------------------------------------------------------------------------
(* stop, in either frame of the main thread. *)

(* on_signal: nothing is left to stop once reset has cleared g_node. *)
Signal ==
  /\ pc["handler"] = "none" /\ pc["main"] # "exited"
  /\ signals < MaxSignals /\ final # "reset"
  /\ signals' = signals + 1
  /\ Goto("handler", "halt")
  /\ UNCHANGED << session, final, running, commands, worker, streamer >>

Halt(f) ==
  /\ Executing(f) /\ pc[f] = "halt"
  /\ running' = FALSE
  /\ Goto(f, "lock")
  /\ UNCHANGED << session, final, signals, commands, worker, streamer >>

(* The mutex is not recursive: a handler waits for ever for a mutex that   *)
(* the frame below it holds.                                               *)
Lock(f) ==
  /\ Executing(f) /\ pc[f] = "lock" /\ MutexFree
  /\ Goto(f, "notify")
  /\ UNCHANGED << session, final, signals, running, commands, worker, streamer >>

WakeWorker == wpc' = IF wpc = "waiting" THEN "lock" ELSE wpc

(* A mutant: the worker is not woken. *)
NoNotify(f) ==
  /\ Executing(f) /\ pc[f] = "notify"
  /\ Goto(f, "join")
  /\ UNCHANGED << session, final, signals, running, commands, worker, streamer >>

NotifyAll(f) ==
  /\ Executing(f) /\ pc[f] = "notify"
  /\ WakeWorker
  /\ Goto(f, "join")
  /\ UNCHANGED << session, final, signals, running, commands, cmd, streamer >>

Joinable == wpc \notin {"none", "joined"}

(* A mutant: the worker is not waited for. *)
JoinNot(f) ==
  /\ Executing(f) /\ pc[f] = "join"
  /\ Goto(f, "stream")
  /\ UNCHANGED << session, final, signals, running, commands, worker, streamer >>

Join(f) ==
  /\ Executing(f) /\ pc[f] = "join"
  /\ Joinable => wpc = "exited"
  /\ wpc' = IF Joinable THEN "joined" ELSE wpc
  /\ Goto(f, "stream")
  /\ UNCHANGED << session, final, signals, running, commands, cmd, streamer >>

(* The frame below is joining the same thread: pthread_join fails, and the *)
(* exception leaves the handler.                                           *)
JoinTwice ==
  /\ pc["handler"] = "join" /\ pc["main"] = "join" /\ Joinable
  /\ pc' = [f \in Frames |-> "crashed"]
  /\ UNCHANGED << session, final, signals, running, commands, worker, streamer >>

(* stopStream: stop and reset, with stream_mtx_ (which is never held for   *)
(* longer than one step).                                                  *)
CloseStream(f) ==
  /\ Executing(f) /\ pc[f] = "stream"
  /\ stream' = "none"
  /\ Goto(f, "disconnect")
  /\ UNCHANGED << session, final, signals, running, commands, worker, refused >>

(* The three clients are disconnected and stop returns: to what the signal *)
(* interrupted; or in main, first to reset, whose destructor stops again,  *)
(* then to the end.                                                        *)
StopReturns(f) ==
  /\ Executing(f) /\ pc[f] = "disconnect"
  /\ Disconnect
  /\ final' = IF f = "main" /\ final = "no" THEN "reset" ELSE final
  /\ Goto(f, IF f = "handler" THEN "none" ELSE IF final = "no" THEN "halt" ELSE "exited")
  /\ UNCHANGED << signals, running, commands, worker, streamer >>

-----------------------------------------------------------------------------
(* The MQTT callback thread and the network. *)

Reconnected == Reconnect /\ UNCHANGED << main, commands, worker, streamer >>

Network ==
  \/ Reconnected
  \/ (ConnectionLost /\ UNCHANGED << main, commands, worker, streamer >>)

(* A mutant: the command is pushed twice. *)
PushTwice(start) ==
  /\ cpc = "idle" /\ Receiving /\ MutexFree
  /\ received < MaxCommands
  /\ queue' = queue \o << start, start >>
  /\ received' = received + 1
  /\ last' = start
  /\ cpc' = "notify"
  /\ UNCHANGED << session, main, worker, streamer >>

(* handleControl: the command is pushed with the mutex. (A payload that    *)
(* cannot be decoded throws, is reported, and changes nothing.)            *)
PushCommand(start) ==
  /\ cpc = "idle" /\ Receiving /\ MutexFree
  /\ received < MaxCommands
  /\ queue' = Append(queue, start)
  /\ received' = received + 1
  /\ last' = start
  /\ cpc' = "notify"
  /\ UNCHANGED << session, main, worker, streamer >>

(* A mutant: a command is pushed without waking the worker. *)
NotifyNone ==
  /\ cpc = "notify"
  /\ cpc' = "idle"
  /\ UNCHANGED << session, main, queue, received, last, worker, streamer >>

(* handleControl: notify_one, the mutex released. *)
NotifyOne ==
  /\ cpc = "notify"
  /\ cpc' = "idle"
  /\ WakeWorker
  /\ UNCHANGED << session, main, queue, received, last, cmd, streamer >>

-----------------------------------------------------------------------------
(* The worker: controlLoop. *)

WorkerLoop ==
  /\ wpc = "loop"
  /\ wpc' = IF running THEN "lock" ELSE "exited"
  /\ UNCHANGED << session, main, commands, cmd, streamer >>

(* With the mutex: stopped, or nothing to do. *)
FindsNothing ==
  /\ wpc = "lock" /\ MutexFree
  /\ ~running \/ queue = << >>
  /\ wpc' = IF running THEN "block" ELSE "exited"
  /\ UNCHANGED << session, main, commands, cmd, streamer >>

FallAsleep ==
  /\ wpc = "block"
  /\ wpc' = "waiting"
  /\ UNCHANGED << session, main, commands, cmd, streamer >>

(* A spurious wake-up that finds something to do. *)
WakeUp ==
  /\ wpc = "waiting" /\ (~running \/ queue # << >>)
  /\ wpc' = "lock"
  /\ UNCHANGED << session, main, commands, cmd, streamer >>

(* A mutant: the newest command is taken. *)
TakeNewest ==
  /\ wpc = "lock" /\ MutexFree
  /\ running /\ queue # << >>
  /\ cmd' = queue[Len(queue)]
  /\ queue' = SubSeq(queue, 1, Len(queue) - 1)
  /\ wpc' = "act"
  /\ refused' = FALSE
  /\ UNCHANGED << session, main, cpc, received, last, stream >>

(* With the mutex: the oldest command is taken. *)
TakeCommand ==
  /\ wpc = "lock" /\ MutexFree
  /\ running /\ queue # << >>
  /\ cmd' = Head(queue)
  /\ queue' = Tail(queue)
  /\ wpc' = "act"
  /\ refused' = FALSE
  /\ UNCHANGED << session, main, cpc, received, last, stream >>

(* startStream: there is a streamer, live or dead. *)
IgnoreStart ==
  /\ wpc = "act" /\ cmd /\ stream # "none"
  /\ wpc' = "loop"
  /\ UNCHANGED << session, main, commands, cmd, streamer >>

StartStream ==
  /\ wpc = "act" /\ cmd /\ stream = "none"
  /\ stream' = "live"
  /\ wpc' = "loop"
  /\ UNCHANGED << session, main, commands, cmd, refused >>

(* startStream: the streamer does not start, and is dropped. *)
StartFails ==
  /\ wpc = "act" /\ cmd /\ stream = "none"
  /\ refused' = TRUE
  /\ wpc' = "loop"
  /\ UNCHANGED << session, main, commands, cmd, stream >>

StopStream ==
  /\ wpc = "act" /\ ~cmd
  /\ stream' = "none"
  /\ wpc' = "loop"
  /\ UNCHANGED << session, main, commands, cmd, refused >>

(* The streamer's own threads end when the device or the encoder fails. *)
StreamDies ==
  /\ stream = "live"
  /\ stream' = "dead"
  /\ UNCHANGED << session, main, commands, worker, refused >>

-----------------------------------------------------------------------------
InMain ==
  \/ InitFails \/ Connect \/ Subscribe \/ SetRunning \/ SpawnWorker \/ RunEnds
  \/ \E f \in Frames :
       \/ Halt(f) \/ Lock(f) \/ NotifyAll(f) \/ Join(f)
       \/ CloseStream(f) \/ StopReturns(f)
  \/ JoinTwice

Crashed == pc["main"] = "crashed"

Callback == ~Crashed /\ NotifyOne

Worker ==
  /\ ~Crashed
  /\ \/ WorkerLoop \/ FindsNothing \/ FallAsleep \/ TakeCommand
     \/ IgnoreStart \/ StartStream \/ StartFails \/ StopStream

External ==
  /\ ~Crashed
  /\ \/ Network
     \/ \E start \in BOOLEAN : PushCommand(start)
     \/ WakeUp
     \/ StreamDies

Next == InMain \/ Signal \/ Callback \/ Worker \/ External

(* Each thread goes on when it can, and Paho connects again. Signals,      *)
(* messages and spurious wake-ups may never come.                          *)
Fairness ==
  /\ WF_vars(InMain)
  /\ WF_vars(Callback)
  /\ WF_vars(Worker)
  /\ WF_vars(~Crashed /\ Reconnected)

Spec == Init /\ [][Next]_vars

FairSpec == Spec /\ Fairness

-----------------------------------------------------------------------------
StopPcs == {"halt", "lock", "notify", "join", "stream", "disconnect"}

(* Every variable has values of its type, and no more commands are queued *)
(* than were received (microphone_node.hpp).                               *)
TypeOK ==
  /\ SessionType
  /\ pc \in [Frames -> StopPcs \cup {"connect", "subscribe", "running", "spawn", "run",
                                    "none", "exited", "crashed"}]
  /\ final \in {"no", "reset", "exit"} /\ signals \in 0 .. MaxSignals
  /\ running \in BOOLEAN
  /\ cpc \in {"idle", "notify"} /\ last \in BOOLEAN
  /\ received \in 0 .. MaxCommands
  /\ queue \in Seq(BOOLEAN) /\ Len(queue) <= received
  /\ wpc \in {"none", "loop", "lock", "block", "waiting", "act", "exited", "joined"}
  /\ cmd \in BOOLEAN
  /\ stream \in {"none", "live", "dead"} /\ refused \in BOOLEAN

(* Once every command has been acted on, the node streams if and only if   *)
(* the last one was a START (that did not fail): whatever came in between, *)
(* and while the worker was starting or stopping, commands act in order    *)
(* and none is lost. (A streamer that died still counts: its START is      *)
(* "already running", and it takes a STOP to get rid of it.)               *)
FollowsCommands ==
  wpc \in {"loop", "lock", "block", "waiting"} /\ queue = << >> /\ received > 0
    => (stream # "none" <=> (last /\ ~refused))

(* The node was initialized, and a stop has returned. *)
Stopped ==
  /\ pc["main"] \in StopPcs \cup {"spawn", "run", "exited"} /\ final # "exit"
  /\ pc["handler"] = "none" /\ ~running

(* A stop that has returned is final, even when the signal came before the *)
(* worker was created or in the middle of a START: there is no streamer,   *)
(* none will be started, and the session is over.                          *)
QuietOnceStopped == Stopped => stream = "none" /\ wpc # "act" /\ link = "off"

(* The worker sleeps over a command only while its notification is still   *)
(* to come, and over the end of the node only until the stop that ended it *)
(* notifies (controlLoop, handleControl, stop): whichever frame of main    *)
(* joins the worker does not find it asleep.                               *)
NoMissedNotify ==
  wpc \in {"block", "waiting"} =>
    /\ queue # << >> => cpc = "notify"
    /\ ~running => \E f \in Frames : pc[f] \in {"lock", "notify"}
    /\ \A f \in Frames : pc[f] # "join"

Served(k) == received - Len(queue) >= k

(* No wake-up is lost: a command that was queued is taken, unless the node *)
(* is stopped first.                                                       *)
EveryCommandServed ==
  \A k \in 1 .. MaxCommands : (received >= k /\ running) ~> (Served(k) \/ ~running)

(* A signal to a running node ends the program, whatever the worker, the   *)
(* callback and the connection are doing: stop waits for the worker, run   *)
(* ends, and main stops twice more. (A second signal may be delivered in   *)
(* the middle of a stop that holds the mutex or joins the worker: then the *)
(* program hangs or dies. One delivered before running_ is set is lost.)   *)
SignalEndsNode ==
  (pc["handler"] = "halt" /\ running /\ signals = 1)
    ~> (pc["main"] = "exited" \/ signals > 1)

(* "**Automatic reconnection** - Built-in reconnection handling": a        *)
(* running node that has lost its connection hears its commands again.     *)
HearsAgain == (link = "lost" /\ running) ~> (Receiving \/ ~running)

=============================================================================
