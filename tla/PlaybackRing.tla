---------------------------- MODULE PlaybackRing ----------------------------
(***************************************************************************)
(* The playback path of src/agora_module/src/hello_rtsa.c: the SDK's       *)
(* callback thread writes received samples into g_playback.ring_buffer     *)
(* (__on_audio_data) while the playback thread copies periods out of it    *)
(* (playback_thread_func) with no lock: two positions, write_pos and       *)
(* read_pos, are the only synchronisation. The main thread ends the        *)
(* session (playback_deinit).                                              *)
(*                                                                         *)
(* A sample is named by its position in the stream of accepted samples, so *)
(* a stale or overwritten sample shows up as the wrong number.             *)
(*                                                                         *)
(* Both positions are read and written with memory_order_relaxed, and      *)
(* ring_buffer is plain memory: nothing orders the two on the ARM target   *)
(* (cmake/CrossCompileConfig.cmake). Ordered = FALSE is that machine: a    *)
(* stored sample becomes visible to the other thread at some later time,   *)
(* and the store of read_pos may overtake the loads before it. Only the    *)
(* creation of the playback thread orders what came before it.             *)
(* Ordered = TRUE is a machine that keeps program order (x86).             *)
(***************************************************************************)
EXTENDS Integers, Sequences, SequencesExt

CONSTANTS
  RING_BUFFER_FRAMES, (* Slots of the ring: 16000 * 6.                        *)
  PeriodFrames,       (* playback_config.period_size: 1024.                   *)
  StartFrames,        (* Samples buffered before playback starts: 32000 * 0.5 *)
  MaxPacket,          (* Most samples in one received packet.                 *)
  MaxSamples,         (* Bound of the model: samples accepted in a behaviour. *)
  Ordered             (* Does the machine keep program order?                 *)

ASSUME RingAssumption ==
  /\ RING_BUFFER_FRAMES \in Nat \ {0, 1}
  /\ PeriodFrames \in Nat \ {0}
  /\ StartFrames  \in Nat
  /\ MaxPacket    \in Nat \ {0}
  /\ MaxSamples   \in Nat
  /\ Ordered \in BOOLEAN

VARIABLES
  device,           (* What playback_init left: "ready", "closed" (the handle   *)
                    (* of a device that is not ready: closed but not NULL) or   *)
                    (* "none" (NULL)                                            *)
  running,          (* g_playback.running                                       *)
  playback_started, (* the static flag of __on_audio_data                       *)
  write_pos,        (* g_playback.write_pos                                     *)
  read_pos,         (* g_playback.read_pos                                      *)
  ring_buffer,      (* the samples the callback has stored, in program order    *)
  visible,          (* the samples the playback thread reads                    *)
  ppc,              (* callback thread: "idle" or inside the copying "loop"     *)
  p_write,          (* its local write_pos                                      *)
  p_read,           (* its local read_pos                                       *)
  p_len,            (* samples of the packet                                    *)
  p_i,              (* samples of it stored so far                              *)
  cpc,              (* playback thread: "none" (not created), "load",           *)
                    (* "silence", "copy", "exited"                              *)
  c_read,           (* its local read_pos                                       *)
  c_i,              (* samples of the period copied so far                      *)
  c_stored,         (* has it stored read_pos for this period?                  *)
  playback_buffer,  (* the period buffer given to pcm_write                     *)
  mpc,              (* main: "run", "fini" (agora_rtc_fini returned),           *)
                    (* "joining", "down"                                        *)
  written,          (* samples accepted so far (not in the code)                *)
  taken             (* samples taken so far (not in the code)                   *)

positions == << write_pos, read_pos >>
memory    == << ring_buffer, visible >>
producer  == << ppc, p_write, p_read, p_len, p_i >>
consumer  == << cpc, c_read, c_i, c_stored, playback_buffer >>
control   == << device, running, playback_started, mpc >>
ghosts    == << written, taken >>
vars      == << positions, memory, producer, consumer, control, ghosts >>

Slots   == 0 .. RING_BUFFER_FRAMES - 1
Samples == 0 .. MaxSamples

(* The frames of a period: 0 when playback_init failed before it set them. *)
Period == IF device = "ready" THEN PeriodFrames ELSE 0

-----------------------------------------------------------------------------
(* Ring arithmetic. *)

(* A mutant: the wrap is forgotten. *)
AdvanceNoWrap(pos) == pos + 1

(* The slot after pos. *)
Advance(pos) == (pos + 1) % RING_BUFFER_FRAMES

(* A mutant: no slot is kept free, so a full ring looks empty. *)
FreeFramesAll(w, r) == ((r - w - 1 + RING_BUFFER_FRAMES) % RING_BUFFER_FRAMES) + 1

(* Room left for the callback; one slot always stays free. *)
FreeFrames(w, r) == (r - w - 1 + RING_BUFFER_FRAMES) % RING_BUFFER_FRAMES

(* Samples between the two positions. *)
AvailFrames(w, r) == IF w >= r THEN w - r ELSE w + RING_BUFFER_FRAMES - r

(* A mutant: two full periods are no longer enough. *)
EnoughStrict(avail) == avail > 2 * Period

(* Is there enough to play real audio? (safe_threshold) *)
Enough(avail) == avail >= 2 * Period

-----------------------------------------------------------------------------
(* The session after playback_init, before the channel is joined. *)
Init ==
  /\ device \in {"ready", "closed", "none"}
  /\ running = FALSE
  /\ playback_started = FALSE
  /\ write_pos = 0
  /\ read_pos = 0
  /\ ring_buffer = [s \in Slots |-> 0]
  /\ visible = ring_buffer
  /\ ppc = "idle" /\ p_write = 0 /\ p_read = 0 /\ p_len = 0 /\ p_i = 0
  /\ cpc = "none" /\ c_read = 0 /\ c_i = 0 /\ c_stored = FALSE
  /\ playback_buffer = [k \in 1 .. PeriodFrames |-> 0]
  /\ mpc = "run"
  /\ written = 0
  /\ taken = 0

-----------------------------------------------------------------------------
(* The SDK's callback thread: __on_audio_data. *)

(* A mutant: a packet that does not fit is written all the same. *)
ReceiveUnchecked(n) ==
  /\ mpc = "run" /\ ppc = "idle" /\ device # "none"
  /\ written + n <= MaxSamples
  /\ ppc' = "loop"
  /\ p_write' = write_pos
  /\ p_read' = read_pos
  /\ p_len' = n
  /\ p_i' = 0
  /\ UNCHANGED << positions, memory, consumer, control, ghosts >>

(* A PCM packet of n samples arrives and there is room for all of it: the  *)
(* positions are loaded. (With no room the handler returns, and the packet *)
(* is lost.)                                                               *)
Receive(n) ==
  /\ mpc = "run" /\ ppc = "idle" /\ device # "none"
  /\ written + n <= MaxSamples
  /\ FreeFrames(write_pos, read_pos) >= n
  /\ ppc' = "loop"
  /\ p_write' = write_pos
  /\ p_read' = read_pos
  /\ p_len' = n
  /\ p_i' = 0
  /\ UNCHANGED << positions, memory, consumer, control, ghosts >>

(* One turn of the copying loop. *)
StoreSample ==
  /\ ppc = "loop" /\ p_i < p_len
  /\ LET sample == written + p_i + 1
     IN  /\ ring_buffer' = [ring_buffer EXCEPT ![p_write] = sample]
         /\ visible' = IF Ordered THEN [visible EXCEPT ![p_write] = sample] ELSE visible
  /\ p_write' = Advance(p_write)
  /\ p_i' = p_i + 1
  /\ UNCHANGED << positions, ppc, p_read, p_len, consumer, control, ghosts >>

(* playback_start: nothing if the thread runs already or there is no device. *)
(* A new thread sees all that its creator stored before pthread_create.      *)
StartPlayback ==
  IF running \/ device = "none"
  THEN UNCHANGED << running, cpc, visible >>
  ELSE running' = TRUE /\ cpc' = "load" /\ visible' = ring_buffer

(* The loop is over: the new write_pos is stored, and the first time enough *)
(* is buffered the playback thread is started.                              *)
PublishWritePos ==
  /\ ppc = "loop" /\ p_i = p_len
  /\ ppc' = "idle"
  /\ write_pos' = p_write
  /\ written' = written + p_len
  /\ IF ~playback_started /\ AvailFrames(p_write, p_read) >= StartFrames
     THEN StartPlayback /\ playback_started' = TRUE
     ELSE UNCHANGED << running, cpc, playback_started, visible >>
  /\ UNCHANGED << read_pos, ring_buffer, p_write, p_read, p_len, p_i,
                  c_read, c_i, c_stored, playback_buffer, device, mpc, taken >>

(* On a machine that reorders stores, a sample reaches the other thread late. *)
BecomeVisible(s) ==
  /\ visible[s] # ring_buffer[s]
  /\ visible' = [visible EXCEPT ![s] = ring_buffer[s]]
  /\ UNCHANGED << positions, ring_buffer, producer, consumer, control, ghosts >>

-----------------------------------------------------------------------------
(* The playback thread: playback_thread_func. *)

(* A mutant: the loop is never left. *)
LeaveNever ==
  /\ cpc = "load" /\ ~running
  /\ UNCHANGED vars

(* The loop condition is false. *)
Leave ==
  /\ cpc = "load" /\ ~running
  /\ cpc' = "exited"
  /\ UNCHANGED << positions, memory, producer, c_read, c_i, c_stored,
                  playback_buffer, control, ghosts >>

(* The top of the loop: both positions are loaded and compared. *)
LoadPositions ==
  /\ cpc = "load" /\ running
  /\ cpc' = IF Enough(AvailFrames(write_pos, read_pos)) THEN "copy" ELSE "silence"
  /\ c_read' = read_pos
  /\ c_i' = 0
  /\ c_stored' = FALSE
  /\ UNCHANGED << positions, memory, producer, playback_buffer, control, ghosts >>

(* Too little is buffered: a period of silence, then 2 ms of sleep. *)
PlaySilence ==
  /\ cpc = "silence"
  /\ cpc' = "load"
  /\ playback_buffer' = [k \in 1 .. PeriodFrames |-> 0]
  /\ UNCHANGED << positions, memory, producer, c_read, c_i, c_stored, control, ghosts >>

(* One turn of the copying loop. *)
CopySample ==
  /\ cpc = "copy" /\ c_i < Period
  /\ playback_buffer' = [playback_buffer EXCEPT ![c_i + 1] = visible[c_read]]
  /\ c_read' = Advance(c_read)
  /\ c_i' = c_i + 1
  /\ UNCHANGED << positions, memory, producer, cpc, c_stored, control, ghosts >>

(* A mutant: read_pos is stored before the period has been copied. *)
StoreReadPosEarly ==
  /\ cpc = "copy" /\ ~c_stored
  /\ read_pos' = (c_read + (Period - c_i)) % RING_BUFFER_FRAMES
  /\ taken' = taken + Period
  /\ c_stored' = TRUE
  /\ UNCHANGED << write_pos, memory, producer, cpc, c_read, c_i, playback_buffer,
                  control, written >>

(* read_pos moves past the period: after the loop in program order, which  *)
(* only a machine that keeps it guarantees.                                *)
StoreReadPos ==
  /\ cpc = "copy" /\ ~c_stored
  /\ Ordered => c_i = Period
  /\ read_pos' = (c_read + (Period - c_i)) % RING_BUFFER_FRAMES
  /\ taken' = taken + Period
  /\ c_stored' = TRUE
  /\ UNCHANGED << write_pos, memory, producer, cpc, c_read, c_i, playback_buffer,
                  control, written >>

(* pcm_write (a failed one is followed by pcm_prepare; the period is lost). *)
PcmWrite ==
  /\ cpc = "copy" /\ c_i = Period /\ c_stored
  /\ cpc' = "load"
  /\ UNCHANGED << positions, memory, producer, c_read, c_i, c_stored,
                  playback_buffer, control, ghosts >>

-----------------------------------------------------------------------------
(* The end of main. *)

(* agora_rtc_fini returns: the SDK's threads are gone, no callback is      *)
(* running and none will run again.                                        *)
RtcFini ==
  /\ mpc = "run" /\ ppc = "idle"
  /\ mpc' = "fini"
  /\ UNCHANGED << positions, memory, producer, consumer, device, running,
                  playback_started, ghosts >>

(* playback_deinit, up to pthread_join. *)
ClearRunning ==
  /\ mpc = "fini"
  /\ running' = FALSE
  /\ mpc' = "joining"
  /\ UNCHANGED << positions, memory, producer, consumer, device, playback_started,
                  ghosts >>

(* A mutant: the buffer is freed without waiting for the thread. *)
JoinAndFreeNoWait ==
  /\ mpc = "joining"
  /\ mpc' = "down"
  /\ device' = "none"
  /\ UNCHANGED << positions, memory, producer, consumer, running, playback_started,
                  ghosts >>

(* pthread_join returns (or there is no thread to join): the period buffer *)
(* is freed and the device closed.                                         *)
JoinAndFree ==
  /\ mpc = "joining" /\ cpc \in {"none", "exited"}
  /\ mpc' = "down"
  /\ device' = "none"
  /\ UNCHANGED << positions, memory, producer, consumer, running, playback_started,
                  ghosts >>

(* main has returned. *)
Terminated == mpc = "down" /\ UNCHANGED vars

-----------------------------------------------------------------------------
Callback == (\E n \in 1 .. MaxPacket : Receive(n)) \/ StoreSample \/ PublishWritePos

Playback == Leave \/ LoadPositions \/ PlaySilence \/ CopySample \/ StoreReadPos \/ PcmWrite

Main == RtcFini \/ ClearRunning \/ JoinAndFree

Next ==
  \/ Callback
  \/ Playback
  \/ Main
  \/ \E s \in Slots : BecomeVisible(s)
  \/ Terminated

(* Threads that can run do run: a callback in progress finishes, the       *)
(* SCHED_FIFO playback thread goes on, main goes on once it has begun to   *)
(* shut down. Whether a packet ever arrives, and whether main ever shuts   *)
(* down, is left open.                                                     *)
Fairness ==
  /\ WF_vars(StoreSample \/ PublishWritePos)
  /\ WF_vars(Playback)
  /\ WF_vars(ClearRunning \/ JoinAndFree)

Spec == Init /\ [][Next]_vars

FairSpec == Spec /\ Fairness

-----------------------------------------------------------------------------
(* Every variable has values of its type: no position leaves the ring, and *)
(* no period is longer than its buffer (hello_rtsa.c: g_playback).         *)
TypeOK ==
  /\ device \in {"ready", "closed", "none"}
  /\ running \in BOOLEAN
  /\ playback_started \in BOOLEAN
  /\ write_pos \in Slots /\ read_pos \in Slots
  /\ ring_buffer \in [Slots -> Samples] /\ visible \in [Slots -> Samples]
  /\ ppc \in {"idle", "loop"}
  /\ p_write \in Slots /\ p_read \in Slots
  /\ p_len \in 0 .. MaxPacket /\ p_i \in 0 .. p_len
  /\ cpc \in {"none", "load", "silence", "copy", "exited"}
  /\ c_read \in Slots /\ c_i \in 0 .. PeriodFrames /\ c_stored \in BOOLEAN
  /\ playback_buffer \in [1 .. PeriodFrames -> Samples]
  /\ mpc \in {"run", "fini", "joining", "down"}
  /\ written \in 0 .. MaxSamples /\ taken \in 0 .. MaxSamples

(* The wrapped positions never lose count: whatever the two threads do,    *)
(* the samples between read_pos and write_pos are exactly those accepted   *)
(* and not yet taken, and the packet being stored still leaves one slot    *)
(* free. A full ring never looks empty, and no unread slot is overwritten. *)
PositionsAgree ==
  /\ AvailFrames(write_pos, read_pos) = written - taken
  /\ ppc = "loop" => written + p_len - taken <= RING_BUFFER_FRAMES - 1

(* The number of the sample before the period being played. *)
PeriodBase == IF c_stored THEN taken - Period ELSE taken

(* "有足够数据，才拷贝真实音频": the period handed to pcm_write holds the  *)
(* received samples, each once, in the order they were received.           *)
PlayedInOrder ==
  cpc = "copy" => \A k \in 1 .. c_i : playback_buffer[k] = PeriodBase + k

(* playback_deinit frees the period buffer and closes the device only when *)
(* the playback thread can no longer touch them.                           *)
ThreadGoneBeforeFree == mpc = "down" => cpc \in {"none", "exited"}

(* Two buffered periods are enough for the playback thread to go on        *)
(* playing, whatever the callback is doing.                                *)
BufferedIsPlayed ==
  \A k \in Samples :
    (device = "ready" /\ running /\ taken = k /\ written - taken >= 2 * PeriodFrames)
      ~> (taken > k \/ ~running)

(* The playback thread always lets main finish. *)
ShutdownCompletes == (mpc = "fini") ~> (mpc = "down")

-----------------------------------------------------------------------------
(* The abstract queue this implements: its contents are what the playback  *)
(* thread would read between the two positions.                            *)
Queued ==
  [k \in 1 .. AvailFrames(write_pos, read_pos) |->
     visible[(read_pos + k - 1) % RING_BUFFER_FRAMES]]

Handed ==
  IF cpc = "copy" /\ c_stored /\ device = "ready" THEN playback_buffer ELSE << >>

Fifo == INSTANCE PlaybackFifo WITH
          Capacity  <- RING_BUFFER_FRAMES - 1,
          Period    <- PeriodFrames,
          Threshold <- 2 * PeriodFrames,
          queue     <- Queued,
          handed    <- Handed,
          count     <- written

(* Ring, threads and positions behave as one bounded queue of samples. *)
ImplementsFifo == Fifo!Spec

=============================================================================
