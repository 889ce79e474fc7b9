------------------------------ MODULE WavPlayer ------------------------------
(***************************************************************************)
(* WavPlayer of the speaker module                                         *)
(* (bionic_cat_speaker_module/src/play_wav_tinyalsa.cpp) as SpeakerNode    *)
(* drives it: an audio_play_command stops the player, loads the file and   *)
(* plays it (SpeakerNode::playCommand); shutting down stops the player and *)
(* destroys it (SpeakerNode::stop). One resident thread does the playing.  *)
(* stop only raises stop_flag_: it does not wait for the thread, and both  *)
(* threads use fp_ and pcm_ without a lock.                                *)
(*                                                                         *)
(* A FILE* and a device handle are named by the number of the command that *)
(* opened them, 0 for NULL. A call on a handle that is NULL or was closed  *)
(* under the thread is undefined: the process dies, or the call returns    *)
(* as if nothing had happened.                                             *)
(*                                                                         *)
(* A file has one block of samples. mtx_ is held for longer than one step  *)
(* only by the thread about to sleep ("block").                            *)
(***************************************************************************)
EXTENDS Naturals

CONSTANTS
  Formats,     (* Formats (channels, rate, bits) a device can be opened with. *)
  MaxCommands  (* Bound of the model: audio_play_commands.                    *)

ASSUME PlayerAssumption ==
  /\ MaxCommands \in Nat
  /\ Formats \cap {"none", "missing", "invalid", "unsupported"} = {}

(* What a file may be: playable, or not there, or no WAV file, or of a bit *)
(* depth the player does not support.                                      *)
Files == Formats \cup {"missing", "invalid", "unsupported"}

VARIABLES
  opc,          (* the commanding thread: "idle"; in stop: "stop", "fclose"; in   *)
                (* load: "load", "header", "pcm", "opening"; in play: "play",     *)
                (* "request"; in close: "close", "join"; then "closed"; or        *)
                (* "crashed"                                                      *)
  commands,     (* commands so far                                                *)
  shutdown,     (* is it SpeakerNode::stop that called stop?                      *)
  cmd,          (* the command in progress: [file, audible, loop]                 *)
  audible,      (* does a block at this speed hold a frame at all? (speed)        *)
  loop,         (* loop                                                           *)
  fp,           (* fp_                                                            *)
  pos,          (* its position: at the "start" of the samples or the "end"       *)
  header,       (* the format in header_                                          *)
  pcm,          (* pcm_                                                           *)
  last,         (* the format of the open device ("none": device_opened_ false)   *)
  stop_flag,    (* stop_flag_                                                     *)
  play_request, (* play_request_                                                  *)
  terminate,    (* terminate_                                                     *)
  playing,      (* playing_                                                       *)
  tpc,          (* the playback thread: "none", "wait" (about to take the mutex), *)
                (* "block", "asleep", "woken", "begin", "file", "seek", "loop",   *)
                (* "read", "reading", "write", "writing", "finish", "flag",       *)
                (* "exited"; "crashed": the process is gone                       *)
  t_fp,         (* the file of the block it reads or holds                        *)
  t_pcm,        (* the device it writes to                                        *)
  heard         (* the file whose block it last gave to pcm_write                 *)

command == << commands, shutdown, cmd >>
params  == << audible, loop >>
file    == << fp, pos, header >>
device  == << pcm, last >>
flags   == << stop_flag, play_request, terminate, playing >>
thread  == << tpc, t_fp, t_pcm, heard >>
vars    == << opc, command, params, file, device, flags, thread >>

MutexFree == tpc # "block"

NoCommand == [file |-> "missing", audible |-> TRUE, loop |-> FALSE]

Init ==
  /\ opc = "idle" /\ commands = 0 /\ shutdown = FALSE /\ cmd = NoCommand
  /\ audible = TRUE /\ loop = FALSE
  /\ fp = 0 /\ pos = "start" /\ header = "none"
  /\ pcm = 0 /\ last = "none"
  /\ stop_flag = FALSE /\ play_request = FALSE /\ terminate = FALSE /\ playing = FALSE
  /\ tpc = "none" /\ t_fp = 0 /\ t_pcm = 0 /\ heard = 0

-----------------------------------------------------------------------------
(* The commanding thread. *)

(* An audio_play_command arrives: playCommand calls stop first. *)
PlayCommand(f, a, l) ==
  /\ opc = "idle" /\ ~shutdown /\ commands < MaxCommands
  /\ opc' = "stop"
  /\ commands' = commands + 1
  /\ cmd' = [file |-> f, audible |-> a, loop |-> l]
  /\ UNCHANGED << shutdown, params, file, device, flags, thread >>

(* SpeakerNode::stop. *)
Shutdown ==
  /\ opc = "idle" /\ ~shutdown
  /\ opc' = "stop"
  /\ shutdown' = TRUE
  /\ UNCHANGED << commands, cmd, params, file, device, flags, thread >>

(* stop: stop_flag_ is raised with the mutex. (The notification wakes a    *)
(* thread that has no reason to go on.)                                    *)
RaiseStopFlag ==
  /\ opc = "stop" /\ MutexFree
  /\ stop_flag' = TRUE
  /\ opc' = "fclose"
  /\ UNCHANGED << command, params, file, device, play_request, terminate, playing, thread >>

(* stop: the file is closed and playing_ cleared. *)
CloseFile ==
  /\ opc = "fclose"
  /\ fp' = 0 /\ pos' = "start"
  /\ playing' = FALSE
  /\ opc' = IF shutdown THEN "close" ELSE "load"
  /\ UNCHANGED << command, params, header, device, stop_flag, play_request, terminate,
                  thread >>

(* The command's parameters are set, and load opens the file. *)
OpenFile ==
  /\ opc = "load"
  /\ audible' = cmd.audible
  /\ loop' = cmd.loop
  /\ IF cmd.file = "missing"
     THEN opc' = "idle" /\ UNCHANGED << fp, pos >>
     ELSE opc' = "header" /\ fp' = commands /\ pos' = "start"
  /\ UNCHANGED << command, header, device, flags, thread >>

(* load: readHeader overwrites header_; a file that is no WAV file is closed. *)
ReadHeader ==
  /\ opc = "header"
  /\ header' = cmd.file
  /\ IF cmd.file = "invalid"
     THEN opc' = "idle" /\ fp' = 0
     ELSE opc' = "pcm" /\ UNCHANGED fp
  /\ UNCHANGED << command, params, pos, device, flags, thread >>

(* openPcm: the open device has the right format already. *)
ReuseDevice ==
  /\ opc = "pcm" /\ last = header
  /\ opc' = "play"
  /\ UNCHANGED << command, params, file, device, flags, thread >>

(* A mutant: the device is closed and still recorded as open. *)
CloseDeviceKeepsRecord ==
  /\ opc = "pcm" /\ last # header
  /\ pcm' = 0
  /\ IF header = "unsupported"
     THEN opc' = "idle" /\ fp' = 0
     ELSE opc' = "opening" /\ UNCHANGED fp
  /\ last' = IF header = "unsupported" THEN last ELSE header
  /\ UNCHANGED << command, params, pos, header, flags, thread >>

(* openPcm: closeDevice; an unsupported bit depth ends load here. *)
CloseDevice ==
  /\ opc = "pcm" /\ last # header
  /\ pcm' = 0
  /\ last' = "none"
  /\ IF header = "unsupported"
     THEN opc' = "idle" /\ fp' = 0
     ELSE opc' = "opening" /\ UNCHANGED fp
  /\ UNCHANGED << command, params, pos, header, flags, thread >>

(* A mutant: an error code is kept as a handle. *)
DeviceOpenedUnchecked ==
  /\ opc = "opening"
  /\ pcm' \in {commands, MaxCommands + 1}
  /\ last' = header
  /\ opc' = "play"
  /\ UNCHANGED << command, params, file, flags, thread >>

(* openPcm: pcm_open succeeds within 30 seconds. *)
DeviceOpened ==
  /\ opc = "opening"
  /\ pcm' = commands
  /\ last' = header
  /\ opc' = "play"
  /\ UNCHANGED << command, params, file, flags, thread >>

(* openPcm: pcm_open fails or takes too long; load closes the file. *)
DeviceNotOpened ==
  /\ opc = "opening"
  /\ fp' = 0
  /\ opc' = "idle"
  /\ UNCHANGED << command, params, pos, header, device, flags, thread >>

(* play: ensureThreadStarted. *)
EnsureThreadStarted ==
  /\ opc = "play"
  /\ opc' = "request"
  /\ IF tpc = "none"
     THEN /\ terminate' = FALSE /\ stop_flag' = FALSE /\ playing' = FALSE
          /\ tpc' = "wait"
     ELSE UNCHANGED << terminate, stop_flag, playing, tpc >>
  /\ UNCHANGED << command, params, file, device, play_request, t_fp, t_pcm, heard >>

(* The sleeping thread is notified, and looks at its condition again. *)
Wake == tpc' = IF tpc = "asleep" THEN "wait" ELSE tpc

(* A mutant: stop_flag_ is not lowered. *)
RequestStillStopped ==
  /\ opc = "request" /\ MutexFree
  /\ play_request' = TRUE
  /\ Wake
  /\ opc' = "idle"
  /\ UNCHANGED << command, params, file, device, stop_flag, terminate, playing, t_fp, t_pcm,
                  heard >>

(* play: stop_flag_ is lowered and play_request_ raised with the mutex. *)
RequestPlay ==
  /\ opc = "request" /\ MutexFree
  /\ stop_flag' = FALSE
  /\ play_request' = TRUE
  /\ Wake
  /\ opc' = "idle"
  /\ UNCHANGED << command, params, file, device, terminate, playing, t_fp, t_pcm, heard >>

(* A mutant: close raises its flags without the mutex. *)
TerminateUnlocked ==
  /\ opc = "close"
  /\ terminate' = TRUE
  /\ stop_flag' = TRUE
  /\ Wake
  /\ opc' = "join"
  /\ UNCHANGED << command, params, file, device, play_request, playing, t_fp, t_pcm, heard >>

(* ~WavPlayer, close: the thread is told to end. *)
Terminate ==
  /\ opc = "close" /\ MutexFree
  /\ terminate' = TRUE
  /\ stop_flag' = TRUE
  /\ Wake
  /\ opc' = "join"
  /\ UNCHANGED << command, params, file, device, play_request, playing, t_fp, t_pcm, heard >>

(* close: the thread has ended (or never began); the device is closed. *)
Joined ==
  /\ opc = "join" /\ tpc \in {"none", "exited"}
  /\ pcm' = 0
  /\ last' = "none"
  /\ tpc' = "none"
  /\ opc' = "closed"
  /\ UNCHANGED << command, params, file, flags, t_fp, t_pcm, heard >>

-----------------------------------------------------------------------------
(* The playback thread: playbackThread. *)

owner == << opc, command, params, header, device >>

(* With the mutex, the condition is evaluated. *)
CheckCondition ==
  /\ tpc = "wait"
  /\ tpc' = IF play_request \/ terminate THEN "woken" ELSE "block"
  /\ UNCHANGED << owner, fp, pos, flags, t_fp, t_pcm, heard >>

FallAsleep ==
  /\ tpc = "block"
  /\ tpc' = "asleep"
  /\ UNCHANGED << owner, fp, pos, flags, t_fp, t_pcm, heard >>

(* Told to end, or to play: playing_ is raised ... *)
BeginPlaying ==
  /\ tpc = "woken"
  /\ IF terminate
     THEN tpc' = "exited" /\ UNCHANGED playing
     ELSE tpc' = "begin" /\ playing' = TRUE
  /\ UNCHANGED << owner, fp, pos, stop_flag, play_request, terminate, t_fp, t_pcm, heard >>

(* ... and the request taken. *)
TakeRequest ==
  /\ tpc = "begin"
  /\ play_request' = FALSE
  /\ tpc' = "file"
  /\ UNCHANGED << owner, fp, pos, stop_flag, terminate, playing, t_fp, t_pcm, heard >>

(* There may be no file. *)
CheckFile ==
  /\ tpc = "file"
  /\ IF fp = 0
     THEN tpc' = "wait" /\ playing' = FALSE
     ELSE tpc' = "seek" /\ UNCHANGED playing
  /\ UNCHANGED << owner, fp, pos, stop_flag, play_request, terminate, t_fp, t_pcm, heard >>

(* The file is rewound and the device prepared. (fseek fails only on a     *)
(* file closed meanwhile: SeekFails.)                                      *)
Rewind ==
  /\ tpc = "seek" /\ fp # 0 /\ pcm # 0
  /\ pos' = "start"
  /\ tpc' = "loop"
  /\ UNCHANGED << owner, fp, flags, t_fp, t_pcm, heard >>

(* The loop condition. *)
CheckStopFlag ==
  /\ tpc = "loop"
  /\ tpc' = IF stop_flag THEN "finish" ELSE "read"
  /\ t_fp' = 0
  /\ UNCHANGED << owner, fp, pos, flags, t_pcm, heard >>

BeginRead ==
  /\ tpc = "read" /\ fp # 0
  /\ t_fp' = fp
  /\ tpc' = "reading"
  /\ UNCHANGED << owner, fp, pos, flags, t_pcm, heard >>

(* fread returns a block, or nothing at the end of the file: then a looped *)
(* file is rewound, and any other goes on as a block of silence.           *)
EndRead ==
  /\ tpc = "reading" /\ t_fp = fp
  /\ \/ pos = "start" /\ pos' = "end" /\ tpc' = "write"
     \/ pos = "end" /\ loop /\ pos' = "start" /\ tpc' = "loop"
     \/ pos = "end" /\ ~loop /\ pos' = pos /\ tpc' = "write"
  /\ UNCHANGED << owner, fp, flags, t_fp, t_pcm, heard >>

(* The speed leaves no frame of the block. *)
SkipBlock ==
  /\ tpc = "write" /\ ~audible
  /\ tpc' = "loop"
  /\ UNCHANGED << owner, fp, pos, flags, t_fp, t_pcm, heard >>

(* The condition of the writing loop. *)
BeginWrite ==
  /\ tpc = "write" /\ audible
  /\ IF stop_flag
     THEN tpc' = "loop" /\ UNCHANGED << t_pcm, heard >>
     ELSE pcm # 0 /\ tpc' = "writing" /\ t_pcm' = pcm /\ heard' = t_fp
  /\ UNCHANGED << owner, fp, pos, flags, t_fp >>

(* pcm_write: written, or failed and given up; or an underrun the device   *)
(* recovers from, and the block is tried again.                            *)
EndWrite ==
  /\ tpc = "writing" /\ t_pcm = pcm
  /\ \/ tpc' = "loop"
     \/ ~stop_flag /\ tpc' = "write"
  /\ t_pcm' = 0
  /\ UNCHANGED << owner, fp, pos, flags, t_fp, heard >>

Finish ==
  /\ tpc = "finish"
  /\ playing' = FALSE
  /\ tpc' = "flag"
  /\ UNCHANGED << owner, fp, pos, stop_flag, play_request, terminate, t_fp, t_pcm, heard >>

(* stop_flag_ is raised by the thread itself, without the mutex. *)
RaiseStopFlagAgain ==
  /\ tpc = "flag"
  /\ stop_flag' = TRUE
  /\ tpc' = "wait"
  /\ UNCHANGED << owner, fp, pos, play_request, terminate, playing, t_fp, t_pcm, heard >>

(* A handle is NULL, or was closed while the thread was using it. *)
Undefined ==
  \/ tpc = "seek" /\ (fp = 0 \/ pcm = 0)
  \/ tpc = "read" /\ fp = 0
  \/ tpc = "reading" /\ t_fp # fp
  \/ tpc = "write" /\ audible /\ ~stop_flag /\ pcm = 0
  \/ tpc = "writing" /\ t_pcm # pcm

(* The process dies ... *)
Crash ==
  /\ Undefined
  /\ tpc' = "crashed"
  /\ opc' = "crashed"
  /\ UNCHANGED << command, params, header, device, fp, pos, flags, t_fp, t_pcm, heard >>

(* ... or the call returns as if nothing had happened. *)
ReturnRegardless ==
  /\ Undefined
  /\ tpc' \in IF tpc \in {"read", "reading"} THEN {"write", "loop"} ELSE {"loop"}
  /\ t_pcm' = 0
  /\ UNCHANGED << owner, fp, pos, flags, t_fp, heard >>

(* The file was closed before it could be rewound, and fseek says so. *)
SeekFails ==
  /\ tpc = "seek" /\ fp = 0
  /\ playing' = FALSE
  /\ tpc' = "wait"
  /\ UNCHANGED << owner, fp, pos, stop_flag, play_request, terminate, t_fp, t_pcm, heard >>

-----------------------------------------------------------------------------
Crashed == tpc = "crashed"

Call ==
  \/ RaiseStopFlag \/ CloseFile \/ OpenFile \/ ReadHeader
  \/ ReuseDevice \/ CloseDevice \/ DeviceOpened \/ DeviceNotOpened
  \/ EnsureThreadStarted \/ RequestPlay \/ Terminate \/ Joined

PlaybackThread ==
  \/ CheckCondition \/ FallAsleep \/ BeginPlaying \/ TakeRequest \/ CheckFile \/ Rewind
  \/ CheckStopFlag \/ BeginRead \/ EndRead \/ SkipBlock \/ BeginWrite \/ EndWrite
  \/ Finish \/ RaiseStopFlagAgain
  \/ Crash \/ ReturnRegardless \/ SeekFails

Terminated == opc \in {"closed", "crashed"} /\ UNCHANGED vars

Next ==
  \/ \E f \in Files, a, l \in BOOLEAN : PlayCommand(f, a, l)
  \/ Shutdown
  \/ Call
  \/ PlaybackThread
  \/ Terminated

(* A call in progress goes on (pcm_open is given up after 30 seconds), and *)
(* so does the SCHED_FIFO playback thread. Commands come or do not.        *)
Fairness ==
  /\ WF_vars(Call)
  /\ WF_vars(PlaybackThread)

Spec == Init /\ [][Next]_vars

FairSpec == Spec /\ Fairness

-----------------------------------------------------------------------------
Handles == 0 .. MaxCommands

(* Every variable has values of its type (play_wav_tinyalsa.hpp): every    *)
(* handle is NULL or that of a command.                                    *)
TypeOK ==
  /\ opc \in {"idle", "stop", "fclose", "load", "header", "pcm", "opening", "play", "request",
              "close", "join", "closed", "crashed"}
  /\ commands \in Handles /\ shutdown \in BOOLEAN
  /\ cmd \in [file : Files, audible : BOOLEAN, loop : BOOLEAN]
  /\ audible \in BOOLEAN /\ loop \in BOOLEAN
  /\ fp \in Handles /\ pos \in {"start", "end"}
  /\ header \in Files \cup {"none"}
  /\ pcm \in Handles /\ last \in Formats \cup {"none"}
  /\ stop_flag \in BOOLEAN /\ play_request \in BOOLEAN
  /\ terminate \in BOOLEAN /\ playing \in BOOLEAN
  /\ tpc \in {"none", "wait", "block", "asleep", "woken", "begin", "file", "seek", "loop",
              "read", "reading", "write", "writing", "finish", "flag", "exited", "crashed"}
  /\ t_fp \in Handles /\ t_pcm \in Handles /\ heard \in Handles

(* "如果参数匹配则复用设备": when load succeeds, whatever failed before,   *)
(* there is a file, and an open device of exactly the file's format.       *)
LoadedMeansReady ==
  opc \in {"play", "request"} => fp = commands /\ pcm # 0 /\ last = cmd.file

(* The thread sleeps over no request and no order to end (playbackThread), *)
(* and while close joins it nothing takes the order to end or the stop of  *)
(* the song back: neither a play that came before, nor the thread itself.  *)
NoMissedNotify ==
  /\ tpc \in {"block", "asleep"} => ~play_request /\ ~terminate
  /\ opc = "join" => terminate /\ stop_flag

(* A play that finds the thread waiting, and no older request still to be  *)
(* taken, starts: a block of its file goes to the device, unless another   *)
(* command comes first. (A speed that leaves no frame of a block plays     *)
(* nothing.)                                                               *)
WaitingPlayStarts ==
  \A k \in 1 .. MaxCommands :
    (/\ opc = "request" /\ commands = k /\ audible
     /\ tpc \in {"wait", "block", "asleep"} /\ ~play_request)
      ~> (heard = k \/ commands # k \/ shutdown \/ Crashed)

(* close always gets rid of the thread, whatever it is doing. *)
CloseReturns == (opc = "join") ~> (opc = "closed" \/ Crashed)

(* "开始播放 (异步)": a play that returned true starts. *)
PlayStarts ==
  \A k \in 1 .. MaxCommands :
    (opc = "request" /\ commands = k /\ audible)
      ~> (heard = k \/ commands # k \/ shutdown \/ Crashed)

=============================================================================
