--------------------------- MODULE WavPlayerProofs ---------------------------
(***************************************************************************)
(* Proofs about WavPlayer, for every set of formats and number of commands:*)
(* its types, and that a load that succeeds leaves a file and an open      *)
(* device of the file's format, however the commands before it failed.     *)
(***************************************************************************)
EXTENDS WavPlayer, TLAPS

(* TypeOK: the flags, and the rest.                                        *)
FlagTypes ==
  /\ shutdown \in BOOLEAN /\ audible \in BOOLEAN /\ loop \in BOOLEAN
  /\ stop_flag \in BOOLEAN /\ play_request \in BOOLEAN
  /\ terminate \in BOOLEAN /\ playing \in BOOLEAN

DataTypes ==
  /\ opc \in {"idle", "stop", "fclose", "load", "header", "pcm", "opening", "play", "request",
              "close", "join", "closed", "crashed"}
  /\ commands \in Handles
  /\ cmd \in [file : Files, audible : BOOLEAN, loop : BOOLEAN]
  /\ fp \in Handles /\ pos \in {"start", "end"}
  /\ header \in Files \cup {"none"}
  /\ pcm \in Handles /\ last \in Formats \cup {"none"}
  /\ tpc \in {"none", "wait", "block", "asleep", "woken", "begin", "file", "seek", "loop",
              "read", "reading", "write", "writing", "finish", "flag", "exited", "crashed"}
  /\ t_fp \in Handles /\ t_pcm \in Handles /\ heard \in Handles

(* A call that is no shutdown belongs to a command.                        *)
CommandCounted ==
  /\ opc \in {"stop", "fclose"} => shutdown \/ commands # 0
  /\ opc = "load" => commands # 0

(* After fopen, load and play have the file of this command ...            *)
FileOpened ==
  opc \in {"header", "pcm", "opening", "play", "request"} =>
    fp = commands /\ commands # 0 /\ cmd.file # "missing"

(* ... and after readHeader its header, which says it is a WAV file.       *)
HeaderRead ==
  opc \in {"pcm", "opening", "play", "request"} =>
    header = cmd.file /\ cmd.file # "invalid"

(* The switch of openPcm lets only supported formats through.              *)
FormatSupported == opc \in {"opening", "play", "request"} => header \in Formats

(* device_opened_ tells the truth: there is an open device.                *)
RecordIsOpen == last # "none" => pcm # 0

(* openPcm has left a device of the format in header_.                     *)
DeviceMatches == opc \in {"play", "request"} => last = header

Inv ==
  /\ FlagTypes /\ DataTypes
  /\ CommandCounted /\ FileOpened /\ HeaderRead /\ FormatSupported
  /\ RecordIsOpen /\ DeviceMatches

(* The playback thread changes only these variables, and opc only to       *)
(* "crashed".                                                              *)
ThreadStep ==
  /\ opc' = opc \/ opc' = "crashed"
  /\ UNCHANGED << command, params, header, device, fp >>

-----------------------------------------------------------------------------
(* What a step does to a flag: nothing, or it raises or lowers it.         *)
FlagStep ==
  /\ shutdown' = shutdown \/ shutdown' = TRUE
  /\ audible' = audible \/ audible' = cmd.audible
  /\ loop' = loop \/ loop' = cmd.loop
  /\ stop_flag' = stop_flag \/ stop_flag' = TRUE \/ stop_flag' = FALSE
  /\ play_request' = play_request \/ play_request' = TRUE \/ play_request' = FALSE
  /\ terminate' = terminate \/ terminate' = TRUE \/ terminate' = FALSE
  /\ playing' = playing \/ playing' = TRUE \/ playing' = FALSE

LEMMA NextFlags ==
  ASSUME Next PROVE FlagStep
<1> USE DEF FlagStep, params, flags, command
<1>2. ASSUME NEW f \in Files, NEW a \in BOOLEAN, NEW l \in BOOLEAN, PlayCommand(f, a, l)
      PROVE  FlagStep
  BY <1>2 DEF PlayCommand
<1>3. CASE Shutdown
  BY <1>3 DEF Shutdown
<1>4. CASE Call
  <2>1. CASE RaiseStopFlag \/ CloseFile \/ ReadHeader \/ ReuseDevice
    BY <2>1 DEF RaiseStopFlag, CloseFile, ReadHeader, ReuseDevice
  <2>2. CASE OpenFile
    BY <2>2 DEF OpenFile
  <2>3. CASE CloseDevice \/ DeviceOpened \/ DeviceNotOpened
    BY <2>3 DEF CloseDevice, DeviceOpened, DeviceNotOpened
  <2>4. CASE EnsureThreadStarted
    BY <2>4 DEF EnsureThreadStarted
  <2>5. CASE RequestPlay \/ Terminate \/ Joined
    BY <2>5 DEF RequestPlay, Terminate, Joined
  <2> QED
    BY <1>4, <2>1, <2>2, <2>3, <2>4, <2>5 DEF Call
<1>5. CASE PlaybackThread
  <2> USE DEF owner
  <2>1. CASE CheckCondition \/ FallAsleep \/ Rewind \/ CheckStopFlag
    BY <2>1 DEF CheckCondition, FallAsleep, Rewind, CheckStopFlag
  <2>2. CASE BeginPlaying \/ TakeRequest \/ CheckFile
    BY <2>2 DEF BeginPlaying, TakeRequest, CheckFile
  <2>3. CASE BeginRead \/ EndRead \/ SkipBlock
    BY <2>3 DEF BeginRead, EndRead, SkipBlock
  <2>4. CASE BeginWrite \/ EndWrite
    BY <2>4 DEF BeginWrite, EndWrite
  <2>5. CASE Finish \/ RaiseStopFlagAgain
    BY <2>5 DEF Finish, RaiseStopFlagAgain
  <2>6. CASE Crash \/ ReturnRegardless \/ SeekFails
    BY <2>6 DEF Crash, ReturnRegardless, SeekFails
  <2> QED
    BY <1>5, <2>1, <2>2, <2>3, <2>4, <2>5, <2>6 DEF PlaybackThread
<1>6. CASE Terminated
  BY <1>6 DEF Terminated, vars
<1> QED
  BY <1>2, <1>3, <1>4, <1>5, <1>6 DEF Next

LEMMA FlagsKept ==
  ASSUME FlagTypes, DataTypes, Next PROVE FlagTypes'
<1>1. cmd.audible \in BOOLEAN /\ cmd.loop \in BOOLEAN
  BY DEF DataTypes
<1>2. FlagStep
  BY NextFlags
<1>3. shutdown' \in BOOLEAN
  BY <1>2, Zenon DEF FlagStep, FlagTypes
<1>4. audible' \in BOOLEAN
  BY <1>1, <1>2, Zenon DEF FlagStep, FlagTypes
<1>5. loop' \in BOOLEAN
  BY <1>1, <1>2, Zenon DEF FlagStep, FlagTypes
<1>6. stop_flag' \in BOOLEAN
  BY <1>2, Zenon DEF FlagStep, FlagTypes
<1>7. play_request' \in BOOLEAN
  BY <1>2, Zenon DEF FlagStep, FlagTypes
<1>8. terminate' \in BOOLEAN
  BY <1>2, Zenon DEF FlagStep, FlagTypes
<1>9. playing' \in BOOLEAN
  BY <1>2, Zenon DEF FlagStep, FlagTypes
<1> QED
  BY <1>3, <1>4, <1>5, <1>6, <1>7, <1>8, <1>9 DEF FlagTypes

LEMMA InitInv == Init => Inv
<1> SUFFICES ASSUME Init PROVE Inv
  OBVIOUS
<1>1. NoCommand \in [file : Files, audible : BOOLEAN, loop : BOOLEAN]
  BY DEF NoCommand, Files
<1>2. DataTypes
  BY <1>1, PlayerAssumption DEF Init, DataTypes, Handles
<1>3. FlagTypes
  BY DEF Init, FlagTypes
<1> QED
  BY <1>2, <1>3 DEF Init, Inv, CommandCounted, FileOpened, HeaderRead,
     FormatSupported, RecordIsOpen, DeviceMatches

(* A step of the playback thread keeps the types ...                       *)
LEMMA ThreadTypes ==
  ASSUME DataTypes, PlaybackThread PROVE DataTypes'
<1> USE PlayerAssumption DEF DataTypes, Handles, command, params, device, flags, owner
<1>1. CASE CheckCondition BY <1>1 DEF CheckCondition
<1>2. CASE FallAsleep BY <1>2 DEF FallAsleep
<1>3. CASE BeginPlaying BY <1>3 DEF BeginPlaying
<1>4. CASE TakeRequest BY <1>4 DEF TakeRequest
<1>5. CASE CheckFile BY <1>5 DEF CheckFile
<1>6. CASE Rewind BY <1>6 DEF Rewind
<1>7. CASE CheckStopFlag BY <1>7 DEF CheckStopFlag
<1>8. CASE BeginRead BY <1>8 DEF BeginRead
<1>9. CASE EndRead BY <1>9 DEF EndRead
<1>10. CASE SkipBlock BY <1>10 DEF SkipBlock
<1>11. CASE BeginWrite BY <1>11 DEF BeginWrite
<1>12. CASE EndWrite BY <1>12 DEF EndWrite
<1>13. CASE Finish BY <1>13 DEF Finish
<1>14. CASE RaiseStopFlagAgain BY <1>14 DEF RaiseStopFlagAgain
<1>15. CASE Crash BY <1>15 DEF Crash
<1>16. CASE ReturnRegardless BY <1>16 DEF ReturnRegardless
<1>17. CASE SeekFails BY <1>17 DEF SeekFails
<1> QED
  BY <1>1, <1>2, <1>3, <1>4, <1>5, <1>6, <1>7, <1>8, <1>9, <1>10, <1>11, <1>12, <1>13,
     <1>14, <1>15, <1>16, <1>17 DEF PlaybackThread

(* ... and leaves to the commanding thread what is its own.                *)
LEMMA ThreadIsThreadStep ==
  ASSUME PlaybackThread PROVE ThreadStep
<1> USE DEF ThreadStep, command, params, device, flags, owner
<1>1. CASE CheckCondition BY <1>1 DEF CheckCondition
<1>2. CASE FallAsleep BY <1>2 DEF FallAsleep
<1>3. CASE BeginPlaying BY <1>3 DEF BeginPlaying
<1>4. CASE TakeRequest BY <1>4 DEF TakeRequest
<1>5. CASE CheckFile BY <1>5 DEF CheckFile
<1>6. CASE Rewind BY <1>6 DEF Rewind
<1>7. CASE CheckStopFlag BY <1>7 DEF CheckStopFlag
<1>8. CASE BeginRead BY <1>8 DEF BeginRead
<1>9. CASE EndRead BY <1>9 DEF EndRead
<1>10. CASE SkipBlock BY <1>10 DEF SkipBlock
<1>11. CASE BeginWrite BY <1>11 DEF BeginWrite
<1>12. CASE EndWrite BY <1>12 DEF EndWrite
<1>13. CASE Finish BY <1>13 DEF Finish
<1>14. CASE RaiseStopFlagAgain BY <1>14 DEF RaiseStopFlagAgain
<1>15. CASE Crash BY <1>15 DEF Crash
<1>16. CASE ReturnRegardless BY <1>16 DEF ReturnRegardless
<1>17. CASE SeekFails BY <1>17 DEF SeekFails
<1> QED
  BY <1>1, <1>2, <1>3, <1>4, <1>5, <1>6, <1>7, <1>8, <1>9, <1>10, <1>11, <1>12, <1>13,
     <1>14, <1>15, <1>16, <1>17 DEF PlaybackThread

LEMMA ThreadInv ==
  ASSUME Inv, PlaybackThread PROVE Inv'
<1>1. DataTypes'
  BY ThreadTypes DEF Inv
<1>2. ThreadStep
  BY ThreadIsThreadStep
<1>3. FlagTypes'
  BY FlagsKept DEF Inv, Next
<1> QED
  BY <1>1, <1>2, <1>3 DEF ThreadStep, Inv, CommandCounted, FileOpened, HeaderRead,
     FormatSupported, RecordIsOpen, DeviceMatches, command, params, device

-----------------------------------------------------------------------------
(* A call's step up to the file's header.                                  *)
LEMMA FileInv ==
  ASSUME Inv, \/ RaiseStopFlag \/ CloseFile \/ OpenFile \/ ReadHeader
  PROVE  Inv'
<1> USE PlayerAssumption DEF Inv, DataTypes, Handles, Files, CommandCounted, FileOpened,
        HeaderRead, FormatSupported, RecordIsOpen, DeviceMatches,
        command, params, file, device, flags, thread
<1>0. FlagTypes'
  BY FlagsKept DEF Next, Call, Inv
<1>1. CASE RaiseStopFlag BY <1>0, <1>1 DEF RaiseStopFlag
<1>2. CASE CloseFile BY <1>0, <1>2 DEF CloseFile
<1>3. CASE OpenFile
  <2>1. cmd.file \in Files /\ cmd.audible \in BOOLEAN /\ cmd.loop \in BOOLEAN
    OBVIOUS
  <2> QED
    BY <1>0, <1>3, <2>1 DEF OpenFile
<1>4. CASE ReadHeader BY <1>0, <1>4 DEF ReadHeader
<1> QED
  BY <1>1, <1>2, <1>3, <1>4

(* openPcm.                                                                *)
LEMMA OpenPcmInv ==
  ASSUME Inv, \/ ReuseDevice \/ CloseDevice \/ DeviceOpened \/ DeviceNotOpened
  PROVE  Inv'
<1> USE PlayerAssumption DEF Inv, DataTypes, Handles, Files, CommandCounted, FileOpened,
        HeaderRead, FormatSupported, RecordIsOpen, DeviceMatches,
        command, params, file, device, flags, thread
<1>0. FlagTypes'
  BY FlagsKept DEF Next, Call, Inv
<1>1. CASE ReuseDevice BY <1>0, <1>1 DEF ReuseDevice
<1>2. CASE CloseDevice BY <1>0, <1>2 DEF CloseDevice
<1>3. CASE DeviceOpened BY <1>0, <1>3 DEF DeviceOpened
<1>4. CASE DeviceNotOpened BY <1>0, <1>4 DEF DeviceNotOpened
<1> QED
  BY <1>1, <1>2, <1>3, <1>4

(* play and close.                                                         *)
LEMMA PlayInv ==
  ASSUME Inv, \/ EnsureThreadStarted \/ RequestPlay \/ Terminate \/ Joined
  PROVE  Inv'
<1> USE PlayerAssumption DEF Inv, DataTypes, Handles, Files, CommandCounted, FileOpened,
        HeaderRead, FormatSupported, RecordIsOpen, DeviceMatches,
        command, params, file, device, flags, thread, Wake
<1>0. FlagTypes'
  BY FlagsKept DEF Next, Call, Inv
<1>1. CASE EnsureThreadStarted BY <1>0, <1>1 DEF EnsureThreadStarted
<1>2. CASE RequestPlay BY <1>0, <1>2 DEF RequestPlay
<1>3. CASE Terminate BY <1>0, <1>3 DEF Terminate
<1>4. CASE Joined BY <1>0, <1>4 DEF Joined
<1> QED
  BY <1>1, <1>2, <1>3, <1>4

LEMMA NextInv ==
  ASSUME Inv, [Next]_vars PROVE Inv'
<1>0. ASSUME Next PROVE FlagTypes'
  BY <1>0, FlagsKept DEF Inv
<1>1. ASSUME NEW f \in Files, NEW a \in BOOLEAN, NEW l \in BOOLEAN, PlayCommand(f, a, l)
      PROVE  Inv'
  BY <1>0, <1>1, PlayerAssumption DEF Next, PlayCommand, Inv, DataTypes, Handles,
     CommandCounted, FileOpened, HeaderRead, FormatSupported, RecordIsOpen,
     DeviceMatches, params, file, device, flags, thread
<1>2. CASE Shutdown
  BY <1>0, <1>2, PlayerAssumption DEF Next, Shutdown, Inv, DataTypes, Handles,
     CommandCounted, FileOpened, HeaderRead, FormatSupported, RecordIsOpen,
     DeviceMatches, params, file, device, flags, thread
<1>3. CASE Call
  BY <1>3, FileInv, OpenPcmInv, PlayInv DEF Call
<1>4. CASE PlaybackThread
  BY <1>4, ThreadInv
<1>5. CASE UNCHANGED vars
  BY <1>5 DEF vars, Inv, DataTypes, FlagTypes, CommandCounted, FileOpened, HeaderRead,
     FormatSupported, RecordIsOpen, DeviceMatches, command, params, file, device,
     flags, thread
<1> QED
  BY <1>1, <1>2, <1>3, <1>4, <1>5 DEF Next, Terminated

(* The inductive invariant holds in every reachable state.                 *)
THEOREM InvHolds == Spec => []Inv
<1> QED
  BY InitInv, NextInv, PTL DEF Spec

(* The types of the player, for all its failures and undefined calls.      *)
THEOREM TypeCorrect == Spec => []TypeOK
<1>1. Inv => TypeOK
  BY DEF Inv, TypeOK, FlagTypes, DataTypes
<1> QED
  BY InvHolds, <1>1, PTL

(* load (play_wav_tinyalsa.cpp) leaves what play needs: the file of this   *)
(* command and an open device of its format, also when the load before it  *)
(* failed after closing the device or after reading another header.        *)
THEOREM LoadCorrect == Spec => []LoadedMeansReady
<1>1. Inv => LoadedMeansReady
  BY PlayerAssumption DEF Inv, CommandCounted, FileOpened, HeaderRead,
     FormatSupported, RecordIsOpen, DeviceMatches, LoadedMeansReady
<1> QED
  BY InvHolds, <1>1, PTL

-----------------------------------------------------------------------------
(* The steps of the thread neither ask for anything nor end anything: they *)
(* may take a request, or raise stop_flag_, but only CheckCondition leads  *)
(* to sleep, with the mutex and neither a request nor the order to end.    *)
LEMMA ThreadNotify ==
  ASSUME NoMissedNotify, PlaybackThread PROVE NoMissedNotify'
<1> USE DEF NoMissedNotify, command, params, device, flags, owner
<1>1. CASE CheckCondition BY <1>1 DEF CheckCondition
<1>2. CASE FallAsleep BY <1>2 DEF FallAsleep
<1>3. CASE BeginPlaying BY <1>3 DEF BeginPlaying
<1>4. CASE TakeRequest BY <1>4 DEF TakeRequest
<1>5. CASE CheckFile BY <1>5 DEF CheckFile
<1>6. CASE Rewind BY <1>6 DEF Rewind
<1>7. CASE CheckStopFlag BY <1>7 DEF CheckStopFlag
<1>8. CASE BeginRead BY <1>8 DEF BeginRead
<1>9. CASE EndRead BY <1>9 DEF EndRead
<1>10. CASE SkipBlock BY <1>10 DEF SkipBlock
<1>11. CASE BeginWrite BY <1>11 DEF BeginWrite
<1>12. CASE EndWrite BY <1>12 DEF EndWrite
<1>13. CASE Finish BY <1>13 DEF Finish
<1>14. CASE RaiseStopFlagAgain BY <1>14 DEF RaiseStopFlagAgain
<1>15. CASE Crash BY <1>15 DEF Crash
<1>16. CASE ReturnRegardless BY <1>16 DEF ReturnRegardless
<1>17. CASE SeekFails BY <1>17 DEF SeekFails
<1> QED
  BY <1>1, <1>2, <1>3, <1>4, <1>5, <1>6, <1>7, <1>8, <1>9, <1>10, <1>11, <1>12, <1>13,
     <1>14, <1>15, <1>16, <1>17 DEF PlaybackThread

(* A call asks the thread for something only while it is not about to      *)
(* sleep, and wakes it if it is asleep.                                    *)
LEMMA CallNotify ==
  ASSUME NoMissedNotify, Call PROVE NoMissedNotify'
<1> USE DEF NoMissedNotify, command, params, file, device, flags, thread, MutexFree, Wake
<1>1. CASE RaiseStopFlag BY <1>1 DEF RaiseStopFlag
<1>2. CASE CloseFile \/ OpenFile \/ ReadHeader
  BY <1>2 DEF CloseFile, OpenFile, ReadHeader
<1>3. CASE ReuseDevice \/ CloseDevice \/ DeviceOpened \/ DeviceNotOpened
  BY <1>3 DEF ReuseDevice, CloseDevice, DeviceOpened, DeviceNotOpened
<1>4. CASE EnsureThreadStarted BY <1>4 DEF EnsureThreadStarted
<1>5. CASE RequestPlay BY <1>5 DEF RequestPlay
<1>6. CASE Terminate BY <1>6 DEF Terminate
<1>7. CASE Joined BY <1>7 DEF Joined
<1> QED
  BY <1>1, <1>2, <1>3, <1>4, <1>5, <1>6, <1>7 DEF Call

(* No notification of play or close is missed: the thread never sleeps     *)
(* over a request or over the order to end, and the order stands as long   *)
(* as close joins the thread, whatever handles it has been left without.   *)
THEOREM NotifyCorrect == Spec => []NoMissedNotify
<1>1. Init => NoMissedNotify
  BY DEF Init, NoMissedNotify
<1>2. NoMissedNotify /\ [Next]_vars => NoMissedNotify'
  <2> SUFFICES ASSUME NoMissedNotify, [Next]_vars PROVE NoMissedNotify'
    OBVIOUS
  <2>1. ASSUME NEW f \in Files, NEW a \in BOOLEAN, NEW l \in BOOLEAN, PlayCommand(f, a, l)
        PROVE  NoMissedNotify'
    BY <2>1 DEF PlayCommand, NoMissedNotify, flags, thread
  <2>2. CASE Shutdown
    BY <2>2 DEF Shutdown, NoMissedNotify, flags, thread
  <2>3. CASE UNCHANGED vars
    BY <2>3 DEF vars, NoMissedNotify, flags, thread
  <2> QED
    BY <2>1, <2>2, <2>3, ThreadNotify, CallNotify DEF Next, Terminated
<1> QED
  BY <1>1, <1>2, PTL DEF Spec

=============================================================================
