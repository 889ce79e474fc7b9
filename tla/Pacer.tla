-------------------------------- MODULE Pacer --------------------------------
(***************************************************************************)
(* The send pacer of the Agora app (agora_module/utility/pacer.c) and the  *)
(* wall clock it reads (gettimeofday). The clock runs on, and somebody may *)
(* set it back (the board gets its time from the network after it has      *)
(* started). Time is in steps of the model; 0 stands for "not yet" as it   *)
(* does in the code, so the clock starts at 1.                             *)
(***************************************************************************)
EXTENDS Integers

CONSTANTS
  Interval,   (* audio_send_interval_us                         *)
  MaxTime     (* Bound of the model: the greatest clock reading. *)

ASSUME PacerAssumption == Interval \in Nat \ {0} /\ MaxTime \in Nat \ {0}

VARIABLES
  now,    (* the clock                                                      *)
  high,   (* its greatest reading so far (not in the code)                  *)
  due,    (* audio_predict_time_us                                          *)
  first,  (* the clock at the first frame (not in the code)                 *)
  sent    (* frames found due (not in the code)                             *)

clock == << now, high >>
pacer == << due, first, sent >>

(* video_predict_time_us: nobody asks for a video frame, so it is never set. *)
VideoDue == 0

ClockInit == now = 1 /\ high = 1

PacerInit == due = 0 /\ first = 0 /\ sent = 0

(* pacer_create, and a clock that may start anywhere. *)
PacerCreate == due' = 0 /\ first' = 0 /\ sent' = 0

Tick ==
  /\ now < MaxTime
  /\ now' = now + 1
  /\ high' = IF now' > high THEN now' ELSE high

SetBack ==
  /\ now > 1
  /\ now' = now - 1
  /\ UNCHANGED high

(* A mutant: the time of the first frame is not set. *)
DueFromZero == due

(* The first call finds a frame due at once. *)
NextDue == IF due = 0 THEN now ELSE due

TimeToSend == now >= NextDue

(* A mutant: a frame is sent whether it is due or not. *)
SendAlways ==
  /\ due' = NextDue + Interval
  /\ first' = IF due = 0 THEN now ELSE first
  /\ sent' = sent + 1

(* is_time_to_send_audio is true. *)
SendDue ==
  /\ TimeToSend
  /\ due' = NextDue + Interval
  /\ first' = IF due = 0 THEN now ELSE first
  /\ sent' = sent + 1

(* wait_before_next_send sleeps until the earlier of the two due times. *)
SleepTime ==
  LET earlier == IF due < VideoDue THEN due ELSE VideoDue
  IN  IF earlier < now THEN 0 ELSE earlier - now

ClockType == now \in 1 .. MaxTime /\ high \in now .. MaxTime

PacerType ==
  /\ due \in 0 .. MaxTime + Interval
  /\ first \in 0 .. MaxTime
  /\ sent \in Nat

=============================================================================
