---------------------------- MODULE PlaybackFifo ----------------------------
(***************************************************************************)
(* What the playback ring of hello_rtsa.c promises, without slots, wrapped *)
(* positions or threads: a bounded first-in first-out queue of samples.    *)
(* A received packet is queued whole or dropped whole, and the playback    *)
(* thread takes one period at a time, and only while two are buffered.     *)
(*                                                                         *)
(* Samples are named by their position in the accepted stream.             *)
(***************************************************************************)
EXTENDS Naturals, Sequences, SequencesExt

CONSTANTS
  Capacity,   (* Most samples that may be queued at once.       *)
  Period,     (* Samples handed to the sound card at a time.    *)
  Threshold   (* Samples that must be queued before one period  *)
              (* of them is taken.                              *)

VARIABLES
  queue,      (* Accepted samples not yet taken, oldest first.  *)
  handed,     (* The period on its way to the sound card.       *)
  count       (* Samples accepted so far.                       *)

vars == << queue, handed, count >>

Init ==
  /\ queue  = << >>
  /\ handed = << >>
  /\ count  = 0

(* A packet of n samples is accepted whole. *)
Accept(n) ==
  /\ Len(queue) + n <= Capacity
  /\ queue' = queue \o [k \in 1 .. n |-> count + k]
  /\ count' = count + n
  /\ UNCHANGED handed

(* The oldest period leaves the queue for the sound card. *)
Take ==
  /\ handed = << >>
  /\ Len(queue) >= Threshold
  /\ handed' = SubSeq(queue, 1, Period)
  /\ queue'  = SubSeq(queue, Period + 1, Len(queue))
  /\ UNCHANGED count

(* The sound card has taken the period (or lost it to an underrun). *)
Emit ==
  /\ handed # << >>
  /\ handed' = << >>
  /\ UNCHANGED << queue, count >>

Next ==
  \/ \E n \in 1 .. Capacity : Accept(n)
  \/ Take
  \/ Emit

Spec == Init /\ [][Next]_vars

=============================================================================
