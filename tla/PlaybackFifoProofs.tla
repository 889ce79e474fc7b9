-------------------------- MODULE PlaybackFifoProofs --------------------------
(***************************************************************************)
(* On a machine that keeps program order, PlaybackRing implements          *)
(* PlaybackFifo, for every ring size, period, packet size and number of    *)
(* samples. With the invariants of PlaybackRingProofs the queue and the    *)
(* period on its way are the samples between two counters (Between), so    *)
(* that a step of the ring is a step of the queue or changes neither.      *)
(***************************************************************************)
EXTENDS PlaybackRingProofs

(* The n samples after the first a. *)
Between(a, n) == [k \in 1 .. n |-> a + k]

(* Is a period on its way to the sound card? *)
OnItsWay == cpc = "copy" /\ c_stored /\ device = "ready"

-----------------------------------------------------------------------------
(* Sequences of consecutive samples. *)

LEMMA BetweenSeq ==
  ASSUME NEW a \in Nat, NEW n \in Nat
  PROVE  /\ Between(a, n) \in Seq(Nat)
         /\ Len(Between(a, n)) = n
         /\ \A k \in 1 .. n : Between(a, n)[k] = a + k
  BY DEF Between

LEMMA BetweenEmpty == ASSUME NEW a \in Nat PROVE Between(a, 0) = << >>
  BY DEF Between

LEMMA BetweenConcat ==
  ASSUME NEW a \in Nat, NEW m \in Nat, NEW n \in Nat
  PROVE  Between(a, m) \o Between(a + m, n) = Between(a, m + n)
  BY DEF Between

LEMMA BetweenSub ==
  ASSUME NEW a \in Nat, NEW m \in Nat, NEW n \in Nat, m <= n
  PROVE  /\ SubSeq(Between(a, n), 1, m) = Between(a, m)
         /\ SubSeq(Between(a, n), m + 1, n) = Between(a + m, n - m)
  BY DEF Between

-----------------------------------------------------------------------------
(* The refinement mapping in terms of the counters. *)

(* The queue and the period on its way are samples between the counters. *)
MappedByCounters ==
  /\ Queued = Between(taken, written - taken)
  /\ Handed = IF OnItsWay THEN Between(taken - PeriodFrames, PeriodFrames) ELSE << >>

LEMMA QueuedIs ==
  ASSUME Inv, Content PROVE Queued = Between(taken, written - taken)
<1>1. AvailFrames(write_pos, read_pos) = written - taken
  BY AvailIs, RingAssumption DEF Inv, Types, SharedTypes, Counted, N
<1>2. written - taken \in 0 .. N - 1
  BY RingAssumption DEF Inv, Types, SharedTypes, Counted, N
<1>3. ASSUME NEW k \in 1 .. (written - taken)
      PROVE  visible[(read_pos + k - 1) % RING_BUFFER_FRAMES] = taken + k
  <2>1. read_pos + k - 1 \in 0 .. 2 * N - 1
    BY <1>2, RingAssumption DEF Inv, Types, SharedTypes, Slots, N
  <2>2. (read_pos + k - 1) % RING_BUFFER_FRAMES = Wrap(read_pos + (k - 1))
    <3>1. read_pos + k - 1 = read_pos + (k - 1)
      BY DEF Inv, Types, SharedTypes, Slots
    <3> QED
      BY <2>1, <3>1, WrapIsMod DEF N
  <2>3. k \in 1 .. N - 1 /\ k <= written + Stored - taken
    BY <1>2, RingAssumption DEF Stored, Inv, Types, SharedTypes, ThreadTypes, N
  <2> QED
    BY <2>2, <2>3 DEF Content, RingContent
<1> QED
  BY <1>1, <1>3 DEF Queued, Between

LEMMA HandedIs ==
  ASSUME Inv, Content
  PROVE  Handed = IF OnItsWay THEN Between(taken - PeriodFrames, PeriodFrames) ELSE << >>
<1>1. CASE OnItsWay
  <2>1. Period = PeriodFrames /\ c_i = PeriodFrames
    BY <1>1 DEF OnItsWay, Content, PeriodContent, Period
  <2>2. \A k \in 1 .. PeriodFrames : playback_buffer[k] = taken - PeriodFrames + k
    BY <1>1, <2>1 DEF OnItsWay, Content, PeriodContent, PeriodBase
  <2>3. playback_buffer = [k \in 1 .. PeriodFrames |-> playback_buffer[k]]
    BY DEF Inv, Types, MemoryTypes
  <2> QED
    BY <1>1, <2>2, <2>3 DEF Handed, OnItsWay, Between
<1>2. CASE ~OnItsWay
  BY <1>2 DEF Handed, OnItsWay
<1> QED
  BY <1>1, <1>2

LEMMA Mapped == Inv /\ Content => MappedByCounters
  BY QueuedIs, HandedIs DEF MappedByCounters

LEMMA MappedNext == (Inv /\ Content => MappedByCounters)'
  BY Mapped, PTL

-----------------------------------------------------------------------------
(* Until main clears running the playback thread cannot stop, so a packet  *)
(* published then never starts it a second time.                           *)
StartedOnce == mpc \in {"run", "fini"} /\ cpc # "none" => running

LEMMA NextStartedOnce == StartedOnce /\ [Next]_vars => StartedOnce'
<1>. SUFFICES ASSUME StartedOnce, [Next]_vars PROVE StartedOnce'
  OBVIOUS
<1>. USE DEF StartedOnce, consumer, control
<1>1. CASE \E n \in 1 .. MaxPacket : Receive(n)
  BY <1>1 DEF Receive
<1>2. CASE StoreSample \/ \E s \in Slots : BecomeVisible(s)
  BY <1>2 DEF StoreSample, BecomeVisible
<1>3. CASE PublishWritePos
  <2>1. mpc' = mpc
    BY <1>3 DEF PublishWritePos
  <2>2. CASE UNCHANGED << running, cpc >>
    BY <2>1, <2>2
  <2>3. CASE running' = TRUE
    BY <2>3
  <2>. QED BY <1>3, <2>2, <2>3 DEF PublishWritePos, StartPlayback
<1>4. CASE LoadPositions \/ Leave \/ PlaySilence
  BY <1>4 DEF LoadPositions, Leave, PlaySilence
<1>5. CASE CopySample \/ StoreReadPos \/ PcmWrite
  BY <1>5 DEF CopySample, StoreReadPos, PcmWrite
<1>6. CASE RtcFini
  BY <1>6 DEF RtcFini
<1>7. CASE ClearRunning \/ JoinAndFree
  BY <1>7 DEF ClearRunning, JoinAndFree
<1>8. CASE Terminated \/ UNCHANGED vars
  BY <1>8 DEF Terminated, vars
<1>. QED BY <1>1, <1>2, <1>3, <1>4, <1>5, <1>6, <1>7, <1>8 DEF Next, Callback, Playback, Main

-----------------------------------------------------------------------------
(* Each step of the ring is a step of the queue or leaves it alone. *)

LEMMA InitRefines == Init => Fifo!Init
<1>. SUFFICES ASSUME Init PROVE Fifo!Init
  OBVIOUS
<1>1. Queued = Between(0, 0) /\ Handed = << >> /\ written = 0
  <2>1. Inv /\ Content
    BY InitInv, InitContent
  <2>2. written = 0 /\ taken = 0 /\ ~OnItsWay /\ 0 - 0 = 0
    BY DEF Init, OnItsWay
  <2>. QED BY <2>1, <2>2, Mapped DEF MappedByCounters
<1>. QED BY <1>1, BetweenEmpty DEF Fifo!Init

(* A packet published is a packet accepted; an empty one changes nothing. *)
LEMMA PublishRefines ==
  ASSUME Inv, StartedOnce, PublishWritePos, MappedByCounters, MappedByCounters'
  PROVE  [Fifo!Next]_(Fifo!vars)
<1>1. /\ written' = written + p_len /\ taken' = taken /\ p_len \in Nat
      /\ written \in Nat /\ taken \in Nat /\ taken <= written
      /\ written + p_len - taken <= N - 1
  BY RingAssumption
     DEF PublishWritePos, Inv, Types, CallbackInv, Counted, SharedTypes, ThreadTypes
<1>2. OnItsWay' = OnItsWay
  <2>1. c_stored' = c_stored /\ device' = device /\ mpc = "run"
    BY DEF PublishWritePos, Inv, CallbackInv
  <2>2. (cpc = "none" /\ cpc' = "load") \/ cpc' = cpc
    BY <2>1 DEF PublishWritePos, StartPlayback, StartedOnce
  <2>. QED BY <2>1, <2>2 DEF OnItsWay
<1>3. Handed' = Handed
  BY <1>1, <1>2 DEF MappedByCounters
<1>4. Queued' = Queued \o Between(written, p_len)
  <2>1. taken + (written - taken) = written
        /\ (written - taken) + p_len = (written + p_len) - taken
        /\ written - taken \in Nat
    BY <1>1
  <2>2. Between(taken, written - taken) \o Between(taken + (written - taken), p_len)
          = Between(taken, (written - taken) + p_len)
    BY <1>1, <2>1, BetweenConcat
  <2>. QED BY <1>1, <2>1, <2>2 DEF MappedByCounters
<1>5. CASE p_len = 0
  <2>1. Queued' = Queued /\ written' = written
    <3>1. written' = written
      BY <1>1, <1>5
    <3>. QED BY <1>1, <3>1 DEF MappedByCounters
  <2>. QED BY <1>3, <2>1 DEF Fifo!vars
<1>6. CASE p_len # 0
  <2>1. p_len \in 1 .. RING_BUFFER_FRAMES - 1
    BY <1>1, <1>6, RingAssumption DEF N
  <2>2. Len(Queued) + p_len <= RING_BUFFER_FRAMES - 1
    <3>1. written - taken \in Nat
      BY <1>1
    <3>2. Len(Queued) = written - taken
      BY <1>1, <3>1, BetweenSeq, Zenon DEF MappedByCounters
    <3>. QED BY <1>1, <3>2, RingAssumption DEF N
  <2>3. Fifo!Accept(p_len)
    BY <1>1, <1>3, <1>4, <2>2 DEF Fifo!Accept, Between
  <2>. QED BY <2>1, <2>3 DEF Fifo!Next
<1>. QED BY <1>5, <1>6

(* read_pos moving past a period takes it out of the queue. *)
LEMMA StoreReadPosRefines ==
  ASSUME Inv, StoreReadPos, MappedByCounters, MappedByCounters'
  PROVE  [Fifo!Next]_(Fifo!vars)
<1>1. /\ written' = written /\ taken' = taken + Period /\ Period \in Nat
      /\ written \in Nat /\ taken \in Nat
      /\ 2 * Period <= written - taken
  BY StoredReadPos, RingAssumption DEF StoreReadPos, Inv, Types, SharedTypes
<1>2. device' = device /\ ~OnItsWay
  BY DEF StoreReadPos, control, OnItsWay
<1>3. Handed = << >>
  BY <1>2 DEF MappedByCounters
<1>4. CASE device # "ready"
  <2>1. ~OnItsWay' /\ Period = 0
    BY <1>2, <1>4 DEF OnItsWay, Period
  <2>2. taken' = taken
    BY <1>1, <2>1
  <2>. QED BY <1>1, <1>2, <2>1, <2>2 DEF MappedByCounters, Fifo!vars
<1>5. CASE device = "ready"
  <2>1. OnItsWay' /\ Period = PeriodFrames
    BY <1>2, <1>5 DEF OnItsWay, StoreReadPos, Period
  <2>2. /\ written - taken \in Nat /\ PeriodFrames \in Nat
        /\ PeriodFrames <= written - taken
    BY <1>1, <2>1
  <2>3. Len(Queued) = written - taken
    BY <1>1, <2>2, BetweenSeq, Zenon DEF MappedByCounters
  <2>4. Handed' = SubSeq(Queued, 1, PeriodFrames)
    <3>1. taken' - PeriodFrames = taken
      BY <1>1, <2>1
    <3>2. SubSeq(Between(taken, written - taken), 1, PeriodFrames) = Between(taken, PeriodFrames)
      BY <1>1, <2>2, BetweenSub, Zenon
    <3>. QED BY <2>1, <3>1, <3>2 DEF MappedByCounters
  <2>5. Queued' = SubSeq(Queued, PeriodFrames + 1, Len(Queued))
    <3>1. taken' = taken + PeriodFrames
          /\ written' - taken' = (written - taken) - PeriodFrames
      BY <1>1, <2>1
    <3>2. SubSeq(Between(taken, written - taken), PeriodFrames + 1, written - taken)
            = Between(taken + PeriodFrames, (written - taken) - PeriodFrames)
      BY <1>1, <2>2, BetweenSub, Zenon
    <3>. QED BY <2>3, <3>1, <3>2 DEF MappedByCounters
  <2>6. Len(Queued) >= 2 * PeriodFrames
    BY <1>1, <2>1, <2>3
  <2>. QED BY <1>1, <1>3, <2>4, <2>5, <2>6 DEF Fifo!Next, Fifo!Take
<1>. QED BY <1>4, <1>5

(* pcm_write emits the period on its way. *)
LEMMA PcmWriteRefines ==
  ASSUME Inv, PcmWrite, MappedByCounters, MappedByCounters'
  PROVE  [Fifo!Next]_(Fifo!vars)
<1>. USE RingAssumption
<1>1. written' = written /\ taken' = taken /\ ~OnItsWay'
  BY DEF PcmWrite, ghosts, OnItsWay
<1>2. Queued' = Queued /\ Handed' = << >>
  BY <1>1 DEF MappedByCounters
<1>3. CASE OnItsWay
  <2>1. taken - PeriodFrames \in Nat
    BY <1>3 DEF OnItsWay, PcmWrite, PlaybackInv, Period, Inv, Types, SharedTypes
  <2>2. Len(Handed) = PeriodFrames
    BY <1>3, <2>1, BetweenSeq DEF MappedByCounters
  <2>3. Handed # << >>
    BY <2>2
  <2>. QED BY <1>1, <1>2, <2>3 DEF Fifo!Next, Fifo!Emit
<1>4. CASE ~OnItsWay
  BY <1>1, <1>2, <1>4 DEF MappedByCounters, Fifo!vars
<1>. QED BY <1>3, <1>4

(* Every other step leaves the counters and the period on its way alone. *)
LEMMA OthersRefine ==
  ASSUME Inv, MappedByCounters, MappedByCounters',
         \/ \E n \in 1 .. MaxPacket : Receive(n)
         \/ StoreSample \/ (\E s \in Slots : BecomeVisible(s))
         \/ LoadPositions \/ CopySample \/ Leave \/ PlaySilence
         \/ RtcFini \/ ClearRunning \/ JoinAndFree \/ UNCHANGED vars
  PROVE  [Fifo!Next]_(Fifo!vars)
<1>1. written' = written /\ taken' = taken
  BY DEF Receive, StoreSample, BecomeVisible, LoadPositions, CopySample, Leave, PlaySilence,
         RtcFini, ClearRunning, JoinAndFree, vars, ghosts
<1>2. OnItsWay' = OnItsWay
  <2>. USE DEF OnItsWay, consumer, control
  <2>1. CASE \E n \in 1 .. MaxPacket : Receive(n)
    BY <2>1 DEF Receive
  <2>2. CASE StoreSample \/ \E s \in Slots : BecomeVisible(s)
    BY <2>2 DEF StoreSample, BecomeVisible
  <2>3. CASE LoadPositions
    BY <2>3 DEF LoadPositions
  <2>4. CASE CopySample \/ Leave \/ PlaySilence
    BY <2>4 DEF CopySample, Leave, PlaySilence
  <2>5. CASE RtcFini \/ ClearRunning
    BY <2>5 DEF RtcFini, ClearRunning
  <2>6. CASE JoinAndFree
    BY <2>6 DEF JoinAndFree
  <2>7. CASE UNCHANGED vars
    BY <2>7 DEF vars
  <2>. QED BY <2>1, <2>2, <2>3, <2>4, <2>5, <2>6, <2>7
<1>3. Queued' = Queued /\ Handed' = Handed
  BY <1>1, <1>2 DEF MappedByCounters
<1>. QED BY <1>1, <1>3 DEF Fifo!vars

LEMMA NextRefines ==
  Inv /\ StartedOnce /\ [Next]_vars /\ MappedByCounters /\ MappedByCounters'
    => [Fifo!Next]_(Fifo!vars)
<1>. SUFFICES ASSUME Inv, StartedOnce, [Next]_vars, MappedByCounters, MappedByCounters'
              PROVE  [Fifo!Next]_(Fifo!vars)
  OBVIOUS
<1>1. CASE Callback
  BY <1>1, PublishRefines, OthersRefine DEF Callback
<1>2. CASE Playback
  BY <1>2, StoreReadPosRefines, PcmWriteRefines, OthersRefine DEF Playback
<1>3. CASE Main
  BY <1>3, OthersRefine DEF Main
<1>4. CASE (\E s \in Slots : BecomeVisible(s)) \/ Terminated \/ UNCHANGED vars
  BY <1>4, OthersRefine DEF Terminated
<1>. QED BY <1>1, <1>2, <1>3, <1>4 DEF Next

(* On a machine that keeps program order, ring, threads and positions of   *)
(* hello_rtsa.c behave as one bounded queue of samples.                    *)
THEOREM RefinementCorrect == ASSUME Ordered PROVE Spec => ImplementsFifo
<1>1. Inv /\ Content /\ [Next]_vars => Content'
  BY NextContent
<1>2. Inv /\ Content => MappedByCounters
  BY Mapped
<1>3. Init => StartedOnce
  BY DEF Init, StartedOnce
<1>. QED BY <1>1, <1>2, <1>3, NextStartedOnce, InitRefines, InitContent, InvHolds, NextRefines, PTL
         DEF Spec, ImplementsFifo, Fifo!Spec

=============================================================================
