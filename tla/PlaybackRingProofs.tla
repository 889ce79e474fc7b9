------------------------- MODULE PlaybackRingProofs -------------------------
(***************************************************************************)
(* The safety of PlaybackRing for every ring size, period, packet size and *)
(* number of samples. The argument is in the strengthening Inv: the local  *)
(* positions of both threads are tied to the shared ones by how far each   *)
(* has got, so that all wrapped positions stand for the two counters       *)
(* written and taken.                                                      *)
(***************************************************************************)
EXTENDS PlaybackRing, TLAPS

N == RING_BUFFER_FRAMES

(* What x % N is for the sums of two positions. *)
Wrap(x) == IF x < N THEN x ELSE x - N

(* Samples the callback thread has stored since it last published. *)
Stored == IF ppc = "loop" THEN p_i ELSE 0

(* TypeOK in four parts: most steps leave three of them alone. *)
SharedTypes ==
  /\ write_pos \in Slots /\ read_pos \in Slots
  /\ written \in 0 .. MaxSamples /\ taken \in 0 .. MaxSamples

MemoryTypes ==
  /\ ring_buffer \in [Slots -> Samples] /\ visible \in [Slots -> Samples]
  /\ playback_buffer \in [1 .. PeriodFrames -> Samples]

ThreadTypes ==
  /\ ppc \in {"idle", "loop"}
  /\ p_write \in Slots /\ p_read \in Slots /\ p_len \in 0 .. MaxPacket /\ p_i \in 0 .. p_len
  /\ c_read \in Slots /\ c_i \in 0 .. PeriodFrames /\ c_stored \in BOOLEAN

ControlTypes ==
  /\ device \in {"ready", "closed", "none"}
  /\ running \in BOOLEAN /\ playback_started \in BOOLEAN
  /\ cpc \in {"none", "load", "silence", "copy", "exited"}
  /\ mpc \in {"run", "fini", "joining", "down"}

Types == SharedTypes /\ MemoryTypes /\ ThreadTypes /\ ControlTypes

(* The shared positions and the counters. *)
Counted ==
  /\ taken <= written /\ written - taken <= N - 1
  /\ write_pos = Wrap(read_pos + (written - taken))

(* The callback thread: the SDK is still up, there is room for the rest of *)
(* the packet, and p_i samples of it have been stored.                     *)
CallbackInv ==
  ppc = "loop" =>
    /\ mpc = "run"
    /\ written + p_len - taken <= N - 1
    /\ written + p_len <= MaxSamples
    /\ p_write = Wrap(read_pos + (written + p_i - taken))

(* The playback thread: a whole period is there to be copied, and its      *)
(* position is c_i samples into it.                                        *)
PlaybackInv ==
  cpc = "copy" =>
    /\ c_i <= Period
    /\ ~c_stored => /\ 2 * Period <= written - taken
                    /\ c_read = Wrap(read_pos + c_i)
    /\ c_stored => /\ Period <= taken
                   /\ Period <= N - 1
                   /\ read_pos = Wrap(c_read + (Period - c_i))

(* Main frees the period buffer last. *)
MainInv == mpc = "down" => cpc \in {"none", "exited"}

Inv == Types /\ Counted /\ CallbackInv /\ PlaybackInv /\ MainInv

(* With program order kept, the slots between the positions hold the       *)
(* samples accepted (or being stored) and not taken, in order.             *)
RingContent ==
  /\ visible = ring_buffer
  /\ \A k \in 1 .. N - 1 :
       k <= written + Stored - taken => ring_buffer[Wrap(read_pos + (k - 1))] = taken + k

(* With program order kept, the period buffer holds the samples copied so  *)
(* far, and all of them once read_pos has moved.                           *)
PeriodContent ==
  cpc = "copy" => /\ c_stored => c_i = Period
                  /\ \A k \in 1 .. c_i : playback_buffer[k] = PeriodBase + k

Content == RingContent /\ PeriodContent

-----------------------------------------------------------------------------
(* Wrapped arithmetic. *)

LEMMA WrapIsMod == ASSUME NEW x \in 0 .. 2 * N - 1 PROVE x % N = Wrap(x)
  BY RingAssumption DEF Wrap, N

LEMMA FreeFramesIs ==
  ASSUME NEW w \in Slots, NEW r \in Slots
  PROVE  FreeFrames(w, r) = IF w < r THEN r - w - 1 ELSE r - w - 1 + N
<1>1. CASE w < r
  <2>1. r - w - 1 + N \in 0 .. 2 * N - 1
    BY <1>1, RingAssumption DEF Slots, N
  <2>. QED BY <1>1, <2>1, WrapIsMod, RingAssumption DEF FreeFrames, Slots, N, Wrap
<1>2. CASE ~(w < r)
  <2>1. r - w - 1 + N \in 0 .. 2 * N - 1
    BY <1>2, RingAssumption DEF Slots, N
  <2>. QED BY <1>2, <2>1, WrapIsMod, RingAssumption DEF FreeFrames, Slots, N, Wrap
<1>. QED BY <1>1, <1>2

LEMMA AdvanceIs ==
  ASSUME NEW s \in Slots PROVE Advance(s) = Wrap(s + 1) /\ Advance(s) \in Slots
<1>1. s + 1 \in 0 .. 2 * N - 1
  BY RingAssumption DEF Slots, N
<1>. QED BY <1>1, WrapIsMod, RingAssumption DEF Advance, Slots, N, Wrap

(* Avail undoes Wrap: the distance between two positions is the one that   *)
(* was travelled.                                                          *)
LEMMA AvailIs ==
  ASSUME NEW r \in Slots, NEW d \in 0 .. N - 1
  PROVE  AvailFrames(Wrap(r + d), r) = d
  BY RingAssumption DEF AvailFrames, Wrap, Slots, N

LEMMA WrapSlot == ASSUME NEW r \in Slots, NEW d \in 0 .. N PROVE Wrap(r + d) \in Slots
  BY RingAssumption DEF Wrap, Slots, N

LEMMA PeriodNat == Period \in Nat /\ Period <= PeriodFrames
  BY RingAssumption DEF Period

-----------------------------------------------------------------------------
LEMMA InitInv == Init => Inv
<1>. SUFFICES ASSUME Init PROVE Inv
  OBVIOUS
<1>. USE RingAssumption DEF Init
<1>1. SharedTypes /\ ThreadTypes
  <2>1. 0 \in Slots
    BY DEF Slots
  <2>2. p_i \in 0 .. p_len
    OBVIOUS
  <2>3. 0 \in 0 .. MaxPacket /\ 0 \in 0 .. PeriodFrames /\ 0 \in 0 .. MaxSamples
    OBVIOUS
  <2>4. SharedTypes
    BY <2>1, <2>3 DEF SharedTypes
  <2>5. ThreadTypes
    BY <2>1, <2>2, <2>3 DEF ThreadTypes
  <2>. QED BY <2>4, <2>5
<1>2. ControlTypes
  BY DEF ControlTypes
<1>3. MemoryTypes
  BY DEF MemoryTypes, Samples
<1>4. Counted /\ CallbackInv /\ PlaybackInv /\ MainInv
  BY DEF Counted, CallbackInv, PlaybackInv, MainInv, Wrap, N
<1>. QED BY <1>1, <1>2, <1>3, <1>4 DEF Inv, Types

LEMMA ReceiveInv == ASSUME Inv, NEW n \in 1 .. MaxPacket, Receive(n) PROVE Inv'
<1>. USE RingAssumption DEF Inv, Types
<1>1. write_pos = Wrap(read_pos + (written - taken)) /\ written - taken \in 0 .. N - 1
  BY DEF Counted, SharedTypes, N
<1>2. written + n - taken <= N - 1
  <2>1. FreeFrames(write_pos, read_pos) = IF write_pos < read_pos
                                          THEN read_pos - write_pos - 1
                                          ELSE read_pos - write_pos - 1 + N
    BY FreeFramesIs DEF SharedTypes
  <2>. QED BY <1>1, <2>1 DEF Receive, SharedTypes, Slots, Wrap, N
<1>3. SharedTypes' /\ MemoryTypes' /\ ControlTypes'
  BY DEF Receive, SharedTypes, MemoryTypes, ControlTypes, positions, memory, consumer,
     control, ghosts
<1>4. ThreadTypes'
  BY DEF Receive, SharedTypes, ThreadTypes, consumer
<1>5. Counted'
  BY DEF Receive, Counted, positions, ghosts
<1>6. CallbackInv'
  <2>1. p_i' = 0 /\ p_len' = n /\ p_write' = write_pos /\ mpc' = "run"
        /\ written' = written /\ taken' = taken /\ read_pos' = read_pos
    BY DEF Receive, positions, control, ghosts
  <2>. QED BY <1>1, <1>2, <2>1 DEF Receive, CallbackInv, SharedTypes
<1>7. PlaybackInv' /\ MainInv'
  BY DEF Receive, PlaybackInv, MainInv, Period, positions, consumer, control, ghosts, Wrap
<1>. QED BY <1>3, <1>4, <1>5, <1>6, <1>7

LEMMA StoreSampleInv == ASSUME Inv, StoreSample PROVE Inv'
<1>. USE RingAssumption DEF Inv, Types
<1>1. written + p_i + 1 \in Samples
  BY DEF StoreSample, SharedTypes, ThreadTypes, CallbackInv, Samples
<1>2. Advance(p_write) = Wrap(p_write + 1) /\ Advance(p_write) \in Slots
  BY AdvanceIs DEF ThreadTypes
<1>3. SharedTypes' /\ ControlTypes'
  BY DEF StoreSample, SharedTypes, ControlTypes, positions, consumer, control, ghosts
<1>4. MemoryTypes'
  BY <1>1 DEF StoreSample, MemoryTypes, consumer
<1>5. ThreadTypes'
  BY <1>2 DEF StoreSample, ThreadTypes, consumer
<1>6. Counted'
  BY DEF StoreSample, Counted, positions, ghosts
<1>7. CallbackInv'
  <2>. SUFFICES ASSUME ppc' = "loop" PROVE CallbackInv'
    BY DEF CallbackInv
  <2>1. /\ ppc = "loop" /\ p_i' = p_i + 1 /\ p_len' = p_len /\ p_write' = Wrap(p_write + 1)
        /\ written' = written /\ taken' = taken /\ read_pos' = read_pos /\ mpc' = mpc
        /\ p_i + 1 <= p_len
    BY <1>2 DEF StoreSample, positions, control, ghosts, ThreadTypes
  <2>2. Wrap(p_write + 1) = Wrap(read_pos + (written + (p_i + 1) - taken))
    BY <2>1 DEF CallbackInv, Counted, SharedTypes, ThreadTypes, Slots, Wrap, N
  <2>. QED BY <2>1, <2>2 DEF CallbackInv
<1>8. PlaybackInv' /\ MainInv'
  BY DEF StoreSample, PlaybackInv, MainInv, Period, positions, consumer, control, ghosts, Wrap
<1>. QED BY <1>3, <1>4, <1>5, <1>6, <1>7, <1>8

LEMMA PublishWritePosInv == ASSUME Inv, PublishWritePos PROVE Inv'
<1>. USE RingAssumption DEF Inv, Types
<1>1. SharedTypes'
  BY DEF PublishWritePos, SharedTypes, ThreadTypes, CallbackInv
<1>2. MemoryTypes' /\ ThreadTypes'
  BY DEF PublishWritePos, StartPlayback, MemoryTypes, ThreadTypes
<1>3. ControlTypes'
  BY DEF PublishWritePos, StartPlayback, ControlTypes
<1>4. Counted'
  BY DEF PublishWritePos, Counted, CallbackInv, SharedTypes, ThreadTypes
<1>5. CallbackInv'
  BY DEF PublishWritePos, CallbackInv
<1>6. PlaybackInv'
  <2>1. /\ written' = written + p_len /\ taken' = taken /\ read_pos' = read_pos
        /\ c_read' = c_read /\ c_i' = c_i /\ c_stored' = c_stored /\ device' = device
        /\ cpc' = "copy" => cpc = "copy"
    BY DEF PublishWritePos, StartPlayback
  <2>2. 2 * Period <= written - taken => 2 * Period <= written + p_len - taken
    BY PeriodNat DEF SharedTypes, ThreadTypes
  <2>. QED BY <2>1, <2>2 DEF PlaybackInv, Period, SharedTypes, ThreadTypes
<1>7. MainInv'
  BY DEF PublishWritePos, StartPlayback, MainInv, CallbackInv
<1>. QED BY <1>1, <1>2, <1>3, <1>4, <1>5, <1>6, <1>7

LEMMA BecomeVisibleInv == ASSUME Inv, NEW s \in Slots, BecomeVisible(s) PROVE Inv'
<1>. USE DEF Inv, Types, BecomeVisible, positions, producer, consumer, control, ghosts
<1>1. SharedTypes' /\ ThreadTypes' /\ ControlTypes'
  BY DEF SharedTypes, ThreadTypes, ControlTypes
<1>2. MemoryTypes'
  BY DEF MemoryTypes
<1>3. Counted' /\ CallbackInv'
  BY DEF Counted, CallbackInv
<1>4. PlaybackInv' /\ MainInv'
  BY DEF PlaybackInv, MainInv, Period
<1>. QED BY <1>1, <1>2, <1>3, <1>4

LEMMA LoadPositionsInv == ASSUME Inv, LoadPositions PROVE Inv'
<1>. USE RingAssumption DEF Inv, Types
<1>1. AvailFrames(write_pos, read_pos) = written - taken
  BY AvailIs DEF Counted, SharedTypes, N
<1>2. SharedTypes' /\ MemoryTypes' /\ ControlTypes'
  BY DEF LoadPositions, SharedTypes, MemoryTypes, ControlTypes, positions, memory, control,
     ghosts
<1>3. ThreadTypes'
  <2>1. c_read' \in Slots
    BY DEF LoadPositions, SharedTypes
  <2>2. 0 \in 0 .. PeriodFrames
    OBVIOUS
  <2>3. c_i' \in 0 .. PeriodFrames
    BY <2>2 DEF LoadPositions
  <2>4. c_stored' \in BOOLEAN
    BY DEF LoadPositions
  <2>. QED BY <2>1, <2>3, <2>4 DEF LoadPositions, ThreadTypes, producer
<1>4. Counted' /\ CallbackInv'
  BY DEF LoadPositions, Counted, CallbackInv, positions, producer, control, ghosts
<1>5. PlaybackInv'
  <2>1. /\ cpc' = "copy" => 2 * Period <= written - taken
        /\ c_i' = 0 /\ ~c_stored' /\ c_read' = read_pos /\ read_pos' = read_pos
        /\ written' = written /\ taken' = taken /\ Period' = Period
    BY <1>1, PeriodNat DEF LoadPositions, Enough, Period, positions, control, ghosts, SharedTypes
  <2>. QED BY <2>1, PeriodNat DEF PlaybackInv, SharedTypes, Slots, Wrap, N
<1>6. MainInv'
  BY DEF LoadPositions, MainInv, control
<1>. QED BY <1>2, <1>3, <1>4, <1>5, <1>6

LEMMA CopySampleInv == ASSUME Inv, CopySample PROVE Inv'
<1>. USE RingAssumption DEF Inv, Types
<1>1. Advance(c_read) = Wrap(c_read + 1) /\ Advance(c_read) \in Slots
  BY AdvanceIs DEF ThreadTypes
<1>2. c_i + 1 \in 1 .. PeriodFrames
  BY PeriodNat DEF CopySample, ThreadTypes
<1>3. SharedTypes' /\ ControlTypes'
  BY DEF CopySample, SharedTypes, ControlTypes, positions, control, ghosts
<1>4. MemoryTypes'
  BY <1>2 DEF CopySample, MemoryTypes, ThreadTypes, memory
<1>5. ThreadTypes'
  BY <1>1, <1>2 DEF CopySample, ThreadTypes, producer
<1>6. Counted' /\ CallbackInv'
  BY DEF CopySample, Counted, CallbackInv, positions, producer, control, ghosts
<1>7. PlaybackInv'
  <2>1. /\ Period' = Period /\ c_i' = c_i + 1 /\ c_read' = Wrap(c_read + 1)
        /\ c_stored' = c_stored /\ read_pos' = read_pos /\ written' = written
        /\ taken' = taken /\ cpc = "copy" /\ c_i + 1 <= Period
    BY <1>1, PeriodNat DEF CopySample, Period, positions, control, ghosts, ThreadTypes
  <2>2. CASE c_stored
    <3>1. read_pos = Wrap(Wrap(c_read + 1) + (Period - (c_i + 1)))
      BY <2>1, <2>2, PeriodNat DEF PlaybackInv, ThreadTypes, Slots, Wrap, N
    <3>. QED BY <2>1, <2>2, <3>1 DEF PlaybackInv
  <2>3. CASE ~c_stored
    <3>1. Wrap(c_read + 1) = Wrap(read_pos + (c_i + 1))
      BY <2>1, <2>3, PeriodNat
         DEF PlaybackInv, Counted, SharedTypes, ThreadTypes, Slots, Wrap, N
    <3>. QED BY <2>1, <2>3, <3>1 DEF PlaybackInv
  <2>. QED BY <2>2, <2>3 DEF ThreadTypes
<1>8. MainInv'
  BY DEF CopySample, MainInv, control
<1>. QED BY <1>3, <1>4, <1>5, <1>6, <1>7, <1>8

(* What StoreReadPos stores, whichever of the loads are still to come: the *)
(* position a period further on.                                           *)
LEMMA StoredReadPos ==
  ASSUME Inv, StoreReadPos
  PROVE  /\ Period \in Nat /\ Period <= N - 1 /\ 2 * Period <= written - taken
         /\ read_pos' = Wrap(read_pos + Period)
         /\ read_pos' = Wrap(c_read + (Period - c_i))
         /\ read_pos' \in Slots
<1>. USE RingAssumption DEF Inv, Types
<1>1. /\ Period \in Nat /\ Period <= N - 1 /\ 2 * Period <= written - taken
      /\ c_i <= Period /\ c_read = Wrap(read_pos + c_i)
  BY PeriodNat DEF StoreReadPos, PlaybackInv, Counted, SharedTypes, N
<1>2. c_read + (Period - c_i) \in 0 .. 2 * N - 1
  BY <1>1 DEF ThreadTypes, Slots, N
<1>3. read_pos' = Wrap(c_read + (Period - c_i))
  BY <1>2, WrapIsMod DEF StoreReadPos, N
<1>4. read_pos' = Wrap(read_pos + Period)
  BY <1>1, <1>3 DEF SharedTypes, ThreadTypes, Slots, Wrap, N
<1>5. read_pos' \in Slots
  BY <1>1, <1>4, WrapSlot DEF SharedTypes, N
<1>. QED BY <1>1, <1>3, <1>4, <1>5

LEMMA StoreReadPosInv == ASSUME Inv, StoreReadPos PROVE Inv'
<1>. USE RingAssumption DEF Inv, Types
<1>1. /\ taken' = taken + Period /\ written' = written /\ write_pos' = write_pos
      /\ Period' = Period /\ c_read' = c_read /\ c_i' = c_i /\ c_stored'
      /\ ppc' = ppc /\ p_write' = p_write /\ p_i' = p_i /\ p_len' = p_len /\ mpc' = mpc
      /\ cpc' = "copy" /\ cpc = "copy"
  BY DEF StoreReadPos, Period, producer, control
<1>2. SharedTypes'
  BY <1>1, StoredReadPos DEF SharedTypes
<1>3. MemoryTypes' /\ ThreadTypes' /\ ControlTypes'
  BY DEF StoreReadPos, MemoryTypes, ThreadTypes, ControlTypes, memory, producer, control
<1>4. Counted'
  BY <1>1, StoredReadPos DEF Counted, SharedTypes, Slots, Wrap, N
<1>5. CallbackInv'
  <2>. SUFFICES ASSUME ppc = "loop" PROVE CallbackInv'
    BY <1>1 DEF CallbackInv
  <2>1. p_write = Wrap(Wrap(read_pos + Period) + (written + p_i - (taken + Period)))
    BY StoredReadPos DEF CallbackInv, SharedTypes, ThreadTypes, Slots, Wrap, N
  <2>2. written + p_len - taken' <= N - 1
    BY <1>1, StoredReadPos DEF CallbackInv, SharedTypes, ThreadTypes, N
  <2>. QED BY <1>1, <2>1, <2>2, StoredReadPos DEF CallbackInv
<1>6. PlaybackInv'
  BY <1>1, StoredReadPos DEF PlaybackInv, SharedTypes
<1>7. MainInv'
  BY DEF StoreReadPos, MainInv, control
<1>. QED BY <1>2, <1>3, <1>4, <1>5, <1>6, <1>7

(* The steps that touch neither a position nor a sample. *)
LEMMA OtherStepsInv ==
  ASSUME Inv, Leave \/ PlaySilence \/ PcmWrite \/ RtcFini \/ ClearRunning \/ JoinAndFree
              \/ UNCHANGED vars
  PROVE  Inv'
<1>. USE RingAssumption DEF Inv, Types, SharedTypes, MemoryTypes, ThreadTypes, ControlTypes, Counted,
         CallbackInv, PlaybackInv, MainInv, Period, positions, memory, producer, control, ghosts
<1>1. CASE Leave
  BY <1>1 DEF Leave
<1>2. CASE PlaySilence
  BY <1>2 DEF PlaySilence, Samples
<1>3. CASE PcmWrite
  BY <1>3 DEF PcmWrite
<1>4. CASE RtcFini
  BY <1>4 DEF RtcFini, consumer
<1>5. CASE ClearRunning
  BY <1>5 DEF ClearRunning, consumer
<1>6. CASE JoinAndFree
  BY <1>6 DEF JoinAndFree, consumer
<1>7. CASE UNCHANGED vars
  BY <1>7 DEF vars, consumer
<1>. QED BY <1>1, <1>2, <1>3, <1>4, <1>5, <1>6, <1>7

LEMMA NextInv == Inv /\ [Next]_vars => Inv'
<1>. SUFFICES ASSUME Inv, [Next]_vars PROVE Inv'
  OBVIOUS
<1>1. CASE Callback
  BY <1>1, ReceiveInv, StoreSampleInv, PublishWritePosInv DEF Callback
<1>2. CASE Playback
  BY <1>2, LoadPositionsInv, CopySampleInv, StoreReadPosInv, OtherStepsInv DEF Playback
<1>3. CASE Main
  BY <1>3, OtherStepsInv DEF Main
<1>4. CASE \E s \in Slots : BecomeVisible(s)
  BY <1>4, BecomeVisibleInv
<1>5. CASE Terminated \/ UNCHANGED vars
  BY <1>5, OtherStepsInv DEF Terminated
<1>. QED BY <1>1, <1>2, <1>3, <1>4, <1>5 DEF Next

(* The strengthening holds in every reachable state, on every machine. *)
THEOREM InvHolds == Spec => []Inv
  BY InitInv, NextInv, PTL DEF Spec

(* Every variable keeps its type: no position leaves the ring, and the     *)
(* period buffer is never written past its end.                            *)
THEOREM TypeCorrect == Spec => []TypeOK
<1>1. Inv => TypeOK
  BY DEF Inv, Types, SharedTypes, MemoryTypes, ThreadTypes, ControlTypes, TypeOK
<1>. QED BY <1>1, InvHolds, PTL

(* For every ring size: no unread slot is overwritten, and a full ring is  *)
(* never taken for an empty one.                                           *)
THEOREM PositionsCorrect == Spec => []PositionsAgree
<1>1. Inv => PositionsAgree
  BY AvailIs, RingAssumption
     DEF Inv, Types, SharedTypes, Counted, CallbackInv, PositionsAgree, N
<1>. QED BY <1>1, InvHolds, PTL

(* playback_deinit frees the period buffer only after the thread is gone. *)
THEOREM FreeCorrect == Spec => []ThreadGoneBeforeFree
<1>1. Inv => ThreadGoneBeforeFree
  BY DEF Inv, MainInv, ThreadGoneBeforeFree
<1>. QED BY <1>1, InvHolds, PTL

-----------------------------------------------------------------------------
(* What is in the slots, on a machine that keeps program order. *)

LEMMA InitContent == Init => Content
  BY RingAssumption DEF Init, Content, RingContent, PeriodContent, Stored, N

LEMMA StoreSampleContent ==
  ASSUME Inv, Content, Ordered, StoreSample PROVE Content'
<1>. USE RingAssumption DEF Inv, Types, Content
<1>1. /\ ppc = "loop" /\ ppc' = "loop" /\ p_i' = p_i + 1 /\ written' = written
      /\ taken' = taken /\ read_pos' = read_pos
      /\ ring_buffer' = [ring_buffer EXCEPT ![p_write] = written + p_i + 1]
      /\ visible' = [visible EXCEPT ![p_write] = written + p_i + 1]
  BY DEF StoreSample, positions, ghosts
<1>2. /\ p_write = Wrap(read_pos + (written + p_i - taken)) /\ p_write \in Slots
      /\ written + p_i - taken \in 0 .. N - 2
  BY DEF StoreSample, CallbackInv, Counted, SharedTypes, ThreadTypes, N
<1>3. visible' = ring_buffer'
  BY <1>1 DEF RingContent
<1>4. ASSUME NEW k \in 1 .. N - 1, k <= written + (p_i + 1) - taken
      PROVE  ring_buffer'[Wrap(read_pos + (k - 1))] = taken + k
  <2>1. Wrap(read_pos + (k - 1)) \in Slots
    BY WrapSlot DEF SharedTypes, N
  <2>2. CASE k = written + (p_i + 1) - taken
    <3>1. Wrap(read_pos + (k - 1)) = p_write /\ written + p_i + 1 = taken + k
      BY <1>2, <2>2 DEF SharedTypes, ThreadTypes
    <3>. QED BY <1>1, <2>1, <3>1 DEF MemoryTypes
  <2>3. CASE k # written + (p_i + 1) - taken
    <3>1. k <= written + p_i - taken
      BY <1>4, <2>3 DEF SharedTypes, ThreadTypes, N
    <3>2. Wrap(read_pos + (k - 1)) # p_write
      BY <1>2, <3>1 DEF SharedTypes, ThreadTypes, Slots, Wrap, N
    <3>3. ring_buffer[Wrap(read_pos + (k - 1))] = taken + k
      BY <1>1, <3>1 DEF RingContent, Stored
    <3>. QED BY <1>1, <2>1, <3>2, <3>3 DEF MemoryTypes
  <2>. QED BY <2>2, <2>3
<1>5. RingContent'
  BY <1>1, <1>3, <1>4 DEF RingContent, Stored
<1>6. PeriodContent'
  BY DEF StoreSample, PeriodContent, PeriodBase, Period, consumer, control, ghosts
<1>. QED BY <1>5, <1>6

LEMMA CopySampleContent ==
  ASSUME Inv, Content, Ordered, CopySample PROVE Content'
<1>. USE RingAssumption DEF Inv, Types, Content
<1>1. /\ cpc = "copy" /\ cpc' = "copy" /\ c_i' = c_i + 1 /\ c_stored' = c_stored
      /\ taken' = taken /\ device' = device /\ c_i < Period
      /\ playback_buffer' = [playback_buffer EXCEPT ![c_i + 1] = visible[c_read]]
  BY DEF CopySample, control, ghosts
<1>2. ~c_stored
  BY <1>1, PeriodNat DEF PeriodContent, ThreadTypes
<1>3. /\ 2 * Period <= written - taken /\ written - taken <= N - 1
      /\ c_read = Wrap(read_pos + c_i)
  BY <1>1, <1>2 DEF PlaybackInv, Counted
<1>4. visible[c_read] = taken + (c_i + 1)
  <2>1. Stored \in Nat
    BY DEF Stored, ThreadTypes
  <2>2. c_i + 1 \in 1 .. N - 1 /\ c_i + 1 <= written + Stored - taken
    BY <1>1, <1>3, <2>1, PeriodNat DEF SharedTypes, ThreadTypes, N
  <2>3. ring_buffer[Wrap(read_pos + ((c_i + 1) - 1))] = taken + (c_i + 1)
    BY <2>2 DEF RingContent
  <2>4. (c_i + 1) - 1 = c_i
    BY DEF ThreadTypes
  <2>. QED BY <1>3, <2>3, <2>4 DEF RingContent
<1>5. ASSUME NEW k \in 1 .. c_i + 1 PROVE playback_buffer'[k] = taken + k
  <2>1. k \in 1 .. PeriodFrames
    BY <1>1, PeriodNat DEF ThreadTypes
  <2>2. CASE k = c_i + 1
    BY <1>1, <1>4, <2>1, <2>2 DEF MemoryTypes
  <2>3. CASE k # c_i + 1
    <3>1. k \in 1 .. c_i
      BY <2>3 DEF ThreadTypes
    <3>2. playback_buffer[k] = taken + k
      BY <1>1, <1>2, <3>1 DEF PeriodContent, PeriodBase
    <3>. QED BY <1>1, <2>1, <2>3, <3>2 DEF MemoryTypes
  <2>. QED BY <2>2, <2>3
<1>6. PeriodContent'
  BY <1>1, <1>2, <1>5 DEF PeriodContent, PeriodBase
<1>7. RingContent'
  BY DEF CopySample, RingContent, Stored, positions, memory, producer, ghosts
<1>. QED BY <1>6, <1>7

LEMMA StoreReadPosContent ==
  ASSUME Inv, Content, Ordered, StoreReadPos PROVE Content'
<1>. USE RingAssumption DEF Inv, Types, Content
<1>1. /\ taken' = taken + Period /\ written' = written /\ ppc' = ppc /\ p_i' = p_i
      /\ ring_buffer' = ring_buffer /\ visible' = visible /\ device' = device
      /\ cpc = "copy" /\ c_i' = c_i /\ playback_buffer' = playback_buffer
      /\ ~c_stored /\ c_stored' = TRUE /\ c_i = Period
  BY DEF StoreReadPos, memory, producer, control
<1>2. Stored' = Stored /\ Stored \in Nat
  BY <1>1 DEF Stored, ThreadTypes
<1>3. ASSUME NEW k \in 1 .. N - 1, k <= written + Stored - (taken + Period)
      PROVE  ring_buffer[Wrap(Wrap(read_pos + Period) + (k - 1))] = taken + Period + k
  <2>1. Period \in Nat /\ Period <= N - 1 /\ written + Stored - taken <= N - 1
    BY StoredReadPos DEF Stored, CallbackInv, Counted, SharedTypes, ThreadTypes, N
  <2>2. Period + k \in 1 .. N - 1 /\ Period + k <= written + Stored - taken
    BY <1>2, <1>3, <2>1 DEF SharedTypes, N
  <2>3. Wrap(Wrap(read_pos + Period) + (k - 1)) = Wrap(read_pos + ((Period + k) - 1))
    BY <2>1, <2>2 DEF SharedTypes, Slots, Wrap, N
  <2>4. ring_buffer[Wrap(read_pos + ((Period + k) - 1))] = taken + (Period + k)
    BY <2>2 DEF RingContent
  <2>. QED BY <2>1, <2>3, <2>4 DEF SharedTypes
<1>4. RingContent'
  BY <1>1, <1>2, <1>3, StoredReadPos DEF RingContent
<1>5. PeriodContent'
  <2>1. (taken + Period) - Period = taken
    BY PeriodNat DEF SharedTypes
  <2>. QED BY <1>1, <2>1 DEF PeriodContent, PeriodBase, Period
<1>. QED BY <1>4, <1>5

LEMMA OtherStepsContent ==
  ASSUME Inv, Content, Ordered,
         \/ \E n \in 1 .. MaxPacket : Receive(n)
         \/ PublishWritePos \/ (\E s \in Slots : BecomeVisible(s))
         \/ LoadPositions \/ Leave \/ PlaySilence \/ PcmWrite
         \/ RtcFini \/ ClearRunning \/ JoinAndFree \/ UNCHANGED vars
  PROVE  Content'
<1>. USE DEF Content, RingContent, PeriodContent, PeriodBase, Period, Stored, positions,
         memory, producer, consumer, control, ghosts
<1>1. CASE \E n \in 1 .. MaxPacket : Receive(n)
  BY <1>1 DEF Receive
<1>2. CASE PublishWritePos
  BY <1>2 DEF PublishWritePos, StartPlayback, Inv, Types, SharedTypes, ThreadTypes
<1>3. CASE \E s \in Slots : BecomeVisible(s)
  BY <1>3 DEF BecomeVisible
<1>4. CASE LoadPositions
  BY <1>4, PeriodNat DEF LoadPositions
<1>5. CASE Leave \/ PlaySilence \/ PcmWrite
  BY <1>5 DEF Leave, PlaySilence, PcmWrite
<1>6. CASE RtcFini \/ ClearRunning
  BY <1>6 DEF RtcFini, ClearRunning
<1>7. CASE JoinAndFree
  BY <1>7 DEF JoinAndFree
<1>8. CASE UNCHANGED vars
  BY <1>8 DEF vars
<1>. QED BY <1>1, <1>2, <1>3, <1>4, <1>5, <1>6, <1>7, <1>8

LEMMA NextContent == ASSUME Ordered PROVE Inv /\ Content /\ [Next]_vars => Content'
<1>. SUFFICES ASSUME Inv, Content, [Next]_vars PROVE Content'
  OBVIOUS
<1>1. CASE Callback
  BY <1>1, StoreSampleContent, OtherStepsContent DEF Callback
<1>2. CASE Playback
  BY <1>2, CopySampleContent, StoreReadPosContent, OtherStepsContent DEF Playback
<1>3. CASE Main
  BY <1>3, OtherStepsContent DEF Main
<1>4. CASE (\E s \in Slots : BecomeVisible(s)) \/ Terminated \/ UNCHANGED vars
  BY <1>4, OtherStepsContent DEF Terminated
<1>. QED BY <1>1, <1>2, <1>3, <1>4 DEF Next

(* On a machine that keeps program order, every period given to pcm_write  *)
(* holds the received samples, each once and in order, for every ring      *)
(* size, period, packet size and interleaving. The assumption is needed:   *)
(* without it TLC finds a stale sample of a packet that came after the     *)
(* thread was created (PlaybackRingStale).                                 *)
THEOREM PlayedCorrect == ASSUME Ordered PROVE Spec => []PlayedInOrder
<1>1. Content => PlayedInOrder
  BY DEF Content, PeriodContent, PlayedInOrder
<1>2. Inv /\ Content /\ [Next]_vars => Content'
  BY NextContent
<1>. QED BY <1>1, <1>2, InitContent, InvHolds, PTL DEF Spec

=============================================================================
