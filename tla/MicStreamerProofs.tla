-------------------------- MODULE MicStreamerProofs --------------------------
(***************************************************************************)
(* The safety of MicStreamer for every queue length, every period and      *)
(* frame length, every choice of failures and any number of sessions. The  *)
(* strengthening Inv orders all samples on their way: those published come *)
(* before those in the encoder's cache, and these before those in its      *)
(* queue, which holds the newest periods without a gap.                    *)
(***************************************************************************)
EXTENDS MicStreamer, SequenceTheorems, TLAPS

ControlTypes ==
  /\ opc \in {"idle", "notify", "join", "open"}
  /\ reopen \in BOOLEAN /\ was_running \in BOOLEAN /\ localize \in BOOLEAN
  /\ running \in BOOLEAN /\ cap \in BOOLEAN /\ enc \in BOOLEAN
  /\ sessions \in 0 .. MaxSessions
  /\ ppc \in {"none", "loop", "read", "push", "notify", "exited"}
  /\ epc \in {"none", "loop", "lock", "block", "waiting", "encode", "publish", "exited"}
  /\ lpc \in {"none", "loop", "lock", "block", "waiting", "locate", "exited"}

QueueTypes ==
  /\ encode_queue \in Seq(Periods) /\ Len(encode_queue) <= max_queue_size_
  /\ localize_queue \in Seq(Periods) /\ Len(localize_queue) <= max_queue_size_
  /\ captured \in 0 .. MaxPeriods
  /\ located \in 0 .. MaxPeriods

CacheTypes ==
  /\ mono_cache \in Seq(Nat)
  /\ seq \in Nat /\ pts \in Nat
  /\ published \in Messages \cup {NoMessage}

(* The owner opens a session only when the last one's threads are gone.    *)
OwnerInv ==
  /\ opc = "open" => ppc = "none" /\ epc = "none" /\ lpc = "none" /\ sessions < MaxSessions
  /\ reopen /\ opc # "idle" => sessions < MaxSessions
  /\ ppc = "push" => captured < MaxPeriods

(* Whole frames are in the cache only while they are being encoded.        *)
CacheInv ==
  /\ Len(mono_cache) < FrameBlocks + PeriodBlocks
  /\ epc \in {"lock", "block", "waiting"} => Len(mono_cache) < FrameBlocks
  /\ epc = "loop" => Len(mono_cache) < FrameBlocks \/ ~running
  /\ epc = "encode" => Len(mono_cache) >= FrameBlocks

(* The last block of the periods that have left the encoder's queue.       *)
PassedBlocks == (captured - Len(encode_queue)) * PeriodBlocks

(* All samples in capture order: published, in the cache, in the queue.    *)
OrderInv ==
  /\ LastBlock(published) <= PassedBlocks
  /\ \A i \in 1 .. Len(mono_cache) :
       LastBlock(published) < mono_cache[i] /\ mono_cache[i] <= PassedBlocks
  /\ \A i, j \in 1 .. Len(mono_cache) : i < j => mono_cache[i] < mono_cache[j]

(* The next message's number follows the last one of the same session.     *)
NumberInv ==
  /\ published.session <= sessions
  /\ seq = IF published.session = sessions THEN published.seq + 1 ELSE 0

Inv ==
  /\ ControlTypes /\ QueueTypes /\ CacheTypes
  /\ QueuesHoldNewest /\ OpenWhileUsed
  /\ OwnerInv /\ CacheInv /\ OrderInv /\ NumberInv

-----------------------------------------------------------------------------
(* Queues and blocks. *)

LEMMA TakeFacts ==
  ASSUME NEW q \in Seq(Periods), q # << >>, HoldsNewest(q), captured \in 0 .. MaxPeriods
  PROVE  /\ Tail(q) \in Seq(Periods)
         /\ Len(Tail(q)) = Len(q) - 1
         /\ Len(q) \in Nat \ {0}
         /\ HoldsNewest(Tail(q))
         /\ Head(q) = captured - Len(q) + 1
         /\ Head(q) \in Periods
<1>1. /\ Tail(q) \in Seq(Periods) /\ Len(Tail(q)) = Len(q) - 1
      /\ \A i \in 1 .. Len(Tail(q)) : Tail(q)[i] = q[i + 1]
      /\ Head(q) \in Periods
  BY HeadTailProperties
<1>2. Len(q) \in Nat \ {0}
  BY EmptySeq
<1>3. Head(q) = q[1]
  BY <1>2
<1>4. Head(q) = captured - Len(q) + 1
  BY <1>2, <1>3 DEF HoldsNewest
<1>5. HoldsNewest(Tail(q))
  BY <1>1, <1>2 DEF HoldsNewest
<1>. QED BY <1>1, <1>2, <1>4, <1>5

(* Pushing the next period keeps the queue's bound, and the newest periods *)
(* in it.                                                                  *)
LEMMA PushFacts ==
  ASSUME NEW q \in Seq(Periods), HoldsNewest(q), Len(q) <= max_queue_size_,
         captured \in 0 .. MaxPeriods, captured < MaxPeriods
  PROVE  /\ Push(q, captured + 1) \in Seq(Periods)
         /\ Len(Push(q, captured + 1)) <= max_queue_size_
         /\ Len(Push(q, captured + 1)) \in {Len(q), Len(q) + 1}
         /\ \A i \in 1 .. Len(Push(q, captured + 1)) :
              Push(q, captured + 1)[i] = captured + 1 - Len(Push(q, captured + 1)) + i
<1>. DEFINE p == captured + 1
            rest == IF Len(q) >= max_queue_size_ THEN Tail(q) ELSE q
<1>0. p \in Periods
  BY StreamerAssumption DEF Periods
<1>1. Len(q) \in Nat /\ (q = << >> => Len(q) = 0)
  BY EmptySeq
<1>2. rest \in Seq(Periods) /\ HoldsNewest(rest) /\ Len(rest) <= max_queue_size_ - 1
      /\ Len(rest) \in {Len(q), Len(q) - 1} /\ Len(rest) \in Nat
  <2>1. CASE Len(q) >= max_queue_size_
    <3>1. q # << >>
      BY <1>1, <2>1, StreamerAssumption
    <3>. QED BY <1>1, <2>1, <3>1, TakeFacts, StreamerAssumption
  <2>2. CASE ~(Len(q) >= max_queue_size_)
    BY <1>1, <2>2, StreamerAssumption
  <2>. QED BY <2>1, <2>2
<1>3. /\ Append(rest, p) \in Seq(Periods)
      /\ Len(Append(rest, p)) = Len(rest) + 1
      /\ \A i \in 1 .. Len(rest) : Append(rest, p)[i] = rest[i]
      /\ Append(rest, p)[Len(rest) + 1] = p
  BY <1>0, <1>2, AppendProperties
<1>4. \A i \in 1 .. Len(rest) + 1 : Append(rest, p)[i] = captured + 1 - (Len(rest) + 1) + i
  <2>. SUFFICES ASSUME NEW i \in 1 .. Len(rest) + 1
                PROVE  Append(rest, p)[i] = captured + 1 - (Len(rest) + 1) + i
    OBVIOUS
  <2>1. CASE i = Len(rest) + 1
    BY <1>2, <1>3, <2>1
  <2>2. CASE i \in 1 .. Len(rest)
    BY <1>2, <1>3, <2>2 DEF HoldsNewest
  <2>. QED BY <1>2, <2>1, <2>2
<1>5. Push(q, p) = Append(rest, p)
  BY DEF Push
<1>6. Len(Append(rest, p)) \in {Len(q), Len(q) + 1} /\ Len(Append(rest, p)) <= max_queue_size_
  BY <1>1, <1>2, <1>3, StreamerAssumption
<1>. QED BY <1>2, <1>3, <1>4, <1>5, <1>6

LEMMA BlockFacts ==
  ASSUME NEW p \in Nat \ {0}
  PROVE  /\ Blocks(p) \in Seq(Nat)
         /\ Len(Blocks(p)) = PeriodBlocks
         /\ \A j \in 1 .. PeriodBlocks : Blocks(p)[j] = (p - 1) * PeriodBlocks + j
         /\ p * PeriodBlocks = (p - 1) * PeriodBlocks + PeriodBlocks
         /\ (p - 1) * PeriodBlocks \in Nat
<1>1. (p - 1) * PeriodBlocks \in Nat /\ p * PeriodBlocks = (p - 1) * PeriodBlocks + PeriodBlocks
  BY StreamerAssumption
<1>2. \A j \in 1 .. PeriodBlocks : (p - 1) * PeriodBlocks + j \in Nat
  BY <1>1, StreamerAssumption
<1>3. Blocks(p) \in [1 .. PeriodBlocks -> Nat]
  BY <1>2 DEF Blocks
<1>4. Blocks(p) \in Seq(Nat) /\ Len(Blocks(p)) = PeriodBlocks
  BY <1>3, SeqDef, StreamerAssumption
<1>. QED BY <1>1, <1>4 DEF Blocks

(* The samples that have left the queue: a natural number of blocks.       *)
LEMMA PassedNat ==
  ASSUME NEW n \in Nat PROVE n * PeriodBlocks \in Nat
  BY StreamerAssumption

-----------------------------------------------------------------------------
LEMMA InitInv == Init => Inv
<1>. SUFFICES ASSUME Init PROVE Inv
  OBVIOUS
<1>. USE StreamerAssumption DEF Init
<1>1. << >> \in Seq(Periods) /\ << >> \in Seq(Nat) /\ Len(<< >>) = 0
  BY EmptySeq
<1>2. 0 \in 0 .. MaxPeriods /\ 0 \in 0 .. MaxSessions
  OBVIOUS
<1>3. ControlTypes
  BY <1>2 DEF ControlTypes
<1>4. QueueTypes /\ CacheTypes
  BY <1>1, <1>2 DEF QueueTypes, CacheTypes
<1>5. QueuesHoldNewest /\ OpenWhileUsed /\ OwnerInv /\ CacheInv
  BY <1>1 DEF QueuesHoldNewest, HoldsNewest, OpenWhileUsed, Gone, OwnerInv, CacheInv
<1>6. OrderInv /\ NumberInv
  BY <1>1 DEF OrderInv, NumberInv, PassedBlocks, LastBlock, NoMessage
<1>. QED BY <1>3, <1>4, <1>5, <1>6 DEF Inv

(* What depends on the samples, their numbers and the sessions only.       *)
data == << queues, encoding, located, sessions >>

LEMMA DataKept ==
  ASSUME Inv, UNCHANGED data
  PROVE  (QueueTypes /\ CacheTypes /\ QueuesHoldNewest /\ OrderInv /\ NumberInv)'
BY DEF Inv, data, queues, encoding, QueueTypes, CacheTypes, QueuesHoldNewest, HoldsNewest,
   OrderInv, NumberInv, PassedBlocks

LEMMA OwnerSteps ==
  ASSUME Inv, Stop \/ (\E loc \in BOOLEAN : Start(loc)) \/ StopNotify \/ Join \/ OpenFails
              \/ InitFails
  PROVE  Inv'
<1>1. UNCHANGED data
  BY DEF Stop, Start, StopNotify, Join, OpenFails, InitFails, data
<1>. USE DEF Inv
<1>2. ControlTypes'
  <2>1. CASE Stop \/ (\E loc \in BOOLEAN : Start(loc))
    <3>1. /\ opc' \in {"notify", "join"} /\ reopen' \in BOOLEAN /\ localize' \in BOOLEAN
          /\ UNCHANGED << sessions, cap, enc, ppc, epc, lpc >>
      BY <2>1 DEF Stop, Start, ExchangeRunning, devices, ControlTypes
    <3>2. was_running' \in BOOLEAN /\ running' \in BOOLEAN
      BY <2>1 DEF Stop, Start, ExchangeRunning, ControlTypes
    <3>. QED BY <3>1, <3>2 DEF ControlTypes
  <2>2. CASE StopNotify
    BY <2>2 DEF StopNotify, WakeAll, devices, ControlTypes
  <2>3. CASE Join
    <3>1. cap' \in BOOLEAN /\ enc' \in BOOLEAN
      BY <2>3 DEF Join
    <3>. QED BY <2>3, <3>1 DEF Join, ControlTypes
  <2>4. CASE OpenFails \/ InitFails
    <3>1. /\ opc' = "idle"
          /\ UNCHANGED << reopen, was_running, localize, sessions, running, ppc, epc, lpc >>
      BY <2>4 DEF OpenFails, InitFails
    <3>2. cap' \in BOOLEAN /\ enc' \in BOOLEAN
      BY <2>4 DEF OpenFails, InitFails, ControlTypes
    <3>. QED BY <3>1, <3>2 DEF ControlTypes
  <2>. QED BY <2>1, <2>2, <2>3, <2>4
<1>3. OpenWhileUsed'
  BY DEF Stop, Start, ExchangeRunning, StopNotify, WakeAll, Join, OpenFails, InitFails,
     devices, OpenWhileUsed, OwnerInv, Gone
<1>4. OwnerInv'
  <2>1. CASE Stop \/ (\E loc \in BOOLEAN : Start(loc))
    BY <2>1 DEF Stop, Start, ExchangeRunning, OwnerInv, queues
  <2>2. CASE StopNotify
    BY <2>2 DEF StopNotify, OwnerInv, queues
  <2>3. CASE Join
    BY <2>3 DEF Join, OwnerInv, queues
  <2>4. CASE OpenFails \/ InitFails
    BY <2>4 DEF OpenFails, InitFails, OwnerInv, queues
  <2>. QED BY <2>1, <2>2, <2>3, <2>4
<1>5. CacheInv'
  BY <1>1 DEF Stop, Start, ExchangeRunning, StopNotify, WakeAll, MutexFree, Join, OpenFails,
     InitFails, data, encoding, CacheInv, ControlTypes
<1>. QED BY <1>1, <1>2, <1>3, <1>4, <1>5, DataKept

LEMMA OpenedInv == ASSUME Inv, Opened PROVE Inv'
<1>. USE StreamerAssumption DEF Inv, Opened, queues
<1>1. << >> \in Seq(Nat) /\ Len(<< >>) = 0
  BY EmptySeq
<1>2. sessions + 1 \in 0 .. MaxSessions
  BY DEF ControlTypes, OwnerInv
<1>3. ControlTypes'
  BY <1>2 DEF ControlTypes
<1>4. QueueTypes' /\ CacheTypes'
  BY <1>1 DEF QueueTypes, CacheTypes
<1>5. QueuesHoldNewest' /\ OpenWhileUsed' /\ OwnerInv'
  BY DEF QueuesHoldNewest, HoldsNewest, OpenWhileUsed, OwnerInv
<1>6. CacheInv'
  BY <1>1 DEF CacheInv
<1>7. OrderInv'
  BY <1>1 DEF OrderInv, PassedBlocks
<1>8. NumberInv'
  <2>1. published.session # sessions + 1 /\ published.session <= sessions + 1
    BY DEF NumberInv, CacheTypes, Messages, NoMessage, ControlTypes
  <2>2. published' = published /\ sessions' = sessions + 1 /\ seq' = 0
    OBVIOUS
  <2>. QED BY <2>1, <2>2 DEF NumberInv
<1>. QED BY <1>3, <1>4, <1>5, <1>6, <1>7, <1>8

LEMMA ThreadSteps ==
  ASSUME Inv,
         \/ ProducerLoop \/ ReadPeriod \/ ReadNothing \/ ReadFails \/ Notify
         \/ EncoderLoop \/ EncoderFindsNothing \/ EncoderSleeps \/ EncoderWakes
         \/ PublishReturns \/ EncodeFails
         \/ LocalizerLoop \/ LocalizerFindsNothing \/ LocalizerSleeps \/ LocalizerWakes
         \/ Locate
  PROVE  Inv'
<1>. USE DEF Inv
<1>1. UNCHANGED data /\ UNCHANGED << owner, devices >>
  BY DEF ProducerLoop, ReadPeriod, ReadNothing, ReadFails, Notify, EncoderLoop,
     EncoderFindsNothing, EncoderSleeps, EncoderWakes, PublishReturns, EncodeFails,
     LocalizerLoop, LocalizerFindsNothing, LocalizerSleeps, LocalizerWakes, Locate, data, owner
<1>2. UNCHANGED << opc, reopen, was_running, localize, sessions, cap, enc, captured,
                   mono_cache >>
  BY <1>1 DEF data, owner, devices, queues, encoding
<1>3. CASE ProducerLoop \/ ReadPeriod \/ ReadNothing \/ ReadFails
  <2>1. /\ UNCHANGED << running, epc, lpc >>
        /\ ppc \in {"loop", "read"} /\ ppc' \in {"loop", "read", "push", "exited"}
        /\ ppc' = "push" => captured < MaxPeriods
    BY <1>3 DEF ProducerLoop, ReadPeriod, ReadNothing, ReadFails
  <2>2. ControlTypes' /\ OpenWhileUsed'
    BY <1>2, <2>1 DEF ControlTypes, OpenWhileUsed, Gone
  <2>3. OwnerInv' /\ CacheInv'
    BY <1>2, <2>1 DEF OwnerInv, CacheInv
  <2>. QED BY <1>1, <2>2, <2>3, DataKept
<1>4. CASE Notify
  <2>1. /\ UNCHANGED running
        /\ ppc = "notify" /\ ppc' = "loop"
        /\ epc' \in {epc, IF epc = "waiting" THEN "lock" ELSE epc}
        /\ lpc' \in {lpc, IF lpc = "waiting" THEN "lock" ELSE lpc}
    BY <1>4 DEF Notify, WakeAll
  <2>2. ControlTypes' /\ OpenWhileUsed'
    BY <1>2, <2>1 DEF ControlTypes, OpenWhileUsed, Gone
  <2>3. OwnerInv' /\ CacheInv'
    BY <1>2, <2>1 DEF OwnerInv, CacheInv
  <2>. QED BY <1>1, <2>2, <2>3, DataKept
<1>5. CASE EncoderLoop \/ EncoderFindsNothing \/ EncoderSleeps \/ EncoderWakes
           \/ PublishReturns \/ EncodeFails
  <2>1. /\ UNCHANGED << ppc, lpc >>
        /\ epc \in {"loop", "lock", "block", "waiting", "publish", "encode"}
        /\ epc' \in {"loop", "lock", "block", "waiting", "encode", "exited"}
        /\ running' = running \/ running' = FALSE
    BY <1>5 DEF EncoderLoop, EncoderFindsNothing, EncoderSleeps, EncoderWakes,
       PublishReturns, AfterCaching, EncodeFails
  <2>2. running' \in BOOLEAN
    BY <2>1 DEF ControlTypes
  <2>4. ControlTypes'
    BY <1>2, <2>1, <2>2 DEF ControlTypes
  <2>5. OpenWhileUsed'
    BY <1>2, <2>1 DEF OpenWhileUsed, Gone
  <2>3. OwnerInv'
    BY <1>2, <2>1 DEF OwnerInv
  <2>6. CacheInv'
    <3>1. CASE EncoderLoop \/ EncoderFindsNothing \/ EncoderSleeps \/ EncoderWakes
      BY <1>2, <3>1 DEF EncoderLoop, EncoderFindsNothing, EncoderSleeps, EncoderWakes, CacheInv
    <3>2. CASE PublishReturns
      <4>1. Len(mono_cache) \in Nat
        BY LenProperties DEF CacheTypes
      <4>. QED BY <1>2, <3>2, <4>1, StreamerAssumption DEF PublishReturns, AfterCaching, CacheInv
    <3>3. CASE EncodeFails
      BY <1>2, <3>3 DEF EncodeFails, CacheInv
    <3>. QED BY <1>5, <3>1, <3>2, <3>3
  <2>. QED BY <1>1, <2>3, <2>4, <2>5, <2>6, DataKept
<1>6. CASE LocalizerLoop \/ LocalizerFindsNothing \/ LocalizerSleeps \/ LocalizerWakes
           \/ Locate
  <2>1. /\ UNCHANGED << running, ppc, epc >>
        /\ lpc # "none" /\ lpc' \in {"loop", "lock", "block", "waiting", "exited"}
    BY <1>6 DEF LocalizerLoop, LocalizerFindsNothing, LocalizerSleeps, LocalizerWakes, Locate
  <2>2. ControlTypes' /\ OpenWhileUsed'
    BY <1>2, <2>1 DEF ControlTypes, OpenWhileUsed, Gone
  <2>3. OwnerInv' /\ CacheInv'
    BY <1>2, <2>1 DEF OwnerInv, CacheInv
  <2>. QED BY <1>1, <2>2, <2>3, DataKept
<1>. QED BY <1>3, <1>4, <1>5, <1>6

LEMMA PushPeriodInv == ASSUME Inv, PushPeriod PROVE Inv'
<1>. USE StreamerAssumption DEF Inv
<1>1. /\ captured' = captured + 1 /\ captured \in 0 .. MaxPeriods /\ captured < MaxPeriods
      /\ encode_queue' = Push(encode_queue, captured + 1)
      /\ localize_queue' = Push(localize_queue, captured + 1)
      /\ UNCHANGED << owner, devices, running, epc, lpc, encoding, located >>
      /\ ppc = "push" /\ ppc' = "notify"
  BY DEF PushPeriod, OwnerInv, QueueTypes
<1>2. UNCHANGED << opc, reopen, was_running, localize, sessions, cap, enc, mono_cache, seq,
                   pts, published >>
  BY <1>1 DEF owner, devices, encoding
<1>3. ControlTypes' /\ OpenWhileUsed'
  BY <1>1, <1>2 DEF ControlTypes, OpenWhileUsed, Gone
<1>4. OwnerInv' /\ CacheInv'
  BY <1>1, <1>2 DEF OwnerInv, CacheInv
<1>5. CacheTypes' /\ NumberInv'
  BY <1>2 DEF CacheTypes, NumberInv
<1>6. QueueTypes'
  <2>1. encode_queue' \in Seq(Periods) /\ Len(encode_queue') <= max_queue_size_
    BY <1>1, PushFacts DEF QueueTypes, QueuesHoldNewest
  <2>2. localize_queue' \in Seq(Periods) /\ Len(localize_queue') <= max_queue_size_
    BY <1>1, PushFacts DEF QueueTypes, QueuesHoldNewest
  <2>3. captured' \in 0 .. MaxPeriods
    BY <1>1
  <2>. QED BY <1>1, <2>1, <2>2, <2>3 DEF QueueTypes
<1>7. QueuesHoldNewest'
  <2>1. \A i \in 1 .. Len(encode_queue') : encode_queue'[i] = captured + 1 - Len(encode_queue') + i
    BY <1>1, PushFacts DEF QueueTypes, QueuesHoldNewest
  <2>2. \A i \in 1 .. Len(localize_queue') :
           localize_queue'[i] = captured + 1 - Len(localize_queue') + i
    BY <1>1, PushFacts DEF QueueTypes, QueuesHoldNewest
  <2>. QED BY <1>1, <2>1, <2>2 DEF QueuesHoldNewest, HoldsNewest
<1>8. OrderInv'
  <2>1. Len(encode_queue') \in {Len(encode_queue), Len(encode_queue) + 1}
    BY <1>1, PushFacts DEF QueueTypes, QueuesHoldNewest
  <2>2. Len(encode_queue) \in Nat
    BY LenProperties DEF QueueTypes
  <2>3. PassedBlocks' = PassedBlocks \/ PassedBlocks' = PassedBlocks + PeriodBlocks
    <3>. DEFINE low == captured - Len(encode_queue)
    <3>1. low \in Int
      BY <1>1, <2>2
    <3>2. (low + 1) * PeriodBlocks = low * PeriodBlocks + PeriodBlocks
      BY <3>1
    <3>3. CASE Len(encode_queue') = Len(encode_queue)
      <4>1. captured' - Len(encode_queue') = low + 1
        BY <1>1, <2>2, <3>3
      <4>. QED BY <3>2, <4>1 DEF PassedBlocks
    <3>4. CASE Len(encode_queue') = Len(encode_queue) + 1
      <4>1. captured' - Len(encode_queue') = low
        BY <1>1, <2>2, <3>4
      <4>. QED BY <4>1 DEF PassedBlocks
    <3>. QED BY <2>1, <3>3, <3>4
  <2>4. PassedBlocks \in Int
    BY <1>1, <2>2 DEF PassedBlocks
  <2>5. LastBlock(published) \in Int
    BY DEF LastBlock, CacheTypes, Messages, NoMessage
  <2>6. \A i \in 1 .. Len(mono_cache) : mono_cache[i] \in Nat
    BY ElementOfSeq DEF CacheTypes
  <2>7. CASE PassedBlocks' = PassedBlocks
    BY <1>2, <2>7 DEF OrderInv
  <2>8. CASE PassedBlocks' = PassedBlocks + PeriodBlocks
    <3>1. LastBlock(published) <= PassedBlocks + PeriodBlocks
      BY <2>4, <2>5 DEF OrderInv
    <3>2. \A i \in 1 .. Len(mono_cache) :
            LastBlock(published) < mono_cache[i] /\ mono_cache[i] <= PassedBlocks + PeriodBlocks
      BY <2>4, <2>6 DEF OrderInv
    <3>. QED BY <1>2, <2>8, <3>1, <3>2 DEF OrderInv
  <2>. QED BY <2>3, <2>7, <2>8
<1>. QED BY <1>3, <1>4, <1>5, <1>6, <1>7, <1>8

LEMMA LocalizerTakesInv == ASSUME Inv, LocalizerTakes PROVE Inv'
<1>. USE DEF Inv, LocalizerTakes
<1>1. UNCHANGED << opc, reopen, was_running, localize, sessions, cap, enc, mono_cache, seq,
                   pts, published, running, ppc, epc, encode_queue, captured >>
  BY DEF owner, devices, encoding
<1>2. ControlTypes' /\ OpenWhileUsed'
  BY <1>1 DEF ControlTypes, OpenWhileUsed, Gone
<1>3. OwnerInv' /\ CacheInv' /\ CacheTypes' /\ OrderInv' /\ NumberInv'
  BY <1>1 DEF OwnerInv, CacheInv, CacheTypes, OrderInv, PassedBlocks, NumberInv
<1>4. /\ localize_queue' \in Seq(Periods) /\ Len(localize_queue') = Len(localize_queue) - 1
      /\ Len(localize_queue) \in Nat \ {0}
      /\ \A i \in 1 .. Len(localize_queue') :
           localize_queue'[i] = captured - Len(localize_queue') + i
      /\ located' \in Periods
  BY TakeFacts DEF QueueTypes, QueuesHoldNewest, HoldsNewest
<1>5. QueueTypes'
  <2>1. Len(localize_queue') <= max_queue_size_
    BY <1>4, StreamerAssumption DEF QueueTypes
  <2>2. located' \in 0 .. MaxPeriods
    BY <1>4, StreamerAssumption DEF Periods
  <2>. QED BY <1>1, <1>4, <2>1, <2>2 DEF QueueTypes
<1>6. QueuesHoldNewest'
  BY <1>1, <1>4 DEF QueuesHoldNewest, HoldsNewest
<1>. QED BY <1>2, <1>3, <1>5, <1>6

(* The period's blocks come after all that has passed.                     *)
LEMMA EncoderTakesInv == ASSUME Inv, EncoderTakes PROVE Inv'
<1>. USE StreamerAssumption DEF Inv
<1>. DEFINE p == Head(encode_queue)
            low == captured - Len(encode_queue)
<1>1. /\ epc = "lock" /\ encode_queue # << >> /\ encode_queue' = Tail(encode_queue)
      /\ mono_cache' = mono_cache \o Blocks(p) /\ epc' = AfterCaching(mono_cache')
      /\ UNCHANGED << opc, reopen, was_running, localize, sessions, cap, enc, running, ppc, lpc,
                      localize_queue, captured, seq, pts, published, located >>
  BY DEF EncoderTakes, owner, devices
<1>2. /\ encode_queue' \in Seq(Periods) /\ Len(encode_queue') = Len(encode_queue) - 1
      /\ Len(encode_queue) \in Nat \ {0}
      /\ \A i \in 1 .. Len(encode_queue') :
           encode_queue'[i] = captured - Len(encode_queue') + i
      /\ p = low + 1 /\ p \in Periods
  BY <1>1, TakeFacts DEF QueueTypes, QueuesHoldNewest, HoldsNewest
<1>3. p \in Nat \ {0} /\ low \in Nat
  BY <1>2 DEF Periods, QueueTypes
<1>4. /\ Blocks(p) \in Seq(Nat) /\ Len(Blocks(p)) = PeriodBlocks
      /\ \A j \in 1 .. PeriodBlocks : Blocks(p)[j] = PassedBlocks + j
      /\ PassedBlocks' = PassedBlocks + PeriodBlocks /\ PassedBlocks \in Nat
  <2>1. p - 1 = low
    BY <1>2, <1>3
  <2>2. captured' - Len(encode_queue') = p
    BY <1>1, <1>2, <1>3 DEF QueueTypes
  <2>. QED BY <1>3, <2>1, <2>2, BlockFacts DEF PassedBlocks
<1>5. /\ mono_cache' \in Seq(Nat) /\ Len(mono_cache') = Len(mono_cache) + PeriodBlocks
      /\ \A i \in 1 .. Len(mono_cache') :
           mono_cache'[i] = IF i <= Len(mono_cache) THEN mono_cache[i]
                            ELSE PassedBlocks + (i - Len(mono_cache))
      /\ Len(mono_cache) \in Nat
  <2>1. /\ mono_cache' \in Seq(Nat) /\ Len(mono_cache') = Len(mono_cache) + PeriodBlocks
        /\ \A i \in 1 .. Len(mono_cache) + PeriodBlocks :
             mono_cache'[i] = IF i <= Len(mono_cache) THEN mono_cache[i]
                              ELSE Blocks(p)[i - Len(mono_cache)]
    BY <1>1, <1>4, ConcatProperties DEF CacheTypes
  <2>2. Len(mono_cache) \in Nat
    BY LenProperties DEF CacheTypes
  <2>3. \A i \in 1 .. Len(mono_cache) + PeriodBlocks :
          ~(i <= Len(mono_cache)) => i - Len(mono_cache) \in 1 .. PeriodBlocks
    BY <2>2
  <2>. QED BY <1>4, <2>1, <2>2, <2>3
<1>6. ControlTypes' /\ OpenWhileUsed'
  BY <1>1 DEF AfterCaching, ControlTypes, OpenWhileUsed, Gone
<1>7. OwnerInv' /\ NumberInv'
  BY <1>1 DEF AfterCaching, OwnerInv, NumberInv
<1>8. QueueTypes'
  <2>1. Len(encode_queue') <= max_queue_size_
    BY <1>2 DEF QueueTypes
  <2>. QED BY <1>1, <1>2, <2>1 DEF QueueTypes
<1>9. CacheTypes'
  BY <1>1, <1>5 DEF CacheTypes
<1>10. QueuesHoldNewest'
  BY <1>1, <1>2 DEF QueuesHoldNewest, HoldsNewest
<1>11. CacheInv'
  <2>1. Len(mono_cache) < FrameBlocks
    BY <1>1 DEF CacheInv
  <2>2. Len(mono_cache) + PeriodBlocks < FrameBlocks + PeriodBlocks
    BY <1>5, <2>1
  <2>. QED BY <1>1, <1>5, <2>2 DEF CacheInv, AfterCaching
<1>12. OrderInv'
  <2>1. LastBlock(published) \in Int
    BY DEF LastBlock, CacheTypes, Messages, NoMessage
  <2>2. \A i \in 1 .. Len(mono_cache) : mono_cache[i] \in Nat
    BY ElementOfSeq DEF CacheTypes
  <2>3. LastBlock(published) <= PassedBlocks + PeriodBlocks
    BY <1>4, <2>1 DEF OrderInv
  <2>4. \A i \in 1 .. Len(mono_cache') :
          LastBlock(published) < mono_cache'[i] /\ mono_cache'[i] <= PassedBlocks + PeriodBlocks
    <3>. SUFFICES ASSUME NEW i \in 1 .. Len(mono_cache')
                  PROVE  LastBlock(published) < mono_cache'[i]
                         /\ mono_cache'[i] <= PassedBlocks + PeriodBlocks
      OBVIOUS
    <3>1. CASE i \in 1 .. Len(mono_cache)
      <4>1. mono_cache'[i] = mono_cache[i]
        BY <1>5, <3>1
      <4>2. LastBlock(published) < mono_cache[i] /\ mono_cache[i] <= PassedBlocks
        BY <3>1 DEF OrderInv
      <4>3. mono_cache[i] \in Nat
        BY <2>2, <3>1
      <4>4. mono_cache[i] <= PassedBlocks + PeriodBlocks
        BY <1>4, <4>2, <4>3
      <4>. QED BY <4>1, <4>2, <4>4
    <3>2. CASE i \notin 1 .. Len(mono_cache)
      <4>1. mono_cache'[i] = PassedBlocks + (i - Len(mono_cache))
        BY <1>5, <3>2
      <4>2. i - Len(mono_cache) \in 1 .. PeriodBlocks
        BY <1>5, <3>2
      <4>3. LastBlock(published) < PassedBlocks + (i - Len(mono_cache))
            /\ PassedBlocks + (i - Len(mono_cache)) <= PassedBlocks + PeriodBlocks
        BY <1>4, <2>1, <4>2 DEF OrderInv
      <4>. QED BY <4>1, <4>3
    <3>. QED BY <3>1, <3>2
  <2>5. \A i, j \in 1 .. Len(mono_cache') : i < j => mono_cache'[i] < mono_cache'[j]
    <3>. SUFFICES ASSUME NEW i \in 1 .. Len(mono_cache'), NEW j \in 1 .. Len(mono_cache'), i < j
                  PROVE  mono_cache'[i] < mono_cache'[j]
      OBVIOUS
    <3>1. CASE j \in 1 .. Len(mono_cache)
      <4>1. i \in 1 .. Len(mono_cache)
        BY <1>5, <3>1
      <4>2. mono_cache'[i] = mono_cache[i] /\ mono_cache'[j] = mono_cache[j]
        BY <1>5, <3>1, <4>1
      <4>3. mono_cache[i] < mono_cache[j]
        BY <3>1, <4>1 DEF OrderInv
      <4>. QED BY <4>2, <4>3
    <3>2. CASE j \notin 1 .. Len(mono_cache) /\ i \in 1 .. Len(mono_cache)
      <4>1. mono_cache'[j] = PassedBlocks + (j - Len(mono_cache)) /\ mono_cache'[i] = mono_cache[i]
        BY <1>5, <3>2
      <4>2. mono_cache[i] <= PassedBlocks /\ mono_cache[i] \in Nat
        BY <2>2, <3>2 DEF OrderInv
      <4>3. j - Len(mono_cache) \in 1 .. PeriodBlocks
        BY <1>5, <3>2
      <4>4. mono_cache[i] < PassedBlocks + (j - Len(mono_cache))
        BY <1>4, <4>2, <4>3
      <4>. QED BY <4>1, <4>4
    <3>3. CASE j \notin 1 .. Len(mono_cache) /\ i \notin 1 .. Len(mono_cache)
      <4>1. /\ mono_cache'[j] = PassedBlocks + (j - Len(mono_cache))
            /\ mono_cache'[i] = PassedBlocks + (i - Len(mono_cache))
        BY <1>5, <3>3
      <4>2. PassedBlocks + (i - Len(mono_cache)) < PassedBlocks + (j - Len(mono_cache))
        BY <1>4, <1>5
      <4>. QED BY <4>1, <4>2
    <3>. QED BY <3>1, <3>2, <3>3
  <2>6. LastBlock(published') <= PassedBlocks'
    BY <1>1, <1>4, <2>3
  <2>7. \A i \in 1 .. Len(mono_cache') :
          LastBlock(published') < mono_cache'[i] /\ mono_cache'[i] <= PassedBlocks'
    BY <1>1, <1>4, <2>4
  <2>. QED BY <2>5, <2>6, <2>7 DEF OrderInv
<1>. QED BY <1>6, <1>7, <1>8, <1>9, <1>10, <1>11, <1>12

(* A frame's worth of samples leaves the cache, oldest first.              *)
LEMMA FrameFacts ==
  ASSUME Inv, epc = "encode"
  PROVE  /\ Len(mono_cache) \in Nat /\ FrameBlocks <= Len(mono_cache)
         /\ RestOfCache \in Seq(Nat) /\ Len(RestOfCache) = Len(mono_cache) - FrameBlocks
         /\ \A i \in 1 .. Len(RestOfCache) : RestOfCache[i] = mono_cache[i + FrameBlocks]
         /\ SubSeq(mono_cache, 1, FrameBlocks) \in Seq(Nat)
         /\ Len(SubSeq(mono_cache, 1, FrameBlocks)) = FrameBlocks
         /\ \A i \in 1 .. FrameBlocks : SubSeq(mono_cache, 1, FrameBlocks)[i] = mono_cache[i]
         /\ \A i \in 1 .. Len(mono_cache) : mono_cache[i] \in Nat
<1>. USE StreamerAssumption DEF Inv
<1>1. Len(mono_cache) \in Nat /\ FrameBlocks <= Len(mono_cache)
  BY LenProperties DEF CacheTypes, CacheInv
<1>2. \A i \in 1 .. Len(mono_cache) : mono_cache[i] \in Nat
  BY ElementOfSeq DEF CacheTypes
<1>3. \A i \in FrameBlocks + 1 .. Len(mono_cache) : mono_cache[i] \in Nat
  BY <1>1, <1>2
<1>4. /\ RestOfCache \in Seq(Nat)
      /\ Len(RestOfCache) = IF FrameBlocks + 1 <= Len(mono_cache)
                            THEN Len(mono_cache) - (FrameBlocks + 1) + 1 ELSE 0
      /\ \A i \in 1 .. Len(mono_cache) - (FrameBlocks + 1) + 1 :
           RestOfCache[i] = mono_cache[FrameBlocks + 1 + i - 1]
  BY <1>1, <1>3, SubSeqProperties DEF RestOfCache
<1>5. \A i \in 1 .. FrameBlocks : mono_cache[i] \in Nat
  BY <1>1, <1>2
<1>6. /\ SubSeq(mono_cache, 1, FrameBlocks) \in Seq(Nat)
      /\ Len(SubSeq(mono_cache, 1, FrameBlocks)) = IF 1 <= FrameBlocks THEN FrameBlocks - 1 + 1 ELSE 0
      /\ \A i \in 1 .. FrameBlocks - 1 + 1 :
           SubSeq(mono_cache, 1, FrameBlocks)[i] = mono_cache[1 + i - 1]
  BY <1>5, SubSeqProperties
<1>7. Len(RestOfCache) = Len(mono_cache) - FrameBlocks
  BY <1>1, <1>4
<1>8. \A i \in 1 .. Len(RestOfCache) : RestOfCache[i] = mono_cache[i + FrameBlocks]
  <2>. SUFFICES ASSUME NEW i \in 1 .. Len(RestOfCache)
                PROVE  RestOfCache[i] = mono_cache[i + FrameBlocks]
    OBVIOUS
  <2>1. FrameBlocks + 1 + i - 1 = i + FrameBlocks /\ i \in 1 .. Len(mono_cache) - (FrameBlocks + 1) + 1
    BY <1>1, <1>7
  <2>. QED BY <1>4, <2>1
<1>9. Len(SubSeq(mono_cache, 1, FrameBlocks)) = FrameBlocks
  BY <1>6
<1>10. \A i \in 1 .. FrameBlocks : SubSeq(mono_cache, 1, FrameBlocks)[i] = mono_cache[i]
  <2>. SUFFICES ASSUME NEW i \in 1 .. FrameBlocks
                PROVE  SubSeq(mono_cache, 1, FrameBlocks)[i] = mono_cache[i]
    OBVIOUS
  <2>1. 1 + i - 1 = i /\ i \in 1 .. FrameBlocks - 1 + 1
    OBVIOUS
  <2>. QED BY <1>6, <2>1
<1>. QED BY <1>1, <1>2, <1>4, <1>6, <1>7, <1>8, <1>9, <1>10

LEMMA EncodeInv == ASSUME Inv, EncodeNoOutput \/ Encode PROVE Inv'
<1>. USE StreamerAssumption DEF Inv
<1>. DEFINE first == SubSeq(mono_cache, 1, FrameBlocks)
<1>1. /\ epc = "encode" /\ mono_cache' = RestOfCache /\ pts' = pts + 1
      /\ UNCHANGED << opc, reopen, was_running, localize, sessions, cap, enc, running, ppc, lpc,
                      encode_queue, localize_queue, captured, located >>
      /\ \/ /\ epc' = AfterCaching(RestOfCache)
            /\ UNCHANGED << published, seq >>
         \/ /\ epc' = "publish"
            /\ published' = [session |-> sessions, seq |-> seq, pts |-> pts, blocks |-> first]
            /\ seq' = seq + 1
  BY DEF EncodeNoOutput, Encode, owner, devices, queues
<1>2. /\ Len(mono_cache) \in Nat /\ FrameBlocks <= Len(mono_cache)
      /\ RestOfCache \in Seq(Nat) /\ Len(RestOfCache) = Len(mono_cache) - FrameBlocks
      /\ \A i \in 1 .. Len(RestOfCache) : RestOfCache[i] = mono_cache[i + FrameBlocks]
      /\ first \in Seq(Nat) /\ Len(first) = FrameBlocks
      /\ \A i \in 1 .. FrameBlocks : first[i] = mono_cache[i]
      /\ \A i \in 1 .. Len(mono_cache) : mono_cache[i] \in Nat
  BY <1>1, FrameFacts
<1>3. ControlTypes' /\ OpenWhileUsed'
  BY <1>1 DEF AfterCaching, ControlTypes, OpenWhileUsed, Gone
<1>4. OwnerInv' /\ QueueTypes' /\ QueuesHoldNewest'
  BY <1>1 DEF AfterCaching, OwnerInv, QueueTypes, QueuesHoldNewest, HoldsNewest
<1>5. CacheTypes'
  <2>1. seq' \in Nat /\ pts' \in Nat
    BY <1>1 DEF CacheTypes
  <2>2. published' \in Messages \cup {NoMessage}
    <3>1. CASE UNCHANGED << published, seq >>
      BY <3>1 DEF CacheTypes
    <3>2. CASE published' = [session |-> sessions, seq |-> seq, pts |-> pts, blocks |-> first]
      <4>1. sessions \in Nat /\ seq \in Nat /\ pts \in Nat /\ first \in Seq(Nat)
        BY <1>2 DEF CacheTypes, ControlTypes
      <4>. HIDE DEF first
      <4>. QED BY <3>2, <4>1 DEF Messages
    <3>. QED BY <1>1, <3>1, <3>2
  <2>. QED BY <1>1, <1>2, <2>1, <2>2 DEF CacheTypes
<1>6. CacheInv'
  <2>1. Len(RestOfCache) < FrameBlocks + PeriodBlocks
    BY <1>2 DEF CacheInv
  <2>2. Len(RestOfCache) \in Nat
    BY <1>2
  <2>3. CASE epc' = "publish"
    BY <1>1, <2>1, <2>3 DEF CacheInv
  <2>4. CASE epc' = AfterCaching(RestOfCache)
    BY <1>1, <2>1, <2>2, <2>4 DEF CacheInv, AfterCaching
  <2>. QED BY <1>1, <2>3, <2>4
<1>7. NumberInv'
  <2>1. CASE UNCHANGED << published, seq >>
    BY <1>1, <2>1 DEF NumberInv
  <2>2. CASE /\ published' = [session |-> sessions, seq |-> seq, pts |-> pts, blocks |-> first]
             /\ seq' = seq + 1
    BY <1>1, <2>2 DEF NumberInv, ControlTypes
  <2>. QED BY <1>1, <2>1, <2>2
<1>8. OrderInv'
  <2>1. PassedBlocks' = PassedBlocks
    BY <1>1 DEF PassedBlocks
  <2>2. LastBlock(published) \in Int
    BY DEF LastBlock, CacheTypes, Messages, NoMessage
  <2>3. LastBlock(published') <= mono_cache[FrameBlocks]
    <3>1. FrameBlocks \in 1 .. Len(mono_cache) /\ mono_cache[FrameBlocks] \in Nat
      BY <1>2
    <3>2. LastBlock(published) < mono_cache[FrameBlocks]
      BY <3>1 DEF OrderInv
    <3>3. CASE UNCHANGED << published, seq >>
      BY <2>2, <3>1, <3>2, <3>3
    <3>4. CASE published' = [session |-> sessions, seq |-> seq, pts |-> pts, blocks |-> first]
      <4>1. published'.blocks = first
        BY <3>4
      <4>2. first # << >>
        BY <1>2, EmptySeq
      <4>3. LastBlock(published') = first[FrameBlocks]
        BY <1>2, <4>1, <4>2 DEF LastBlock
      <4>. QED BY <1>2, <3>1, <4>3
    <3>. QED BY <1>1, <3>3, <3>4
  <2>4. LastBlock(published') \in Int
    BY <1>5 DEF LastBlock, CacheTypes, Messages, NoMessage
  <2>5. mono_cache[FrameBlocks] \in Nat /\ mono_cache[FrameBlocks] <= PassedBlocks
    BY <1>2 DEF OrderInv
  <2>6. PassedBlocks \in Int
    <3>1. Len(encode_queue) \in Nat
      BY LenProperties DEF QueueTypes
    <3>. QED BY <3>1 DEF PassedBlocks, QueueTypes
  <2>7. LastBlock(published') <= PassedBlocks'
    <3>. DEFINE last == LastBlock(published')
    <3>1. last \in Int /\ last <= mono_cache[FrameBlocks]
      BY <2>3, <2>4
    <3>. HIDE DEF last
    <3>2. last <= PassedBlocks
      BY <2>5, <2>6, <3>1
    <3>. QED BY <2>1, <3>2 DEF last
  <2>8. \A i \in 1 .. Len(RestOfCache) :
          /\ i + FrameBlocks \in 1 .. Len(mono_cache)
          /\ mono_cache[i + FrameBlocks] \in Nat
          /\ mono_cache[FrameBlocks] < mono_cache[i + FrameBlocks]
    <3>. SUFFICES ASSUME NEW i \in 1 .. Len(RestOfCache)
                  PROVE  /\ i + FrameBlocks \in 1 .. Len(mono_cache)
                         /\ mono_cache[i + FrameBlocks] \in Nat
                         /\ mono_cache[FrameBlocks] < mono_cache[i + FrameBlocks]
      OBVIOUS
    <3>1. i + FrameBlocks \in 1 .. Len(mono_cache) /\ FrameBlocks \in 1 .. Len(mono_cache)
          /\ FrameBlocks < i + FrameBlocks
      BY <1>2
    <3>. QED BY <1>2, <3>1 DEF OrderInv
  <2>9. \A i \in 1 .. Len(mono_cache') :
          LastBlock(published') < mono_cache'[i] /\ mono_cache'[i] <= PassedBlocks'
    <3>. SUFFICES ASSUME NEW i \in 1 .. Len(RestOfCache)
                  PROVE  LastBlock(published') < RestOfCache[i] /\ RestOfCache[i] <= PassedBlocks
      BY <1>1, <2>1
    <3>. DEFINE last == LastBlock(published')
    <3>1. last \in Int /\ last <= mono_cache[FrameBlocks]
      BY <2>3, <2>4
    <3>2. mono_cache[i + FrameBlocks] <= PassedBlocks
      BY <2>8 DEF OrderInv
    <3>. HIDE DEF last
    <3>3. last < mono_cache[i + FrameBlocks]
      BY <2>5, <2>8, <3>1
    <3>4. RestOfCache[i] = mono_cache[i + FrameBlocks]
      BY <1>2
    <3>. QED BY <3>2, <3>3, <3>4 DEF last
  <2>10. \A i, j \in 1 .. Len(mono_cache') : i < j => mono_cache'[i] < mono_cache'[j]
    <3>. SUFFICES ASSUME NEW i \in 1 .. Len(RestOfCache), NEW j \in 1 .. Len(RestOfCache), i < j
                  PROVE  RestOfCache[i] < RestOfCache[j]
      BY <1>1
    <3>1. i + FrameBlocks < j + FrameBlocks
      BY <1>2
    <3>2. mono_cache[i + FrameBlocks] < mono_cache[j + FrameBlocks]
      BY <2>8, <3>1 DEF OrderInv
    <3>. QED BY <1>2, <3>2
  <2>. QED BY <2>7, <2>9, <2>10 DEF OrderInv
<1>. QED BY <1>3, <1>4, <1>5, <1>6, <1>7, <1>8

-----------------------------------------------------------------------------
LEMMA NextInv == Inv /\ [Next]_vars => Inv'
<1>. SUFFICES ASSUME Inv, [Next]_vars PROVE Inv'
  OBVIOUS
<1>1. CASE Stop \/ (\E loc \in BOOLEAN : Start(loc)) \/ Owner
  BY <1>1, OwnerSteps, OpenedInv DEF Owner
<1>2. CASE Producer
  BY <1>2, ThreadSteps, PushPeriodInv DEF Producer
<1>3. CASE Encoder \/ EncoderWakes
  BY <1>3, ThreadSteps, EncoderTakesInv, EncodeInv DEF Encoder
<1>4. CASE Localizer \/ LocalizerWakes
  BY <1>4, ThreadSteps, LocalizerTakesInv DEF Localizer
<1>5. CASE UNCHANGED vars
  <2>1. UNCHANGED << data, opc, reopen, was_running, localize, running, cap, enc, ppc, epc, lpc >>
    BY <1>5 DEF vars, data, owner, devices
  <2>2. (ControlTypes /\ OpenWhileUsed)'
    BY <2>1 DEF Inv, ControlTypes, OpenWhileUsed, data
  <2>3. (OwnerInv /\ CacheInv)'
    BY <2>1 DEF Inv, OwnerInv, CacheInv, data, queues, encoding
  <2>. QED BY <2>1, <2>2, <2>3, DataKept DEF Inv
<1>. QED BY <1>1, <1>2, <1>3, <1>4, <1>5 DEF Next

(* Every state of the streamer satisfies the strengthening.                *)
THEOREM InvHolds == Spec => []Inv
BY InitInv, NextInv, PTL DEF Spec

LEMMA InvIsTyped == Inv => TypeOK
BY DEF Inv, ControlTypes, QueueTypes, CacheTypes, CacheInv, TypeOK

(* Every variable of the streamer keeps its type; in particular, neither   *)
(* queue ever exceeds max_queue_size_, and the encoder's cache never holds *)
(* as much as a frame and a period.                                        *)
THEOREM TypeCorrect == Spec => []TypeOK
BY InvHolds, InvIsTyped, PTL

(* Both queues always hold the newest periods, without a gap.              *)
THEOREM QueuesCorrect == Spec => []QueuesHoldNewest
<1>1. Inv => QueuesHoldNewest
  BY DEF Inv
<1>. QED BY <1>1, InvHolds, PTL

(* No thread finds the device or the encoder closed under it.              *)
THEOREM OpenCorrect == Spec => []OpenWhileUsed
<1>1. Inv => OpenWhileUsed
  BY DEF Inv
<1>. QED BY <1>1, InvHolds, PTL

(* The messages of a session are numbered without a gap, and no sample is  *)
(* published twice or out of order, over any number of sessions.           *)
THEOREM OrderCorrect == Spec => InCaptureOrder
<1>1. ASSUME Inv, Next PROVE FollowsOn
  <2>1. CASE Encode
    <3>. USE StreamerAssumption
    <3>1. /\ epc = "encode"
          /\ published' = [session |-> sessions, seq |-> seq, pts |-> pts,
                           blocks |-> SubSeq(mono_cache, 1, FrameBlocks)]
      BY <2>1 DEF Encode
    <3>2. /\ \A i \in 1 .. FrameBlocks : published'.blocks[i] = mono_cache[i]
          /\ Len(mono_cache) \in Nat /\ FrameBlocks <= Len(mono_cache)
      BY <1>1, <3>1, FrameFacts
    <3>3. published'.seq = IF published'.session = published.session
                           THEN published.seq + 1 ELSE 0
      BY <1>1, <3>1 DEF Inv, NumberInv
    <3>4. published'.blocks[1] > LastBlock(published)
      <4>1. 1 \in 1 .. FrameBlocks /\ 1 \in 1 .. Len(mono_cache)
        BY <3>2
      <4>2. LastBlock(published) < mono_cache[1]
        BY <1>1, <4>1 DEF Inv, OrderInv
      <4>. QED BY <3>2, <4>1, <4>2
    <3>5. ASSUME NEW i \in 1 .. FrameBlocks - 1
          PROVE  published'.blocks[i] < published'.blocks[i + 1]
      <4>1. /\ i \in 1 .. FrameBlocks /\ i + 1 \in 1 .. FrameBlocks /\ i < i + 1
            /\ i \in 1 .. Len(mono_cache) /\ i + 1 \in 1 .. Len(mono_cache)
        BY <3>2
      <4>2. mono_cache[i] < mono_cache[i + 1]
        BY <1>1, <4>1 DEF Inv, OrderInv
      <4>. QED BY <3>2, <4>1, <4>2
    <3>. QED BY <3>3, <3>4, <3>5 DEF FollowsOn
  <2>2. CASE ~Encode
    <3>1. published' = published
      BY <1>1, <2>2 DEF Next, Owner, Producer, Encoder, Localizer, Stop, Start, StopNotify, Join,
         OpenFails, InitFails, Opened, ProducerLoop, ReadPeriod, ReadNothing, ReadFails,
         PushPeriod, Notify, EncoderLoop, EncoderFindsNothing, EncoderSleeps, EncoderWakes,
         EncoderTakes, EncodeNoOutput, PublishReturns, EncodeFails, LocalizerLoop,
         LocalizerFindsNothing, LocalizerSleeps, LocalizerWakes, LocalizerTakes, Locate,
         encoding
    <3>. QED BY <3>1 DEF FollowsOn
  <2>. QED BY <2>1, <2>2
<1>2. Inv /\ [Next]_vars => [FollowsOn]_vars
  BY <1>1
<1>. QED BY <1>2, InvHolds, PTL DEF Spec, InCaptureOrder

-----------------------------------------------------------------------------
(* Falling asleep. Whoever is about to sleep has found its queue empty and *)
(* holds the mutex, so that nothing is pushed and stop does not notify     *)
(* before it sleeps; and a call of the owner in progress has ended the     *)
(* session, so that nobody goes to sleep once stop has notified.           *)
SleepInv ==
  /\ opc # "idle" => ~running
  /\ epc = "block" => encode_queue = << >>
  /\ lpc = "block" => localize_queue = << >>
  /\ NoMissedNotify

LEMMA OwnerSleep ==
  ASSUME SleepInv, Stop \/ (\E loc \in BOOLEAN : Start(loc)) \/ Owner
  PROVE  SleepInv'
<1>. USE DEF SleepInv, NoMissedNotify, Asleep, queues
<1>1. CASE Stop \/ (\E loc \in BOOLEAN : Start(loc))
  <2>1. /\ running' = FALSE /\ was_running' = running
        /\ opc = "idle" /\ opc' = IF running THEN "notify" ELSE "join"
        /\ UNCHANGED << ppc, epc, lpc, encode_queue, localize_queue >>
    BY <1>1 DEF Stop, Start, ExchangeRunning
  <2>2. CASE running
    BY <2>1, <2>2
  <2>3. CASE ~running
    <3>1. ~was_running' /\ opc' = "join" /\ ~Asleep(epc)
      BY <2>1, <2>3
    <3>. QED BY <2>1, <3>1
  <2>. QED BY <2>2, <2>3
<1>2. CASE StopNotify
  <2>1. /\ opc = "notify" /\ opc' = "join" /\ ~Asleep(epc') /\ ~Asleep(lpc')
        /\ UNCHANGED << running, ppc, encode_queue, localize_queue >>
    BY <1>2 DEF StopNotify, MutexFree, WakeAll
  <2>. QED BY <2>1
<1>3. CASE Join
  BY <1>3 DEF Join
<1>4. CASE OpenFails \/ InitFails
  BY <1>4 DEF OpenFails, InitFails
<1>5. CASE Opened
  BY <1>5 DEF Opened
<1>. QED BY <1>1, <1>2, <1>3, <1>4, <1>5 DEF Owner

LEMMA ProducerSleep == ASSUME SleepInv, Producer PROVE SleepInv'
<1>. USE DEF SleepInv, NoMissedNotify, Asleep, owner, queues
<1>1. CASE ProducerLoop \/ ReadPeriod \/ ReadNothing \/ ReadFails
  BY <1>1 DEF ProducerLoop, ReadPeriod, ReadNothing, ReadFails
<1>2. CASE PushPeriod
  BY <1>2 DEF PushPeriod, MutexFree
<1>3. CASE Notify
  <2>1. /\ epc' \in {epc, "lock"} /\ epc' # "waiting"
        /\ lpc' \in {lpc, "lock"} /\ lpc' # "waiting"
        /\ UNCHANGED << opc, was_running, running, encode_queue, localize_queue >>
    BY <1>3 DEF Notify, WakeAll
  <2>. QED BY <2>1
<1>. QED BY <1>1, <1>2, <1>3 DEF Producer

LEMMA EncoderSleep == ASSUME SleepInv, Encoder \/ EncoderWakes PROVE SleepInv'
<1>. USE DEF SleepInv, NoMissedNotify, Asleep, owner, queues
<1>1. CASE EncoderLoop \/ EncoderWakes \/ PublishReturns
  BY <1>1 DEF EncoderLoop, EncoderWakes, PublishReturns, AfterCaching
<1>2. CASE EncoderFindsNothing
  BY <1>2 DEF EncoderFindsNothing
<1>3. CASE EncoderSleeps
  BY <1>3 DEF EncoderSleeps
<1>4. CASE EncoderTakes
  <2>1. epc' \in {"encode", "loop"}
    BY <1>4 DEF EncoderTakes, AfterCaching
  <2>2. UNCHANGED << owner, running, ppc, lpc, localize_queue >>
    BY <1>4 DEF EncoderTakes
  <2>. QED BY <2>1, <2>2
<1>5. CASE EncodeNoOutput \/ Encode
  <2>1. epc' \in {"encode", "loop", "publish"}
    BY <1>5 DEF EncodeNoOutput, Encode, AfterCaching
  <2>2. UNCHANGED << owner, running, ppc, lpc, queues >>
    BY <1>5 DEF EncodeNoOutput, Encode
  <2>. QED BY <2>1, <2>2
<1>6. CASE EncodeFails
  BY <1>6 DEF EncodeFails
<1>. QED BY <1>1, <1>2, <1>3, <1>4, <1>5, <1>6 DEF Encoder

LEMMA LocalizerSleep == ASSUME SleepInv, Localizer \/ LocalizerWakes PROVE SleepInv'
<1>. USE DEF SleepInv, NoMissedNotify, Asleep, owner, queues
<1>1. CASE LocalizerLoop \/ LocalizerWakes \/ Locate
  BY <1>1 DEF LocalizerLoop, LocalizerWakes, Locate
<1>2. CASE LocalizerFindsNothing
  BY <1>2 DEF LocalizerFindsNothing
<1>3. CASE LocalizerSleeps
  BY <1>3 DEF LocalizerSleeps
<1>4. CASE LocalizerTakes
  BY <1>4 DEF LocalizerTakes
<1>. QED BY <1>1, <1>2, <1>3, <1>4 DEF Localizer

(* No notification is missed: neither of two consumers on one condition    *)
(* variable sleeps over a period or over the end of the session, and a     *)
(* stop that found the streamer running joins nobody who sleeps, for every *)
(* queue length, failure and number of sessions. (What NoMissedNotify does *)
(* not promise is a localizer woken after the encoder has failed.)         *)
THEOREM NotifyCorrect == Spec => []NoMissedNotify
<1>1. Init => SleepInv
  BY DEF Init, SleepInv, NoMissedNotify, Asleep
<1>2. SleepInv /\ [Next]_vars => SleepInv'
  <2>. SUFFICES ASSUME SleepInv, [Next]_vars PROVE SleepInv'
    OBVIOUS
  <2>1. CASE Next
    BY <2>1, OwnerSleep, ProducerSleep, EncoderSleep, LocalizerSleep DEF Next
  <2>2. CASE UNCHANGED vars
    BY <2>2 DEF vars, owner, queues, SleepInv, NoMissedNotify, Asleep
  <2>. QED BY <2>1, <2>2
<1>3. SleepInv => NoMissedNotify
  BY DEF SleepInv
<1>. QED BY <1>1, <1>2, <1>3, PTL DEF Spec

=============================================================================
