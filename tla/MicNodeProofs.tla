----------------------------- MODULE MicNodeProofs -----------------------------
(***************************************************************************)
(* Proofs about MicNode, for any number of commands, signals and lost      *)
(* connections: its types, that the stream is what the last command asked  *)
(* for, and that a stop that has returned is final.                        *)
(***************************************************************************)
EXTENDS MicNode, TLAPS

(* TypeOK without the queue.                                               *)
PlainTypes ==
  /\ SessionType
  /\ pc \in [Frames -> StopPcs \cup {"connect", "subscribe", "running", "spawn", "run",
                                    "none", "exited", "crashed"}]
  /\ final \in {"no", "reset", "exit"} /\ signals \in 0 .. MaxSignals
  /\ running \in BOOLEAN
  /\ cpc \in {"idle", "notify"} /\ last \in BOOLEAN
  /\ wpc \in {"none", "loop", "lock", "block", "waiting", "act", "exited", "joined"}
  /\ cmd \in BOOLEAN
  /\ stream \in {"none", "live", "dead"} /\ refused \in BOOLEAN

QueueTypes ==
  /\ received \in 0 .. MaxCommands
  /\ queue \in Seq(BOOLEAN) /\ Len(queue) <= received

(* Until main has created the worker nothing is taken from the queue and   *)
(* nothing is started.                                                     *)
BeforeWorker ==
  /\ pc["main"] \in {"connect", "subscribe", "running", "spawn"} => wpc = "none"
  /\ wpc = "none" => Len(queue) = received /\ stream = "none"

(* The last command is the last in the queue, or else the one acted on.    *)
LastCommand ==
  /\ queue # << >> => last = queue[Len(queue)]
  /\ wpc = "act" => /\ ~refused /\ Len(queue) < received
                    /\ queue = << >> => cmd = last

(* A stop that is past the join has no worker beside it ...                *)
Joined ==
  \A f \in Frames :
    /\ pc[f] \in {"stream", "disconnect"} => wpc \in {"none", "joined"}
    /\ pc[f] = "disconnect" => stream = "none"

(* ... and neither before init sets it, nor while a frame stops the node,   *)
(* is it running.                                                          *)
NotRunning ==
  /\ pc["main"] \in StopPcs \cup {"connect", "subscribe", "running", "exited"} => ~running
  /\ pc["handler"] \in StopPcs \ {"halt"} => ~running

Inv ==
  /\ BeforeWorker /\ LastCommand /\ Joined /\ NotRunning
  /\ FollowsCommands /\ QuietOnceStopped

-----------------------------------------------------------------------------
LEMMA TypeSplit == TypeOK <=> PlainTypes /\ QueueTypes
  BY DEF TypeOK, PlainTypes, QueueTypes

LEMMA InitTypes == Init => TypeOK
<1> SUFFICES ASSUME Init PROVE TypeOK
  OBVIOUS
<1>1. link \in {"off", "up", "lost"} /\ losses \in 0 .. MaxLosses
  BY SubscriberAssumption DEF Init, SessionInit
<1>2. subscribed \in BOOLEAN
  BY Zenon DEF Init, SessionInit
<1>3. running \in BOOLEAN /\ last \in BOOLEAN /\ cmd \in BOOLEAN /\ refused \in BOOLEAN
  BY Zenon DEF Init
<1>4. queue \in Seq(BOOLEAN) /\ Len(queue) <= received /\ received \in 0 .. MaxCommands
  BY NodeAssumption DEF Init
<1>5. pc["main"] = "connect" /\ pc["handler"] = "none" /\ DOMAIN pc = Frames
  BY DEF Init, Frames
<1> QED
  BY <1>1, <1>2, <1>3, <1>4, <1>5, NodeAssumption
  DEF Init, TypeOK, SessionType, Frames, StopPcs

LEMMA InitInv == Init => Inv
  BY DEF Init, Inv, BeforeWorker, LastCommand, Joined, NotRunning, FollowsCommands,
     QuietOnceStopped, Stopped, Frames, StopPcs

LEMMA PlainTypesKept ==
  ASSUME PlainTypes, QueueTypes, Next PROVE PlainTypes'
<1> USE SubscriberAssumption, NodeAssumption
    DEF PlainTypes, QueueTypes, SessionType, Frames, StopPcs, Goto, session, main, commands,
        worker, streamer
<1>1. CASE InitFails
  BY <1>1 DEF InitFails
<1>2. CASE Connect
  BY <1>2 DEF Connect, ConnectSucceeds
<1>3. CASE Subscribe
  BY <1>3 DEF Subscribe, SubscribeSucceeds
<1>4. CASE SetRunning
  BY <1>4 DEF SetRunning
<1>5. CASE SpawnWorker
  BY <1>5 DEF SpawnWorker
<1>6. CASE RunEnds
  BY <1>6 DEF RunEnds
<1>7. ASSUME NEW f \in Frames,
               Halt(f) \/ Lock(f) \/ NotifyAll(f) \/ Join(f) \/ CloseStream(f) \/ StopReturns(f)
      PROVE  PlainTypes'
  <2>1. CASE Halt(f)
    <3>1. running' \in BOOLEAN
      BY <2>1, Zenon DEF Halt
    <3>2. UNCHANGED << session, final, signals, commands, worker, streamer >> /\ Goto(f, "lock")
      BY <2>1 DEF Halt
    <3> QED
      BY <3>1, <3>2
  <2>2. CASE Lock(f)
    BY <2>2 DEF Lock
  <2>3. CASE NotifyAll(f)
    BY <2>3 DEF NotifyAll, WakeWorker
  <2>4. CASE Join(f)
    BY <2>4 DEF Join, Joinable
  <2>5. CASE CloseStream(f)
    BY <2>5 DEF CloseStream
  <2>6. CASE StopReturns(f)
    <3>1. link' = "off" /\ losses' = losses /\ subscribed' = FALSE
      BY <2>6 DEF StopReturns, Disconnect
    <3>2. \E l \in {"none", "halt", "exited"} : pc' = [pc EXCEPT ![f] = l]
      BY <2>6 DEF StopReturns
    <3>3. pc' \in [Frames -> StopPcs \cup {"connect", "subscribe", "running", "spawn", "run",
                                           "none", "exited", "crashed"}]
      BY <3>2
    <3>4. final' \in {"no", "reset", "exit"}
      BY <2>6 DEF StopReturns
    <3>5. UNCHANGED << signals, running, commands, worker, streamer >>
      BY <2>6 DEF StopReturns
    <3>6. subscribed' \in BOOLEAN
      BY <3>1, Zenon
    <3> QED
      BY <3>1, <3>3, <3>4, <3>5, <3>6
  <2> QED
    BY <1>7, <2>1, <2>2, <2>3, <2>4, <2>5, <2>6
<1>8. CASE JoinTwice
  BY <1>8 DEF JoinTwice
<1>9. CASE Signal
  BY <1>9 DEF Signal
<1>10. CASE Callback
  BY <1>10 DEF Callback, NotifyOne, WakeWorker
<1>11. CASE WorkerLoop
  BY <1>11 DEF WorkerLoop
<1>12. CASE FindsNothing
  BY <1>12 DEF FindsNothing
<1>13. CASE FallAsleep
  BY <1>13 DEF FallAsleep
<1>14. CASE TakeCommand
  <2>1. Head(queue) \in BOOLEAN
    BY <1>14 DEF TakeCommand
  <2>2. cmd' \in BOOLEAN /\ refused' \in BOOLEAN
    BY <1>14, <2>1, Zenon DEF TakeCommand
  <2>3. UNCHANGED << session, main, cpc, received, last, stream >> /\ wpc' = "act"
    BY <1>14 DEF TakeCommand
  <2> QED
    BY <2>2, <2>3
<1>15. CASE IgnoreStart
  BY <1>15 DEF IgnoreStart
<1>16. CASE StartStream
  BY <1>16 DEF StartStream
<1>17. CASE StartFails
  BY <1>17 DEF StartFails
<1>18. CASE StopStream
  BY <1>18 DEF StopStream
<1>19. CASE Network
  <2>1. CASE Reconnected
    BY <2>1 DEF Reconnected, Reconnect
  <2>2. CASE ConnectionLost /\ UNCHANGED << main, commands, worker, streamer >>
    <3>1. subscribed' \in BOOLEAN
      BY <2>2, Zenon DEF ConnectionLost
    <3>2. link' = "lost" /\ losses' \in 0 .. MaxLosses
      BY <2>2 DEF ConnectionLost
    <3> QED
      BY <2>2, <3>1, <3>2
  <2> QED
    BY <1>19, <2>1, <2>2 DEF Network
<1>20. ASSUME NEW start \in BOOLEAN, PushCommand(start) PROVE PlainTypes'
  BY <1>20 DEF PushCommand, Receiving
<1>21. CASE WakeUp
  BY <1>21 DEF WakeUp
<1>22. CASE StreamDies
  BY <1>22 DEF StreamDies
<1> QED
  BY <1>1, <1>2, <1>3, <1>4, <1>5, <1>6, <1>7, <1>8, <1>9, <1>10, <1>11, <1>12, <1>13, <1>14,
     <1>15, <1>16, <1>17, <1>18, <1>19, <1>20, <1>21, <1>22
  DEF Next, InMain, Worker, External

LEMMA QueueTypesKept ==
  ASSUME PlainTypes, QueueTypes, Next PROVE QueueTypes'
<1> USE SubscriberAssumption, NodeAssumption DEF QueueTypes, Goto, session, main, commands,
worker, streamer
<1>1. CASE InitFails
  BY <1>1 DEF InitFails
<1>2. CASE Connect
  BY <1>2 DEF Connect, ConnectSucceeds
<1>3. CASE Subscribe
  BY <1>3 DEF Subscribe, SubscribeSucceeds
<1>4. CASE SetRunning
  BY <1>4 DEF SetRunning
<1>5. CASE SpawnWorker
  BY <1>5 DEF SpawnWorker
<1>6. CASE RunEnds
  BY <1>6 DEF RunEnds
<1>7. ASSUME NEW f \in Frames,
               Halt(f) \/ Lock(f) \/ NotifyAll(f) \/ Join(f) \/ CloseStream(f) \/ StopReturns(f)
      PROVE  QueueTypes'
  <2>1. CASE Halt(f)
    BY <2>1 DEF Halt
  <2>2. CASE Lock(f)
    BY <2>2 DEF Lock
  <2>3. CASE NotifyAll(f)
    BY <2>3 DEF NotifyAll, WakeWorker
  <2>4. CASE Join(f)
    BY <2>4 DEF Join, Joinable
  <2>5. CASE CloseStream(f)
    BY <2>5 DEF CloseStream
  <2>6. CASE StopReturns(f)
    BY <2>6 DEF StopReturns, Disconnect
  <2> QED
    BY <1>7, <2>1, <2>2, <2>3, <2>4, <2>5, <2>6
<1>8. CASE JoinTwice
  BY <1>8 DEF JoinTwice
<1>9. CASE Signal
  BY <1>9 DEF Signal
<1>10. CASE Callback
  BY <1>10 DEF Callback, NotifyOne, WakeWorker
<1>11. CASE WorkerLoop
  BY <1>11 DEF WorkerLoop
<1>12. CASE FindsNothing
  BY <1>12 DEF FindsNothing
<1>13. CASE FallAsleep
  BY <1>13 DEF FallAsleep
<1>14. CASE TakeCommand
  BY <1>14 DEF TakeCommand
<1>15. CASE IgnoreStart
  BY <1>15 DEF IgnoreStart
<1>16. CASE StartStream
  BY <1>16 DEF StartStream
<1>17. CASE StartFails
  BY <1>17 DEF StartFails
<1>18. CASE StopStream
  BY <1>18 DEF StopStream
<1>19. CASE Network
  BY <1>19 DEF Network, Reconnected, Reconnect, ConnectionLost
<1>20. ASSUME NEW start \in BOOLEAN, PushCommand(start) PROVE QueueTypes'
  BY <1>20 DEF PushCommand, Receiving
<1>21. CASE WakeUp
  BY <1>21 DEF WakeUp
<1>22. CASE StreamDies
  BY <1>22 DEF StreamDies
<1> QED
  BY <1>1, <1>2, <1>3, <1>4, <1>5, <1>6, <1>7, <1>8, <1>9, <1>10, <1>11, <1>12, <1>13, <1>14,
     <1>15, <1>16, <1>17, <1>18, <1>19, <1>20, <1>21, <1>22
  DEF Next, InMain, Worker, External

LEMMA InvKept ==
  ASSUME PlainTypes, QueueTypes, Inv, Next PROVE Inv'
<1> USE DEF PlainTypes, QueueTypes, SessionType, Inv, BeforeWorker, LastCommand, Joined,
     NotRunning, FollowsCommands, QuietOnceStopped, Stopped, Frames, StopPcs, Goto,
     Executing, session, main, commands, worker, streamer
<1>1. CASE InitFails
  BY <1>1 DEF InitFails
<1>2. CASE Connect
  BY <1>2 DEF Connect, ConnectSucceeds
<1>3. CASE Subscribe
  BY <1>3 DEF Subscribe, SubscribeSucceeds
<1>4. CASE SetRunning
  BY <1>4 DEF SetRunning
<1>5. CASE SpawnWorker
  BY <1>5 DEF SpawnWorker
<1>6. CASE RunEnds
  BY <1>6 DEF RunEnds
<1>7. ASSUME NEW f \in Frames,
               Halt(f) \/ Lock(f) \/ NotifyAll(f) \/ Join(f) \/ CloseStream(f) \/ StopReturns(f)
      PROVE  Inv'
  <2>1. CASE Halt(f)
    BY <2>1 DEF Halt
  <2>2. CASE Lock(f)
    BY <2>2 DEF Lock
  <2>3. CASE NotifyAll(f)
    BY <2>3 DEF NotifyAll, WakeWorker
  <2>4. CASE Join(f)
    BY <2>4 DEF Join, Joinable
  <2>5. CASE CloseStream(f)
    BY <2>5 DEF CloseStream
  <2>6. CASE StopReturns(f)
    <3>1. /\ Executing(f) /\ pc[f] = "disconnect"
          /\ Goto(f, IF f = "handler" THEN "none"
                     ELSE IF final = "no" THEN "halt" ELSE "exited")
          /\ final' = IF f = "main" /\ final = "no" THEN "reset" ELSE final
          /\ link' = "off"
          /\ UNCHANGED << signals, running, commands, worker, streamer >>
      BY <2>6 DEF StopReturns, Disconnect
    <3>2. BeforeWorker' /\ LastCommand' /\ FollowsCommands'
      BY <3>1
    <3>3. Joined'
      BY <3>1
    <3>4. NotRunning'
      BY <3>1
    <3>5. QuietOnceStopped'
      BY <3>1
    <3> QED
      BY <3>2, <3>3, <3>4, <3>5
  <2> QED
    BY <1>7, <2>1, <2>2, <2>3, <2>4, <2>5, <2>6
<1>8. CASE JoinTwice
  BY <1>8 DEF JoinTwice
<1>9. CASE Signal
  BY <1>9 DEF Signal
<1>10. CASE Callback
  BY <1>10 DEF Callback, NotifyOne, WakeWorker
<1>11. CASE WorkerLoop
  BY <1>11 DEF WorkerLoop
<1>12. CASE FindsNothing
  BY <1>12 DEF FindsNothing
<1>13. CASE FallAsleep
  BY <1>13 DEF FallAsleep
<1>14. CASE TakeCommand
  <2>1. Len(Tail(queue)) = Len(queue) - 1 /\ Len(queue) > 0
    BY <1>14 DEF TakeCommand
  <2>2. Tail(queue) # << >> => last = Tail(queue)[Len(Tail(queue))]
    BY <1>14, <2>1 DEF TakeCommand
  <2>3. Tail(queue) = << >> => last = Head(queue)
    <3>1. Len(<< >>) = 0 /\ Head(queue) = queue[1] /\ queue # << >>
      BY <1>14 DEF TakeCommand
    <3> QED
      BY <2>1, <3>1
  <2>4. wpc = "lock" /\ running /\ queue' = Tail(queue) /\ cmd' = Head(queue)
        /\ wpc' = "act" /\ refused' = FALSE
        /\ UNCHANGED << session, main, received, last, stream >>
    BY <1>14 DEF TakeCommand
  <2>5. LastCommand'
    BY <2>1, <2>2, <2>3, <2>4
  <2> QED
    BY <2>4, <2>5
<1>15. CASE IgnoreStart
  BY <1>15 DEF IgnoreStart
<1>16. CASE StartStream
  BY <1>16 DEF StartStream
<1>17. CASE StartFails
  BY <1>17 DEF StartFails
<1>18. CASE StopStream
  BY <1>18 DEF StopStream
<1>19. CASE Network
  BY <1>19 DEF Network, Reconnected, Reconnect, ConnectionLost
<1>20. ASSUME NEW start \in BOOLEAN, PushCommand(start) PROVE Inv'
  BY <1>20 DEF PushCommand, Receiving
<1>21. CASE WakeUp
  BY <1>21 DEF WakeUp
<1>22. CASE StreamDies
  BY <1>22 DEF StreamDies
<1> QED
  BY <1>1, <1>2, <1>3, <1>4, <1>5, <1>6, <1>7, <1>8, <1>9, <1>10, <1>11, <1>12, <1>13, <1>14,
     <1>15, <1>16, <1>17, <1>18, <1>19, <1>20, <1>21, <1>22
  DEF Next, InMain, Worker, External

LEMMA Invariance == Spec => [](PlainTypes /\ QueueTypes /\ Inv)
<1>1. Init => PlainTypes /\ QueueTypes /\ Inv
  BY InitTypes, InitInv, TypeSplit
<1>2. PlainTypes /\ QueueTypes /\ Inv /\ [Next]_vars => (PlainTypes /\ QueueTypes /\ Inv)'
  <2> SUFFICES ASSUME PlainTypes, QueueTypes, Inv, [Next]_vars
               PROVE  (PlainTypes /\ QueueTypes /\ Inv)'
    OBVIOUS
  <2>1. CASE Next
    BY <2>1, PlainTypesKept, QueueTypesKept, InvKept
  <2>2. CASE UNCHANGED vars
    <3> USE <2>2 DEF vars, session, main, commands, worker, streamer
    <3>1. PlainTypes'
      BY DEF PlainTypes, SessionType
    <3>2. QueueTypes'
      BY DEF QueueTypes
    <3>3. Inv'
      BY DEF Inv, BeforeWorker, LastCommand, Joined, NotRunning, FollowsCommands,
         QuietOnceStopped, Stopped
    <3> QED
      BY <3>1, <3>2, <3>3
  <2> QED
    BY <2>1, <2>2
<1> QED
  BY <1>1, <1>2, PTL DEF Spec

-----------------------------------------------------------------------------
(* Every variable stays in its type, whatever interrupts init, run or stop *)
(* of the node.                                                            *)
THEOREM TypeCorrect == Spec => []TypeOK
  BY Invariance, TypeSplit, PTL

(* When every command has been acted on, the node streams if and only if   *)
(* the last one was a START that did not fail.                             *)
THEOREM CommandsCorrect == Spec => []FollowsCommands
<1>1. Inv => FollowsCommands
  BY DEF Inv
<1> QED
  BY <1>1, Invariance, PTL

(* Once a stop has returned there is no streamer, no command being acted   *)
(* on and no session, for any number of signals.                           *)
THEOREM StopCorrect == Spec => []QuietOnceStopped
<1>1. Inv => QuietOnceStopped
  BY DEF Inv
<1> QED
  BY <1>1, Invariance, PTL

-----------------------------------------------------------------------------
(* The worker about to sleep has found no command, and holds the mutex: no *)
(* frame of main is notifying, and nothing is pushed before it sleeps.     *)
SleepInv ==
  /\ wpc = "block" => queue = << >> /\ \A f \in Frames : pc[f] # "notify"
  /\ NoMissedNotify

(* init and run happen before there is a worker, or change nothing of it;  *)
(* a signal only interrupts.                                               *)
LEMMA MainSleep ==
  ASSUME PlainTypes, Inv, SleepInv,
         \/ InitFails \/ Connect \/ Subscribe \/ SetRunning \/ SpawnWorker \/ RunEnds
         \/ Signal \/ JoinTwice
  PROVE  SleepInv'
<1> USE DEF PlainTypes, Inv, BeforeWorker, SleepInv, NoMissedNotify, Frames, StopPcs, Goto,
        session, main, commands, worker
<1>1. CASE InitFails
  BY <1>1 DEF InitFails
<1>2. CASE Connect
  BY <1>2 DEF Connect
<1>3. CASE Subscribe
  BY <1>3 DEF Subscribe
<1>4. CASE SetRunning
  BY <1>4 DEF SetRunning
<1>5. CASE SpawnWorker
  BY <1>5 DEF SpawnWorker
<1>6. CASE RunEnds
  BY <1>6 DEF RunEnds
<1>7. CASE Signal
  BY <1>7 DEF Signal
<1>8. CASE JoinTwice
  BY <1>8 DEF JoinTwice
<1> QED
  BY <1>1, <1>2, <1>3, <1>4, <1>5, <1>6, <1>7, <1>8

(* A frame notifies after running_ was lowered, so that the worker it      *)
(* wakes does not sleep again, whatever the other frame does.              *)
LEMMA StopSleep ==
  ASSUME PlainTypes, Inv, SleepInv, NEW f \in Frames,
         Halt(f) \/ Lock(f) \/ NotifyAll(f) \/ Join(f) \/ CloseStream(f) \/ StopReturns(f)
  PROVE  SleepInv'
<1> USE DEF PlainTypes, SleepInv, NoMissedNotify, Frames, StopPcs, Goto, main, commands, worker
<1>1. CASE Halt(f)
  BY <1>1 DEF Halt
<1>2. CASE Lock(f)
  BY <1>2 DEF Lock, MutexFree
<1>3. CASE NotifyAll(f)
  BY <1>3 DEF NotifyAll, WakeWorker
<1>4. CASE Join(f)
  BY <1>4 DEF Join, Joinable
<1>5. CASE CloseStream(f)
  BY <1>5 DEF CloseStream
<1>6. CASE StopReturns(f)
  BY <1>6 DEF StopReturns
<1> QED
  BY <1>1, <1>2, <1>3, <1>4, <1>5, <1>6

LEMMA OtherSleep ==
  ASSUME PlainTypes, QueueTypes, Inv, SleepInv, Callback \/ Worker \/ External
  PROVE  SleepInv'
<1> USE DEF SleepInv, NoMissedNotify, main, commands, worker
<1>1. CASE Callback
  BY <1>1 DEF Callback, NotifyOne, WakeWorker
<1>2. CASE WorkerLoop
  BY <1>2 DEF WorkerLoop
<1>3. CASE FindsNothing
  BY <1>3 DEF FindsNothing, MutexFree, Inv, NotRunning, StopPcs, Frames
<1>4. CASE FallAsleep
  BY <1>4 DEF FallAsleep
<1>5. CASE TakeCommand
  BY <1>5 DEF TakeCommand
<1>6. CASE IgnoreStart \/ StartStream \/ StartFails \/ StopStream
  BY <1>6 DEF IgnoreStart, StartStream, StartFails, StopStream
<1>7. CASE Network
  BY <1>7 DEF Network, Reconnected
<1>8. ASSUME NEW start \in BOOLEAN, PushCommand(start) PROVE SleepInv'
  BY <1>8 DEF PushCommand, MutexFree
<1>9. CASE WakeUp \/ StreamDies
  BY <1>9 DEF WakeUp, StreamDies
<1> QED
  BY <1>1, <1>2, <1>3, <1>4, <1>5, <1>6, <1>7, <1>8, <1>9 DEF Worker, External

(* No notification is missed: the worker never sleeps over a command, nor  *)
(* over the end of the node, and no frame of main waits for a worker that  *)
(* sleeps, for any number of commands and signals.                         *)
THEOREM NotifyCorrect == Spec => []NoMissedNotify
<1>1. Init => SleepInv
  BY DEF Init, SleepInv, NoMissedNotify
<1>2. PlainTypes /\ QueueTypes /\ Inv /\ SleepInv /\ [Next]_vars => SleepInv'
  <2> SUFFICES ASSUME PlainTypes, QueueTypes, Inv, SleepInv, [Next]_vars PROVE SleepInv'
    OBVIOUS
  <2>1. CASE InMain \/ Signal
    BY <2>1, MainSleep, StopSleep DEF InMain
  <2>2. CASE Callback \/ Worker \/ External
    BY <2>2, OtherSleep
  <2>3. CASE UNCHANGED vars
    BY <2>3 DEF vars, main, commands, worker, SleepInv, NoMissedNotify
  <2> QED
    BY <2>1, <2>2, <2>3 DEF Next
<1>3. SleepInv => NoMissedNotify
  BY DEF SleepInv
<1> QED
  BY <1>1, <1>2, <1>3, Invariance, PTL DEF Spec

=============================================================================
