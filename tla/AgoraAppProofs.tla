---------------------------- MODULE AgoraAppProofs ----------------------------
(***************************************************************************)
(* Proofs about AgoraApp, for any number of runs, any interval and any     *)
(* clock: its types; that a request gives back what it created; that a     *)
(* process whose requests were answered leaves no agent; and the pace of   *)
(* the frames.                                                             *)
(***************************************************************************)
EXTENDS AgoraApp, TLAPS

(* TypeOK without the request, the clock and the pacer.                    *)
AppType ==
  /\ mpc \in Ended \cup InChannel \cup {"init", "sdk", "deinit", "destroy"}
  /\ runs \in 0 .. MaxRuns /\ receive_only \in BOOLEAN
  /\ capture \in {"null", "open", "closed"}
  /\ connected \in BOOLEAN /\ stop \in BOOLEAN /\ created \in BOOLEAN

(* What a request may hold at each of its steps, and that a body always    *)
(* hangs on a response.                                                    *)
MayHold(l) ==
  CASE l \in {"none", "json"} -> {}
    [] l = "build" -> {"json"}
    [] l \in {"context", "socket", "ssl", "connect", "write", "allocate"} ->
         {"json", "request", "context", "socket", "ssl"}
    [] l \in {"read", "cleanup"} ->
         {"json", "request", "context", "socket", "ssl", "response", "body"}
    [] l = "check" -> {"json", "response", "body"}
    [] l = "extract" -> {"response", "body"}
    [] l = "parse" -> {"text", "response", "body"}

Holds ==
  /\ held \subseteq MayHold(rpc)
  /\ "body" \in held \/ rpc = "read" => "response" \in held

(* Only a JOIN looks into the answer, and a status is that of the answer.  *)
Answers ==
  /\ rpc \in {"extract", "parse"} => kind = "join"
  /\ status = 200 => answer = 200
  /\ kind = "leave" /\ answer = 200 => ~agent

(* What the process knows of the agent, unless a request failed.           *)
Knows ==
  /\ mpc = "joining" => kind = "join" /\ (rpc = "none" => agent_id \/ failed)
  /\ mpc \in {"wait", "loop", "read", "send", "sleep", "exit"} => agent_id \/ failed
  /\ mpc = "leaving" => kind = "leave" /\ (rpc = "none" => ~agent \/ failed)
  /\ mpc \in {"leave", "deinit", "destroy", "done"} => ~agent \/ failed

(* The time the next frame is due counts the frames sent.                  *)
Due ==
  /\ sent = 0 => due = 0
  /\ sent > 0 => /\ first \in 1 .. high
                 /\ due = first + sent * Interval
                 /\ due <= high + Interval

Inv == Holds /\ Answers /\ Knows /\ Due

-----------------------------------------------------------------------------
LEMMA InitTypes == Init => TypeOK
<1> SUFFICES ASSUME Init PROVE TypeOK
  OBVIOUS
<1>1. whole \in BOOLEAN /\ agent_id \in BOOLEAN /\ agent \in BOOLEAN /\ failed \in BOOLEAN
  <2>1. RequestInit
    BY DEF Init
  <2> QED
    BY <2>1, Zenon DEF RequestInit
<1>2. /\ receive_only \in BOOLEAN /\ connected \in BOOLEAN
      /\ stop \in BOOLEAN /\ created \in BOOLEAN
  BY Zenon DEF Init
<1>3. RequestType
  BY <1>1 DEF Init, RequestInit, RequestType, Things, Statuses
<1>4. ClockType /\ PacerType
  BY PacerAssumption DEF Init, ClockInit, PacerInit, ClockType, PacerType
<1> QED
  BY <1>2, <1>3, <1>4, AppAssumption DEF Init, TypeOK, Ended

LEMMA InitInv == Init => Inv
  BY PacerAssumption
  DEF Init, RequestInit, ClockInit, PacerInit, Inv, Holds, MayHold, Answers, Knows, Due

-----------------------------------------------------------------------------
(* The request. *)

(* A step of a request keeps its types. *)
LEMMA RequestTypeKept ==
  ASSUME RequestType, RequestStep PROVE RequestType'
<1> USE DEF RequestType, Things, Statuses
<1>1. CASE JsonFails
  BY <1>1 DEF JsonFails, Return
<1>2. CASE BuildFails
  BY <1>2 DEF BuildFails
<1>3. CASE StepFails
  <2>1. agent' \in BOOLEAN
    BY <1>3, ZenonT(40) DEF StepFails, AgentAfterAll
  <2> QED
    BY <1>3, <2>1 DEF StepFails
<1>4. CASE StepSucceeds
  BY <1>4 DEF StepSucceeds
<1>5. CASE CreateSomething
  <2>1. \A l, m \in {"none", "json", "build", "context", "socket", "ssl", "connect", "allocate",
                     "read"}, thing \in Things : Create(l, thing, m) => RequestType'
    BY DEF Create
  <2> QED
    BY <1>5, <2>1 DEF CreateSomething
<1>6. CASE Serve
  <2>1. agent' \in BOOLEAN
    BY <1>6, Zenon DEF Serve
  <2> QED
    BY <1>6, <2>1 DEF Serve
<1>7. CASE DoNotServe
  BY <1>7 DEF DoNotServe
<1>8. ASSUME NEW w \in BOOLEAN, Receive(w) PROVE RequestType'
  BY <1>8 DEF Receive
<1>9. CASE ReceiveFails
  BY <1>9 DEF ReceiveFails
<1>10. CASE ReceiveEnds
  BY <1>10 DEF ReceiveEnds
<1>11. CASE Cleanup
  BY <1>11 DEF Cleanup
<1>12. CASE Check
  <2>1. failed' \in BOOLEAN /\ UNCHANGED << kind, status, whole, agent_id, answer, agent >>
    BY <1>12, ZenonT(40) DEF Check, Return
  <2>2. rpc' \in {"none", "extract"} /\ ret' \in {-1, 0, 1} /\ held' \subseteq held
    BY <1>12 DEF Check, Return
  <2> QED
    BY <2>1, <2>2
<1>13. CASE AnswerUnusable
  BY <1>13 DEF AnswerUnusable, Return
<1>14. CASE ExtractJson
  BY <1>14 DEF ExtractJson, Create
<1>15. CASE AnswerUsable
  BY <1>15 DEF AnswerUsable, Return
<1> QED
  BY <1>1, <1>2, <1>3, <1>4, <1>5, <1>6, <1>7, <1>8, <1>9, <1>10, <1>11, <1>12, <1>13, <1>14,
     <1>15 DEF RequestStep

(* What a request holds is known at every step. *)
LEMMA HoldsKept ==
  ASSUME RequestType, Holds, RequestStep PROVE Holds'
<1> USE DEF Holds, MayHold
<1>1. CASE JsonFails
  BY <1>1 DEF JsonFails, Return
<1>2. CASE BuildFails
  BY <1>2 DEF BuildFails
<1>3. CASE StepFails
  BY <1>3 DEF StepFails, AgentAfterAll
<1>4. CASE StepSucceeds
  BY <1>4 DEF StepSucceeds
<1>5. CASE CreateSomething
  BY <1>5 DEF CreateSomething, Create
<1>6. CASE Serve
  BY <1>6 DEF Serve
<1>7. CASE DoNotServe
  BY <1>7 DEF DoNotServe
<1>8. ASSUME NEW w \in BOOLEAN, Receive(w) PROVE Holds'
  BY <1>8 DEF Receive
<1>9. CASE ReceiveFails
  BY <1>9 DEF ReceiveFails
<1>10. CASE ReceiveEnds
  BY <1>10 DEF ReceiveEnds
<1>11. CASE Cleanup
  BY <1>11 DEF Cleanup
<1>12. CASE Check
  BY <1>12 DEF Check, Return
<1>13. CASE AnswerUnusable
  BY <1>13 DEF AnswerUnusable, Return
<1>14. CASE ExtractJson
  BY <1>14 DEF ExtractJson, Create
<1>15. CASE AnswerUsable
  BY <1>15 DEF AnswerUsable, Return
<1> QED
  BY <1>1, <1>2, <1>3, <1>4, <1>5, <1>6, <1>7, <1>8, <1>9, <1>10, <1>11, <1>12, <1>13, <1>14,
     <1>15 DEF RequestStep

(* A 200 to a LEAVE means that the agent is gone. *)
LEMMA AnswersKept ==
  ASSUME RequestType, Answers, RequestStep PROVE Answers'
<1> USE DEF RequestType, Statuses, Answers
<1>1. CASE JsonFails
  BY <1>1 DEF JsonFails, Return
<1>2. CASE BuildFails
  BY <1>2 DEF BuildFails
<1>3. CASE StepFails
  BY <1>3 DEF StepFails, AgentAfterAll
<1>4. CASE StepSucceeds
  BY <1>4 DEF StepSucceeds
<1>5. CASE CreateSomething
  BY <1>5 DEF CreateSomething, Create
<1>6. CASE Serve
  <2>1. kind = "leave" => ~agent'
    BY <1>6 DEF Serve
  <2>2. status # 200
    BY <1>6 DEF Serve
  <2>3. UNCHANGED << rpc, kind, status >>
    BY <1>6 DEF Serve
  <2> QED
    BY <2>1, <2>2, <2>3
<1>7. CASE DoNotServe
  BY <1>7 DEF DoNotServe
<1>8. ASSUME NEW w \in BOOLEAN, Receive(w) PROVE Answers'
  BY <1>8 DEF Receive
<1>9. CASE ReceiveFails
  BY <1>9 DEF ReceiveFails
<1>10. CASE ReceiveEnds
  BY <1>10 DEF ReceiveEnds
<1>11. CASE Cleanup
  BY <1>11 DEF Cleanup
<1>12. CASE Check
  BY <1>12 DEF Check, Return
<1>13. CASE AnswerUnusable
  BY <1>13 DEF AnswerUnusable, Return
<1>14. CASE ExtractJson
  BY <1>14 DEF ExtractJson, Create
<1>15. CASE AnswerUsable
  BY <1>15 DEF AnswerUsable, Return
<1> QED
  BY <1>1, <1>2, <1>3, <1>4, <1>5, <1>6, <1>7, <1>8, <1>9, <1>10, <1>11, <1>12, <1>13, <1>14,
     <1>15 DEF RequestStep

-----------------------------------------------------------------------------
(* The program around the request and the pacer. *)

(* A step of main or of another that is not one of a request.              *)
Outside == Setup \/ Loop \/ Exit \/ Around

(* Whatever the server still did for a process that ends. *)
LEMMA ServerKeepsType ==
  ASSUME TypeOK, ProcessEnds PROVE agent' \in BOOLEAN
<1>1. agent \in BOOLEAN
  BY Zenon DEF TypeOK, RequestType
<1>2. agent' = agent \/ agent' = (kind = "join")
  BY DEF ProcessEnds, AgentAfterAll
<1> QED
  BY <1>1, <1>2, Zenon

(* The types of the request and of the program. *)
LEMMA TypeKept ==
  ASSUME TypeOK, Outside PROVE RequestType' /\ AppType'
<1> USE AppAssumption DEF AppType, TypeOK, RequestType, Things, Statuses, Ended, InChannel,
request, clock, pacer, config, flags
<1>1. CASE RecordInit
  BY <1>1 DEF RecordInit
<1>2. CASE SdkFails
  BY <1>2 DEF SdkFails
<1>3. CASE JoinChannel
  BY <1>3 DEF JoinChannel
<1>4. CASE SendJoin
  <2>1. whole' \in BOOLEAN /\ UNCHANGED << agent_id, agent, failed >>
    BY <1>4, Zenon DEF SendJoin, BeginRequest
  <2> QED
    BY <1>4, <2>1 DEF SendJoin, BeginRequest
<1>5. CASE JoinReturns
  BY <1>5 DEF JoinReturns
<1>6. CASE WaitEnds
  BY <1>6 DEF WaitEnds, PacerCreate
<1>7. CASE LoopStops
  BY <1>7 DEF LoopStops
<1>8. CASE LoopGoesOn
  BY <1>8 DEF LoopGoesOn
<1>9. CASE Read
  BY <1>9 DEF Read
<1>10. CASE ReadFails
  BY <1>10 DEF ReadFails
<1>11. CASE Send
  BY <1>11 DEF Send, SendDue, TimeToSend, NextDue
<1>12. CASE SkipFrame
  BY <1>12 DEF SkipFrame
<1>13. CASE SleepEnds
  BY <1>13 DEF SleepEnds
<1>14. CASE SendLeave
  <2>1. whole' \in BOOLEAN /\ UNCHANGED << agent_id, agent, failed >>
    BY <1>14, Zenon DEF SendLeave, BeginRequest
  <2> QED
    BY <1>14, <2>1 DEF SendLeave, BeginRequest
<1>15. CASE NothingToLeave
  BY <1>15 DEF NothingToLeave
<1>16. CASE LeaveReturns
  BY <1>16 DEF LeaveReturns
<1>17. CASE LeaveChannel
  BY <1>17 DEF LeaveChannel
<1>18. CASE RecordDeinit
  BY <1>18 DEF RecordDeinit
<1>19. CASE PacerDestroy
  BY <1>19 DEF PacerDestroy
<1>20. CASE Joined
  <2>1. connected' \in BOOLEAN
    BY <1>20, Zenon DEF Joined
  <2> QED
    BY <1>20, <2>1 DEF Joined
<1>21. CASE ConnectionLost
  <2>1. connected' \in BOOLEAN
    BY <1>21, Zenon DEF ConnectionLost
  <2> QED
    BY <1>21, <2>1 DEF ConnectionLost
<1>22. CASE StopAsked
  BY <1>22 DEF StopAsked
<1>23. CASE TimePasses
  BY <1>23 DEF TimePasses, Tick, SetBack
<1>24. CASE Launch
  <2>1. whole' \in BOOLEAN /\ agent_id' \in BOOLEAN /\ failed' \in BOOLEAN
    BY <1>24, Zenon DEF Launch, ProcessEnds
  <2>2. agent' \in BOOLEAN
    BY <1>24, ServerKeepsType DEF Launch
  <2>3. /\ rpc' = "none" /\ kind' = "join" /\ held' = {} /\ status' = 0 /\ ret' = 0 /\ answer' = 0
    BY <1>24 DEF Launch, ProcessEnds
  <2>4. receive_only' \in BOOLEAN /\ connected' \in BOOLEAN /\ stop' \in BOOLEAN /\ created' \in BOOLEAN
    BY <1>24, Zenon DEF Launch
  <2>5. mpc' = "init" /\ runs' \in 0 .. MaxRuns /\ capture' = "null"
    BY <1>24 DEF Launch
  <2> QED
    BY <2>1, <2>2, <2>3, <2>4, <2>5
<1>25. CASE Kill
  <2>1. whole' \in BOOLEAN /\ agent_id' \in BOOLEAN /\ failed' \in BOOLEAN
    BY <1>25, Zenon DEF Kill, ProcessEnds
  <2>2. agent' \in BOOLEAN
    BY <1>25, ServerKeepsType DEF Kill
  <2>3. /\ rpc' = "none" /\ kind' = "join" /\ held' = {} /\ status' = 0 /\ ret' = 0 /\ answer' = 0
    BY <1>25 DEF Kill, ProcessEnds
  <2> QED
    BY <1>25, <2>1, <2>2, <2>3 DEF Kill
<1> QED
  BY <1>1, <1>2, <1>3, <1>4, <1>5, <1>6, <1>7, <1>8, <1>9, <1>10, <1>11, <1>12, <1>13, <1>14,
     <1>15, <1>16, <1>17, <1>18, <1>19, <1>20, <1>21, <1>22, <1>23, <1>24, <1>25
  DEF Outside, Setup, Loop, Exit, Around

(* What a request holds. *)
LEMMA HoldsOutside ==
  ASSUME Holds, Outside PROVE Holds'
<1> USE DEF Holds, MayHold, request
<1>1. CASE RecordInit
  BY <1>1 DEF RecordInit
<1>2. CASE SdkFails
  BY <1>2 DEF SdkFails
<1>3. CASE JoinChannel
  BY <1>3 DEF JoinChannel
<1>4. CASE SendJoin
  BY <1>4 DEF SendJoin, BeginRequest
<1>5. CASE JoinReturns
  BY <1>5 DEF JoinReturns
<1>6. CASE WaitEnds
  BY <1>6 DEF WaitEnds, PacerCreate
<1>7. CASE LoopStops
  BY <1>7 DEF LoopStops
<1>8. CASE LoopGoesOn
  BY <1>8 DEF LoopGoesOn
<1>9. CASE Read
  BY <1>9 DEF Read
<1>10. CASE ReadFails
  BY <1>10 DEF ReadFails
<1>11. CASE Send
  BY <1>11 DEF Send, SendDue, TimeToSend, NextDue
<1>12. CASE SkipFrame
  BY <1>12 DEF SkipFrame
<1>13. CASE SleepEnds
  BY <1>13 DEF SleepEnds
<1>14. CASE SendLeave
  BY <1>14 DEF SendLeave, BeginRequest
<1>15. CASE NothingToLeave
  BY <1>15 DEF NothingToLeave
<1>16. CASE LeaveReturns
  BY <1>16 DEF LeaveReturns
<1>17. CASE LeaveChannel
  BY <1>17 DEF LeaveChannel
<1>18. CASE RecordDeinit
  BY <1>18 DEF RecordDeinit
<1>19. CASE PacerDestroy
  BY <1>19 DEF PacerDestroy
<1>20. CASE Joined
  BY <1>20 DEF Joined
<1>21. CASE ConnectionLost
  BY <1>21 DEF ConnectionLost
<1>22. CASE StopAsked
  BY <1>22 DEF StopAsked
<1>23. CASE TimePasses
  BY <1>23 DEF TimePasses, Tick, SetBack
<1>24. CASE Launch
  <2>1. rpc' = "none" /\ held' = {}
    BY <1>24 DEF Launch, ProcessEnds
  <2> QED
    BY <2>1
<1>25. CASE Kill
  <2>1. rpc' = "none" /\ held' = {}
    BY <1>25 DEF Kill, ProcessEnds
  <2> QED
    BY <2>1
<1> QED
  BY <1>1, <1>2, <1>3, <1>4, <1>5, <1>6, <1>7, <1>8, <1>9, <1>10, <1>11, <1>12, <1>13, <1>14,
     <1>15, <1>16, <1>17, <1>18, <1>19, <1>20, <1>21, <1>22, <1>23, <1>24, <1>25
  DEF Outside, Setup, Loop, Exit, Around

(* What an answer means. *)
LEMMA AnswersOutside ==
  ASSUME Answers, Outside PROVE Answers'
<1> USE DEF Answers, request
<1>1. CASE RecordInit
  BY <1>1 DEF RecordInit
<1>2. CASE SdkFails
  BY <1>2 DEF SdkFails
<1>3. CASE JoinChannel
  BY <1>3 DEF JoinChannel
<1>4. CASE SendJoin
  BY <1>4 DEF SendJoin, BeginRequest
<1>5. CASE JoinReturns
  BY <1>5 DEF JoinReturns
<1>6. CASE WaitEnds
  BY <1>6 DEF WaitEnds, PacerCreate
<1>7. CASE LoopStops
  BY <1>7 DEF LoopStops
<1>8. CASE LoopGoesOn
  BY <1>8 DEF LoopGoesOn
<1>9. CASE Read
  BY <1>9 DEF Read
<1>10. CASE ReadFails
  BY <1>10 DEF ReadFails
<1>11. CASE Send
  BY <1>11 DEF Send, SendDue, TimeToSend, NextDue
<1>12. CASE SkipFrame
  BY <1>12 DEF SkipFrame
<1>13. CASE SleepEnds
  BY <1>13 DEF SleepEnds
<1>14. CASE SendLeave
  BY <1>14 DEF SendLeave, BeginRequest
<1>15. CASE NothingToLeave
  BY <1>15 DEF NothingToLeave
<1>16. CASE LeaveReturns
  BY <1>16 DEF LeaveReturns
<1>17. CASE LeaveChannel
  BY <1>17 DEF LeaveChannel
<1>18. CASE RecordDeinit
  BY <1>18 DEF RecordDeinit
<1>19. CASE PacerDestroy
  BY <1>19 DEF PacerDestroy
<1>20. CASE Joined
  BY <1>20 DEF Joined
<1>21. CASE ConnectionLost
  BY <1>21 DEF ConnectionLost
<1>22. CASE StopAsked
  BY <1>22 DEF StopAsked
<1>23. CASE TimePasses
  BY <1>23 DEF TimePasses, Tick, SetBack
<1>24. CASE Launch
  <2>1. rpc' = "none" /\ kind' = "join" /\ status' = 0
    BY <1>24 DEF Launch, ProcessEnds
  <2> QED
    BY <2>1
<1>25. CASE Kill
  <2>1. rpc' = "none" /\ kind' = "join" /\ status' = 0
    BY <1>25 DEF Kill, ProcessEnds
  <2> QED
    BY <2>1
<1> QED
  BY <1>1, <1>2, <1>3, <1>4, <1>5, <1>6, <1>7, <1>8, <1>9, <1>10, <1>11, <1>12, <1>13, <1>14,
     <1>15, <1>16, <1>17, <1>18, <1>19, <1>20, <1>21, <1>22, <1>23, <1>24, <1>25
  DEF Outside, Setup, Loop, Exit, Around

(* What the process knows of the agent. *)
LEMMA KnowsOutside ==
  ASSUME TypeOK, Answers, Knows, Outside PROVE Knows'
<1> USE DEF Knows, request, flags
<1>1. CASE RecordInit
  BY <1>1 DEF RecordInit
<1>2. CASE SdkFails
  BY <1>2 DEF SdkFails
<1>3. CASE JoinChannel
  BY <1>3 DEF JoinChannel
<1>4. CASE SendJoin
  BY <1>4 DEF SendJoin, BeginRequest
<1>5. CASE JoinReturns
  BY <1>5 DEF JoinReturns
<1>6. CASE WaitEnds
  BY <1>6 DEF WaitEnds, PacerCreate
<1>7. CASE LoopStops
  BY <1>7 DEF LoopStops
<1>8. CASE LoopGoesOn
  BY <1>8 DEF LoopGoesOn
<1>9. CASE Read
  BY <1>9 DEF Read
<1>10. CASE ReadFails
  BY <1>10 DEF ReadFails
<1>11. CASE Send
  BY <1>11 DEF Send, SendDue, TimeToSend, NextDue
<1>12. CASE SkipFrame
  BY <1>12 DEF SkipFrame
<1>13. CASE SleepEnds
  BY <1>13 DEF SleepEnds
<1>14. CASE SendLeave
  BY <1>14 DEF SendLeave, BeginRequest
<1>15. CASE NothingToLeave
  BY <1>15 DEF NothingToLeave
<1>16. CASE LeaveReturns
  BY <1>16 DEF LeaveReturns
<1>17. CASE LeaveChannel
  BY <1>17 DEF LeaveChannel
<1>18. CASE RecordDeinit
  BY <1>18 DEF RecordDeinit
<1>19. CASE PacerDestroy
  BY <1>19 DEF PacerDestroy
<1>20. CASE Joined
  BY <1>20 DEF Joined
<1>21. CASE ConnectionLost
  BY <1>21 DEF ConnectionLost
<1>22. CASE StopAsked
  BY <1>22 DEF StopAsked
<1>23. CASE TimePasses
  BY <1>23 DEF TimePasses, Tick, SetBack
<1>24. CASE Launch
  BY <1>24 DEF Launch
<1>25. CASE Kill
  BY <1>25 DEF Kill
<1> QED
  BY <1>1, <1>2, <1>3, <1>4, <1>5, <1>6, <1>7, <1>8, <1>9, <1>10, <1>11, <1>12, <1>13, <1>14,
     <1>15, <1>16, <1>17, <1>18, <1>19, <1>20, <1>21, <1>22, <1>23, <1>24, <1>25
  DEF Outside, Setup, Loop, Exit, Around

-----------------------------------------------------------------------------
(* The pacer. *)

(* A multiple is no greater than a only if its factor is no greater than the quotient. *)
LEMMA Quotient ==
  ASSUME NEW a \in Int, NEW k \in Int, k * Interval <= a PROVE k <= a \div Interval
<1> DEFINE q == a \div Interval
<1>1. q \in Int /\ a < (q + 1) * Interval
  BY PacerAssumption
<1>2. ASSUME k > q PROVE FALSE
  <2>1. k * Interval >= (q + 1) * Interval
    BY <1>1, <1>2, PacerAssumption
  <2> QED
    BY <1>1, <2>1, PacerAssumption
<1> QED
  BY <1>1, <1>2

(* The clock, the types of the pacer, and when the next frame is due. *)
LEMMA DueKept ==
  ASSUME ClockType, PacerType, Due, Outside PROVE ClockType' /\ PacerType' /\ Due'
<1> USE PacerAssumption DEF ClockType, PacerType, Due, clock, pacer
<1>1. CASE RecordInit
  BY <1>1 DEF RecordInit
<1>2. CASE SdkFails
  BY <1>2 DEF SdkFails
<1>3. CASE JoinChannel
  BY <1>3 DEF JoinChannel
<1>4. CASE SendJoin
  BY <1>4 DEF SendJoin, BeginRequest
<1>5. CASE JoinReturns
  BY <1>5 DEF JoinReturns
<1>6. CASE WaitEnds
  BY <1>6 DEF WaitEnds, PacerCreate
<1>7. CASE LoopStops
  BY <1>7 DEF LoopStops
<1>8. CASE LoopGoesOn
  BY <1>8 DEF LoopGoesOn
<1>9. CASE Read
  BY <1>9 DEF Read
<1>10. CASE ReadFails
  BY <1>10 DEF ReadFails
<1>11. CASE Send
  <2>1. now >= NextDue /\ due' = NextDue + Interval /\ sent' = sent + 1 /\ UNCHANGED clock
    BY <1>11 DEF Send, SendDue, TimeToSend
  <2>2. CASE sent = 0
    <3>1. NextDue = now /\ first' = now
      BY <1>11, <2>2 DEF Send, SendDue, NextDue
    <3> QED
      BY <2>1, <2>2, <3>1
  <2>3. CASE sent > 0
    <3>1. sent * Interval \in Nat /\ (sent + 1) * Interval = sent * Interval + Interval
      BY <2>3
    <3>2. due # 0
      BY <2>3, <3>1
    <3>3. NextDue = due /\ first' = first
      BY <1>11, <3>2 DEF Send, SendDue, NextDue
    <3>4. due' = first' + sent' * Interval
      BY <2>1, <2>3, <3>1, <3>3
    <3> HIDE DEF Due
    <3>5. first \in 1 .. high /\ due <= high + Interval
      BY <2>3 DEF Due
    <3>6. due' <= high' + Interval
      BY <2>1, <3>3, <3>5
    <3>7. due' \in 0 .. MaxTime + Interval /\ sent' \in Nat
      BY <2>1, <3>3, <3>6
    <3> QED
      BY <2>1, <2>3, <3>3, <3>4, <3>5, <3>6, <3>7 DEF Due
  <2> QED
    BY <2>2, <2>3
<1>12. CASE SkipFrame
  BY <1>12 DEF SkipFrame
<1>13. CASE SleepEnds
  BY <1>13 DEF SleepEnds
<1>14. CASE SendLeave
  BY <1>14 DEF SendLeave, BeginRequest
<1>15. CASE NothingToLeave
  BY <1>15 DEF NothingToLeave
<1>16. CASE LeaveReturns
  BY <1>16 DEF LeaveReturns
<1>17. CASE LeaveChannel
  BY <1>17 DEF LeaveChannel
<1>18. CASE RecordDeinit
  BY <1>18 DEF RecordDeinit
<1>19. CASE PacerDestroy
  BY <1>19 DEF PacerDestroy
<1>20. CASE Joined
  BY <1>20 DEF Joined
<1>21. CASE ConnectionLost
  BY <1>21 DEF ConnectionLost
<1>22. CASE StopAsked
  BY <1>22 DEF StopAsked
<1>23. CASE TimePasses
  BY <1>23 DEF TimePasses, Tick, SetBack
<1>24. CASE Launch
  BY <1>24 DEF Launch, ProcessEnds, AgentAfterAll, PacerCreate
<1>25. CASE Kill
  BY <1>25 DEF Kill, ProcessEnds, AgentAfterAll
<1> QED
  BY <1>1, <1>2, <1>3, <1>4, <1>5, <1>6, <1>7, <1>8, <1>9, <1>10, <1>11, <1>12, <1>13, <1>14,
     <1>15, <1>16, <1>17, <1>18, <1>19, <1>20, <1>21, <1>22, <1>23, <1>24, <1>25
  DEF Outside, Setup, Loop, Exit, Around

-----------------------------------------------------------------------------
(* All together. *)


(* A request that returns -1 is noted. *)
LEMMA FailureNoted == Return(-1) => failed'
<1>1. -1 < 0
  OBVIOUS
<1> QED
  BY <1>1, Zenon DEF Return

(* What the process knows while a request is on. *)
LEMMA KnowsKept ==
  ASSUME Answers, Knows, mpc' = mpc, mpc \in {"joining", "leaving"}, RequestStep PROVE Knows'
<1> USE DEF Answers, Knows
<1>1. CASE JsonFails
  <2>1. failed' /\ mpc' = mpc /\ kind' = kind
    BY <1>1, FailureNoted DEF JsonFails
  <2> QED
    BY <2>1
<1>2. CASE BuildFails
  BY <1>2 DEF BuildFails
<1>3. CASE StepFails
  BY <1>3 DEF StepFails, AgentAfterAll
<1>4. CASE StepSucceeds
  BY <1>4 DEF StepSucceeds
<1>5. CASE CreateSomething
  BY <1>5 DEF CreateSomething, Create
<1>6. CASE Serve
  BY <1>6 DEF Serve
<1>7. CASE DoNotServe
  BY <1>7 DEF DoNotServe
<1>8. ASSUME NEW w \in BOOLEAN, Receive(w) PROVE Knows'
  BY <1>8 DEF Receive
<1>9. CASE ReceiveFails
  BY <1>9 DEF ReceiveFails
<1>10. CASE ReceiveEnds
  BY <1>10 DEF ReceiveEnds
<1>11. CASE Cleanup
  BY <1>11 DEF Cleanup
<1>12. CASE Check
  <2>1. CASE Return(-1)
    <3>1. failed' /\ mpc' = mpc /\ kind' = kind
      BY <1>12, <2>1, FailureNoted DEF Check
    <3> QED
      BY <3>1
  <2>2. CASE rpc' = "extract"
    BY <1>12, <2>2 DEF Check
  <2>3. CASE kind = "leave" /\ status = 200
    BY <1>12, <2>3 DEF Check
  <2> QED
    BY <1>12, <2>1, <2>2, <2>3 DEF Check
<1>13. CASE AnswerUnusable
  <2>1. failed' /\ mpc' = mpc /\ kind' = kind
    BY <1>13, FailureNoted DEF AnswerUnusable
  <2> QED
    BY <2>1
<1>14. CASE ExtractJson
  BY <1>14 DEF ExtractJson, Create
<1>15. CASE AnswerUsable
  BY <1>15 DEF AnswerUsable, Return
<1> QED
  BY <1>1, <1>2, <1>3, <1>4, <1>5, <1>6, <1>7, <1>8, <1>9, <1>10, <1>11, <1>12, <1>13, <1>14,
     <1>15 DEF RequestStep

LEMMA Invariance == TypeOK /\ Inv /\ [Next]_vars => TypeOK' /\ Inv'
<1> SUFFICES ASSUME TypeOK, Inv, [Next]_vars PROVE TypeOK' /\ Inv'
  OBVIOUS
<1> USE DEF Inv
<1>1. RequestType /\ ClockType /\ PacerType /\ Holds /\ Answers /\ Knows /\ Due
  BY DEF TypeOK
<1>2. TypeOK' <=> RequestType' /\ AppType' /\ ClockType' /\ PacerType'
  BY DEF TypeOK, AppType
<1>3. CASE InRequest
  <2>1. RequestStep /\ mpc' = mpc /\ mpc \in {"joining", "leaving"}
    BY <1>3 DEF InRequest
  <2>2. RequestType' /\ Holds' /\ Answers' /\ Knows'
    BY <1>1, <2>1, RequestTypeKept, HoldsKept, AnswersKept, KnowsKept
  <2>3. AppType'
    <3>1. AppType
      BY DEF TypeOK, AppType
    <3>2. UNCHANGED << mpc, runs, receive_only, capture, connected, stop, created >>
      BY <1>3 DEF InRequest, config, flags
    <3> QED
      BY <3>1, <3>2 DEF AppType
  <2>4. ClockType' /\ PacerType' /\ Due'
    <3>1. UNCHANGED << now, high, due, first, sent >>
      BY <1>3 DEF InRequest, clock, pacer
    <3> QED
      BY <1>1, <3>1 DEF ClockType, PacerType, Due
  <2> QED
    BY <1>2, <2>2, <2>3, <2>4
<1>4. CASE Outside
  BY <1>1, <1>2, <1>4, TypeKept, HoldsOutside, AnswersOutside, KnowsOutside, DueKept
<1>5. CASE UNCHANGED vars
  <2>1. RequestType' /\ Holds' /\ Answers'
    BY <1>1, <1>5 DEF vars, request, RequestType, Holds, MayHold, Answers
  <2>2. Knows' /\ AppType'
    BY <1>1, <1>5 DEF vars, request, config, flags, Knows, AppType, TypeOK
  <2>3. ClockType' /\ PacerType' /\ Due'
    BY <1>1, <1>5 DEF vars, clock, pacer, ClockType, PacerType, Due
  <2> QED
    BY <1>2, <2>1, <2>2, <2>3
<1> QED
  BY <1>3, <1>4, <1>5 DEF Next, Main, Outside

(* Every variable has values of its type. *)
THEOREM TypeCorrect == Spec => []TypeOK
<1>1. Spec => [](TypeOK /\ Inv)
  BY InitTypes, InitInv, Invariance, PTL DEF Spec
<1> QED
  BY <1>1, PTL

(* A request that is over (send_https_request, send_join_request,          *)
(* send_leave_request) has given back everything it created, at whatever   *)
(* step it failed.                                                         *)
THEOREM ReleaseCorrect == Spec => []Released
<1>1. Spec => []Inv
  BY InitTypes, InitInv, Invariance, PTL DEF Spec
<1>2. Inv => Released
  BY DEF Inv, Holds, MayHold, Released
<1> QED
  BY <1>1, <1>2, PTL

(* A process of the Agora app that ends normally, with every request       *)
(* answered, leaves no agent on the server, however many processes before  *)
(* it were killed.                                                         *)
THEOREM LeaveCorrect == Spec => []LeavesAgent
<1>1. Spec => []Inv
  BY InitTypes, InitInv, Invariance, PTL DEF Spec
<1>2. Inv => LeavesAgent
  BY DEF Inv, Knows, LeavesAgent
<1> QED
  BY <1>1, <1>2, PTL

(* is_time_to_send_audio lets through no more than one frame for every     *)
(* interval of the clock since the first.                                  *)
THEOREM PaceCorrect == Spec => []Paced
<1>1. Spec => [](TypeOK /\ Inv)
  BY InitTypes, InitInv, Invariance, PTL DEF Spec
<1>2. TypeOK /\ Inv => Paced
  <2> SUFFICES ASSUME TypeOK, Due, sent > 0
               PROVE  /\ due <= high + Interval
                      /\ sent <= (high - first) \div Interval + 1
    BY DEF Inv, Paced
  <2>1. sent \in Nat /\ high \in Int /\ first \in Int /\ due <= high + Interval
        /\ due = first + sent * Interval
    BY DEF TypeOK, ClockType, PacerType, Due
  <2>2. (sent - 1) * Interval = sent * Interval - Interval /\ sent * Interval \in Int
    BY <2>1, PacerAssumption
  <2>3. (sent - 1) * Interval <= high - first
    BY <2>1, <2>2, PacerAssumption
  <2>4. sent - 1 <= (high - first) \div Interval
    BY <2>1, <2>3, Quotient
  <2>5. (high - first) \div Interval \in Int
    BY <2>1, PacerAssumption
  <2> QED
    BY <2>1, <2>4, <2>5
<1> QED
  BY <1>1, <1>2, PTL
=============================================================================
