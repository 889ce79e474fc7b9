----------------------------- MODULE AgentRequest -----------------------------
(***************************************************************************)
(* One HTTPS request of the agent client                                   *)
(* (agora_module/src/agora_server.c): send_join_request or                 *)
(* send_leave_request, send_https_request, and the server they talk to.    *)
(* Every step may fail, and what the steps before it created must then be  *)
(* given back.                                                             *)
(*                                                                         *)
(* The server is external: it runs at most one agent for the channel,      *)
(* answers a JOIN with 200 or, when there is an agent, with 409 and the    *)
(* agent's id, and a LEAVE with 200. A request or its answer may be lost,  *)
(* wholly or in part, and the server may fail (500). It does not handle a  *)
(* request any later than the end of the connection that carried it.       *)
(***************************************************************************)
EXTENDS Integers

VARIABLES
  rpc,       (* the request in progress: "none"; "json"; "build"; "context"; *)
             (* "socket"; "ssl"; "connect"; "write"; "allocate"; "read";     *)
             (* "cleanup"; "check"; "extract"; "parse"                       *)
  kind,      (* "join" or "leave"                                            *)
  held,      (* what the request has created and not given back             *)
  status,    (* response->status_code, 0 while unknown                      *)
  whole,     (* is the agent's id in the part of the answer that came?      *)
  ret,       (* what the last request returned                              *)
  agent_id,  (* is agent_id of main filled in?                              *)
  answer,    (* the server's answer: 0 none yet, -1 lost                    *)
  agent,     (* does the server run an agent for the channel?               *)
  failed     (* has a request of this process returned -1? (not in the code) *)

request == << rpc, kind, held, status, whole, ret, agent_id, answer, agent, failed >>

Things == {"json", "request", "context", "socket", "ssl", "response", "body", "text"}

Statuses == {0, 200, 409, 500}

RequestInit ==
  /\ rpc = "none" /\ kind = "join" /\ held = {} /\ status = 0 /\ whole = FALSE
  /\ ret = 0 /\ agent_id = FALSE /\ answer = 0 /\ agent = FALSE /\ failed = FALSE

(* What the server may have done when the connection ends early: a request *)
(* that was written is handled or not.                                     *)
AgentAfterAll ==
  {agent} \cup IF rpc \in {"allocate", "read"} /\ answer = 0 THEN {kind = "join"} ELSE {}

(* The process ends, and its memory with it. *)
ProcessEnds ==
  /\ rpc' = "none" /\ kind' = "join" /\ held' = {} /\ status' = 0 /\ whole' = FALSE
  /\ ret' = 0 /\ agent_id' = FALSE /\ answer' = 0 /\ failed' = FALSE
  /\ agent' \in AgentAfterAll

(* The request returns r. *)
Return(r) ==
  /\ rpc' = "none"
  /\ ret' = r
  /\ failed' = (failed \/ r < 0)

(* send_join_request or send_leave_request is called. *)
BeginRequest(k) ==
  /\ rpc = "none"
  /\ rpc' = IF k = "join" THEN "json" ELSE "build"
  /\ kind' = k
  /\ status' = 0 /\ whole' = FALSE /\ answer' = 0
  /\ UNCHANGED << held, ret, agent_id, agent, failed >>

(* A step at l creates a thing and goes on to m. *)
Create(l, thing, m) ==
  /\ rpc = l
  /\ held' = held \cup {thing}
  /\ rpc' = m
  /\ UNCHANGED << kind, status, whole, ret, agent_id, answer, agent, failed >>

(* Nothing has been created yet. *)
JsonFails ==
  /\ rpc = "json"
  /\ Return(-1)
  /\ UNCHANGED << kind, held, status, whole, agent_id, answer, agent >>

(* Without a request string there is nothing to clean up. *)
BuildFails ==
  /\ rpc = "build"
  /\ rpc' = "check"
  /\ UNCHANGED << kind, held, status, whole, ret, agent_id, answer, agent, failed >>

(* goto cleanup, from the context to the allocation of the response. *)
StepFails ==
  /\ rpc \in {"context", "socket", "ssl", "connect", "write", "allocate"}
  /\ rpc' = "cleanup"
  /\ agent' \in AgentAfterAll
  /\ UNCHANGED << kind, held, status, whole, ret, agent_id, answer, failed >>

StepSucceeds ==
  /\ \/ rpc = "connect" /\ rpc' = "write"
     \/ rpc = "write" /\ rpc' = "allocate"
  /\ UNCHANGED << kind, held, status, whole, ret, agent_id, answer, agent, failed >>

CreateSomething ==
  \/ Create("json", "json", "build")
  \/ Create("build", "request", "context")
  \/ Create("context", "context", "socket")
  \/ Create("socket", "socket", "ssl")
  \/ Create("ssl", "ssl", "connect")
  \/ Create("allocate", "response", "read")

(* The server handles the request it has got. *)
Serve ==
  /\ rpc = "read" /\ answer = 0
  /\ agent' = (kind = "join")
  /\ answer' \in {IF kind = "join" /\ agent THEN 409 ELSE 200, -1}
  /\ UNCHANGED << rpc, kind, held, status, whole, ret, agent_id, failed >>

(* The server does not, or fails. *)
DoNotServe ==
  /\ rpc = "read" /\ answer = 0
  /\ answer' \in {500, -1}
  /\ UNCHANGED << rpc, kind, held, status, whole, ret, agent_id, agent, failed >>

(* SSL_read returns a part of the answer, with or without the agent's id. *)
Receive(w) ==
  /\ rpc = "read" /\ answer > 0 /\ status = 0
  /\ status' = answer
  /\ whole' = w
  /\ held' = held \cup {"body"}
  /\ UNCHANGED << rpc, kind, ret, agent_id, answer, agent, failed >>

(* realloc fails: response becomes NULL. *)
ReceiveFails ==
  /\ rpc = "read" /\ answer > 0
  /\ held' = held \ {"response", "body"}
  /\ rpc' = "cleanup"
  /\ UNCHANGED << kind, status, whole, ret, agent_id, answer, agent, failed >>

(* SSL_read returns no more. *)
ReceiveEnds ==
  /\ rpc = "read" /\ answer # 0 /\ (answer > 0 => status # 0)
  /\ rpc' = "cleanup"
  /\ UNCHANGED << kind, held, status, whole, ret, agent_id, answer, agent, failed >>

(* A mutant: the socket is not closed. *)
CleanupKeepsSocket ==
  /\ rpc = "cleanup"
  /\ held' = held \ {"request", "ssl", "context"}
  /\ rpc' = "check"
  /\ UNCHANGED << kind, status, whole, ret, agent_id, answer, agent, failed >>

Cleanup ==
  /\ rpc = "cleanup"
  /\ held' = held \ {"request", "ssl", "socket", "context"}
  /\ rpc' = "check"
  /\ UNCHANGED << kind, status, whole, ret, agent_id, answer, agent, failed >>

(* The caller frees its JSON body. There is no response, or a status the   *)
(* caller has no use for; a LEAVE is done.                                 *)
Check ==
  /\ rpc = "check"
  /\ IF "response" \notin held
     THEN Return(-1) /\ held' = held \ {"json"}
     ELSE IF kind = "join" /\ status \in {200, 409}
     THEN rpc' = "extract" /\ held' = held \ {"json"} /\ UNCHANGED << ret, failed >>
     ELSE /\ Return(IF kind = "leave" /\ status = 200 THEN 0 ELSE -1)
          /\ held' = held \ {"json", "response", "body"}
  /\ UNCHANGED << kind, status, whole, agent_id, answer, agent >>

(* send_join_request: the answer holds no JSON, or no agent_id; or memory  *)
(* is short. What was created is freed.                                    *)
AnswerUnusable ==
  /\ rpc \in {"extract", "parse"}
  /\ held' = held \ {"text", "response", "body"}
  /\ Return(-1)
  /\ UNCHANGED << kind, status, whole, agent_id, answer, agent >>

ExtractJson == whole /\ Create("extract", "text", "parse")

(* A mutant: the id of an agent that was there before is not kept. *)
AnswerKeepsNewOnly ==
  /\ rpc = "parse"
  /\ agent_id' = (status = 200)
  /\ held' = held \ {"text", "response", "body"}
  /\ Return(IF status = 200 THEN 0 ELSE 1)
  /\ UNCHANGED << kind, status, whole, answer, agent >>

(* send_join_request: the agent's id is copied, whether the agent is new   *)
(* (200, returns 0) or was there (409, returns 1).                         *)
AnswerUsable ==
  /\ rpc = "parse"
  /\ agent_id' = TRUE
  /\ held' = held \ {"text", "response", "body"}
  /\ Return(IF status = 200 THEN 0 ELSE 1)
  /\ UNCHANGED << kind, status, whole, answer, agent >>

RequestStep ==
  \/ JsonFails \/ BuildFails \/ StepFails \/ StepSucceeds \/ CreateSomething
  \/ Serve \/ DoNotServe
  \/ \E w \in BOOLEAN : Receive(w)
  \/ ReceiveFails \/ ReceiveEnds \/ Cleanup \/ Check
  \/ AnswerUnusable \/ ExtractJson \/ AnswerUsable

RequestType ==
  /\ rpc \in {"none", "json", "build", "context", "socket", "ssl", "connect", "write", "allocate",
              "read", "cleanup", "check", "extract", "parse"}
  /\ kind \in {"join", "leave"}
  /\ held \subseteq Things
  /\ status \in Statuses /\ whole \in BOOLEAN
  /\ ret \in {-1, 0, 1} /\ agent_id \in BOOLEAN
  /\ answer \in Statuses \cup {-1}
  /\ agent \in BOOLEAN /\ failed \in BOOLEAN

=============================================================================
