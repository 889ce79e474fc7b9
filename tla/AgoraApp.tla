------------------------------- MODULE AgoraApp -------------------------------
(***************************************************************************)
(* The Agora app (agora_module/src/hello_rtsa.c): main sets the devices    *)
(* and the SDK up, has the server start an agent (module AgentRequest),    *)
(* sends what the microphone records at the pace of module Pacer until it  *)
(* is told to stop, has the agent leave and tidies up. The callbacks of    *)
(* the SDK and the signal handler set the two flags main looks at.         *)
(*                                                                         *)
(* The process may be killed at any point, and run again: the server keeps *)
(* the agent. The playback side of the app is module PlaybackRing.         *)
(*                                                                         *)
(* record_init leaves a device that did not open closed but not NULL, and  *)
(* main reads from it and closes it again; and a goto exit before          *)
(* pacer_create leaves pacer uninitialised. The process survives such a    *)
(* use or does not.                                                        *)
(***************************************************************************)
EXTENDS AgentRequest, Pacer

CONSTANT MaxRuns  (* Bound of the model: times the program is started. *)

ASSUME AppAssumption == MaxRuns \in Nat

VARIABLES
  mpc,           (* where main is; "off", "done", "returned" (it gave up    *)
                 (* before the JOIN) and "crashed": there is no process     *)
  runs,          (* times the program was started                           *)
  receive_only,  (* config.receive_data_only                                *)
  capture,       (* capture_pcm: "null", "open", "closed" (but not NULL)    *)
  connected,     (* b_connected_flag                                        *)
  stop,          (* b_stop_flag                                             *)
  created        (* has pacer been assigned?                                *)

flags  == << connected, stop >>
config == << runs, receive_only >>
vars   == << mpc, config, capture, flags, created, request, clock, pacer >>

Ended == {"off", "done", "returned", "crashed"}

(* Main is between agora_rtc_join_channel and agora_rtc_leave_channel. *)
InChannel == {"join", "joining", "wait", "loop", "read", "send", "sleep", "exit", "leaving", "leave"}

Init ==
  /\ mpc = "off" /\ runs = 0 /\ receive_only = FALSE
  /\ capture = "null" /\ connected = FALSE /\ stop = FALSE /\ created = FALSE
  /\ RequestInit /\ ClockInit /\ PacerInit

(* The globals of a new process; the pacer counts from its first frame.    *)
Launch ==
  /\ mpc \in Ended /\ runs < MaxRuns
  /\ mpc' = "init"
  /\ runs' = runs + 1
  /\ receive_only' \in BOOLEAN
  /\ capture' = "null" /\ connected' = FALSE /\ stop' = FALSE /\ created' = FALSE
  /\ ProcessEnds
  /\ now' = 1 /\ high' = 1
  /\ PacerCreate

Kill ==
  /\ mpc \notin Ended
  /\ mpc' = "crashed"
  /\ ProcessEnds
  /\ UNCHANGED << config, capture, flags, created, clock, pacer >>

-----------------------------------------------------------------------------
(* Setting up. *)

(* app_init, record_init: the device opens; it does not; or its buffer is  *)
(* not there and it is closed.                                             *)
RecordInit ==
  /\ mpc = "init"
  /\ capture' \in {"open", "closed", "null"}
  /\ mpc' = "sdk"
  /\ UNCHANGED << config, flags, created, request, clock, pacer >>

(* agora_rtc_init to agora_rtc_join_channel: at any failure main returns.  *)
SdkFails ==
  /\ mpc = "sdk"
  /\ mpc' = "returned"
  /\ UNCHANGED << config, capture, flags, created, request, clock, pacer >>

JoinChannel ==
  /\ mpc = "sdk"
  /\ mpc' = "join"
  /\ UNCHANGED << config, capture, flags, created, request, clock, pacer >>

SendJoin ==
  /\ mpc = "join"
  /\ BeginRequest("join")
  /\ mpc' = "joining"
  /\ UNCHANGED << config, capture, flags, created, clock, pacer >>

(* Every answer but 0 is a failure: 1 too, for an agent that was there.    *)
JoinReturns ==
  /\ mpc = "joining" /\ rpc = "none"
  /\ mpc' = IF ret = 0 THEN "wait" ELSE "exit"
  /\ UNCHANGED << config, capture, flags, created, request, clock, pacer >>

(* A mutant: main waits for the channel, whatever it is told. *)
WaitForChannel ==
  /\ mpc = "wait" /\ connected
  /\ mpc' = "loop"
  /\ created' = TRUE
  /\ PacerCreate
  /\ UNCHANGED << config, capture, flags, request, clock >>

(* The wait for the channel is over; pacer_create. *)
WaitEnds ==
  /\ mpc = "wait" /\ (connected \/ stop)
  /\ mpc' = "loop"
  /\ created' = TRUE
  /\ PacerCreate
  /\ UNCHANGED << config, capture, flags, request, clock >>

-----------------------------------------------------------------------------
(* Sending. A main that only receives sleeps and looks at stop again.      *)

LoopStops ==
  /\ mpc = "loop" /\ stop
  /\ mpc' = "exit"
  /\ UNCHANGED << config, capture, flags, created, request, clock, pacer >>

LoopGoesOn ==
  /\ mpc = "loop" /\ ~stop /\ ~receive_only
  /\ mpc' = IF capture = "null" THEN "exit" ELSE "read"
  /\ UNCHANGED << config, capture, flags, created, request, clock, pacer >>

Read ==
  /\ mpc = "read" /\ capture = "open"
  /\ mpc' = "send"
  /\ UNCHANGED << config, capture, flags, created, request, clock, pacer >>

ReadFails ==
  /\ mpc = "read"
  /\ mpc' \in IF capture = "open" THEN {"exit"} ELSE {"exit", "crashed"}
  /\ UNCHANGED << config, capture, flags, created, request, clock, pacer >>

(* agora_rtc_send_audio_data succeeds or fails. *)
Send ==
  /\ mpc = "send" /\ connected
  /\ SendDue
  /\ mpc' \in {"sleep", "exit"}
  /\ UNCHANGED << config, capture, flags, created, request, clock >>

(* What was recorded is dropped. *)
SkipFrame ==
  /\ mpc = "send"
  /\ connected => ~TimeToSend
  /\ mpc' = "sleep"
  /\ UNCHANGED << config, capture, flags, created, request, clock, pacer >>

SleepEnds ==
  /\ mpc = "sleep" /\ SleepTime = 0
  /\ mpc' = "loop"
  /\ UNCHANGED << config, capture, flags, created, request, clock, pacer >>

-----------------------------------------------------------------------------
(* exit: *)

SendLeave ==
  /\ mpc = "exit" /\ agent_id
  /\ BeginRequest("leave")
  /\ mpc' = "leaving"
  /\ UNCHANGED << config, capture, flags, created, clock, pacer >>

NothingToLeave ==
  /\ mpc = "exit" /\ ~agent_id
  /\ mpc' = "leave"
  /\ UNCHANGED << config, capture, flags, created, request, clock, pacer >>

LeaveReturns ==
  /\ mpc = "leaving" /\ rpc = "none"
  /\ mpc' = "leave"
  /\ UNCHANGED << config, capture, flags, created, request, clock, pacer >>

(* agora_rtc_leave_channel to agora_rtc_fini: no callback comes any more.  *)
LeaveChannel ==
  /\ mpc = "leave"
  /\ mpc' = "deinit"
  /\ UNCHANGED << config, capture, flags, created, request, clock, pacer >>

RecordDeinit ==
  /\ mpc = "deinit"
  /\ capture' = "null"
  /\ mpc' \in IF capture = "closed" THEN {"destroy", "crashed"} ELSE {"destroy"}
  /\ UNCHANGED << config, flags, created, request, clock, pacer >>

PacerDestroy ==
  /\ mpc = "destroy"
  /\ mpc' \in IF created THEN {"done"} ELSE {"done", "crashed"}
  /\ UNCHANGED << config, capture, flags, created, request, clock, pacer >>

-----------------------------------------------------------------------------
(* Everybody else. *)

(* __on_join_channel_success, __on_rejoin_channel_success. *)
Joined ==
  /\ mpc \in InChannel
  /\ connected' = TRUE
  /\ UNCHANGED << mpc, config, capture, stop, created, request, clock, pacer >>

(* __on_reconnecting, __on_connection_lost. *)
ConnectionLost ==
  /\ mpc \in InChannel
  /\ connected' = FALSE
  /\ UNCHANGED << mpc, config, capture, stop, created, request, clock, pacer >>

(* __on_error, but for the bandwidth, and __on_license_failed in the       *)
(* channel; app_signal_handler at any time after signal().                 *)
StopAsked ==
  /\ mpc \notin Ended \cup {"init"}
  /\ stop' = TRUE
  /\ UNCHANGED << mpc, config, capture, connected, created, request, clock, pacer >>

(* The clock matters, and is looked at, while main sends. *)
TimePasses ==
  /\ mpc \in {"loop", "read", "send", "sleep"}
  /\ Tick \/ SetBack
  /\ UNCHANGED << mpc, config, capture, flags, created, request, pacer >>

-----------------------------------------------------------------------------
InRequest ==
  /\ mpc \in {"joining", "leaving"}
  /\ RequestStep
  /\ UNCHANGED << mpc, config, capture, flags, created, clock, pacer >>

Setup == RecordInit \/ SdkFails \/ JoinChannel \/ SendJoin \/ JoinReturns \/ WaitEnds

Loop == LoopStops \/ LoopGoesOn \/ Read \/ ReadFails \/ Send \/ SkipFrame \/ SleepEnds

Exit ==
  \/ SendLeave \/ NothingToLeave \/ LeaveReturns \/ LeaveChannel
  \/ RecordDeinit \/ PacerDestroy

Main == Setup \/ InRequest \/ Loop \/ Exit

Around == Joined \/ ConnectionLost \/ StopAsked \/ TimePasses \/ Launch \/ Kill

Next == Main \/ Around

(* Main goes on; the requests end, for the server answers or the           *)
(* connection breaks; and the device records or fails.                     *)
Spec == Init /\ [][Next]_vars /\ WF_vars(Main)

-----------------------------------------------------------------------------
(* Every variable has values of its type (hello_rtsa.c: app_t; see also    *)
(* RequestType and PacerType).                                             *)
TypeOK ==
  /\ mpc \in Ended \cup InChannel \cup {"init", "sdk", "deinit", "destroy"}
  /\ runs \in 0 .. MaxRuns /\ receive_only \in BOOLEAN
  /\ capture \in {"null", "open", "closed"}
  /\ connected \in BOOLEAN /\ stop \in BOOLEAN /\ created \in BOOLEAN
  /\ RequestType /\ ClockType /\ PacerType

(* However far a request came (send_https_request and its two callers),    *)
(* what it created is given back, once and for all.                        *)
Released == rpc = "none" => held = {}

(* A process that ran to its end, and whose requests the server answered,  *)
(* leaves no agent on the server: neither its own nor one that an earlier  *)
(* process left behind when it was killed (send_join_request, 409).        *)
LeavesAgent == mpc = "done" /\ ~failed => ~agent

(* However irregularly main reads, and even when the clock is set back,    *)
(* the frames sent since the first never exceed what the greatest time     *)
(* read since then allows (is_time_to_send_audio).                         *)
Paced ==
  sent > 0 => /\ due <= high + Interval
              /\ sent <= (high - first) \div Interval + 1

(* A stop asked for by a signal, an error or the license, wherever main    *)
(* is, ends the program (hello_rtsa.c: main).                              *)
StopEnds == (stop /\ mpc \notin Ended) ~> mpc \in Ended

=============================================================================
