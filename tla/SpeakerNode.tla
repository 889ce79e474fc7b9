----------------------------- MODULE SpeakerNode -----------------------------
(***************************************************************************)
(* The speaker program (bionic_cat_speaker_module/src/main.cpp,            *)
(* speaker_node.cpp): main starts the node and waits; the MQTT callback    *)
(* thread creates the player and has it play what each message asks for; a *)
(* signal runs SpeakerNode::stop on the main thread, on top of whatever    *)
(* that thread was doing, and so does the destructor of g_node when main   *)
(* has returned.                                                           *)
(*                                                                         *)
(* player_ is shared by the two threads and has no lock: a call on a       *)
(* player that is gone is undefined, and the process dies or goes on as if *)
(* nothing had happened. What a player does is module WavPlayer.           *)
(***************************************************************************)
EXTENDS MqttSubscriber

CONSTANTS
  MaxMessages,  (* Bound of the model: audio_play_commands.         *)
  MaxSignals    (* Bound of the model: signals sent to the program. *)

VARIABLES
  pc,        (* where the two frames of the main thread are. In init:        *)
             (* "connect", "subscribe", "running"; in run: "run"; in stop:   *)
             (* "halt", "clear", "stop", "reset", "disconnect"; ~SpeakerNode *)
             (* after its stop: "members"; "exited"; no handler: "none";     *)
             (* "crashed": the process is gone                               *)
  running,   (* running_                                                     *)
  signals,   (* signals delivered so far (not in the code)                   *)
  cpc,       (* MQTT callback: "idle", "make", "stop", "load", "play"        *)
  messages,  (* messages received so far (not in the code)                   *)
  player     (* player_: "none", "idle", "loaded", "playing"                 *)

main     == << pc, running, signals >>
callback == << cpc, messages >>
vars     == << session, main, callback, player >>

Frames == {"main", "handler"}

(* The main thread runs its innermost frame. *)
Executing(f) == pc["main"] # "crashed" /\ (f = "handler" \/ pc["handler"] = "none")

At(f, l) == Executing(f) /\ pc[f] = l

Goto(f, l) == pc' = [pc EXCEPT ![f] = l]

Init ==
  /\ SessionInit
  /\ pc = [f \in Frames |-> IF f = "main" THEN "connect" ELSE "none"]
  /\ running = FALSE /\ signals = 0
  /\ cpc = "idle" /\ messages = 0 /\ player = "none"

(* A call on player_. *)
Alive == player # "none"

Crash == Goto("main", "crashed")

-----------------------------------------------------------------------------
(* The main thread: init, run and the end of main. *)

InitFails ==
  /\ At("main", "connect") \/ At("main", "subscribe")
  /\ Goto("main", "halt")
  /\ UNCHANGED << session, running, signals, callback, player >>

Connect ==
  /\ At("main", "connect")
  /\ ConnectSucceeds
  /\ Goto("main", "subscribe")
  /\ UNCHANGED << running, signals, callback, player >>

Subscribe ==
  /\ At("main", "subscribe")
  /\ SubscribeSucceeds
  /\ Goto("main", "running")
  /\ UNCHANGED << running, signals, callback, player >>

SetRunning ==
  /\ At("main", "running")
  /\ running' = TRUE
  /\ Goto("main", "run")
  /\ UNCHANGED << session, signals, callback, player >>

(* run ends as soon as the connection is lost, too. The destructor of      *)
(* g_node calls stop.                                                      *)
RunEnds ==
  /\ At("main", "run") /\ (~running \/ link # "up")
  /\ Goto("main", "halt")
  /\ UNCHANGED << session, running, signals, callback, player >>

(* The members of the node are destroyed, the player among them. *)
MembersDestroyed ==
  /\ At("main", "members")
  /\ Goto("main", "exited")
  /\ Disconnect
  /\ player' = "none"
  /\ UNCHANGED << running, signals, callback >>

Signal ==
  /\ Executing("main") /\ pc["main"] # "exited"
  /\ signals < MaxSignals
  /\ signals' = signals + 1
  /\ Goto("handler", "halt")
  /\ UNCHANGED << session, running, callback, player >>

-----------------------------------------------------------------------------
(* stop, in either frame of the main thread. *)

(* What comes after stop. *)
After(f) == IF f = "main" THEN "members" ELSE "none"

Halt(f) ==
  /\ At(f, "halt")
  /\ Goto(f, IF running THEN "clear" ELSE After(f))
  /\ UNCHANGED << session, running, signals, callback, player >>

Clear(f) ==
  /\ At(f, "clear")
  /\ running' = FALSE
  /\ Goto(f, IF Alive THEN "stop" ELSE "disconnect")
  /\ UNCHANGED << session, signals, callback, player >>

StopPlayer(f) ==
  /\ At(f, "stop")
  /\ \/ Alive /\ player' = "idle" /\ Goto(f, "reset")
     \/ ~Alive /\ UNCHANGED player /\ (Crash \/ Goto(f, "reset"))
  /\ UNCHANGED << session, running, signals, callback >>

ResetPlayer(f) ==
  /\ At(f, "reset")
  /\ player' = "none"
  /\ Goto(f, "disconnect")
  /\ UNCHANGED << session, running, signals, callback >>

StopReturns(f) ==
  /\ At(f, "disconnect")
  /\ Disconnect
  /\ Goto(f, After(f))
  /\ UNCHANGED << running, signals, callback, player >>

-----------------------------------------------------------------------------
(* The MQTT callback thread. A message that cannot be decoded changes      *)
(* nothing.                                                                *)

CallbackAt(l) == pc["main"] \notin {"crashed", "exited"} /\ cpc = l

Message ==
  /\ CallbackAt("idle") /\ Receiving
  /\ messages < MaxMessages
  /\ messages' = messages + 1
  /\ cpc' = "make"
  /\ UNCHANGED << session, main, player >>

MakePlayer ==
  /\ CallbackAt("make")
  /\ player' = IF Alive THEN player ELSE "idle"
  /\ cpc' = "stop"
  /\ UNCHANGED << session, main, messages >>

(* A call on the player, at l, leaves it as p, and the callback goes on to *)
(* m.                                                                      *)
Use(l, p, m) ==
  /\ CallbackAt(l)
  /\ cpc' = m
  /\ \/ Alive /\ player' = p /\ UNCHANGED pc
     \/ ~Alive /\ UNCHANGED player /\ (Crash \/ UNCHANGED pc)
  /\ UNCHANGED << session, running, signals, messages >>

PlayCommand ==
  \/ Use("stop", "idle", "load")
  \/ Use("load", "loaded", "play")
  \/ Use("load", "idle", "idle")      (* The file does not load.  *)
  \/ Use("play", "playing", "idle")
  \/ Use("play", "loaded", "idle")    (* The player does not play. *)

-----------------------------------------------------------------------------
Network ==
  /\ pc["main"] \notin {"crashed", "exited"}
  /\ ConnectionLost \/ Reconnect
  /\ UNCHANGED << main, callback, player >>

Next ==
  \/ InitFails \/ Connect \/ Subscribe \/ SetRunning \/ RunEnds \/ MembersDestroyed
  \/ \E f \in Frames : Halt(f) \/ Clear(f) \/ StopPlayer(f) \/ ResetPlayer(f) \/ StopReturns(f)
  \/ Message \/ MakePlayer \/ PlayCommand
  \/ Signal \/ Network

Spec == Init /\ [][Next]_vars

-----------------------------------------------------------------------------
(* "Ctrl+C exits safely" (bionic_cat_speaker_module/README.md:59): the     *)
(* process does not die of a use of the player that its stop has destroyed *)
(* (speaker_node.cpp: SpeakerNode::stop, SpeakerNode::playCommand).        *)
SafeExit == signals > 0 => pc["main"] # "crashed"

=============================================================================
