---------------------------- MODULE MqttSubscriber ----------------------------
(***************************************************************************)
(* MQTTSubscriber of bionic_cat_mqtt_utils/include/mqtt_client.hpp: one    *)
(* Paho client that connects with a clean session and automatic            *)
(* reconnection, and subscribes to one topic. The nodes extend this module *)
(* with what their handler does with a message.                            *)
(*                                                                         *)
(* The broker and the Paho library are external: a connection may be lost  *)
(* at any time and is found again by the library. A clean session takes no *)
(* subscription with it, and no code subscribes a second time.             *)
(***************************************************************************)
EXTENDS Naturals

CONSTANT
  MaxLosses  (* Bound of the model: connections lost. *)

ASSUME SubscriberAssumption == MaxLosses \in Nat

VARIABLES
  link,        (* "off": not connected, nor going to be; "up"; "lost": Paho   *)
               (* is trying to connect again                                  *)
  subscribed,  (* does the broker hold a subscription for the session?        *)
  losses       (* connections lost so far (not in the code)                   *)

session == << link, subscribed, losses >>

SessionInit == link = "off" /\ subscribed = FALSE /\ losses = 0

(* connect: the token is waited for, and says that the session is there. *)
ConnectSucceeds ==
  /\ link = "off"
  /\ link' = "up"
  /\ UNCHANGED << subscribed, losses >>

(* subscribe: it fails (an exception, false) without a connection. *)
SubscribeSucceeds ==
  /\ link = "up"
  /\ subscribed' = TRUE
  /\ UNCHANGED << link, losses >>

(* disconnect: an error (there is no connection) is printed. Either way    *)
(* Paho does not connect again.                                            *)
Disconnect ==
  /\ link' = "off"
  /\ subscribed' = FALSE
  /\ UNCHANGED losses

(* connection_lost: no handler is set, it prints. *)
ConnectionLost ==
  /\ link = "up" /\ losses < MaxLosses
  /\ link' = "lost"
  /\ subscribed' = FALSE
  /\ losses' = losses + 1

(* Automatic reconnection, with a clean session again. *)
Reconnect ==
  /\ link = "lost"
  /\ link' = "up"
  /\ UNCHANGED << subscribed, losses >>

(* The broker may deliver a message. *)
Receiving == link = "up" /\ subscribed

SessionType ==
  /\ link \in {"off", "up", "lost"}
  /\ subscribed \in BOOLEAN
  /\ losses \in 0 .. MaxLosses

=============================================================================
