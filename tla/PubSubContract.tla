--------------------------- MODULE PubSubContract ---------------------------
(***************************************************************************)
(* What a PubSubStore (pubsub/src/store.ts) promises its callers, without  *)
(* saying how: while a handler is registered it is called with messages    *)
(* published on its channel, each at most once, in the order they were     *)
(* published, and never after its owner cancelled it.  Messages may be     *)
(* lost (a store that is not connected yet loses them).                    *)
(*                                                                         *)
(* The stores are shown to implement this specification under a refinement *)
(* mapping; it is not checked on its own.                                  *)
(***************************************************************************)
EXTENDS Naturals, FiniteSets

CONSTANTS Channels, Subs, ChannelOf

VARIABLES
  reach,  \* channel -> handlers a message delivered now would reach
  sent,   \* channel -> number of messages published
  seen    \* subscription -> the last message its handler was called with

contractVars == <<reach, sent, seen>>

ContractInit ==
  /\ reach = [c \in Channels |-> {}]
  /\ sent = [c \in Channels |-> 0]
  /\ seen = [s \in Subs |-> 0]

Subscribe(s) ==
  /\ reach' = [reach EXCEPT ![ChannelOf[s]] = @ \cup {s}]
  /\ UNCHANGED <<sent, seen>>

Unsubscribe(s) ==
  /\ reach' = [reach EXCEPT ![ChannelOf[s]] = @ \ {s}]
  /\ UNCHANGED <<sent, seen>>

Publish(c) ==
  /\ sent' = [sent EXCEPT ![c] = @ + 1]
  /\ UNCHANGED <<reach, seen>>

(***************************************************************************)
(* Message n of channel c is handed to every handler registered on c, none *)
(* of which has seen it or a later one.                                    *)
(***************************************************************************)
Deliver(c, n) ==
  /\ n \in 1..sent[c]
  /\ \A s \in reach[c] : seen[s] < n
  /\ seen' = [s \in Subs |-> IF s \in reach[c] THEN n ELSE seen[s]]
  /\ UNCHANGED <<reach, sent>>

ContractNext ==
  \/ \E s \in Subs : Subscribe(s) \/ Unsubscribe(s)
  \/ \E c \in Channels : Publish(c) \/ (\E n \in 1..sent[c] : Deliver(c, n))

ContractSpec == ContractInit /\ [][ContractNext]_contractVars

=============================================================================
