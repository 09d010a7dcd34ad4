--------------------------- MODULE HandlerRegistry ---------------------------
(***************************************************************************)
(* The handler table every PubSubStore of @meshql/pubsub keeps: a Map from *)
(* channel to a Set of handlers.  `subscribe` creates the Set when the     *)
(* channel has none; the handle it returns closes over THAT Set object, so *)
(* `unsubscribe` works on the Set it captured, while `publish` looks the   *)
(* channel up again.  A Set object is therefore modelled with an identity: *)
(* the subscription that created it.                                       *)
(*                                                                         *)
(* The three stores (memory.ts, redis.ts, postgres.ts) contain this code   *)
(* verbatim and add what they do after it.  A handler is identified with   *)
(* the subscribe() call that passed it: every caller in the repository     *)
(* passes a fresh closure.                                                 *)
(***************************************************************************)
EXTENDS FiniteSets

CONSTANTS
  Channels,   \* channel names (channels.ts: one per entity, one per record)
  Subs,       \* the subscribe() calls a behaviour can contain
  ChannelOf,  \* the channel each of them names
  NoSet       \* "the Map has no entry" / "not subscribed yet"

ASSUME ChannelAssumption == ChannelOf \in [Subs -> Channels]
ASSUME NoSetAssumption == NoSet \notin Subs

VARIABLES
  map,      \* channel -> the Set object the Map holds for it
  members,  \* Set object -> the handlers in it
  closure,  \* subscription -> the Set object its handle closes over
  live      \* subscriptions whose owner has not called unsubscribe()

registryVars == <<map, members, closure, live>>

RegistryTypeOK ==
  /\ map \in [Channels -> Subs \cup {NoSet}]
  /\ members \in [Subs -> SUBSET Subs]
  /\ closure \in [Subs -> Subs \cup {NoSet}]
  /\ live \in SUBSET Subs

RegistryInit ==
  /\ map = [c \in Channels |-> NoSet]
  /\ members = [s \in Subs |-> {}]
  /\ closure = [s \in Subs |-> NoSet]
  /\ live = {}

-----------------------------------------------------------------------------

(***************************************************************************)
(* The handlers a message on channel c reaches: the lookup publish and the *)
(* notification callbacks do at the moment of delivery.                    *)
(***************************************************************************)
Reach(c) == IF map[c] = NoSet THEN {} ELSE members[map[c]]

(***************************************************************************)
(* subscribe(channel, handler), up to the store-specific call that follows *)
(* handlers.add.                                                           *)
(***************************************************************************)
Register(s) ==
  LET c   == ChannelOf[s]
      set == IF map[c] = NoSet THEN s ELSE map[c]
  IN /\ closure[s] = NoSet
     /\ map' = [map EXCEPT ![c] = set]
     /\ members' = [members EXCEPT ![set] = @ \cup {s}]
     /\ closure' = [closure EXCEPT ![s] = set]
     /\ live' = live \cup {s}

(* unsubscribe() reached size 0 and drops the channel from the Map. *)
Empties(s) == members[closure[s]] \subseteq {s}

(***************************************************************************)
(* unsubscribe(), up to the store-specific call after Map.delete.  Nothing *)
(* stops an owner from calling it again later.                             *)
(***************************************************************************)
UnregisterAlwaysDrops(s) ==
  /\ closure[s] # NoSet
  /\ members' = [members EXCEPT ![closure[s]] = @ \ {s}]
  /\ map' = [map EXCEPT ![ChannelOf[s]] = NoSet]
  /\ live' = live \ {s}
  /\ UNCHANGED closure

Unregister(s) ==
  /\ closure[s] # NoSet
  /\ members' = [members EXCEPT ![closure[s]] = @ \ {s}]
  /\ map' = IF Empties(s) THEN [map EXCEPT ![ChannelOf[s]] = NoSet] ELSE map
  /\ live' = live \ {s}
  /\ UNCHANGED closure

-----------------------------------------------------------------------------

(***************************************************************************)
(* What the table is for: a subscription that has not been cancelled is    *)
(* found by the next lookup of its channel, whatever other subscriptions   *)
(* of the channel came and went before and after it.                       *)
(***************************************************************************)
LiveIsReachable == \A s \in live : s \in Reach(ChannelOf[s])

(* ... and a cancelled one is not. *)
CancelledIsUnreachable == \A c \in Channels : Reach(c) \subseteq live

(***************************************************************************)
(* Why it is: a handler is in a Set exactly while it is live and its       *)
(* handle closes over that Set, and a Set the Map holds is not empty.      *)
(* These hold even when handles are used again.                            *)
(***************************************************************************)
HandlesInv ==
  /\ \A s \in live : closure[s] # NoSet
  /\ \A s, t \in Subs : s \in members[t] <=> s \in live /\ closure[s] = t
  /\ \A s \in Subs : closure[s] # NoSet =>
        ChannelOf[closure[s]] = ChannelOf[s] /\ closure[closure[s]] = closure[s]
  /\ \A c \in Channels : map[c] # NoSet =>
        ChannelOf[map[c]] = c /\ members[map[c]] # {}

(* The live handles of channel c close over the Set the Map holds for it:
   true as long as none of its handles is used twice. *)
OneSet(c) == \A s \in live : ChannelOf[s] = c => map[c] = closure[s]

(* The strengthening that is inductive when every handle is used once. *)
RegistryInv == HandlesInv /\ \A c \in Channels : OneSet(c)

=============================================================================
