----------------------------- MODULE RedisPubSub -----------------------------
(***************************************************************************)
(* RedisPubSubStore (pubsub/src/redis.ts): pub/sub over two connections of *)
(* node-redis, one publishing and one subscribing.                         *)
(*                                                                         *)
(* subscribe() and unsubscribe() change the handler table at once and      *)
(* queue ensureSubscribed or maybeUnsubscribe behind the `ready` promise.  *)
(* Both decide and update `subscribed` before they await the command, so a *)
(* command is issued in the order its decision was taken.                  *)
(*                                                                         *)
(* node-redis keeps a record of listener closures per channel.  Its        *)
(* subscribe() sends SUBSCRIBE only if there is no record, and adds the    *)
(* closure when the reply comes; if there is one it adds the closure at    *)
(* once and sends nothing.  Its unsubscribe() without a closure, as used   *)
(* here, always sends UNSUBSCRIBE, and the reply deletes the record with   *)
(* every closure added meanwhile.                                          *)
(***************************************************************************)
EXTENDS Queues

CONSTANTS
  MaxMsgs,     \* bound: messages published per channel
  MaxFailures  \* bound: SUBSCRIBE commands that are rejected

ASSUME BoundsAssumption == MaxMsgs \in Nat /\ MaxFailures \in Nat

VARIABLES
  ready,       \* this.ready has resolved
  tasks,       \* this.ready.then(...) callbacks not yet run
  subscribed,  \* this.subscribed
  cmds,        \* commands issued on the subscriber connection, not yet executed
  down,        \* confirmations and messages not yet received
  session,     \* channels the server forwards on the subscriber connection
  attached,    \* channel -> closures in its record (0: it has no record)
  sent,        \* channel -> messages published
  seen,        \* subscription -> last message its handler was called with
  twice,       \* subscription -> messages its handler was called with more than once
  failures,    \* SUBSCRIBE commands rejected so far
  orphaned,    \* channels whose SUBSCRIBE was rejected while `subscribed` kept them
  crossed      \* channels subscribed again before the UNSUBSCRIBE reply came

linkVars == <<ready, tasks, subscribed, cmds>>
redisVars == <<registryVars, linkVars, down, session, attached, sent, seen, twice, failures,
               orphaned, crossed>>

Commands == [op : {"SUBSCRIBE", "UNSUBSCRIBE"}, ch : Channels]
Events == [type : {"done"}, op : {"SUBSCRIBE", "UNSUBSCRIBE"}, ch : Channels]
            \cup [type : {"message"}, ch : Channels, n : Nat]

RedisTypeOK ==
  /\ RegistryTypeOK
  /\ ready \in BOOLEAN
  /\ tasks \in Seq([op : {"ensure", "maybe"}, ch : Channels])
  /\ subscribed \in SUBSET Channels
  /\ cmds \in Seq(Commands)
  /\ down \in Seq(Events)
  /\ session \in SUBSET Channels
  /\ attached \in [Channels -> Nat]
  /\ sent \in [Channels -> Nat]
  /\ seen \in [Subs -> Nat]
  /\ twice \in [Subs -> SUBSET Nat]
  /\ failures \in Nat
  /\ orphaned \in SUBSET Channels
  /\ crossed \in SUBSET Channels

RedisInit ==
  /\ RegistryInit
  /\ ready = FALSE
  /\ tasks = <<>>
  /\ subscribed = {}
  /\ cmds = <<>>
  /\ down = <<>>
  /\ session = {}
  /\ attached = [c \in Channels |-> 0]
  /\ sent = [c \in Channels |-> 0]
  /\ seen = [s \in Subs |-> 0]
  /\ twice = [s \in Subs |-> {}]
  /\ failures = 0
  /\ orphaned = {}
  /\ crossed = {}

-----------------------------------------------------------------------------

subscribe(s) ==
  /\ Register(s)
  /\ tasks' = Append(tasks, [op |-> "ensure", ch |-> ChannelOf[s]])
  /\ UNCHANGED <<ready, subscribed, cmds, down, session, attached, sent, seen, twice, failures,
                 orphaned, crossed>>

unsubscribe(s) ==
  /\ s \in live
  /\ Unregister(s)
  /\ tasks' = IF Empties(s) THEN Append(tasks, [op |-> "maybe", ch |-> ChannelOf[s]]) ELSE tasks
  /\ UNCHANGED <<ready, subscribed, cmds, down, session, attached, sent, seen, twice, failures,
                 orphaned, crossed>>

(* connect(): both connections are up. *)
Connected ==
  /\ ~ready
  /\ ready' = TRUE
  /\ UNCHANGED <<registryVars, tasks, subscribed, cmds, down, session, attached, sent, seen,
                 twice, failures, orphaned, crossed>>

(* A command joins the connection's queue. *)
Issue(op, c) == cmds' = Append(cmds, [op |-> op, ch |-> c])

(* subscriber.subscribe(c, closure): a channel with a record asks for nothing.
   `subscribed` no longer has it, so an UNSUBSCRIBE of it is on its way. *)
ClientSubscribe(c) ==
  IF attached[c] > 0
    THEN /\ attached' = [attached EXCEPT ![c] = @ + 1]
         /\ crossed' = crossed \cup {c}
         /\ UNCHANGED cmds
    ELSE /\ Issue("SUBSCRIBE", c)
         /\ UNCHANGED <<attached, crossed>>

EnsureSubscribedLate(c) ==
  /\ UNCHANGED <<subscribed, orphaned>>
  /\ IF c \in subscribed THEN UNCHANGED <<cmds, attached, crossed>> ELSE ClientSubscribe(c)

ensureSubscribed(c) ==
  /\ subscribed' = subscribed \cup {c}
  /\ IF c \in subscribed THEN UNCHANGED <<cmds, attached, crossed>> ELSE ClientSubscribe(c)
  /\ UNCHANGED orphaned

MaybeUnsubscribeKeepsMark(c) ==
  /\ IF map[c] # NoSet
       THEN UNCHANGED <<cmds, orphaned, crossed>>
       ELSE /\ Issue("UNSUBSCRIBE", c)
            /\ orphaned' = orphaned \ {c}
            /\ crossed' = crossed \ {c}
  /\ UNCHANGED <<subscribed, attached>>

maybeUnsubscribe(c) ==
  /\ IF map[c] # NoSet
       THEN UNCHANGED <<subscribed, cmds, orphaned, crossed>>
       ELSE /\ subscribed' = subscribed \ {c}
            /\ Issue("UNSUBSCRIBE", c)
            /\ orphaned' = orphaned \ {c}
            /\ crossed' = crossed \ {c}
  /\ UNCHANGED attached

(* The next callback queued behind `ready` runs, up to its await.  Replies and
   messages that came together are worked off in one turn, and a handler called
   there may subscribe or unsubscribe: its callback runs after the rest. *)
RunTask ==
  /\ ready /\ tasks # <<>>
  /\ LET t == Head(tasks) IN
       IF t.op = "ensure" THEN ensureSubscribed(t.ch) ELSE maybeUnsubscribe(t.ch)
  /\ tasks' = Tail(tasks)
  /\ UNCHANGED <<registryVars, ready, down, session, sent, seen, twice, failures>>

-----------------------------------------------------------------------------

(* The server executes the next command of the subscriber connection. *)
Execute ==
  /\ cmds # <<>>
  /\ LET q == Head(cmds) IN
       /\ session' = IF q.op = "SUBSCRIBE" THEN session \cup {q.ch} ELSE session \ {q.ch}
       /\ down' = Append(down, [type |-> "done", op |-> q.op, ch |-> q.ch])
  /\ cmds' = Tail(cmds)
  /\ UNCHANGED <<registryVars, ready, tasks, subscribed, attached, sent, seen, twice, failures,
                 orphaned, crossed>>

(* A SUBSCRIBE is rejected (a dropped connection, a missing permission):
   nothing takes the channel out of `subscribed` again. *)
SubscribeFails ==
  /\ failures < MaxFailures
  /\ cmds # <<>> /\ Head(cmds).op = "SUBSCRIBE"
  /\ cmds' = Tail(cmds)
  /\ failures' = failures + 1
  /\ orphaned' = orphaned \cup {Head(cmds).ch}
  /\ UNCHANGED <<registryVars, ready, tasks, subscribed, down, session, attached, sent, seen,
                 twice, crossed>>

(* publish(): PUBLISH on the other connection, awaited behind `ready`. *)
publish(c) ==
  /\ ready /\ sent[c] < MaxMsgs
  /\ sent' = [sent EXCEPT ![c] = @ + 1]
  /\ down' = IF c \in session
               THEN Append(down, [type |-> "message", ch |-> c, n |-> sent[c] + 1])
               ELSE down
  /\ UNCHANGED <<registryVars, linkVars, session, attached, seen, twice, failures, orphaned,
                 crossed>>

ConfirmedCountsDown ==
  /\ down # <<>> /\ Head(down).type = "done"
  /\ LET e == Head(down) IN
       attached' = [attached EXCEPT ![e.ch] = IF e.op = "SUBSCRIBE" THEN @ + 1 ELSE @ - 1]
  /\ down' = Tail(down)
  /\ UNCHANGED <<registryVars, linkVars, session, sent, seen, twice, failures, orphaned, crossed>>

(* node-redis sees the reply: that of a SUBSCRIBE adds the closure it was
   sent for, that of an UNSUBSCRIBE deletes the record. *)
Confirmed ==
  /\ down # <<>> /\ Head(down).type = "done"
  /\ LET e == Head(down) IN
       attached' = [attached EXCEPT ![e.ch] = IF e.op = "SUBSCRIBE" THEN @ + 1 ELSE 0]
  /\ down' = Tail(down)
  /\ UNCHANGED <<registryVars, linkVars, session, sent, seen, twice, failures, orphaned, crossed>>

(* Each closure of the record calls every handler in `to`. *)
Calls(e, to) ==
  /\ seen' = [s \in Subs |-> IF attached[e.ch] > 0 /\ s \in to THEN e.n ELSE seen[s]]
  /\ twice' = [s \in Subs |->
                 IF attached[e.ch] > 1 /\ s \in to THEN twice[s] \cup {e.n} ELSE twice[s]]

MessageToCancelled ==
  /\ down # <<>> /\ Head(down).type = "message"
  /\ LET e == Head(down) IN Calls(e, {s \in Subs : ChannelOf[s] = e.ch /\ closure[s] # NoSet})
  /\ down' = Tail(down)
  /\ UNCHANGED <<registryVars, linkVars, session, attached, sent, failures, orphaned, crossed>>

(* A message: each closure calls every handler the channel has now. *)
Message ==
  /\ down # <<>> /\ Head(down).type = "message"
  /\ LET e == Head(down) IN Calls(e, Reach(e.ch))
  /\ down' = Tail(down)
  /\ UNCHANGED <<registryVars, linkVars, session, attached, sent, failures, orphaned, crossed>>

RedisNext ==
  \/ Connected \/ RunTask \/ Execute \/ SubscribeFails \/ Confirmed \/ Message
  \/ \E s \in Subs : subscribe(s) \/ unsubscribe(s)
  \/ \E c \in Channels : publish(c)

(***************************************************************************)
(* The event loop runs queued callbacks, and the connection makes          *)
(* progress; callers may stop subscribing and publishing at any time, and  *)
(* nothing has to fail.                                                    *)
(***************************************************************************)
RedisFairness ==
  /\ WF_redisVars(Connected) /\ WF_redisVars(RunTask) /\ WF_redisVars(Execute)
  /\ WF_redisVars(Confirmed) /\ WF_redisVars(Message)

RedisSpec == RedisInit /\ [][RedisNext]_redisVars /\ RedisFairness

-----------------------------------------------------------------------------
(* Properties *)

Call(op, c) == [op |-> op, ch |-> c]
Done(op, c) == [type |-> "done", op |-> op, ch |-> c]

(* An UNSUBSCRIBE of the channel is queued, or its reply has not come. *)
Unsubscribing(c) ==
  \/ \E i \in 1..Len(cmds) : cmds[i] = Call("UNSUBSCRIBE", c)
  \/ \E i \in 1..Len(down) : down[i] = Done("UNSUBSCRIBE", c)

Settled == tasks = <<>> /\ cmds = <<>> /\ \A i \in DOMAIN down : down[i].type = "message"

(***************************************************************************)
(* Once callbacks, commands and replies are done, a channel with handlers  *)
(* is forwarded by the server and has one closure, unless its SUBSCRIBE    *)
(* was rejected or it was subscribed again before an UNSUBSCRIBE reply: a  *)
(* channel that was crossed is deaf, for certain, and nothing else is.     *)
(* `subscribed` has every channel with handlers even so, which is why no   *)
(* later subscriber asks for them again.                                   *)
(***************************************************************************)
SettledUnlessLost ==
  Settled => \A c \in Channels :
    /\ c \in subscribed <=> Reach(c) # {}
    /\ c \notin orphaned => (c \in session <=> Reach(c) # {} /\ c \notin crossed)
    /\ attached[c] = IF c \in session THEN 1 ELSE 0

(***************************************************************************)
(* A channel has a second closure, each of which calls every handler, only *)
(* while an UNSUBSCRIBE that will take all of them away is on its way.     *)
(***************************************************************************)
OneClosureUnlessUnsubscribing == \A c \in Channels : attached[c] > 1 => Unsubscribing(c)

(***************************************************************************)
(* Every step is a step of PubSubContract, but that a message may be given *)
(* to a handler more than once while an UNSUBSCRIBE of its channel is on   *)
(* its way.                                                                *)
(***************************************************************************)
Contract == INSTANCE PubSubContract WITH reach <- [c \in Channels |-> Reach(c)]

OnceUnlessUnsubscribing ==
  \A s \in Subs : twice'[s] # twice[s] => Unsubscribing(ChannelOf[s])

ContractUnlessCrossed ==
  Contract!ContractInit /\
  [][Contract!ContractNext /\ OnceUnlessUnsubscribing]_<<Contract!contractVars, twice>>

(***************************************************************************)
(* A subscription that is kept ends up being served: its channel is        *)
(* forwarded by the server and a closure is attached for it, unless a      *)
(* SUBSCRIBE was rejected or the channel was crossed.                      *)
(***************************************************************************)
Served(s) == ChannelOf[s] \in session /\ attached[ChannelOf[s]] = 1

KeptSubscriptionIsServed ==
  \A s \in Subs :
    s \in live ~> Served(s) \/ s \notin live \/ failures > 0 \/ ChannelOf[s] \in crossed

(***************************************************************************)
(* Why.  The callbacks queued behind `ready` turn `subscribed` into the    *)
(* channels with handlers; the commands on their way turn the channels of  *)
(* the session into `subscribed`, without those that were crossed or whose *)
(* SUBSCRIBE was rejected, and never subscribe a channel twice; the        *)
(* replies on their way turn the channels with a record into the session;  *)
(* and the messages on their way are new to every handler.                 *)
(***************************************************************************)
TasksMakeSubscribed ==
  \A c \in Channels :
    map[c] = NoSet <=> EndsOff(tasks, Call("ensure", c), Call("maybe", c), c \in subscribed)

CommandsMakeSession ==
  \A c \in Channels :
    LET start == Call("SUBSCRIBE", c)
        stop == Call("UNSUBSCRIBE", c)
    IN  /\ c \notin subscribed \/ c \in crossed => EndsOff(cmds, start, stop, c \in session)
        /\ c \in subscribed \ (orphaned \cup crossed)
             => ~EndsOff(cmds, start, stop, c \in session)
        /\ StartsOnce(cmds, start, stop, c \in session)

CrossedAreSubscribed == crossed \subseteq subscribed

Attached == {c \in Channels : attached[c] > 0}

RepliesMakeAttached ==
  \A c \in Channels :
    LET start == Done("SUBSCRIBE", c)
        stop == Done("UNSUBSCRIBE", c)
    IN  /\ c \notin session <=> EndsOff(down, start, stop, c \in Attached)
        /\ StartsOnce(down, start, stop, c \in Attached)

MessagesAreNew == SeenPublished(sent, seen) /\ Pending(down, "message", sent, seen, live)

RedisInv ==
  /\ RedisTypeOK /\ RegistryInv
  /\ TasksMakeSubscribed /\ CommandsMakeSession /\ CrossedAreSubscribed
  /\ RepliesMakeAttached /\ OneClosureUnlessUnsubscribing /\ MessagesAreNew

=============================================================================
