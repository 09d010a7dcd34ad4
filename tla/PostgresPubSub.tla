--------------------------- MODULE PostgresPubSub ---------------------------
(***************************************************************************)
(* PostgresPubSubStore (pubsub/src/postgres.ts): pub/sub over LISTEN and   *)
(* NOTIFY on one dedicated client of a pg Pool.                            *)
(*                                                                         *)
(* JavaScript runs each callback to its end, so one action is the code     *)
(* between two awaits.  A pg client executes its queries in the order they *)
(* were issued (cmds), and the server's answers and notifications arrive   *)
(* on one stream (down).  What `await` separates is separated here: the    *)
(* listened set is written when the answer to LISTEN or UNLISTEN has come  *)
(* back, long after it was read.                                           *)
(*                                                                         *)
(* A client given back to the pool by close() keeps its session (node-     *)
(* postgres does not reset it) and its notification callbacks, and the     *)
(* pool may hand the same client out again.                                *)
(***************************************************************************)
EXTENDS Queues

CONSTANTS
  Clients,    \* the pool's clients
  NoClient,
  MaxMsgs,    \* bound: NOTIFYs committed per channel
  MaxCloses   \* bound: calls of close() that find a listener

ASSUME NoClientAssumption == NoClient \notin Clients
ASSUME BoundsAssumption == MaxMsgs \in Nat /\ MaxCloses \in Nat

VARIABLES
  listener,       \* this.listener
  listenerReady,  \* this.listenerReady: null, or the state of its promise
  waiting,        \* queries suspended on listenerReady, in the order they will run
  listened,       \* this.listened
  hooks,          \* client -> "notification" callbacks attached to it
  cmds,           \* client -> queries issued and not yet executed
  down,           \* client -> answers and notifications not yet received
  session,        \* client -> channels its server session listens on
  broken,         \* clients whose connection is gone
  sent,           \* channel -> NOTIFYs committed
  seen,           \* subscription -> last message its handler was called with
  closes,         \* effective calls of close()
  raced           \* channels whose last (un)subscribe overtook the opposite command

connVars == <<listener, listenerReady, waiting, hooks, cmds, broken>>
pgVars == <<registryVars, connVars, listened, down, session, sent, seen, closes, raced>>

Commands == [op : {"LISTEN", "UNLISTEN"}, ch : Channels]
Events == [type : {"done"}, op : {"LISTEN", "UNLISTEN"}, ch : Channels]
            \cup [type : {"note"}, ch : Channels, n : Nat]

PgTypeOK ==
  /\ RegistryTypeOK
  /\ listener \in Clients \cup {NoClient}
  /\ listenerReady \in {"null", "pending", "resolved", "rejected"}
  /\ listenerReady = "resolved" <=> listener # NoClient
  /\ waiting \in Seq(Commands)
  /\ listenerReady # "pending" => waiting = <<>>
  /\ listened \in SUBSET Channels
  /\ hooks \in [Clients -> Nat]
  /\ cmds \in [Clients -> Seq(Commands)]
  /\ down \in [Clients -> Seq(Events)]
  /\ session \in [Clients -> SUBSET Channels]
  /\ broken \in SUBSET Clients
  /\ sent \in [Channels -> Nat]
  /\ seen \in [Subs -> Nat]
  /\ closes \in Nat
  /\ raced \in SUBSET Channels

PgInit ==
  /\ RegistryInit
  /\ listener = NoClient
  /\ listenerReady = "null"
  /\ waiting = <<>>
  /\ listened = {}
  /\ hooks = [k \in Clients |-> 0]
  /\ cmds = [k \in Clients |-> <<>>]
  /\ down = [k \in Clients |-> <<>>]
  /\ session = [k \in Clients |-> {}]
  /\ broken = {}
  /\ sent = [c \in Channels |-> 0]
  /\ seen = [s \in Subs |-> 0]
  /\ closes = 0
  /\ raced = {}

-----------------------------------------------------------------------------

(***************************************************************************)
(* `const client = await this.ensureListener(); client.query(op ch)`.      *)
(* With a listener the query is issued; the first caller without one       *)
(* starts pool.connect() and waits with those that follow; a rejected      *)
(* listenerReady stays cached, and a broken client rejects every query, so *)
(* both issue nothing.                                                     *)
(***************************************************************************)
Query(op, c) ==
  LET q == [op |-> op, ch |-> c] IN
  /\ cmds' = IF listener # NoClient /\ listener \notin broken
               THEN [cmds EXCEPT ![listener] = Append(@, q)] ELSE cmds
  /\ waiting' = IF listenerReady \in {"null", "pending"} THEN Append(waiting, q) ELSE waiting
  /\ listenerReady' = IF listenerReady = "null" THEN "pending" ELSE listenerReady
  /\ UNCHANGED <<listener, hooks, broken>>

(* op c has been asked for and its answer has not been received. *)
InFlight(op, c) ==
  \/ \E i \in DOMAIN waiting : waiting[i] = [op |-> op, ch |-> c]
  \/ /\ listener # NoClient
     /\ \/ \E i \in DOMAIN cmds[listener] : cmds[listener][i] = [op |-> op, ch |-> c]
        \/ \E i \in DOMAIN down[listener] :
              down[listener][i] = [type |-> "done", op |-> op, ch |-> c]

EnsureListen(c) ==
  /\ IF c \in listened THEN UNCHANGED connVars ELSE Query("LISTEN", c)
  /\ raced' = IF c \in listened /\ InFlight("UNLISTEN", c) THEN raced \cup {c}
                                                         ELSE raced \ {c}

(* ensureUnlisten's first test, handlers.has(channel), is false when it is
   called: unsubscribe has just deleted the channel. *)
EnsureUnlisten(c) ==
  /\ IF c \in listened THEN Query("UNLISTEN", c) ELSE UNCHANGED connVars
  /\ raced' = IF c \notin listened /\ InFlight("LISTEN", c) THEN raced \cup {c}
                                                          ELSE raced \ {c}

subscribe(s) ==
  /\ Register(s)
  /\ EnsureListen(ChannelOf[s])
  /\ UNCHANGED <<listened, down, session, sent, seen, closes>>

unsubscribe(s) ==
  /\ s \in live
  /\ Unregister(s)
  /\ IF Empties(s) THEN EnsureUnlisten(ChannelOf[s]) ELSE UNCHANGED <<connVars, raced>>
  /\ UNCHANGED <<listened, down, session, sent, seen, closes>>

-----------------------------------------------------------------------------

(* pool.connect() delivers a client; everyone waiting issues its query. *)
ConnectedDropsWaiters(k) ==
  /\ listenerReady = "pending" /\ k \notin broken
  /\ listener' = k
  /\ listenerReady' = "resolved"
  /\ hooks' = [hooks EXCEPT ![k] = @ + 1]
  /\ waiting' = <<>>
  /\ UNCHANGED <<registryVars, cmds, listened, down, session, broken, sent, seen, closes, raced>>

Connected(k) ==
  /\ listenerReady = "pending" /\ k \notin broken
  /\ listener' = k
  /\ listenerReady' = "resolved"
  /\ hooks' = [hooks EXCEPT ![k] = @ + 1]
  /\ cmds' = [cmds EXCEPT ![k] = @ \o waiting]
  /\ waiting' = <<>>
  /\ UNCHANGED <<registryVars, listened, down, session, broken, sent, seen, closes, raced>>

(* pool.connect() rejects, and with it everyone waiting. *)
ConnectFails ==
  /\ listenerReady = "pending"
  /\ listenerReady' = "rejected"
  /\ waiting' = <<>>
  /\ UNCHANGED <<registryVars, listener, hooks, cmds, broken, listened, down, session,
                 sent, seen, closes, raced>>

(* The server executes the next query of client k. *)
Execute(k) ==
  /\ cmds[k] # <<>>
  /\ LET q == Head(cmds[k]) IN
       /\ session' = [session EXCEPT ![k] = IF q.op = "LISTEN" THEN @ \cup {q.ch}
                                                            ELSE @ \ {q.ch}]
       /\ down' = [down EXCEPT ![k] =
                     Append(@, [type |-> "done", op |-> q.op, ch |-> q.ch])]
  /\ cmds' = [cmds EXCEPT ![k] = Tail(@)]
  /\ UNCHANGED <<registryVars, listener, listenerReady, waiting, hooks, broken, listened,
                 sent, seen, closes, raced>>

(* The SELECT pg_notify(...) of publish() commits: every session listening
   on the channel gets the message. *)
publish(c) ==
  /\ sent[c] < MaxMsgs
  /\ sent' = [sent EXCEPT ![c] = @ + 1]
  /\ down' = [k \in Clients |->
                IF c \in session[k]
                  THEN Append(down[k], [type |-> "note", ch |-> c, n |-> sent[c] + 1])
                  ELSE down[k]]
  /\ UNCHANGED <<registryVars, connVars, listened, session, seen, closes, raced>>

(* The query's promise resolves; ensureListen or ensureUnlisten resumes. *)
AnswerKeepsChannel(k) ==
  /\ down[k] # <<>> /\ Head(down[k]).type = "done"
  /\ listened' = listened \cup {Head(down[k]).ch}
  /\ down' = [down EXCEPT ![k] = Tail(@)]
  /\ UNCHANGED <<registryVars, connVars, session, sent, seen, closes, raced>>

Answer(k) ==
  /\ down[k] # <<>> /\ Head(down[k]).type = "done"
  /\ LET e == Head(down[k]) IN
       listened' = IF e.op = "LISTEN" THEN listened \cup {e.ch} ELSE listened \ {e.ch}
  /\ down' = [down EXCEPT ![k] = Tail(@)]
  /\ UNCHANGED <<registryVars, connVars, session, sent, seen, closes, raced>>

(* The "notification" callback: every handler the channel has NOW is called. *)
Notification(k) ==
  /\ down[k] # <<>> /\ Head(down[k]).type = "note"
  /\ LET e == Head(down[k]) IN
       seen' = [s \in Subs |-> IF s \in Reach(e.ch) THEN e.n ELSE seen[s]]
  /\ down' = [down EXCEPT ![k] = Tail(@)]
  /\ UNCHANGED <<registryVars, connVars, listened, session, sent, closes, raced>>

CloseKeepsReady ==
  /\ listener # NoClient /\ closes < MaxCloses
  /\ listener' = NoClient
  /\ listened' = {}
  /\ closes' = closes + 1
  /\ UNCHANGED <<registryVars, listenerReady, waiting, hooks, cmds, broken, down, session, sent,
                 seen, raced>>

(* close(): returns early without a listener; otherwise the client goes back
   to the pool with its session and callbacks. *)
close ==
  /\ listener # NoClient /\ closes < MaxCloses
  /\ listener' = NoClient
  /\ listenerReady' = "null"
  /\ listened' = {}
  /\ closes' = closes + 1
  /\ UNCHANGED <<registryVars, waiting, hooks, cmds, broken, down, session, sent, seen, raced>>

(* The connection of client k is gone.  The "error" callback only logs: the
   listener stays in place. *)
ConnectionLost(k) ==
  /\ hooks[k] > 0 /\ k \notin broken
  /\ broken' = broken \cup {k}
  /\ cmds' = [cmds EXCEPT ![k] = <<>>]
  /\ down' = [down EXCEPT ![k] = <<>>]
  /\ session' = [session EXCEPT ![k] = {}]
  /\ UNCHANGED <<registryVars, listener, listenerReady, waiting, hooks, listened,
                 sent, seen, closes, raced>>

PgNext ==
  \/ \E s \in Subs : subscribe(s) \/ unsubscribe(s)
  \/ \E c \in Channels : publish(c)
  \/ \E k \in Clients : \/ Connected(k) \/ Execute(k) \/ Answer(k) \/ Notification(k)
                        \/ ConnectionLost(k)
  \/ ConnectFails
  \/ close

PgSpec == PgInit /\ [][PgNext]_pgVars

-----------------------------------------------------------------------------
(* Properties *)

(* The listener is connected and every query it was asked for is answered. *)
Settled ==
  /\ listener # NoClient /\ listener \notin broken
  /\ cmds[listener] = <<>>
  /\ \A i \in DOMAIN down[listener] : down[listener][i].type = "note"

(***************************************************************************)
(* Once the queries are answered, the client's copy of what it listens on  *)
(* is what the server session listens on, in whatever order the LISTENs    *)
(* and UNLISTENs of a channel overlapped (ensureListen and ensureUnlisten  *)
(* write `listened` only after their await).  close() breaks this: it      *)
(* clears the set while answers may still be on their way.                 *)
(***************************************************************************)
ListenedMirrorsSession ==
  closes = 0 /\ Settled => listened = session[listener]

(***************************************************************************)
(* Once the queries are answered, the session listens on exactly the       *)
(* channels that have handlers, except for channels whose last subscribe   *)
(* found an UNLISTEN in flight (then nobody listens: the handler is deaf)  *)
(* or whose last unsubscribe found a LISTEN in flight (then the session    *)
(* listens for nobody).  No other interleaving of subscribe, unsubscribe,  *)
(* connect and answers loses a channel.                                    *)
(***************************************************************************)
SettledUnlessRaced ==
  closes = 0 /\ Settled =>
    \A c \in Channels \ raced : c \in session[listener] <=> Reach(c) # {}

(***************************************************************************)
(* What a subscriber expects ("Event delivered to subscribers", store.ts): *)
(* a channel with handlers is listened on once the store has settled.      *)
(* postgres.ts does not keep it: a subscribe that arrives while the        *)
(* UNLISTEN of the previous subscriber is in flight returns because the    *)
(* channel is still in `listened`.                                         *)
(***************************************************************************)
SubscribersAreListenedFor ==
  closes = 0 /\ Settled => \A c \in Channels : Reach(c) # {} => c \in session[listener]

(***************************************************************************)
(* Until close() is called, every step is a step of PubSubContract: each   *)
(* handler is called at most once per message, in the order the messages   *)
(* were committed, and only between its subscribe and its unsubscribe,     *)
(* through reconnects, lost connections and overlapping commands.          *)
(***************************************************************************)
Contract == INSTANCE PubSubContract WITH reach <- [c \in Channels |-> Reach(c)]

ContractUntilClose ==
  /\ Contract!ContractInit
  /\ [][closes' = 0 => Contract!ContractNext \/ UNCHANGED Contract!contractVars]_pgVars

(***************************************************************************)
(* Why they hold.  No client but the listener has anything under way.  The *)
(* answers on their way to it turn `listened` into what the session        *)
(* listens on; the queries on their way to the server (or waiting for a    *)
(* connection) turn that into the channels with handlers, unless the       *)
(* channel raced; and the notifications are new to every handler.          *)
(***************************************************************************)
Asked(op, c) == [op |-> op, ch |-> c]
Answered(op, c) == [type |-> "done", op |-> op, ch |-> c]

QuietClients ==
  /\ \A k \in Clients \ {listener} : cmds[k] = <<>> /\ down[k] = <<>> /\ session[k] = {}
  /\ listener = NoClient => listened = {}

AnswersMakeListened ==
  listener \in Clients \ broken =>
    \A c \in Channels :
      c \notin session[listener] <=>
        EndsOff(down[listener], Answered("LISTEN", c), Answered("UNLISTEN", c), c \in listened)

Ends(Q, c, on) == EndsOff(Q, Asked("LISTEN", c), Asked("UNLISTEN", c), on)

QueriesFor(c) ==
  /\ listener \in Clients \ broken =>
       (map[c] = NoSet <=> Ends(cmds[listener], c, c \in session[listener]))
  /\ listenerReady \in {"null", "pending"} => (map[c] = NoSet <=> Ends(waiting, c, FALSE))

QueriesMakeSession == \A c \in Channels \ raced : QueriesFor(c)

NotesAreNew ==
  /\ SeenPublished(sent, seen)
  /\ \A k \in Clients : Pending(down[k], "note", sent, seen, live)

ListenerInv == QuietClients /\ AnswersMakeListened /\ QueriesMakeSession /\ NotesAreNew

PgInv == PgTypeOK /\ RegistryInv /\ (closes = 0 => ListenerInv)

=============================================================================
