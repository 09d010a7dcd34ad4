------------------------ MODULE PostgresPubSubProofs ------------------------
(***************************************************************************)
(* What PostgresPubSub keeps, for any channels, subscriptions, clients,    *)
(* messages and calls of close().  PgInv is inductive: the handler table   *)
(* stays consistent always, and until close() is called the queues of the  *)
(* listener lead from `listened` to its session and from its session to    *)
(* the channels with handlers.                                             *)
(***************************************************************************)
EXTENDS PostgresPubSub, StoreLemmas

-----------------------------------------------------------------------------
(* Types *)

(* The fields of queries, answers and notifications. *)
LEMMA Messages ==
  /\ \A op \in {"LISTEN", "UNLISTEN"}, c \in Channels :
       Asked(op, c) \in Commands /\ Answered(op, c) \in Events
  /\ \A q \in Commands : q.op \in {"LISTEN", "UNLISTEN"} /\ q.ch \in Channels
  /\ \A e \in Events : /\ e.type \in {"done", "note"} /\ e.ch \in Channels
                       /\ e.type = "done" => e.op \in {"LISTEN", "UNLISTEN"}
                       /\ e.type = "note" => e.n \in Nat
  /\ \A c \in Channels, n \in Nat : [type |-> "note", ch |-> c, n |-> n] \in Events
BY DEF Asked, Answered, Commands, Events

(* The part of the type invariant that issuing a query touches. *)
ConnOK ==
  /\ listener \in Clients \cup {NoClient}
  /\ listenerReady \in {"null", "pending", "resolved", "rejected"}
  /\ listenerReady = "resolved" <=> listener # NoClient
  /\ waiting \in Seq(Commands)
  /\ listenerReady # "pending" => waiting = <<>>
  /\ hooks \in [Clients -> Nat]
  /\ cmds \in [Clients -> Seq(Commands)]
  /\ broken \in SUBSET Clients

(* A query waits for the listener or joins the client's queue. *)
LEMMA QueryKeepsTypes ==
  ASSUME ConnOK, NEW op \in {"LISTEN", "UNLISTEN"}, NEW c \in Channels,
         Query(op, c) \/ UNCHANGED connVars
  PROVE  ConnOK'
<1>1. CASE UNCHANGED connVars
  BY <1>1 DEF connVars, ConnOK
<1>2. CASE Query(op, c)
  <2> DEFINE q == [op |-> op, ch |-> c]
  <2>1. q \in Commands
    BY DEF Commands
  <2>2. cmds' \in [Clients -> Seq(Commands)]
    <3>1. ASSUME NEW k \in Clients
          PROVE  Append(cmds[k], q) \in Seq(Commands)
      BY <2>1, QueueTypes DEF ConnOK
    <3> QED
      BY <1>2, <3>1 DEF Query, ConnOK
  <2>3. waiting' \in Seq(Commands)
    <3>1. Append(waiting, q) \in Seq(Commands)
      BY <2>1, QueueTypes DEF ConnOK
    <3> QED
      BY <1>2, <3>1 DEF Query, ConnOK
  <2> QED
    BY <1>2, <2>2, <2>3 DEF Query, ConnOK
<1> QED
  BY <1>1, <1>2

(* Each step keeps the types and the table. *)
LEMMA TypeStep ==
  ASSUME PgTypeOK, RegistryInv, [PgNext]_pgVars
  PROVE  PgTypeOK' /\ RegistryInv'
<1> USE NoClientAssumption
<1>0. RegistryTypeOK /\ ConnOK
  BY DEF PgTypeOK, ConnOK
<1>1. ASSUME NEW s \in Subs, subscribe(s) \/ unsubscribe(s)
      PROVE  PgTypeOK' /\ RegistryInv'
  <2>1. RegistryTypeOK' /\ RegistryInv'
    BY <1>0, <1>1, StoreKeepsTable DEF subscribe, unsubscribe
  <2>2. \E op \in {"LISTEN", "UNLISTEN"} : Query(op, ChannelOf[s]) \/ UNCHANGED connVars
    BY <1>1 DEF subscribe, unsubscribe, EnsureListen, EnsureUnlisten, connVars
  <2>3. ChannelOf[s] \in Channels
    BY ChannelAssumption
  <2>4. ConnOK'
    BY <1>0, <2>2, <2>3, QueryKeepsTypes
  <2>5. raced' \in SUBSET Channels
    BY <1>1, <2>3 DEF subscribe, unsubscribe, EnsureListen, EnsureUnlisten, PgTypeOK
  <2>6. UNCHANGED <<listened, down, session, sent, seen, closes>>
    BY <1>1 DEF subscribe, unsubscribe
  <2> QED
    BY <2>1, <2>4, <2>5, <2>6 DEF PgTypeOK, ConnOK
<1>2. ASSUME UNCHANGED registryVars
      PROVE  RegistryTypeOK' /\ RegistryInv'
  BY <1>0, <1>2 DEF registryVars, RegistryTypeOK, RegistryInv, HandlesInv, OneSet
<1>3. ASSUME NEW c \in Channels, publish(c)
      PROVE  PgTypeOK' /\ RegistryInv'
  <2> DEFINE e == [type |-> "note", ch |-> c, n |-> sent[c] + 1]
  <2>1. e \in Events /\ sent' \in [Channels -> Nat]
    <3>1. sent[c] + 1 \in Nat
      BY DEF PgTypeOK
    <3> QED
      BY <1>3, <3>1, Messages DEF publish, PgTypeOK
  <2>2. down' \in [Clients -> Seq(Events)]
    <3>1. ASSUME NEW k \in Clients
          PROVE  down[k] \in Seq(Events) /\ Append(down[k], e) \in Seq(Events)
      BY <2>1, QueueTypes DEF PgTypeOK
    <3> QED
      BY <1>3, <3>1 DEF publish
  <2> QED
    BY <1>2, <1>3, <2>1, <2>2 DEF publish, PgTypeOK, connVars
<1>4. ASSUME NEW k \in Clients, Connected(k)
      PROVE  PgTypeOK' /\ RegistryInv'
  <2>1. cmds[k] \o waiting \in Seq(Commands) /\ <<>> \in Seq(Commands)
    BY DEF PgTypeOK
  <2>2. cmds' \in [Clients -> Seq(Commands)] /\ hooks' \in [Clients -> Nat]
    BY <1>4, <2>1 DEF Connected, PgTypeOK
  <2> QED
    BY <1>2, <1>4, <2>1, <2>2 DEF Connected, PgTypeOK
<1>5. ASSUME NEW k \in Clients, Execute(k)
      PROVE  PgTypeOK' /\ RegistryInv'
  <2> DEFINE q == Head(cmds[k])
             e == [type |-> "done", op |-> q.op, ch |-> q.ch]
  <2>1. q \in Commands /\ Tail(cmds[k]) \in Seq(Commands)
    BY <1>5, QueueTypes DEF Execute, PgTypeOK
  <2>2. e \in Events /\ q.ch \in Channels
    BY <2>1, Messages DEF Answered
  <2>3. Append(down[k], e) \in Seq(Events)
    BY <2>2, QueueTypes DEF PgTypeOK
  <2>4. /\ cmds' = [cmds EXCEPT ![k] = Tail(@)]
        /\ down' = [down EXCEPT ![k] = Append(@, e)]
        /\ session' = [session EXCEPT ![k] = IF q.op = "LISTEN" THEN @ \cup {q.ch} ELSE @ \ {q.ch}]
    BY <1>5 DEF Execute
  <2> HIDE DEF q, e
  <2>5. /\ cmds' \in [Clients -> Seq(Commands)] /\ down' \in [Clients -> Seq(Events)]
        /\ session' \in [Clients -> SUBSET Channels]
    BY <2>1, <2>2, <2>3, <2>4 DEF PgTypeOK
  <2> QED
    BY <1>2, <1>5, <2>5 DEF Execute, PgTypeOK
<1>6. ASSUME NEW k \in Clients, Answer(k) \/ Notification(k)
      PROVE  PgTypeOK' /\ RegistryInv'
  <2>1. /\ down[k] # <<>> /\ down' = [down EXCEPT ![k] = Tail(@)]
        /\ UNCHANGED <<registryVars, connVars, session, sent, closes, raced>>
    BY <1>6 DEF Answer, Notification
  <2>2. Head(down[k]) \in Events /\ Tail(down[k]) \in Seq(Events)
    BY <2>1, QueueTypes DEF PgTypeOK
  <2>3. down' \in [Clients -> Seq(Events)]
    BY <2>1, <2>2 DEF PgTypeOK
  <2>4. listened' \in SUBSET Channels /\ seen' \in [Subs -> Nat]
    BY <1>6, <2>2, Messages DEF Answer, Notification, PgTypeOK
  <2> QED
    BY <1>2, <2>1, <2>3, <2>4 DEF connVars, PgTypeOK
<1>7. ASSUME NEW k \in Clients, ConnectionLost(k)
      PROVE  PgTypeOK' /\ RegistryInv'
  <2>1. <<>> \in Seq(Commands) /\ <<>> \in Seq(Events)
    OBVIOUS
  <2>2. /\ cmds' \in [Clients -> Seq(Commands)] /\ down' \in [Clients -> Seq(Events)]
        /\ session' \in [Clients -> SUBSET Channels] /\ broken' \in SUBSET Clients
    BY <1>7, <2>1 DEF ConnectionLost, PgTypeOK
  <2> QED
    BY <1>2, <1>7, <2>2 DEF ConnectionLost, PgTypeOK
<1>8. CASE ConnectFails
  <2>1. <<>> \in Seq(Commands)
    OBVIOUS
  <2> QED
    BY <1>2, <1>8, <2>1 DEF ConnectFails, PgTypeOK
<1>9. CASE close
  <2>1. closes' \in Nat /\ listened' \in SUBSET Channels
    BY <1>9 DEF close, PgTypeOK
  <2>2. listenerReady' # "resolved" /\ listener' = NoClient /\ waiting' = <<>>
    BY <1>9 DEF close, PgTypeOK
  <2> QED
    BY <1>2, <1>9, <2>1, <2>2 DEF close, PgTypeOK
<1>10. CASE UNCHANGED pgVars
  BY <1>2, <1>10 DEF pgVars, connVars, PgTypeOK
<1> QED
  BY <1>1, <1>3, <1>4, <1>5, <1>6, <1>7, <1>8, <1>9, <1>10 DEF PgNext

-----------------------------------------------------------------------------
(* Queues *)

(* Queries and answers that differ in command or channel are different. *)
LEMMA Distinct ==
  /\ \A c, d : /\ Asked("LISTEN", c) # Asked("UNLISTEN", d)
              /\ Answered("LISTEN", c) # Answered("UNLISTEN", d)
  /\ \A op, c, d : c # d => Asked(op, c) # Asked(op, d) /\ Answered(op, c) # Answered(op, d)
  /\ \A op, c : Answered(op, c).type = "done"
  /\ \A q \in Commands : q = Asked(q.op, q.ch)
  /\ \A e \in Events : e.type = "done" => e = Answered(e.op, e.ch)
<1>1. \A c, d : /\ Asked("LISTEN", c).op # Asked("UNLISTEN", d).op
              /\ Answered("LISTEN", c).op # Answered("UNLISTEN", d).op
  BY DEF Asked, Answered
<1>2. \A op, c : Asked(op, c).ch = c /\ Answered(op, c).ch = c /\ Answered(op, c).type = "done"
  BY DEF Asked, Answered
<1>3. \A q \in Commands : q = Asked(q.op, q.ch)
  BY DEF Asked, Commands
<1>4. \A e \in Events : e.type = "done" => e = Answered(e.op, e.ch)
  BY DEF Answered, Events
<1> QED
  BY <1>1, <1>2, <1>3, <1>4

(* A query of channel c decides where the queue leads for c, and nothing
   about another channel. *)
LEMMA QueryInQueue ==
  ASSUME NEW Q \in Seq(Commands), NEW c, NEW A
  PROVE  /\ ~Ends(Append(Q, Asked("LISTEN", c)), c, c \in A)
         /\ Ends(Append(Q, Asked("UNLISTEN", c)), c, c \in A)
         /\ \A op \in {"LISTEN", "UNLISTEN"} : \A d :
              d # c => (Ends(Append(Q, Asked(op, d)), c, c \in A) <=> Ends(Q, c, c \in A))
<1>1. \A q : Ends(Append(Q, q), c, c \in A)
               <=> (q = Asked("UNLISTEN", c) \/ (q # Asked("LISTEN", c) /\ Ends(Q, c, c \in A)))
  BY AppendSwitchesIn, Distinct DEF Ends
<1> QED
  BY <1>1, Distinct

(* A channel that nothing has been asked for starts off. *)
LEMMA OffIsEmpty == \A Q, c : Ends(Q, c, FALSE) <=> Ends(Q, c, c \in {})
BY DEF Ends, EndsOff

(* Where the queues lead is the same for a channel nobody touched. *)
LEMMA QueriesElsewhere ==
  ASSUME PgTypeOK, PgTypeOK', NEW c \in Channels, QueriesFor(c),
         NEW d \in Channels, d # c, NEW op \in {"LISTEN", "UNLISTEN"},
         Query(op, d) \/ UNCHANGED connVars, UNCHANGED session, map'[c] = map[c]
  PROVE  QueriesFor(c)'
<1>1. CASE UNCHANGED connVars
  BY <1>1 DEF QueriesFor, connVars
<1>2. CASE Query(op, d)
  <2>1. [op |-> op, ch |-> d] = Asked(op, d) /\ UNCHANGED <<listener, broken>>
    BY <1>2 DEF Asked, Query
  <2>2. ASSUME listener \in Clients \ broken
        PROVE  map'[c] = NoSet <=> Ends(cmds'[listener], c, c \in session[listener])
    <3>1. cmds[listener] \in Seq(Commands) /\ cmds'[listener] = Append(cmds[listener], Asked(op, d))
      BY <1>2, <2>1, <2>2, NoClientAssumption DEF Query, PgTypeOK
    <3>2. Ends(cmds'[listener], c, c \in session[listener])
            <=> Ends(cmds[listener], c, c \in session[listener])
      BY <3>1, QueryInQueue
    <3> QED
      BY <2>2, <3>2 DEF QueriesFor
  <2>3. ASSUME listenerReady' \in {"null", "pending"}
        PROVE  map'[c] = NoSet <=> Ends(waiting', c, FALSE)
    <3>1. /\ listenerReady \in {"null", "pending"} /\ waiting \in Seq(Commands)
          /\ waiting' = Append(waiting, Asked(op, d))
      BY <1>2, <2>1, <2>3 DEF Query, PgTypeOK
    <3>2. Ends(waiting', c, c \in {}) <=> Ends(waiting, c, c \in {})
      BY <3>1, QueryInQueue
    <3> QED
      BY <3>1, <3>2, OffIsEmpty DEF QueriesFor
  <2> QED
    BY <2>1, <2>2, <2>3 DEF QueriesFor
<1> QED
  BY <1>1, <1>2

(* What a query says of its channel is what the queues lead to. *)
LEMMA QueryLeads ==
  ASSUME PgTypeOK, PgTypeOK', NEW c \in Channels, NEW op \in {"LISTEN", "UNLISTEN"},
         Query(op, c), UNCHANGED session, map'[c] = NoSet <=> op = "UNLISTEN"
  PROVE  QueriesFor(c)'
<1>1. [op |-> op, ch |-> c] = Asked(op, c) /\ UNCHANGED <<listener, broken>>
  BY DEF Asked, Query
<1>2. ASSUME listener \in Clients \ broken
      PROVE  map'[c] = NoSet <=> Ends(cmds'[listener], c, c \in session[listener])
  <2>1. cmds[listener] \in Seq(Commands) /\ cmds'[listener] = Append(cmds[listener], Asked(op, c))
    BY <1>1, <1>2, NoClientAssumption DEF Query, PgTypeOK
  <2> QED
    BY <2>1, QueryInQueue
<1>3. ASSUME listenerReady' \in {"null", "pending"}
      PROVE  map'[c] = NoSet <=> Ends(waiting', c, FALSE)
  <2>1. waiting \in Seq(Commands) /\ waiting' = Append(waiting, Asked(op, c))
    BY <1>1, <1>3 DEF Query, PgTypeOK
  <2>2. map'[c] = NoSet <=> Ends(waiting', c, c \in {})
    BY <2>1, QueryInQueue
  <2> QED
    BY <2>2, OffIsEmpty
<1> QED
  BY <1>1, <1>2, <1>3 DEF QueriesFor

(* A subscribe that issues no query finds the channel listened to, now and
   when the queues are worked off, unless an UNLISTEN is under way; and the
   other way round for an unsubscribe. *)
LEMMA NoQueryNeeded ==
  ASSUME PgTypeOK, QuietClients, AnswersMakeListened, NEW c \in Channels,
         UNCHANGED <<connVars, session>>,
         \/ c \in listened /\ ~InFlight("UNLISTEN", c) /\ map'[c] # NoSet
         \/ c \notin listened /\ ~InFlight("LISTEN", c) /\ map'[c] = NoSet
  PROVE  QueriesFor(c)'
<1> USE NoClientAssumption
<1>1. UNCHANGED <<listener, listenerReady, waiting, cmds, broken, session>>
  BY DEF connVars
<1>2. ASSUME listener \in Clients \ broken
      PROVE  map'[c] = NoSet <=> Ends(cmds[listener], c, c \in session[listener])
  <2>1. cmds[listener] \in Seq(Commands) /\ down[listener] \in Seq(Events) /\ listener # NoClient
    BY <1>2 DEF PgTypeOK
  <2>2. \A op : ~InFlight(op, c) => /\ \A i \in DOMAIN cmds[listener] : cmds[listener][i] # Asked(op, c)
                                  /\ \A i \in DOMAIN down[listener] :
                                       down[listener][i] # Answered(op, c)
    BY <2>1 DEF InFlight, Asked, Answered
  <2>3. CASE c \in listened /\ ~InFlight("UNLISTEN", c) /\ map'[c] # NoSet
    <3>1. c \in session[listener]
      BY <1>2, <2>1, <2>2, <2>3 DEF AnswersMakeListened, EndsOff
    <3>2. ~Ends(cmds[listener], c, TRUE)
      BY <2>1, <2>2, <2>3 DEF Ends, EndsOff
    <3> QED
      BY <2>3, <3>1, <3>2
  <2>4. CASE c \notin listened /\ ~InFlight("LISTEN", c) /\ map'[c] = NoSet
    <3>1. c \notin session[listener]
      BY <1>2, <2>1, <2>2, <2>4 DEF AnswersMakeListened, EndsOff
    <3>2. Ends(cmds[listener], c, c \in session[listener])
      BY <2>1, <2>2, <2>4, <3>1 DEF Ends, EndsOff
    <3> QED
      BY <2>4, <3>1, <3>2
  <2> QED
    BY <2>3, <2>4
<1>3. ASSUME listenerReady \in {"null", "pending"}
      PROVE  map'[c] = NoSet <=> Ends(waiting, c, FALSE)
  <2>1. listener = NoClient /\ waiting \in Seq(Commands)
    BY <1>3 DEF PgTypeOK
  <2>2. c \notin listened
    BY <2>1 DEF QuietClients
  <2>3. \A i \in DOMAIN waiting : waiting[i] # Asked("LISTEN", c)
    BY <2>2 DEF InFlight, Asked
  <2> QED
    BY <2>1, <2>2, <2>3 DEF Ends, EndsOff
<1> QED
  BY <1>1, <1>2, <1>3 DEF QueriesFor

(* What a set of channels becomes by a LISTEN or an UNLISTEN. *)
After(m, A) == IF m.op = "LISTEN" THEN A \cup {m.ch} ELSE A \ {m.ch}

(* The server takes a query off the queue. *)
LEMMA QueryLeaves ==
  ASSUME NEW Q \in Seq(Commands), Q # <<>>, NEW A, NEW c
  PROVE  Ends(Tail(Q), c, c \in After(Head(Q), A)) <=> Ends(Q, c, c \in A)
<1> DEFINE q == Head(Q)
           start == Asked("LISTEN", c)
           stop == Asked("UNLISTEN", c)
<1>1. q \in Commands /\ q.op \in {"LISTEN", "UNLISTEN"} /\ q = Asked(q.op, q.ch)
  BY QueueTypes, Messages, Distinct
<1>2. (q = start <=> q.op = "LISTEN" /\ q.ch = c) /\ (q = stop <=> q.op = "UNLISTEN" /\ q.ch = c)
  BY <1>1 DEF Asked
<1>3. start # stop
  BY Distinct
<1> HIDE DEF start, stop
<1>4. c \in After(q, A) <=> q = start \/ (c \in A /\ q # stop)
  BY <1>1, <1>2 DEF After
<1>5. EndsOff(Tail(Q), start, stop, c \in After(q, A)) <=> EndsOff(Q, start, stop, c \in A)
  BY <1>3, <1>4, TailSwitchesIn
<1> QED
  BY <1>5 DEF Ends, start, stop

(* The answer to it joins the stream. *)
LEMMA AnswerJoins ==
  ASSUME NEW Q \in Seq(Events), NEW q \in Commands, NEW A, NEW B, NEW c,
         c \notin A <=> EndsOff(Q, Answered("LISTEN", c), Answered("UNLISTEN", c), c \in B)
  PROVE  c \notin After(q, A) <=>
           EndsOff(Append(Q, Answered(q.op, q.ch)), Answered("LISTEN", c), Answered("UNLISTEN", c),
                   c \in B)
<1> DEFINE e == Answered(q.op, q.ch)
           start == Answered("LISTEN", c)
           stop == Answered("UNLISTEN", c)
<1>1. q.op \in {"LISTEN", "UNLISTEN"} /\ start # stop
  BY Messages, Distinct
<1>2. (e = start <=> q.op = "LISTEN" /\ q.ch = c) /\ (e = stop <=> q.op = "UNLISTEN" /\ q.ch = c)
  BY DEF Answered
<1>3. EndsOff(Append(Q, e), start, stop, c \in B)
        <=> e = stop \/ (e # start /\ EndsOff(Q, start, stop, c \in B))
  <2> HIDE DEF e, start, stop
  <2> QED
    BY <1>1, AppendSwitchesIn
<1> QED
  BY <1>1, <1>2, <1>3 DEF After

(* The answer is received. *)
LEMMA AnswerLeaves ==
  ASSUME NEW Q \in Seq(Events), Q # <<>>, Head(Q).type = "done", NEW B, NEW c
  PROVE  LET start == Answered("LISTEN", c)
             stop == Answered("UNLISTEN", c)
         IN  EndsOff(Tail(Q), start, stop, c \in After(Head(Q), B))
               <=> EndsOff(Q, start, stop, c \in B)
<1> DEFINE e == Head(Q)
           start == Answered("LISTEN", c)
           stop == Answered("UNLISTEN", c)
<1>1. e \in Events /\ e.op \in {"LISTEN", "UNLISTEN"} /\ e = Answered(e.op, e.ch)
  BY QueueTypes, Messages, Distinct
<1>2. (e = start <=> e.op = "LISTEN" /\ e.ch = c) /\ (e = stop <=> e.op = "UNLISTEN" /\ e.ch = c)
  BY <1>1 DEF Answered
<1>3. start # stop
  BY Distinct
<1> HIDE DEF start, stop
<1>4. c \in After(e, B) <=> e = start \/ (c \in B /\ e # stop)
  BY <1>1, <1>2 DEF After
<1>5. EndsOff(Tail(Q), start, stop, c \in After(e, B)) <=> EndsOff(Q, start, stop, c \in B)
  BY <1>3, <1>4, TailSwitchesIn
<1> QED
  BY <1>5 DEF start, stop

(* Notifications switch nothing. *)
LEMMA NotesSwitchNothing ==
  ASSUME NEW Q \in Seq(Events), NEW B, NEW c
  PROVE  LET start == Answered("LISTEN", c)
             stop == Answered("UNLISTEN", c)
         IN  /\ \A e : e.type = "note" =>
                  (EndsOff(Append(Q, e), start, stop, c \in B) <=> EndsOff(Q, start, stop, c \in B))
             /\ Q # <<>> /\ Head(Q).type = "note" =>
                  (EndsOff(Tail(Q), start, stop, c \in B) <=> EndsOff(Q, start, stop, c \in B))
<1> DEFINE start == Answered("LISTEN", c)
           stop == Answered("UNLISTEN", c)
<1>1. start # stop /\ start.type = "done" /\ stop.type = "done"
  BY Distinct
<1> HIDE DEF start, stop
<1>2. \A e : e.type = "note" =>
        (EndsOff(Append(Q, e), start, stop, c \in B) <=> EndsOff(Q, start, stop, c \in B))
  BY <1>1, AppendSwitchesIn
<1>3. ASSUME Q # <<>>, Head(Q).type = "note"
      PROVE  EndsOff(Tail(Q), start, stop, c \in B) <=> EndsOff(Q, start, stop, c \in B)
  <2>1. c \in B <=> Head(Q) = start \/ (c \in B /\ Head(Q) # stop)
    BY <1>1, <1>3
  <2> QED
    BY <1>1, <1>3, <2>1, TailSwitchesIn
<1> QED
  BY <1>2, <1>3 DEF start, stop

-----------------------------------------------------------------------------
(* The invariant *)

(* subscribe and unsubscribe: the table, and what they ask for. *)
LEMMA SubscribeKeeps ==
  ASSUME PgTypeOK, RegistryInv, ListenerInv, PgTypeOK', NEW s \in Subs,
         subscribe(s) \/ unsubscribe(s)
  PROVE  ListenerInv'
<1> USE NoClientAssumption, NoSetAssumption
<1> DEFINE c == ChannelOf[s]
<1>1. c \in Channels /\ UNCHANGED <<listened, down, session, sent, seen>>
  BY ChannelAssumption DEF subscribe, unsubscribe
<1>2. \E op \in {"LISTEN", "UNLISTEN"} : Query(op, c) \/ UNCHANGED connVars
  BY DEF subscribe, unsubscribe, EnsureListen, EnsureUnlisten, connVars
<1>3. /\ UNCHANGED <<listener, broken>>
      /\ \A k \in Clients \ {listener} : cmds'[k] = cmds[k]
  BY <1>2 DEF Query, connVars, PgTypeOK
<1>4. QuietClients' /\ AnswersMakeListened'
  BY <1>1, <1>3 DEF ListenerInv, QuietClients, AnswersMakeListened
<1>5. NotesAreNew'
  <2>1. /\ live' \subseteq live \cup {t \in Subs : closure[t] = NoSet}
        /\ \A t \in Subs : closure'[t] = NoSet => closure[t] = NoSet
    BY DEF subscribe, unsubscribe, Register, Unregister, PgTypeOK, RegistryTypeOK
  <2>2. \A t \in live' \ live : seen[t] = 0
    BY <2>1 DEF ListenerInv, NotesAreNew, SeenPublished
  <2>3. SeenPublished(sent, seen)'
    BY <1>1, <2>1 DEF ListenerInv, NotesAreNew, SeenPublished
  <2>4. ASSUME NEW k \in Clients
        PROVE  Pending(down[k], "note", sent, seen, live')
    <3>1. Pending(down[k], "note", sent, seen, live)
      BY DEF ListenerInv, NotesAreNew
    <3>2. \A i \in 1..Len(down[k]) : down[k][i].ch \in Channels
      BY Messages DEF PgTypeOK
    <3>3. sent \in [Channels -> Nat] /\ live' \in SUBSET Subs /\ \A d \in Channels : sent[d] <= sent[d]
      BY DEF PgTypeOK, RegistryTypeOK
    <3> QED
      BY <2>2, <3>1, <3>2, <3>3, PendingFor
  <2> QED
    BY <1>1, <2>3, <2>4 DEF NotesAreNew
<1>6. QueriesMakeSession'
  <2> SUFFICES ASSUME NEW d \in Channels, d \notin raced'
               PROVE  QueriesFor(d)'
    BY DEF QueriesMakeSession
  <2>1. CASE d # c
    <3>1. map'[d] = map[d] /\ d \notin raced
      BY <1>1, <2>1 DEF subscribe, unsubscribe, EnsureListen, EnsureUnlisten, Register, Unregister,
                        PgTypeOK, RegistryTypeOK
    <3>2. QueriesFor(d)
      BY <3>1 DEF ListenerInv, QueriesMakeSession
    <3> QED
      BY <1>1, <1>2, <2>1, <3>1, <3>2, QueriesElsewhere
  <2>2. CASE d = c /\ subscribe(s)
    <3>1. map'[c] # NoSet
      BY <1>1, <2>2 DEF subscribe, Register, PgTypeOK, RegistryTypeOK
    <3>2. CASE c \notin listened
      BY <1>1, <2>2, <3>1, <3>2, QueryLeads DEF subscribe, EnsureListen
    <3>3. CASE c \in listened
      <4>1. ~InFlight("UNLISTEN", c) /\ UNCHANGED connVars
        BY <1>1, <2>2, <3>3 DEF subscribe, EnsureListen
      <4> QED
        BY <1>1, <2>2, <3>1, <3>3, <4>1, NoQueryNeeded DEF ListenerInv
    <3> QED
      BY <3>2, <3>3
  <2>3. CASE d = c /\ unsubscribe(s) /\ Empties(s)
    <3>1. map'[c] = NoSet
      BY <1>1, <2>3 DEF unsubscribe, Unregister, PgTypeOK, RegistryTypeOK
    <3>2. CASE c \in listened
      BY <1>1, <2>3, <3>1, <3>2, QueryLeads DEF unsubscribe, EnsureUnlisten
    <3>3. CASE c \notin listened
      <4>1. ~InFlight("LISTEN", c) /\ UNCHANGED connVars
        BY <1>1, <2>3, <3>3 DEF unsubscribe, EnsureUnlisten
      <4> QED
        BY <1>1, <2>3, <3>1, <3>3, <4>1, NoQueryNeeded DEF ListenerInv
    <3> QED
      BY <3>2, <3>3
  <2>4. CASE unsubscribe(s) /\ ~Empties(s)
    BY <1>1, <2>4 DEF unsubscribe, Unregister, connVars, ListenerInv, QueriesMakeSession, QueriesFor
  <2> QED
    BY <2>1, <2>2, <2>3, <2>4
<1> QED
  BY <1>4, <1>5, <1>6 DEF ListenerInv

(* The client is connected: the queries that waited are its queue. *)
LEMMA ConnectKeeps ==
  ASSUME PgTypeOK, RegistryInv, ListenerInv, PgTypeOK',
         ConnectFails \/ \E k \in Clients : Connected(k)
  PROVE  ListenerInv'
<1> USE NoClientAssumption
<1>1. /\ listenerReady = "pending" /\ listener = NoClient /\ listened = {}
      /\ \A k \in Clients : cmds[k] = <<>> /\ down[k] = <<>> /\ session[k] = {}
  BY DEF ConnectFails, Connected, PgTypeOK, ListenerInv, QuietClients
<1>2. UNCHANGED <<registryVars, listened, down, session, broken, sent, seen, raced>>
  BY DEF ConnectFails, Connected
<1>3. NotesAreNew'
  BY <1>2 DEF registryVars, ListenerInv, NotesAreNew, SeenPublished, Pending
<1>4. CASE ConnectFails
  BY <1>1, <1>2, <1>3, <1>4
     DEF ConnectFails, ListenerInv, QuietClients, AnswersMakeListened, QueriesMakeSession, QueriesFor
<1>5. ASSUME NEW k \in Clients, Connected(k)
      PROVE  ListenerInv'
  <2>1. /\ listener' = k /\ listenerReady' = "resolved"
        /\ cmds' = [cmds EXCEPT ![k] = @ \o waiting]
    BY <1>5 DEF Connected
  <2>2. cmds'[k] = waiting /\ \A j \in Clients \ {k} : cmds'[j] = cmds[j]
    <3>1. cmds'[k] = <<>> \o waiting /\ waiting \in Seq(Commands)
      BY <1>1, <2>1 DEF PgTypeOK
    <3> QED
      BY <2>1, <3>1 DEF PgTypeOK
  <2>3. QuietClients'
    BY <1>1, <1>2, <2>1, <2>2 DEF QuietClients
  <2>4. AnswersMakeListened'
    <3>1. \A c : EndsOff(<<>>, Answered("LISTEN", c), Answered("UNLISTEN", c), c \in {})
      BY DEF EndsOff
    <3> QED
      BY <1>1, <1>2, <2>1, <3>1 DEF AnswersMakeListened
  <2>5. QueriesMakeSession'
    <3> SUFFICES ASSUME NEW c \in Channels, c \notin raced
                 PROVE  QueriesFor(c)'
      BY <1>2 DEF QueriesMakeSession
    <3>1. map[c] = NoSet <=> Ends(waiting, c, FALSE)
      BY <1>1 DEF ListenerInv, QueriesMakeSession, QueriesFor
    <3>2. Ends(waiting, c, FALSE) <=> Ends(waiting, c, c \in {})
      BY DEF Ends, EndsOff
    <3> QED
      BY <1>1, <1>2, <2>1, <2>2, <3>1, <3>2 DEF QueriesFor, registryVars
  <2> QED
    BY <1>3, <2>3, <2>4, <2>5 DEF ListenerInv
<1> QED
  BY <1>4, <1>5

(* The server executes a query, which takes it from one queue to the other. *)
LEMMA ExecuteKeeps ==
  ASSUME PgTypeOK, RegistryInv, ListenerInv, PgTypeOK', NEW k \in Clients, Execute(k)
  PROVE  ListenerInv'
<1> USE NoClientAssumption
<1> DEFINE q == Head(cmds[k])
           e == Answered(q.op, q.ch)
<1>1. /\ cmds[k] # <<>>
      /\ session' = [session EXCEPT ![k] = After(q, @)]
      /\ down' = [down EXCEPT ![k] = Append(@, e)]
      /\ cmds' = [cmds EXCEPT ![k] = Tail(@)]
      /\ UNCHANGED <<registryVars, listener, listenerReady, waiting, broken, listened, sent, seen, raced>>
  BY DEF Execute, After, Answered
<1>2. listener = k /\ k # NoClient
  BY <1>1 DEF ListenerInv, QuietClients
<1>3. /\ q \in Commands /\ cmds[k] \in Seq(Commands) /\ down[k] \in Seq(Events)
      /\ e.type = "done"
  BY <1>1, QueueTypes, Distinct DEF PgTypeOK
<1>4. /\ session'[k] = After(q, session[k]) /\ cmds'[k] = Tail(cmds[k])
      /\ down'[k] = Append(down[k], e)
      /\ \A j \in Clients \ {k} : cmds'[j] = cmds[j] /\ down'[j] = down[j] /\ session'[j] = session[j]
  BY <1>1 DEF PgTypeOK
<1> HIDE DEF q, e
<1>5. QuietClients'
  BY <1>1, <1>2, <1>4 DEF ListenerInv, QuietClients
<1>6. AnswersMakeListened'
  <2> SUFFICES ASSUME k \notin broken, NEW c \in Channels
               PROVE  c \notin session'[k] <=>
                        EndsOff(down'[k], Answered("LISTEN", c), Answered("UNLISTEN", c), c \in listened)
    BY <1>1, <1>2 DEF AnswersMakeListened
  <2>1. c \notin session[k] <=>
          EndsOff(down[k], Answered("LISTEN", c), Answered("UNLISTEN", c), c \in listened)
    BY <1>2 DEF ListenerInv, AnswersMakeListened
  <2> QED
    BY <1>3, <1>4, <2>1, AnswerJoins DEF e
<1>7. QueriesMakeSession'
  <2> SUFFICES ASSUME NEW c \in Channels, c \notin raced
               PROVE  QueriesFor(c)'
    BY <1>1 DEF QueriesMakeSession
  <2>1. QueriesFor(c)
    BY DEF ListenerInv, QueriesMakeSession
  <2>2. Ends(cmds'[k], c, c \in session'[k]) <=> Ends(cmds[k], c, c \in session[k])
    BY <1>1, <1>3, <1>4, QueryLeaves DEF q
  <2> QED
    BY <1>1, <1>2, <2>1, <2>2 DEF QueriesFor, registryVars
<1>8. NotesAreNew'
  <2>1. ASSUME NEW j \in Clients
        PROVE  Pending(down'[j], "note", sent, seen, live)
    <3>1. Pending(down[j], "note", sent, seen, live)
      BY DEF ListenerInv, NotesAreNew
    <3> QED
      BY <1>3, <1>4, <3>1, PendingWithOther
  <2>2. SeenPublished(sent, seen)'
    BY <1>1 DEF ListenerInv, NotesAreNew, SeenPublished, registryVars
  <2> QED
    BY <1>1, <2>1, <2>2 DEF NotesAreNew, registryVars
<1> QED
  BY <1>5, <1>6, <1>7, <1>8 DEF ListenerInv

(* A notification joins the stream of every client that listens. *)
LEMMA PublishKeeps ==
  ASSUME PgTypeOK, RegistryInv, ListenerInv, PgTypeOK', NEW c \in Channels, publish(c)
  PROVE  ListenerInv'
<1> USE NoClientAssumption
<1> DEFINE e == [type |-> "note", ch |-> c, n |-> sent[c] + 1]
<1>1. UNCHANGED <<registryVars, connVars, listened, session, seen, raced>>
  BY DEF publish
<1>2. ASSUME NEW k \in Clients
      PROVE  /\ down[k] \in Seq(Events)
             /\ down'[k] = down[k] \/ down'[k] = Append(down[k], e)
             /\ session[k] = {} => down'[k] = down[k]
  BY DEF publish, PgTypeOK
<1>3. sent' = [sent EXCEPT ![c] = @ + 1]
  BY DEF publish
<1>4. /\ e.type = "note" /\ e.ch = c /\ e.n = sent[c] + 1
      /\ sent \in [Channels -> Nat] /\ seen \in [Subs -> Nat] /\ live \in SUBSET Subs
      /\ sent' \in [Channels -> Nat] /\ \A d \in Channels : sent[d] <= sent'[d]
  BY <1>3 DEF PgTypeOK, RegistryTypeOK
<1> HIDE DEF e
<1>5. QuietClients'
  BY <1>1, <1>2 DEF ListenerInv, QuietClients, connVars
<1>6. AnswersMakeListened'
  <2> SUFFICES ASSUME listener \in Clients \ broken, NEW d \in Channels
               PROVE  d \notin session[listener] <=>
                        EndsOff(down'[listener], Answered("LISTEN", d), Answered("UNLISTEN", d), d \in listened)
    BY <1>1 DEF AnswersMakeListened, connVars
  <2>1. d \notin session[listener] <=>
          EndsOff(down[listener], Answered("LISTEN", d), Answered("UNLISTEN", d), d \in listened)
    BY DEF ListenerInv, AnswersMakeListened
  <2>2. EndsOff(Append(down[listener], e), Answered("LISTEN", d), Answered("UNLISTEN", d), d \in listened)
          <=> EndsOff(down[listener], Answered("LISTEN", d), Answered("UNLISTEN", d), d \in listened)
    BY <1>4, <1>2, NotesSwitchNothing
  <2> QED
    BY <1>2, <2>1, <2>2
<1>7. QueriesMakeSession'
  BY <1>1 DEF ListenerInv, QueriesMakeSession, QueriesFor, connVars, registryVars
<1>8. NotesAreNew'
  <2>1. SeenPublished(sent, seen)'
    BY <1>1, <1>4, <1>3, ChannelAssumption DEF ListenerInv, NotesAreNew, SeenPublished, registryVars
  <2>2. ASSUME NEW k \in Clients
        PROVE  Pending(down'[k], "note", sent', seen, live)
    <3>1. Pending(down[k], "note", sent, seen, live) /\ \A x \in Events : x.ch \in Channels
      BY Messages DEF ListenerInv, NotesAreNew
    <3>2. \A s \in Subs : seen[s] <= sent[ChannelOf[s]]
      BY DEF ListenerInv, NotesAreNew, SeenPublished
    <3>3. Pending(Append(down[k], e), "note", sent', seen, live)
      BY <1>4, <1>2, <1>3, <3>1, <3>2, PendingWithNext
    <3>4. Pending(down[k], "note", sent', seen, live)
      <4>1. \A i \in 1..Len(down[k]) : down[k][i].ch \in Channels
        BY <1>2, <3>1
      <4> QED
        BY <1>4, <3>1, <4>1, PendingFor
    <3> QED
      BY <1>2, <3>3, <3>4
  <2> QED
    BY <1>1, <2>1, <2>2 DEF NotesAreNew, registryVars
<1> QED
  BY <1>5, <1>6, <1>7, <1>8 DEF ListenerInv

(* What comes first on the listener's stream is received. *)
LEMMA ReceiveKeeps ==
  ASSUME PgTypeOK, RegistryInv, ListenerInv, PgTypeOK', NEW k \in Clients,
         Answer(k) \/ Notification(k)
  PROVE  ListenerInv'
<1> USE NoClientAssumption
<1> DEFINE e == Head(down[k])
<1>1. /\ down[k] # <<>>
      /\ down' = [down EXCEPT ![k] = Tail(@)]
      /\ UNCHANGED <<registryVars, connVars, session, sent, raced>>
      /\ \/ e.type = "done" /\ listened' = After(e, listened) /\ seen' = seen
         \/ /\ e.type = "note" /\ listened' = listened
            /\ seen' = [s \in Subs |-> IF s \in Reach(e.ch) THEN e.n ELSE seen[s]]
  BY DEF Answer, Notification, After
<1>2. listener = k /\ k # NoClient
  BY <1>1 DEF ListenerInv, QuietClients
<1>3. e \in Events /\ e.ch \in Channels /\ down[k] \in Seq(Events)
  BY <1>1, QueueTypes, Messages DEF PgTypeOK
<1>4. down'[k] = Tail(down[k]) /\ \A j \in Clients \ {k} : down'[j] = down[j]
  BY <1>1 DEF PgTypeOK
<1> HIDE DEF e
<1>5. QuietClients'
  BY <1>1, <1>2, <1>4 DEF ListenerInv, QuietClients, connVars
<1>6. AnswersMakeListened'
  <2> SUFFICES ASSUME k \notin broken, NEW c \in Channels
               PROVE  c \notin session[k] <=>
                        EndsOff(down'[k], Answered("LISTEN", c), Answered("UNLISTEN", c), c \in listened')
    BY <1>1, <1>2 DEF AnswersMakeListened, connVars
  <2>1. c \notin session[k] <=>
          EndsOff(down[k], Answered("LISTEN", c), Answered("UNLISTEN", c), c \in listened)
    BY <1>2 DEF ListenerInv, AnswersMakeListened
  <2>2. CASE e.type = "done" /\ listened' = After(e, listened)
    BY <1>1, <1>3, <1>4, <2>1, <2>2, AnswerLeaves DEF e
  <2>3. CASE e.type = "note" /\ listened' = listened
    BY <1>1, <1>3, <1>4, <2>1, <2>3, NotesSwitchNothing DEF e
  <2> QED
    BY <1>1, <2>2, <2>3
<1>7. QueriesMakeSession'
  BY <1>1 DEF ListenerInv, QueriesMakeSession, QueriesFor, connVars, registryVars
<1>8. NotesAreNew'
  <2>1. Reach(e.ch) \subseteq {s \in live : ChannelOf[s] = e.ch}
    BY <1>3, ReachIsOfChannel DEF PgTypeOK, RegistryInv
  <2>2. e.type = "note" => e.n <= sent[e.ch]
    <3>1. 1 \in 1..Len(down[k]) /\ e = down[k][1]
      BY <1>1, <1>3 DEF e
    <3>2. e.type = "note" => e.n \in 1..sent[e.ch]
      BY <3>1 DEF ListenerInv, NotesAreNew, Pending
    <3>3. sent[e.ch] \in Nat
      BY <1>3 DEF PgTypeOK
    <3> QED
      BY <3>2, <3>3
  <2>3. SeenPublished(sent, seen)'
    <3>1. ASSUME NEW s \in Subs
          PROVE  seen'[s] <= sent[ChannelOf[s]] /\ (closure[s] = NoSet => seen'[s] = 0)
      <4>1. seen[s] <= sent[ChannelOf[s]] /\ (closure[s] = NoSet => seen[s] = 0 /\ s \notin live)
        BY DEF ListenerInv, NotesAreNew, SeenPublished, RegistryInv, HandlesInv
      <4> QED
        BY <1>1, <2>1, <2>2, <4>1
    <3> QED
      BY <1>1, <3>1 DEF SeenPublished, registryVars
  <2>4. ASSUME NEW j \in Clients
        PROVE  Pending(down'[j], "note", sent, seen', live)
    <3>1. Pending(down[j], "note", sent, seen, live) /\ live \in SUBSET Subs
      BY DEF ListenerInv, NotesAreNew, PgTypeOK, RegistryTypeOK
    <3>2. CASE j = k
      <4>1. \A s \in live : \/ seen'[s] = seen[s]
                            \/ e.type = "note" /\ ChannelOf[s] = e.ch /\ seen'[s] = e.n
        BY <1>1, <2>1, <3>1
      <4> QED
        BY <1>1, <1>3, <1>4, <3>1, <3>2, <4>1, PendingTail DEF e
    <3>3. CASE j # k
      BY <1>2, <1>4, <3>3, NothingPending DEF ListenerInv, QuietClients
    <3> QED
      BY <3>2, <3>3
  <2> QED
    BY <1>1, <2>3, <2>4 DEF NotesAreNew, registryVars
<1> QED
  BY <1>5, <1>6, <1>7, <1>8 DEF ListenerInv

(* A connection that is lost takes its queues with it. *)
LEMMA LossKeeps ==
  ASSUME PgTypeOK, RegistryInv, ListenerInv, PgTypeOK', NEW k \in Clients, ConnectionLost(k)
  PROVE  ListenerInv'
<1> USE NoClientAssumption
<1>1. /\ broken' = broken \cup {k}
      /\ cmds'[k] = <<>> /\ down'[k] = <<>> /\ session'[k] = {}
      /\ \A j \in Clients \ {k} : cmds'[j] = cmds[j] /\ down'[j] = down[j] /\ session'[j] = session[j]
      /\ UNCHANGED <<registryVars, listener, listenerReady, waiting, listened, sent, seen, raced>>
  BY DEF ConnectionLost, PgTypeOK
<1>2. QuietClients' /\ AnswersMakeListened'
  BY <1>1 DEF ListenerInv, QuietClients, AnswersMakeListened
<1>3. QueriesMakeSession'
  BY <1>1 DEF ListenerInv, QueriesMakeSession, QueriesFor, registryVars
<1>4. NotesAreNew'
  <2>1. \A j \in Clients : Pending(down'[j], "note", sent, seen, live)
    BY <1>1, NothingPending DEF ListenerInv, NotesAreNew
  <2>2. SeenPublished(sent, seen)'
    BY <1>1 DEF ListenerInv, NotesAreNew, SeenPublished, registryVars
  <2> QED
    BY <1>1, <2>1, <2>2 DEF NotesAreNew, registryVars
<1> QED
  BY <1>2, <1>3, <1>4 DEF ListenerInv

(* At first nothing is subscribed, asked or listened on. *)
LEMMA PgStart == PgInit => PgInv
<1> SUFFICES ASSUME PgInit
             PROVE  PgInv
  OBVIOUS
<1>1. RegistryTypeOK /\ RegistryInv
  BY RegistryStart DEF PgInit
<1>2. PgTypeOK
  <2>1. \A S : <<>> \in Seq(S)
    OBVIOUS
  <2>2. /\ cmds \in [Clients -> Seq(Commands)] /\ down \in [Clients -> Seq(Events)]
        /\ waiting \in Seq(Commands)
    BY <2>1 DEF PgInit
  <2> QED
    BY <1>1, <2>2 DEF PgInit, PgTypeOK
<1>3. \A c, A : Ends(<<>>, c, FALSE)
  BY DEF Ends, EndsOff
<1>4. QuietClients /\ AnswersMakeListened /\ QueriesMakeSession
  BY <1>3, NoClientAssumption
     DEF PgInit, RegistryInit, QuietClients, AnswersMakeListened, QueriesMakeSession, QueriesFor
<1>5. NotesAreNew
  BY ChannelAssumption, NothingPending DEF PgInit, NotesAreNew, SeenPublished
<1> QED
  BY <1>1, <1>2, <1>4, <1>5 DEF PgInv, ListenerInv

(* Each step keeps the invariant. *)
LEMMA PgStep ==
  ASSUME PgInv, [PgNext]_pgVars
  PROVE  PgInv'
<1>1. PgTypeOK' /\ RegistryInv'
  BY TypeStep DEF PgInv
<1>2. ASSUME closes' = 0
      PROVE  ListenerInv'
  <2>1. closes = 0 /\ ~close
    <3>1. closes \in Nat
      BY DEF PgInv, PgTypeOK
    <3>2. ~close
      BY <1>2, <3>1 DEF close
    <3>3. UNCHANGED closes
      BY <3>2 DEF PgNext, pgVars, subscribe, unsubscribe, publish, Connected, Execute, Answer,
                  Notification, ConnectionLost, ConnectFails
    <3> QED
      BY <1>2, <3>2, <3>3
  <2>2. PgTypeOK /\ RegistryInv /\ ListenerInv
    BY <2>1 DEF PgInv
  <2>3. CASE UNCHANGED pgVars
    BY <2>2, <2>3
       DEF pgVars, registryVars, connVars, ListenerInv, QuietClients, AnswersMakeListened,
           QueriesMakeSession, QueriesFor, NotesAreNew, SeenPublished, Pending
  <2> QED
    BY <1>1, <2>1, <2>2, <2>3, SubscribeKeeps, ConnectKeeps, ExecuteKeeps, PublishKeeps,
       ReceiveKeeps, LossKeeps DEF PgNext
<1> QED
  BY <1>1, <1>2 DEF PgInv

-----------------------------------------------------------------------------
(* Theorems *)

(* PgInv holds in every reachable state, for any values of the constants. *)
THEOREM PgInvariant == PgSpec => []PgInv
BY PgStart, PgStep, PTL DEF PgSpec

(***************************************************************************)
(* Types, and what ensureListener relies on: listenerReady is resolved     *)
(* exactly while there is a listener, and nobody waits for a connection    *)
(* that is not on its way.                                                 *)
(***************************************************************************)
THEOREM PgTyped == PgSpec => []PgTypeOK
<1>1. PgInv => PgTypeOK
  BY DEF PgInv
<1> QED
  BY <1>1, PgInvariant, PTL

(* A stream without answers leaves `listened` as it is. *)
LEMMA SettledStream ==
  ASSUME NEW Q \in Seq(Events), \A i \in DOMAIN Q : Q[i].type = "note", NEW A, NEW c
  PROVE  EndsOff(Q, Answered("LISTEN", c), Answered("UNLISTEN", c), c \in A) <=> c \notin A
<1>1. \A i \in 1..Len(Q) : Q[i] # Answered("LISTEN", c) /\ Q[i] # Answered("UNLISTEN", c)
  BY Distinct
<1> QED
  BY <1>1 DEF EndsOff

(***************************************************************************)
(* Once the queries are answered, the client's copy of what it listens on  *)
(* is what the server session listens on, however the LISTENs and          *)
(* UNLISTENs of the channels overlapped.                                   *)
(***************************************************************************)
THEOREM ListenedIsMirrored == PgSpec => []ListenedMirrorsSession
<1>1. PgInv => ListenedMirrorsSession
  <2> SUFFICES ASSUME PgInv, closes = 0, Settled
               PROVE  listened = session[listener]
    BY DEF ListenedMirrorsSession
  <2>1. /\ listener \in Clients \ broken /\ down[listener] \in Seq(Events)
        /\ listened \subseteq Channels /\ session[listener] \subseteq Channels
    BY DEF PgInv, PgTypeOK, Settled
  <2>2. ASSUME NEW c \in Channels
        PROVE  c \in listened <=> c \in session[listener]
    <3>1. c \notin session[listener] <=>
            EndsOff(down[listener], Answered("LISTEN", c), Answered("UNLISTEN", c), c \in listened)
      BY <2>1 DEF PgInv, ListenerInv, AnswersMakeListened
    <3>2. \A i \in DOMAIN down[listener] : down[listener][i].type = "note"
      BY DEF Settled
    <3> QED
      BY <2>1, <3>1, <3>2, SettledStream
  <2> QED
    BY <2>1, <2>2
<1> QED
  BY <1>1, PgInvariant, PTL

(***************************************************************************)
(* Once the queries are answered, the session listens on exactly the       *)
(* channels that have handlers, unless a channel's last subscribe or       *)
(* unsubscribe overtook the opposite command.                              *)
(***************************************************************************)
THEOREM SettledIsRight == PgSpec => []SettledUnlessRaced
<1>1. PgInv => SettledUnlessRaced
  <2> SUFFICES ASSUME PgInv, closes = 0, Settled, NEW c \in Channels \ raced
               PROVE  c \in session[listener] <=> Reach(c) # {}
    BY DEF SettledUnlessRaced
  <2>1. listener \in Clients \ broken /\ cmds[listener] = <<>>
    BY DEF PgInv, PgTypeOK, Settled
  <2>2. map[c] = NoSet <=> Ends(cmds[listener], c, c \in session[listener])
    BY <2>1 DEF PgInv, ListenerInv, QueriesMakeSession, QueriesFor
  <2>3. Ends(<<>>, c, c \in session[listener]) <=> c \notin session[listener]
    BY DEF Ends, EndsOff
  <2>4. Reach(c) = {} <=> map[c] = NoSet
    BY ReachedIsMapped DEF PgInv, PgTypeOK, RegistryInv
  <2> QED
    BY <2>1, <2>2, <2>3, <2>4
<1> QED
  BY <1>1, PgInvariant, PTL

(***************************************************************************)
(* A subscription whose owner has not cancelled it is in the Set the next  *)
(* notification looks up, through every reconnect, lost connection and     *)
(* close(), whatever other subscriptions of its channel came and went.     *)
(***************************************************************************)
THEOREM LiveStayReachable == PgSpec => []LiveIsReachable
<1>1. PgInv => LiveIsReachable
  BY InvImpliesReachable DEF PgInv, PgTypeOK
<1> QED
  BY <1>1, PgInvariant, PTL

(* Every step until then is a step of the contract or changes nothing in it. *)
LEMMA ContractStep ==
  ASSUME PgInv, PgInv', [PgNext]_pgVars, closes' = 0
  PROVE  Contract!ContractNext \/ UNCHANGED Contract!contractVars
<1> DEFINE R == [c \in Channels |-> Reach(c)]
<1>1. ASSUME UNCHANGED <<registryVars, sent, seen>>
      PROVE  UNCHANGED Contract!contractVars
  BY <1>1 DEF registryVars, Reach, Contract!contractVars
<1>2. /\ RegistryTypeOK /\ RegistryInv /\ RegistryTypeOK' /\ RegistryInv'
      /\ \A s \in Subs : ChannelOf[s] \in Channels
  BY ChannelAssumption DEF PgInv, PgTypeOK
<1>3. ASSUME NEW s \in Subs, subscribe(s)
      PROVE  Contract!Subscribe(s)
  BY <1>2, <1>3, StoreMovesReach DEF subscribe, Contract!Subscribe
<1>4. ASSUME NEW s \in Subs, unsubscribe(s)
      PROVE  Contract!Unsubscribe(s)
  BY <1>2, <1>4, StoreMovesReach DEF unsubscribe, Contract!Unsubscribe
<1>5. ASSUME NEW c \in Channels, publish(c)
      PROVE  Contract!Publish(c)
  <2>1. R' = R
    BY <1>5 DEF publish, registryVars, Reach
  <2> QED
    BY <1>5, <2>1 DEF publish, Contract!Publish
<1>6. ASSUME NEW k \in Clients, Notification(k)
      PROVE  \E c \in Channels : \E n \in 1..sent[c] : Contract!Deliver(c, n)
  <2> DEFINE e == Head(down[k])
  <2>1. /\ e.type = "note" /\ down[k] # <<>> /\ down[k] \in Seq(Events)
        /\ closes = 0
    BY <1>6 DEF Notification, PgInv, PgTypeOK
  <2>2. 1 \in 1..Len(down[k]) /\ e = down[k][1] /\ e \in Events
    BY <2>1
  <2>3. e.ch \in Channels /\ e.n \in 1..sent[e.ch]
        /\ \A s \in live : ChannelOf[s] = e.ch => seen[s] < e.n
    BY <2>1, <2>2, Messages DEF PgInv, ListenerInv, NotesAreNew, Pending
  <2>4. Reach(e.ch) \subseteq {s \in live : ChannelOf[s] = e.ch}
    BY <1>2, <2>3, ReachIsOfChannel DEF RegistryInv
  <2>5. R' = R /\ UNCHANGED sent /\ R[e.ch] = Reach(e.ch)
    BY <1>6, <2>3 DEF Notification, registryVars, Reach
  <2>6. seen' = [s \in Subs |-> IF s \in R[e.ch] THEN e.n ELSE seen[s]]
    BY <1>6, <2>5 DEF Notification
  <2> HIDE DEF e, R
  <2>7. Contract!Deliver(e.ch, e.n)
    BY <2>3, <2>4, <2>5, <2>6 DEF Contract!Deliver, R
  <2> QED
    BY <2>3, <2>7
<1>7. ASSUME \/ \E k \in Clients : \/ Connected(k) \/ Execute(k) \/ Answer(k) \/ ConnectionLost(k)
             \/ ConnectFails
             \/ close
             \/ UNCHANGED pgVars
      PROVE  UNCHANGED <<registryVars, sent, seen>>
  BY <1>7 DEF Connected, Execute, Answer, ConnectionLost, ConnectFails, close, pgVars
<1> QED
  BY <1>1, <1>3, <1>4, <1>5, <1>6, <1>7 DEF PgNext, Contract!ContractNext

(***************************************************************************)
(* Until close() is called, the store implements PubSubContract: each      *)
(* handler is called at most once per message, in the order the messages   *)
(* were committed, and only while it is registered.                        *)
(***************************************************************************)
THEOREM PgImplementsContract == PgSpec => ContractUntilClose
<1>1. PgInit => Contract!ContractInit
  BY DEF PgInit, RegistryInit, Reach, Contract!ContractInit
<1>2. PgInv /\ PgInv' /\ [PgNext]_pgVars
        => [closes' = 0 => Contract!ContractNext \/ UNCHANGED Contract!contractVars]_pgVars
  BY ContractStep
<1> QED
  BY <1>1, <1>2, PgInvariant, PTL DEF PgSpec, ContractUntilClose

=============================================================================
