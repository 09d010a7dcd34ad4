-------------------------- MODULE RedisPubSubProofs --------------------------
(***************************************************************************)
(* What RedisPubSub keeps, for any channels, subscriptions and number of   *)
(* messages and failures.  RedisInv is inductive: the table is consistent, *)
(* every queue between it and the attached closures leads from one to the  *)
(* next, channels that were crossed aside, and what is on its way to the   *)
(* handlers is new to them.  That the store settles on the channels with   *)
(* handlers, that a channel has two closures only while an UNSUBSCRIBE is  *)
(* on its way, and that but for those every step is a step of              *)
(* PubSubContract follow.                                                  *)
(***************************************************************************)
EXTENDS RedisPubSub, StoreLemmas

-----------------------------------------------------------------------------
(* Types *)

Tasks == [op : {"ensure", "maybe"}, ch : Channels]

(* The fields of callbacks, commands and confirmations. *)
LEMMA Records ==
  /\ \A op, c : /\ Call(op, c).op = op /\ Call(op, c).ch = c
                /\ Done(op, c).op = op /\ Done(op, c).ch = c /\ Done(op, c).type = "done"
  /\ \A op \in {"ensure", "maybe"}, c \in Channels : Call(op, c) \in Tasks
  /\ \A op \in {"SUBSCRIBE", "UNSUBSCRIBE"}, c \in Channels :
       Call(op, c) \in Commands /\ Done(op, c) \in Events
  /\ \A t \in Tasks : t.op \in {"ensure", "maybe"} /\ t.ch \in Channels /\ t = Call(t.op, t.ch)
  /\ \A q \in Commands : /\ q.op \in {"SUBSCRIBE", "UNSUBSCRIBE"} /\ q.ch \in Channels
                         /\ q = Call(q.op, q.ch)
  /\ \A e \in Events : /\ e.type \in {"done", "message"} /\ e.ch \in Channels
                       /\ e.type = "done" => /\ e.op \in {"SUBSCRIBE", "UNSUBSCRIBE"}
                                             /\ e = Done(e.op, e.ch)
                       /\ e.type = "message" => e.n \in Nat
  /\ \A c \in Channels, n \in Nat : [type |-> "message", ch |-> c, n |-> n] \in Events
<1>1. \A op, c : /\ Call(op, c).op = op /\ Call(op, c).ch = c
                 /\ Done(op, c).op = op /\ Done(op, c).ch = c /\ Done(op, c).type = "done"
  BY DEF Call, Done
<1>2. /\ \A op \in {"ensure", "maybe"}, c \in Channels : Call(op, c) \in Tasks
      /\ \A op \in {"SUBSCRIBE", "UNSUBSCRIBE"}, c \in Channels :
           Call(op, c) \in Commands /\ Done(op, c) \in Events
      /\ \A c \in Channels, n \in Nat : [type |-> "message", ch |-> c, n |-> n] \in Events
  BY DEF Call, Done, Tasks, Commands, Events
<1>3. \A t \in Tasks : t.op \in {"ensure", "maybe"} /\ t.ch \in Channels /\ t = Call(t.op, t.ch)
  BY DEF Call, Tasks
<1>4. \A q \in Commands : /\ q.op \in {"SUBSCRIBE", "UNSUBSCRIBE"} /\ q.ch \in Channels
                          /\ q = Call(q.op, q.ch)
  BY DEF Call, Commands
<1>5. \A e \in Events : /\ e.type \in {"done", "message"} /\ e.ch \in Channels
                        /\ e.type = "done" => /\ e.op \in {"SUBSCRIBE", "UNSUBSCRIBE"}
                                              /\ e = Done(e.op, e.ch)
                        /\ e.type = "message" => e.n \in Nat
  BY DEF Done, Events
<1> QED
  BY <1>1, <1>2, <1>3, <1>4, <1>5

(* Those that differ in kind or channel are different, and none is a message. *)
LEMMA RecordsDiffer ==
  /\ \A a, b, c, d : a # b \/ c # d => Call(a, c) # Call(b, d) /\ Done(a, c) # Done(b, d)
  /\ \A e, op, c : e.type = "message" => e # Done(op, c)
<1>1. \A a, b, c, d : a # b \/ c # d => Call(a, c) # Call(b, d) /\ Done(a, c) # Done(b, d)
  <2> SUFFICES ASSUME NEW a, NEW b, NEW c, NEW d, a # b \/ c # d
               PROVE  Call(a, c) # Call(b, d) /\ Done(a, c) # Done(b, d)
    OBVIOUS
  <2> QED
    BY DEF Call, Done
<1>2. \A e, op, c : e.type = "message" => e # Done(op, c)
  BY Records
<1> QED
  BY <1>1, <1>2

(* Each step keeps the types and the table. *)
LEMMA TypeStep ==
  ASSUME RedisTypeOK, RegistryInv, [RedisNext]_redisVars
  PROVE  RedisTypeOK' /\ RegistryInv'
<1>1. RegistryTypeOK /\ tasks \in Seq(Tasks)
  BY DEF RedisTypeOK, Tasks
<1>2. ASSUME NEW s \in Subs, subscribe(s) \/ unsubscribe(s)
      PROVE  RedisTypeOK' /\ RegistryInv'
  <2>1. RegistryTypeOK' /\ RegistryInv'
    BY <1>1, <1>2, StoreKeepsTable DEF subscribe, unsubscribe
  <2>2. tasks' \in Seq(Tasks)
    <3>1. /\ Append(tasks, Call("ensure", ChannelOf[s])) \in Seq(Tasks)
          /\ Append(tasks, Call("maybe", ChannelOf[s])) \in Seq(Tasks)
      BY <1>1, ChannelAssumption, Records, QueueTypes
    <3> QED
      BY <1>1, <1>2, <3>1 DEF subscribe, unsubscribe, Call
  <2> QED
    BY <1>2, <2>1, <2>2 DEF subscribe, unsubscribe, RedisTypeOK, Tasks
<1>3. ASSUME UNCHANGED registryVars
      PROVE  RegistryTypeOK' /\ RegistryInv'
  BY <1>1, <1>3 DEF registryVars, RegistryTypeOK, RegistryInv, HandlesInv, OneSet
<1>4. ASSUME NEW c \in Channels, publish(c)
      PROVE  RedisTypeOK' /\ RegistryInv'
  <2>1. sent[c] + 1 \in Nat /\ sent' \in [Channels -> Nat]
    BY <1>4 DEF publish, RedisTypeOK
  <2>2. Append(down, [type |-> "message", ch |-> c, n |-> sent[c] + 1]) \in Seq(Events)
    BY <2>1, Records, QueueTypes DEF RedisTypeOK
  <2> QED
    BY <1>3, <1>4, <2>1, <2>2 DEF publish, linkVars, RedisTypeOK
<1>5. CASE Connected
  BY <1>3, <1>5 DEF Connected, RedisTypeOK
<1>6. CASE RunTask
  <2>1. /\ Head(tasks) \in Tasks /\ Head(tasks).ch \in Channels /\ tasks' \in Seq(Tasks)
        /\ Append(cmds, Call("SUBSCRIBE", Head(tasks).ch)) \in Seq(Commands)
        /\ Append(cmds, Call("UNSUBSCRIBE", Head(tasks).ch)) \in Seq(Commands)
    <3>1. Head(tasks) \in Tasks /\ tasks' \in Seq(Tasks)
      BY <1>1, <1>6, QueueTypes DEF RunTask
    <3>2. Head(tasks).ch \in Channels
      BY <3>1, Records
    <3> QED
      BY <3>1, <3>2, Records, QueueTypes DEF RedisTypeOK
  <2>2. /\ cmds' \in Seq(Commands) /\ subscribed' \in SUBSET Channels
        /\ orphaned' \in SUBSET Channels /\ crossed' \in SUBSET Channels
        /\ attached' \in [Channels -> Nat]
    <3> DEFINE d == Head(tasks).ch
    <3>1. /\ subscribed \in SUBSET Channels /\ orphaned \in SUBSET Channels
          /\ crossed \in SUBSET Channels /\ attached \in [Channels -> Nat]
          /\ cmds \in Seq(Commands)
      BY DEF RedisTypeOK
    <3>2. \/ ensureSubscribed(d)
          \/ maybeUnsubscribe(d)
      BY <1>6 DEF RunTask
    <3>3. CASE ensureSubscribed(d)
      <4>1. d \in Channels /\ Append(cmds, [op |-> "SUBSCRIBE", ch |-> d]) \in Seq(Commands)
        BY <2>1 DEF Call
      <4>2. [attached EXCEPT ![d] = @ + 1] \in [Channels -> Nat]
        BY <3>1, <4>1
      <4> HIDE DEF d
      <4> QED
        BY <3>1, <3>3, <4>1, <4>2 DEF ensureSubscribed, ClientSubscribe, Issue
    <3>4. CASE maybeUnsubscribe(d)
      BY <2>1, <3>1, <3>4 DEF maybeUnsubscribe, Issue, Call
    <3> QED
      BY <3>2, <3>3, <3>4
  <2> QED
    BY <1>3, <1>6, <2>1, <2>2 DEF RunTask, RedisTypeOK, Tasks
<1>7. CASE Execute \/ SubscribeFails
  <2>1. Head(cmds) \in Commands /\ cmds' \in Seq(Commands)
    <3>1. cmds \in Seq(Commands) /\ cmds # <<>> /\ cmds' = Tail(cmds)
      BY <1>7 DEF Execute, SubscribeFails, RedisTypeOK
    <3> QED
      BY <3>1, QueueTypes
  <2>2. /\ Head(cmds).ch \in Channels
        /\ Append(down, Done(Head(cmds).op, Head(cmds).ch)) \in Seq(Events)
    BY <2>1, Records, QueueTypes DEF RedisTypeOK
  <2>3. /\ down' \in Seq(Events) /\ session' \in SUBSET Channels
        /\ failures' \in Nat /\ orphaned' \in SUBSET Channels
    <3>1. CASE Execute
      BY <2>2, <3>1 DEF Execute, Done, RedisTypeOK
    <3>2. CASE SubscribeFails
      BY <2>2, <3>2 DEF SubscribeFails, RedisTypeOK
    <3> QED
      BY <1>7, <3>1, <3>2
  <2> QED
    BY <1>3, <1>7, <2>1, <2>3 DEF Execute, SubscribeFails, RedisTypeOK
<1>8. CASE Confirmed \/ Message
  <2>1. Head(down) \in Events /\ down' \in Seq(Events)
    <3>1. down \in Seq(Events) /\ down # <<>> /\ down' = Tail(down)
      BY <1>8 DEF Confirmed, Message, RedisTypeOK
    <3> QED
      BY <3>1, QueueTypes
  <2>2. Head(down).ch \in Channels /\ (Head(down).type = "message" => Head(down).n \in Nat)
    BY <2>1, Records
  <2>3. /\ attached' \in [Channels -> Nat] /\ seen' \in [Subs -> Nat]
        /\ twice' \in [Subs -> SUBSET Nat]
    <3>1. CASE Confirmed
      BY <2>2, <3>1 DEF Confirmed, RedisTypeOK
    <3>2. CASE Message
      BY <2>2, <3>2 DEF Message, Calls, RedisTypeOK
    <3> QED
      BY <1>8, <3>1, <3>2
  <2> QED
    BY <1>3, <1>8, <2>1, <2>3 DEF Confirmed, Message, linkVars, RedisTypeOK
<1>9. CASE UNCHANGED redisVars
  BY <1>3, <1>9 DEF redisVars, linkVars, RedisTypeOK
<1> QED
  BY <1>2, <1>4, <1>5, <1>6, <1>7, <1>8, <1>9 DEF RedisNext

-----------------------------------------------------------------------------
(* The queues *)

(* subscribe and unsubscribe queue what the table has become. *)
LEMMA SubscribeTasks ==
  ASSUME RedisTypeOK, RegistryInv, TasksMakeSubscribed, NEW s \in Subs,
         subscribe(s) \/ unsubscribe(s)
  PROVE  TasksMakeSubscribed'
<1> USE NoSetAssumption
<1> DEFINE d == ChannelOf[s]
<1>1. tasks \in Seq(Tasks) /\ d \in Channels /\ UNCHANGED subscribed
  BY ChannelAssumption DEF subscribe, unsubscribe, RedisTypeOK, Tasks
<1>2. \/ tasks' = tasks /\ map' = map
      \/ tasks' = Append(tasks, Call("ensure", d)) /\ map'[d] # NoSet
            /\ \A c \in Channels \ {d} : map'[c] = map[c]
      \/ tasks' = Append(tasks, Call("maybe", d)) /\ map'[d] = NoSet
            /\ \A c \in Channels \ {d} : map'[c] = map[c]
  <2>1. CASE subscribe(s)
    <3>1. /\ tasks' = Append(tasks, Call("ensure", d)) /\ map'[d] # NoSet
          /\ \A c \in Channels \ {d} : map'[c] = map[c]
      BY <1>1, <2>1 DEF subscribe, Register, Call, RedisTypeOK, RegistryTypeOK
    <3> QED
      BY <3>1
  <2>2. CASE unsubscribe(s) /\ Empties(s)
    <3>1. /\ tasks' = Append(tasks, Call("maybe", d)) /\ map'[d] = NoSet
          /\ \A c \in Channels \ {d} : map'[c] = map[c]
      BY <1>1, <2>2 DEF unsubscribe, Unregister, Call, RedisTypeOK, RegistryTypeOK
    <3> QED
      BY <3>1
  <2>3. CASE unsubscribe(s) /\ ~Empties(s)
    BY <2>3 DEF unsubscribe, Unregister
  <2> QED
    BY <2>1, <2>2, <2>3
<1> HIDE DEF d
<1>3. ASSUME NEW c \in Channels
      PROVE  map'[c] = NoSet <=> EndsOff(tasks', Call("ensure", c), Call("maybe", c), c \in subscribed)
  <2>1. map[c] = NoSet <=> EndsOff(tasks, Call("ensure", c), Call("maybe", c), c \in subscribed)
    BY DEF TasksMakeSubscribed
  <2>2. \A e : EndsOff(Append(tasks, e), Call("ensure", c), Call("maybe", c), c \in subscribed)
          <=> \/ e = Call("maybe", c)
              \/ /\ e # Call("ensure", c)
                 /\ EndsOff(tasks, Call("ensure", c), Call("maybe", c), c \in subscribed)
    BY <1>1, AppendSwitchesIn, RecordsDiffer
  <2>3. /\ Call("ensure", d) # Call("maybe", c) /\ Call("maybe", d) # Call("ensure", c)
        /\ c # d => Call("ensure", d) # Call("ensure", c) /\ Call("maybe", d) # Call("maybe", c)
    BY RecordsDiffer
  <2>4. CASE c = d
    BY <1>2, <2>1, <2>2, <2>3, <2>4
  <2>5. CASE c # d
    BY <1>2, <2>1, <2>2, <2>3, <2>5
  <2> QED
    BY <2>4, <2>5
<1> QED
  BY <1>1, <1>3 DEF TasksMakeSubscribed

(* A callback queued behind `ready` runs: ensureSubscribed, or
   maybeUnsubscribe, which does nothing when the channel is in use again. *)
LEMMA TaskRuns ==
  ASSUME RedisTypeOK, TasksMakeSubscribed, CommandsMakeSession, CrossedAreSubscribed,
         RepliesMakeAttached, OneClosureUnlessUnsubscribing, RunTask
  PROVE  /\ TasksMakeSubscribed' /\ CommandsMakeSession' /\ CrossedAreSubscribed'
         /\ RepliesMakeAttached' /\ OneClosureUnlessUnsubscribing'
<1> DEFINE t == Head(tasks)
           d == t.ch
<1>1. /\ tasks \in Seq(Tasks) /\ tasks # <<>> /\ tasks' = Tail(tasks)
      /\ cmds \in Seq(Commands) /\ attached \in [Channels -> Nat]
      /\ UNCHANGED <<registryVars, session, down>>
  BY DEF RunTask, RedisTypeOK, Tasks
<1>2. t \in Tasks /\ t.op \in {"ensure", "maybe"} /\ d \in Channels /\ t = Call(t.op, d)
  BY <1>1, QueueTypes, Records
<1>3. \/ t = Call("ensure", d) /\ ensureSubscribed(d)
      \/ t = Call("maybe", d) /\ maybeUnsubscribe(d)
  BY <1>2 DEF RunTask
<1> HIDE DEF t, d
<1>4. ASSUME NEW c \in Channels
      PROVE  map[c] = NoSet <=> EndsOff(tasks', Call("ensure", c), Call("maybe", c), c \in subscribed')
  <2> DEFINE start == Call("ensure", c)
             stop == Call("maybe", c)
             B == IF t = start THEN subscribed \cup {c} ELSE IF t = stop THEN subscribed \ {c}
                  ELSE subscribed
  <2>1. start # stop /\ (map[c] = NoSet <=> EndsOff(tasks, start, stop, c \in subscribed))
    BY RecordsDiffer DEF TasksMakeSubscribed
  <2>2. EndsOff(tasks', start, stop, c \in B) <=> EndsOff(tasks, start, stop, c \in subscribed)
    <3>1. c \in B <=> t = start \/ (c \in subscribed /\ t # stop)
      BY <2>1
    <3> HIDE DEF B, start, stop
    <3> QED
      BY <1>1, <2>1, <3>1, TailSwitchesIn DEF t
  <2>3. CASE c \in B <=> c \in subscribed'
    <3>1. EndsOff(tasks', start, stop, c \in B) <=> EndsOff(tasks', start, stop, c \in subscribed')
      BY <2>3 DEF EndsOff
    <3> QED
      BY <2>1, <2>2, <3>1
  <2>4. CASE ~(c \in B <=> c \in subscribed')
    <3>1. c \notin B /\ c \in subscribed' /\ map[c] # NoSet
      BY <1>3, <2>1, <2>4, RecordsDiffer DEF ensureSubscribed, maybeUnsubscribe
    <3>2. ~EndsOff(tasks', start, stop, c \in B)
      BY <2>1, <2>2, <3>1
    <3>3. ~EndsOff(tasks', start, stop, c \in subscribed')
      BY <3>1, <3>2 DEF EndsOff
    <3> QED
      BY <3>1, <3>3
  <2> QED
    BY <2>3, <2>4
<1>6. \/ UNCHANGED <<cmds, subscribed, orphaned, crossed, attached>>
      \/ /\ UNCHANGED <<cmds, orphaned>> /\ d \notin subscribed /\ attached[d] > 0
         /\ subscribed' = subscribed \cup {d} /\ crossed' = crossed \cup {d}
         /\ attached' = [attached EXCEPT ![d] = @ + 1]
      \/ /\ cmds' = Append(cmds, Call("SUBSCRIBE", d)) /\ d \notin subscribed
         /\ subscribed' = subscribed \cup {d} /\ UNCHANGED <<orphaned, crossed, attached>>
      \/ /\ cmds' = Append(cmds, Call("UNSUBSCRIBE", d)) /\ subscribed' = subscribed \ {d}
         /\ orphaned' = orphaned \ {d} /\ crossed' = crossed \ {d} /\ UNCHANGED attached
  BY <1>3 DEF ensureSubscribed, maybeUnsubscribe, ClientSubscribe, Issue, Call
<1>5. ASSUME NEW c \in Channels
      PROVE  LET start == Call("SUBSCRIBE", c)
                 stop == Call("UNSUBSCRIBE", c)
             IN  /\ c \notin subscribed' \/ c \in crossed'
                      => EndsOff(cmds', start, stop, c \in session)
                 /\ c \in subscribed' \ (orphaned' \cup crossed')
                      => ~EndsOff(cmds', start, stop, c \in session)
                 /\ StartsOnce(cmds', start, stop, c \in session)
  <2> DEFINE start == Call("SUBSCRIBE", c)
             stop == Call("UNSUBSCRIBE", c)
  <2>1. /\ start # stop
        /\ c \notin subscribed \/ c \in crossed => EndsOff(cmds, start, stop, c \in session)
        /\ c \in subscribed \ (orphaned \cup crossed)
             => ~EndsOff(cmds, start, stop, c \in session)
        /\ StartsOnce(cmds, start, stop, c \in session)
        /\ c \in crossed => c \in subscribed
    BY RecordsDiffer DEF CommandsMakeSession, CrossedAreSubscribed
  <2>2. \A e : /\ EndsOff(Append(cmds, e), start, stop, c \in session)
                    <=> (e = stop \/ (e # start /\ EndsOff(cmds, start, stop, c \in session)))
               /\ (e = start => EndsOff(cmds, start, stop, c \in session))
                    => StartsOnce(Append(cmds, e), start, stop, c \in session)
    <3> HIDE DEF start, stop
    <3> QED
      BY <1>1, <2>1, AppendSwitchesIn
  <2>3. \/ UNCHANGED <<cmds, subscribed, orphaned, crossed>>
        \/ /\ UNCHANGED <<cmds, orphaned>> /\ d \notin subscribed
           /\ subscribed' = subscribed \cup {d} /\ crossed' = crossed \cup {d}
        \/ /\ cmds' = Append(cmds, Call("SUBSCRIBE", d)) /\ d \notin subscribed
           /\ subscribed' = subscribed \cup {d} /\ UNCHANGED <<orphaned, crossed>>
        \/ /\ cmds' = Append(cmds, Call("UNSUBSCRIBE", d)) /\ subscribed' = subscribed \ {d}
           /\ orphaned' = orphaned \ {d} /\ crossed' = crossed \ {d}
    BY <1>6
  <2>4. /\ c = d => Call("SUBSCRIBE", d) = start /\ Call("UNSUBSCRIBE", d) = stop
        /\ c # d => /\ Call("SUBSCRIBE", d) # start /\ Call("UNSUBSCRIBE", d) # start
                    /\ Call("SUBSCRIBE", d) # stop /\ Call("UNSUBSCRIBE", d) # stop
    BY RecordsDiffer
  <2> HIDE DEF start, stop
  <2>5. /\ c \notin subscribed' \/ c \in crossed'
             => EndsOff(cmds', start, stop, c \in session)
        /\ c \in subscribed' \ (orphaned' \cup crossed')
             => ~EndsOff(cmds', start, stop, c \in session)
        /\ StartsOnce(cmds', start, stop, c \in session)
    BY <2>1, <2>2, <2>3, <2>4
  <2> QED
    BY <2>5 DEF start, stop
<1>7. TasksMakeSubscribed' /\ CommandsMakeSession' /\ CrossedAreSubscribed'
  <2>1. TasksMakeSubscribed'
    BY <1>1, <1>4 DEF TasksMakeSubscribed, registryVars
  <2>2. CommandsMakeSession'
    BY <1>1, <1>5 DEF CommandsMakeSession
  <2>3. CrossedAreSubscribed'
    BY <1>6 DEF CrossedAreSubscribed
  <2> QED
    BY <2>1, <2>2, <2>3
<1>8. \A c \in Channels : attached'[c] > 0 <=> attached[c] > 0
  BY <1>1, <1>2, <1>6
<1>9. RepliesMakeAttached'
  <2>1. Attached' = Attached
    BY <1>8 DEF Attached
  <2> QED
    BY <1>1, <2>1 DEF RepliesMakeAttached
<1>10. OneClosureUnlessUnsubscribing'
  <2> SUFFICES ASSUME NEW c \in Channels, attached'[c] > 1
               PROVE  Unsubscribing(c)'
    BY DEF OneClosureUnlessUnsubscribing
  <2>1. Unsubscribing(c)
    <3>1. CASE attached[c] > 1
      BY <3>1 DEF OneClosureUnlessUnsubscribing
    <3>2. CASE ~(attached[c] > 1)
      <4>1. c = d /\ d \notin subscribed /\ attached[d] > 0
        BY <1>1, <1>2, <1>6, <3>2
      <4>2. EndsOff(cmds, Call("SUBSCRIBE", c), Call("UNSUBSCRIBE", c), c \in session)
        BY <4>1 DEF CommandsMakeSession
      <4>3. CASE c \in session
        BY <4>2, <4>3 DEF EndsOff, Unsubscribing
      <4>4. CASE c \notin session
        <5>1. /\ EndsOff(down, Done("SUBSCRIBE", c), Done("UNSUBSCRIBE", c), c \in Attached)
              /\ c \in Attached
          BY <4>1, <4>4 DEF RepliesMakeAttached, Attached
        <5> QED
          BY <5>1 DEF EndsOff, Unsubscribing
      <4> QED
        BY <4>3, <4>4
    <3> QED
      BY <3>1, <3>2
  <2>2. CASE cmds' = cmds
    BY <1>1, <2>1, <2>2 DEF Unsubscribing
  <2>3. CASE \E e \in Commands : cmds' = Append(cmds, e)
    <3>1. PICK e \in Commands : cmds' = Append(cmds, e)
      BY <2>3
    <3>2. Len(cmds') = Len(cmds) + 1 /\ \A i \in 1..Len(cmds) : cmds'[i] = cmds[i]
      BY <1>1, <3>1
    <3>3. Len(cmds) \in Nat
      BY <1>1
    <3> QED
      BY <1>1, <2>1, <3>2, <3>3 DEF Unsubscribing
  <2> QED
    BY <1>2, <1>6, <2>2, <2>3, Records
<1> QED
  BY <1>7, <1>9, <1>10

(* An UNSUBSCRIBE stays on its way until its reply arrives. *)
LEMMA StillUnsubscribing ==
  ASSUME RedisTypeOK, NEW c \in Channels, Unsubscribing(c),
         \/ Execute \/ SubscribeFails \/ \E d \in Channels : publish(d)
         \/ (Confirmed \/ Message) /\ Head(down) # Done("UNSUBSCRIBE", c)
  PROVE  Unsubscribing(c)'
<1> DEFINE start == Call("UNSUBSCRIBE", c)
           stop == Done("UNSUBSCRIBE", c)
<1>1. /\ cmds \in Seq(Commands) /\ down \in Seq(Events)
      /\ Len(cmds) \in Nat /\ Len(down) \in Nat
  BY DEF RedisTypeOK
<1>2. \A Q, e : Q \in Seq(Events) =>
        /\ Len(Append(Q, e)) = Len(Q) + 1 /\ Append(Q, e)[Len(Q) + 1] = e
        /\ \A i \in 1..Len(Q) : Append(Q, e)[i] = Q[i]
  OBVIOUS
<1>3. \A S, Q, i : /\ Q \in Seq(S) /\ Q # <<>> /\ i \in 1..Len(Q) /\ Q[i] # Head(Q)
        => i - 1 \in 1..Len(Tail(Q)) /\ Tail(Q)[i - 1] = Q[i]
  <2> SUFFICES ASSUME NEW S, NEW Q, Q \in Seq(S), Q # <<>>, NEW i \in 1..Len(Q), Q[i] # Head(Q)
               PROVE  i - 1 \in 1..Len(Tail(Q)) /\ Tail(Q)[i - 1] = Q[i]
    OBVIOUS
  <2>1. i # 1
    OBVIOUS
  <2> QED
    BY <2>1
<1>4. CASE Execute
  <2> DEFINE q == Head(cmds)
  <2>1. /\ cmds # <<>> /\ cmds' = Tail(cmds) /\ down' = Append(down, Done(q.op, q.ch))
    BY <1>4 DEF Execute, Done
  <2>2. CASE q = start
    <3>1. Done(q.op, q.ch) = stop
      BY <2>2, Records
    <3>2. Len(down) + 1 \in 1..Len(down') /\ down'[Len(down) + 1] = stop
      BY <1>1, <1>2, <2>1, <3>1
    <3> QED
      BY <3>2 DEF Unsubscribing
  <2>3. CASE q # start
    <3>1. CASE \E i \in 1..Len(cmds) : cmds[i] = start
      <4>1. PICK i \in 1..Len(cmds) : cmds[i] = start
        BY <3>1
      <4>2. i - 1 \in 1..Len(Tail(cmds)) /\ Tail(cmds)[i - 1] = cmds[i]
        BY <1>1, <1>3, <2>1, <2>3, <4>1
      <4> QED
        BY <2>1, <4>1, <4>2 DEF Unsubscribing
    <3>2. CASE \E i \in 1..Len(down) : down[i] = stop
      BY <1>1, <1>2, <2>1, <3>2 DEF Unsubscribing
    <3> QED
      BY <3>1, <3>2 DEF Unsubscribing
  <2> QED
    BY <2>2, <2>3
<1>5. CASE SubscribeFails
  <2>1. /\ cmds # <<>> /\ cmds' = Tail(cmds) /\ down' = down /\ Head(cmds).op = "SUBSCRIBE"
    BY <1>5 DEF SubscribeFails
  <2>2. Head(cmds) # start
    BY <2>1, Records
  <2> QED
    BY <1>1, <1>3, <2>1, <2>2 DEF Unsubscribing
<1>6. CASE \E d \in Channels : publish(d)
  <2>1. cmds' = cmds /\ (down' = down \/ \E e : down' = Append(down, e))
    BY <1>6 DEF publish, linkVars
  <2> QED
    BY <1>1, <1>2, <2>1 DEF Unsubscribing
<1>7. CASE (Confirmed \/ Message) /\ Head(down) # stop
  <2>1. cmds' = cmds /\ down # <<>> /\ down' = Tail(down)
    BY <1>7 DEF Confirmed, Message, linkVars
  <2> QED
    BY <1>1, <1>3, <1>7, <2>1 DEF Unsubscribing
<1> QED
  BY <1>4, <1>5, <1>6, <1>7

(* The server executes a command, and its reply joins the stream. *)
LEMMA CommandExecuted ==
  ASSUME RedisTypeOK, CommandsMakeSession, RepliesMakeAttached, Execute
  PROVE  CommandsMakeSession' /\ RepliesMakeAttached'
<1> DEFINE q == Head(cmds)
           e == Done(q.op, q.ch)
<1>1. /\ cmds \in Seq(Commands) /\ cmds # <<>> /\ cmds' = Tail(cmds)
      /\ down \in Seq(Events) /\ down' = Append(down, e)
      /\ session' = IF q.op = "SUBSCRIBE" THEN session \cup {q.ch} ELSE session \ {q.ch}
      /\ UNCHANGED <<subscribed, orphaned, crossed, attached>>
  BY DEF Execute, Done, RedisTypeOK
<1>2. q.op \in {"SUBSCRIBE", "UNSUBSCRIBE"} /\ q = Call(q.op, q.ch)
  BY <1>1, QueueTypes, Records
<1>3. ASSUME NEW c \in Channels
      PROVE  /\ q = Call("SUBSCRIBE", c) <=> q.op = "SUBSCRIBE" /\ q.ch = c
             /\ q = Call("UNSUBSCRIBE", c) <=> q.op = "UNSUBSCRIBE" /\ q.ch = c
             /\ e = Done("SUBSCRIBE", c) <=> q.op = "SUBSCRIBE" /\ q.ch = c
             /\ e = Done("UNSUBSCRIBE", c) <=> q.op = "UNSUBSCRIBE" /\ q.ch = c
             /\ Call("SUBSCRIBE", c) # Call("UNSUBSCRIBE", c)
             /\ Done("SUBSCRIBE", c) # Done("UNSUBSCRIBE", c)
  BY <1>2, RecordsDiffer
<1> HIDE DEF q, e
<1>4. ASSUME NEW c \in Channels
      PROVE  LET start == Call("SUBSCRIBE", c)
                 stop == Call("UNSUBSCRIBE", c)
             IN  /\ EndsOff(cmds', start, stop, c \in session') <=> EndsOff(cmds, start, stop, c \in session)
                 /\ StartsOnce(cmds', start, stop, c \in session')
                 /\ q = start => c \notin session
  <2> DEFINE start == Call("SUBSCRIBE", c)
             stop == Call("UNSUBSCRIBE", c)
  <2>1. start # stop /\ (c \in session' <=> q = start \/ (c \in session /\ q # stop))
    BY <1>1, <1>2, <1>3
  <2>2. StartsOnce(cmds, start, stop, c \in session)
    BY DEF CommandsMakeSession
  <2> HIDE DEF start, stop
  <2>3. /\ EndsOff(cmds', start, stop, c \in session') <=> EndsOff(cmds, start, stop, c \in session)
        /\ StartsOnce(cmds', start, stop, c \in session')
        /\ q = start => c \notin session
    <3> DEFINE B == session'
    <3>1. cmds \in Seq(Commands) /\ cmds # <<>> /\ cmds' = Tail(cmds)
      BY <1>1
    <3>2. c \in B <=> Head(cmds) = start \/ (c \in session /\ Head(cmds) # stop)
      BY <2>1 DEF q
    <3> HIDE DEF B
    <3>3. /\ EndsOff(cmds', start, stop, c \in B) <=> EndsOff(cmds, start, stop, c \in session)
          /\ StartsOnce(cmds', start, stop, c \in B)
          /\ Head(cmds) = start => c \notin session
      BY <2>1, <2>2, <3>1, <3>2, TailSwitchesIn
    <3> QED
      BY <3>3 DEF B, q
  <2> QED
    BY <2>3 DEF start, stop
<1>5. CommandsMakeSession'
  BY <1>1, <1>4 DEF CommandsMakeSession
<1>6. ASSUME NEW c \in Channels
      PROVE  LET start == Done("SUBSCRIBE", c)
                 stop == Done("UNSUBSCRIBE", c)
             IN  /\ c \notin session' <=> EndsOff(down', start, stop, c \in Attached)
                 /\ StartsOnce(down', start, stop, c \in Attached)
  <2> DEFINE start == Done("SUBSCRIBE", c)
             stop == Done("UNSUBSCRIBE", c)
  <2>1. /\ start # stop
        /\ c \notin session <=> EndsOff(down, start, stop, c \in Attached)
        /\ StartsOnce(down, start, stop, c \in Attached)
    BY <1>3 DEF RepliesMakeAttached
  <2>2. e = start => c \notin session
    BY <1>3, <1>4
  <2>3. c \in session' <=> e = start \/ (c \in session /\ e # stop)
    BY <1>1, <1>2, <1>3
  <2> HIDE DEF start, stop
  <2>4. /\ EndsOff(down', start, stop, c \in Attached)
             <=> (e = stop \/ (e # start /\ EndsOff(down, start, stop, c \in Attached)))
        /\ StartsOnce(down', start, stop, c \in Attached)
    BY <1>1, <2>1, <2>2, AppendSwitchesIn
  <2> QED
    BY <2>1, <2>3, <2>4 DEF start, stop
<1>7. RepliesMakeAttached'
  <2>1. Attached' = Attached
    BY <1>1 DEF Attached
  <2> QED
    BY <1>1, <1>6, <2>1 DEF RepliesMakeAttached
<1> QED
  BY <1>5, <1>7

(* A SUBSCRIBE is rejected: its channel is orphaned. *)
LEMMA CommandRejected ==
  ASSUME RedisTypeOK, CommandsMakeSession, SubscribeFails
  PROVE  CommandsMakeSession'
<1> DEFINE q == Head(cmds)
<1>1. /\ cmds \in Seq(Commands) /\ cmds # <<>> /\ cmds' = Tail(cmds) /\ q.op = "SUBSCRIBE"
      /\ orphaned' = orphaned \cup {q.ch} /\ UNCHANGED <<subscribed, session, crossed>>
  BY DEF SubscribeFails, RedisTypeOK
<1>2. q = Call("SUBSCRIBE", q.ch)
  BY <1>1, QueueTypes, Records
<1> HIDE DEF q
<1>3. ASSUME NEW c \in Channels
      PROVE  LET start == Call("SUBSCRIBE", c)
                 stop == Call("UNSUBSCRIBE", c)
             IN  /\ c \notin subscribed \/ c \in crossed
                      => EndsOff(cmds', start, stop, c \in session)
                 /\ c \in subscribed \ (orphaned' \cup crossed)
                      => ~EndsOff(cmds', start, stop, c \in session)
                 /\ StartsOnce(cmds', start, stop, c \in session)
  <2> DEFINE start == Call("SUBSCRIBE", c)
             stop == Call("UNSUBSCRIBE", c)
             B == IF q = start THEN session \cup {c} ELSE session
  <2>1. /\ start # stop /\ q # stop /\ (q = start <=> q.ch = c)
        /\ c \notin subscribed \/ c \in crossed => EndsOff(cmds, start, stop, c \in session)
        /\ c \in subscribed \ (orphaned \cup crossed)
             => ~EndsOff(cmds, start, stop, c \in session)
        /\ StartsOnce(cmds, start, stop, c \in session)
    BY <1>2, RecordsDiffer DEF CommandsMakeSession
  <2>2. /\ EndsOff(cmds', start, stop, c \in B) <=> EndsOff(cmds, start, stop, c \in session)
        /\ StartsOnce(cmds', start, stop, c \in B)
    <3>1. c \in B <=> q = start \/ (c \in session /\ q # stop)
      BY <2>1
    <3> HIDE DEF B, start, stop
    <3> QED
      BY <1>1, <2>1, <3>1, TailSwitchesIn DEF q
  <2>3. /\ EndsOff(cmds', start, stop, c \in B) => EndsOff(cmds', start, stop, c \in session)
        /\ StartsOnce(cmds', start, stop, c \in B) => StartsOnce(cmds', start, stop, c \in session)
        /\ q # start => (EndsOff(cmds', start, stop, c \in session) <=> EndsOff(cmds', start, stop, c \in B))
    <3>1. (c \in session => c \in B) /\ (q # start => (c \in B <=> c \in session))
      OBVIOUS
    <3> HIDE DEF B, start, stop
    <3> QED
      BY <3>1 DEF EndsOff, StartsOnce
  <2> HIDE DEF B
  <2> QED
    BY <1>1, <2>1, <2>2, <2>3
<1> QED
  BY <1>1, <1>3 DEF CommandsMakeSession

(* A message is published: it switches nothing. *)
LEMMA PublishSwitchesNothing ==
  ASSUME RedisTypeOK, RepliesMakeAttached, NEW c \in Channels, publish(c)
  PROVE  RepliesMakeAttached'
<1> DEFINE e == [type |-> "message", ch |-> c, n |-> sent[c] + 1]
<1>1. /\ down \in Seq(Events) /\ (down' = down \/ down' = Append(down, e))
      /\ UNCHANGED <<session, attached>> /\ e.type = "message"
  BY DEF publish, RedisTypeOK
<1> HIDE DEF e
<1>2. ASSUME NEW d \in Channels
      PROVE  LET start == Done("SUBSCRIBE", d)
                 stop == Done("UNSUBSCRIBE", d)
             IN  /\ d \notin session <=> EndsOff(down', start, stop, d \in Attached)
                 /\ StartsOnce(down', start, stop, d \in Attached)
  <2> DEFINE start == Done("SUBSCRIBE", d)
             stop == Done("UNSUBSCRIBE", d)
  <2>1. /\ start # stop /\ e # start /\ e # stop
        /\ d \notin session <=> EndsOff(down, start, stop, d \in Attached)
        /\ StartsOnce(down, start, stop, d \in Attached)
    BY <1>1, RecordsDiffer DEF RepliesMakeAttached
  <2> HIDE DEF start, stop
  <2>2. /\ EndsOff(Append(down, e), start, stop, d \in Attached)
             <=> EndsOff(down, start, stop, d \in Attached)
        /\ StartsOnce(Append(down, e), start, stop, d \in Attached)
    BY <1>1, <2>1, AppendSwitchesIn
  <2> QED
    BY <1>1, <2>1, <2>2 DEF start, stop
<1>3. Attached' = Attached
  BY <1>1 DEF Attached
<1> QED
  BY <1>1, <1>2, <1>3 DEF RepliesMakeAttached

(* The first of the stream arrives; a confirmation attaches or drops. *)
LEMMA ArrivalSwitches ==
  ASSUME RedisTypeOK, RepliesMakeAttached, Confirmed \/ Message
  PROVE  /\ RepliesMakeAttached'
         /\ \A c \in Channels : attached'[c] > 1 =>
              attached[c] > 1 /\ Head(down) # Done("UNSUBSCRIBE", c)
<1> DEFINE e == Head(down)
<1>1. /\ down \in Seq(Events) /\ down # <<>> /\ down' = Tail(down) /\ UNCHANGED session
      /\ attached \in [Channels -> Nat]
      /\ \/ e.type = "message" /\ attached' = attached
         \/ /\ e.type = "done"
            /\ attached' = [attached EXCEPT ![e.ch] = IF e.op = "SUBSCRIBE" THEN @ + 1 ELSE 0]
  BY DEF Confirmed, Message, RedisTypeOK
<1>2. /\ e.ch \in Channels
      /\ e.type = "done" => e.op \in {"SUBSCRIBE", "UNSUBSCRIBE"} /\ e = Done(e.op, e.ch)
  BY <1>1, QueueTypes, Records
<1> HIDE DEF e
<1>3. ASSUME NEW c \in Channels
      PROVE  /\ attached'[c] > 1 => attached[c] > 1 /\ e # Done("UNSUBSCRIBE", c)
             /\ LET start == Done("SUBSCRIBE", c)
                    stop == Done("UNSUBSCRIBE", c)
                IN  /\ c \notin session <=> EndsOff(down', start, stop, c \in Attached')
                    /\ StartsOnce(down', start, stop, c \in Attached')
  <2> DEFINE start == Done("SUBSCRIBE", c)
             stop == Done("UNSUBSCRIBE", c)
             B == IF e = start THEN Attached \cup {c} ELSE IF e = stop THEN Attached \ {c}
                  ELSE Attached
  <2>1. /\ start # stop
        /\ c \notin session <=> EndsOff(down, start, stop, c \in Attached)
        /\ StartsOnce(down, start, stop, c \in Attached)
    BY RecordsDiffer DEF RepliesMakeAttached
  <2>2. /\ EndsOff(down', start, stop, c \in B) <=> EndsOff(down, start, stop, c \in Attached)
        /\ StartsOnce(down', start, stop, c \in B) /\ (e = start => c \notin Attached)
    <3>1. c \in B <=> e = start \/ (c \in Attached /\ e # stop)
      BY <2>1
    <3> HIDE DEF B, start, stop
    <3> QED
      BY <1>1, <2>1, <3>1, TailSwitchesIn DEF e
  <2>3. /\ c \in B <=> c \in Attached'
        /\ attached'[c] > 1 => attached[c] > 1 /\ e # stop
    <3>1. attached[c] \in Nat /\ (c \in Attached <=> attached[c] > 0)
      BY <1>1 DEF Attached
    <3>2. c \in Attached' <=> attached'[c] > 0
      BY DEF Attached
    <3>3. /\ e = start <=> e.type = "done" /\ e.op = "SUBSCRIBE" /\ e.ch = c
          /\ e = stop <=> e.type = "done" /\ e.op = "UNSUBSCRIBE" /\ e.ch = c
      BY <1>2, Records
    <3> HIDE DEF start, stop
    <3>4. CASE e.type = "message" /\ attached' = attached
      BY <2>1, <3>1, <3>2, <3>3, <3>4
    <3>5. CASE e.type = "done" /\ e.ch # c
      <4>1. attached'[c] = attached[c]
        BY <1>1, <3>5
      <4> QED
        BY <2>1, <3>1, <3>2, <3>3, <3>5, <4>1
    <3>6. CASE e.type = "done" /\ e.ch = c
      <4>1. attached'[c] = IF e.op = "SUBSCRIBE" THEN attached[c] + 1 ELSE 0
        BY <1>1, <3>6
      <4> QED
        BY <1>2, <2>1, <2>2, <3>1, <3>2, <3>3, <3>6, <4>1
    <3> QED
      BY <1>1, <3>4, <3>5, <3>6
  <2>4. /\ EndsOff(down', start, stop, c \in Attached') <=> EndsOff(down', start, stop, c \in B)
        /\ StartsOnce(down', start, stop, c \in B) => StartsOnce(down', start, stop, c \in Attached')
    <3> HIDE DEF B, start, stop
    <3> QED
      BY <2>3 DEF EndsOff, StartsOnce
  <2> HIDE DEF B
  <2> QED
    BY <2>1, <2>2, <2>3, <2>4
<1> QED
  BY <1>1, <1>3 DEF RepliesMakeAttached, e

-----------------------------------------------------------------------------
(* Messages *)

(* A new subscriber has seen nothing, and messages on their way are new to it. *)
LEMMA SubscribeMessages ==
  ASSUME RedisTypeOK, RedisTypeOK', MessagesAreNew, NEW s \in Subs, subscribe(s) \/ unsubscribe(s)
  PROVE  MessagesAreNew'
<1>1. UNCHANGED <<down, sent, seen>>
  BY DEF subscribe, unsubscribe
<1>2. /\ live' \subseteq live \cup {t \in Subs : closure[t] = NoSet}
      /\ \A t \in Subs : closure'[t] = NoSet => closure[t] = NoSet
  BY NoSetAssumption, ChannelAssumption
     DEF subscribe, unsubscribe, Register, Unregister, RedisTypeOK, RegistryTypeOK
<1>3. SeenPublished(sent, seen)'
  BY <1>1, <1>2 DEF MessagesAreNew, SeenPublished
<1>4. Pending(down, "message", sent, seen, live')
  <2>1. /\ \A i \in 1..Len(down) : down[i].ch \in Channels
        /\ sent \in [Channels -> Nat] /\ live' \in SUBSET Subs
    BY Records DEF RedisTypeOK, RegistryTypeOK
  <2>2. \A t \in live' \ live : seen[t] = 0
    BY <1>2 DEF MessagesAreNew, SeenPublished
  <2>3. Pending(down, "message", sent, seen, live) /\ \A c \in Channels : sent[c] <= sent[c]
    BY <2>1 DEF MessagesAreNew
  <2> QED
    BY <2>1, <2>2, <2>3, PendingFor
<1> QED
  BY <1>1, <1>3, <1>4 DEF MessagesAreNew

(* A published message is newer than all before it. *)
LEMMA PublishMessages ==
  ASSUME RedisTypeOK, RedisTypeOK', MessagesAreNew, NEW c \in Channels, publish(c)
  PROVE  MessagesAreNew'
<1> DEFINE e == [type |-> "message", ch |-> c, n |-> sent[c] + 1]
<1>1. /\ sent' = [sent EXCEPT ![c] = @ + 1]
      /\ down \in Seq(Events) /\ (down' = down \/ down' = Append(down, e))
      /\ UNCHANGED <<registryVars, seen>>
  BY DEF publish, RedisTypeOK
<1>2. /\ e.type = "message" /\ e.ch = c /\ e.n = sent[c] + 1
      /\ sent \in [Channels -> Nat] /\ seen \in [Subs -> Nat] /\ live \in SUBSET Subs
      /\ sent' \in [Channels -> Nat] /\ \A d \in Channels : sent[d] <= sent'[d]
  BY <1>1 DEF RedisTypeOK, RegistryTypeOK
<1> HIDE DEF e
<1>3. SeenPublished(sent, seen)'
  BY <1>1, <1>2, ChannelAssumption DEF MessagesAreNew, SeenPublished, registryVars
<1>4. Pending(Append(down, e), "message", sent', seen, live)
  <2>1. Pending(down, "message", sent, seen, live) /\ \A s \in Subs : seen[s] <= sent[ChannelOf[s]]
    BY DEF MessagesAreNew, SeenPublished
  <2>2. \A x \in Events : x.ch \in Channels
    BY Records
  <2> QED
    BY <1>1, <1>2, <2>1, <2>2, PendingWithNext
<1>5. Pending(down, "message", sent', seen, live)
  <2>1. \A i \in 1..Len(down) : down[i].ch \in Channels
    BY <1>1, Records
  <2> QED
    BY <1>2, <2>1, PendingFor DEF MessagesAreNew
<1> QED
  BY <1>1, <1>3, <1>4, <1>5 DEF MessagesAreNew, registryVars

(* A confirmation is no message. *)
LEMMA ExecuteMessages ==
  ASSUME RedisTypeOK, MessagesAreNew, Execute
  PROVE  MessagesAreNew'
<1> DEFINE e == Done(Head(cmds).op, Head(cmds).ch)
<1>1. /\ down \in Seq(Events) /\ down' = Append(down, e) /\ e.type # "message"
      /\ UNCHANGED <<registryVars, sent, seen>>
  BY DEF Execute, Done, RedisTypeOK
<1> HIDE DEF e
<1>2. Pending(down', "message", sent, seen, live)
  BY <1>1, PendingWithOther DEF MessagesAreNew
<1> QED
  BY <1>1, <1>2 DEF MessagesAreNew, SeenPublished, registryVars

(* A message is seen by the handlers of its channel, or lost. *)
LEMMA ArrivalMessages ==
  ASSUME RedisTypeOK, RegistryInv, MessagesAreNew, Confirmed \/ Message
  PROVE  MessagesAreNew'
<1> DEFINE e == Head(down)
<1>1. /\ down \in Seq(Events) /\ down # <<>> /\ down' = Tail(down)
      /\ UNCHANGED <<registryVars, sent>>
      /\ \/ seen' = seen
         \/ /\ e.type = "message"
            /\ seen' = [s \in Subs |->
                          IF attached[e.ch] > 0 /\ s \in Reach(e.ch) THEN e.n ELSE seen[s]]
  BY DEF Confirmed, Message, Calls, RedisTypeOK
<1>2. /\ e \in Events /\ e.ch \in Channels /\ 1 \in 1..Len(down) /\ e = down[1]
  BY <1>1, Records
<1>3. Reach(e.ch) \subseteq {s \in live : ChannelOf[s] = e.ch} /\ live \in SUBSET Subs
  BY <1>2, ReachIsOfChannel DEF RedisTypeOK, RegistryTypeOK, RegistryInv
<1>4. e.type = "message" => e.n <= sent[e.ch]
  <2>1. e.type = "message" => e.n \in 1..sent[e.ch]
    BY <1>2 DEF MessagesAreNew, Pending
  <2>2. sent[e.ch] \in Nat
    BY <1>2 DEF RedisTypeOK
  <2> QED
    BY <2>1, <2>2
<1> HIDE DEF e
<1>5. \A s \in Subs : \/ seen'[s] = seen[s]
                     \/ /\ e.type = "message" /\ ChannelOf[s] = e.ch /\ s \in live
                        /\ seen'[s] = e.n
  BY <1>1, <1>3
<1>6. SeenPublished(sent, seen)'
  <2>1. ASSUME NEW s \in Subs
        PROVE  seen'[s] <= sent[ChannelOf[s]] /\ (closure[s] = NoSet => seen'[s] = 0)
    <3>1. seen[s] <= sent[ChannelOf[s]] /\ (closure[s] = NoSet => seen[s] = 0 /\ s \notin live)
      BY DEF MessagesAreNew, SeenPublished, RegistryInv, HandlesInv
    <3> QED
      BY <1>4, <1>5, <3>1
  <2> QED
    BY <1>1, <2>1 DEF SeenPublished, registryVars
<1>7. Pending(down', "message", sent, seen', live)
  <2>1. Pending(down, "message", sent, seen, live)
    BY DEF MessagesAreNew
  <2> QED
    BY <1>1, <1>3, <1>5, <2>1, PendingTail DEF e
<1> QED
  BY <1>1, <1>6, <1>7 DEF MessagesAreNew, registryVars

-----------------------------------------------------------------------------
(* The invariant *)

(* At first nothing is subscribed, asked or listened to. *)
LEMMA RedisStart == RedisInit => RedisInv
<1> SUFFICES ASSUME RedisInit
             PROVE  RedisInv
  OBVIOUS
<1>1. RegistryTypeOK /\ RegistryInv
  BY RegistryStart DEF RedisInit
<1>2. RedisTypeOK
  <2>1. \A S : <<>> \in Seq(S)
    OBVIOUS
  <2>2. tasks = <<>> /\ cmds = <<>> /\ down = <<>>
    BY DEF RedisInit
  <2>3. /\ ready \in BOOLEAN /\ subscribed \in SUBSET Channels /\ session \in SUBSET Channels
        /\ attached \in [Channels -> Nat] /\ sent \in [Channels -> Nat]
        /\ seen \in [Subs -> Nat] /\ failures \in Nat /\ orphaned \in SUBSET Channels
        /\ twice \in [Subs -> SUBSET Nat] /\ crossed \in SUBSET Channels
    BY DEF RedisInit
  <2> QED
    BY <1>1, <2>1, <2>2, <2>3 DEF RedisTypeOK
<1>3. /\ tasks = <<>> /\ cmds = <<>> /\ down = <<>> /\ subscribed = {} /\ session = {}
      /\ crossed = {}
      /\ \A c \in Channels : map[c] = NoSet /\ attached[c] = 0
  BY DEF RedisInit, RegistryInit
<1>4. \A start, stop, c, A : c \notin A =>
         EndsOff(<<>>, start, stop, c \in A) /\ StartsOnce(<<>>, start, stop, c \in A)
  BY DEF EndsOff, StartsOnce
<1>5. /\ TasksMakeSubscribed /\ CommandsMakeSession /\ CrossedAreSubscribed
      /\ RepliesMakeAttached /\ OneClosureUnlessUnsubscribing
  BY <1>3, <1>4 DEF TasksMakeSubscribed, CommandsMakeSession, CrossedAreSubscribed,
                    RepliesMakeAttached, Attached, OneClosureUnlessUnsubscribing
<1>6. MessagesAreNew
  BY ChannelAssumption, NothingPending DEF RedisInit, MessagesAreNew, SeenPublished
<1> QED
  BY <1>1, <1>2, <1>5, <1>6 DEF RedisInv

(* Each step keeps the invariant. *)
LEMMA RedisStep ==
  ASSUME RedisInv, [RedisNext]_redisVars
  PROVE  RedisInv'
<1>1. /\ RedisTypeOK /\ RegistryInv /\ TasksMakeSubscribed /\ CommandsMakeSession
      /\ CrossedAreSubscribed /\ RepliesMakeAttached /\ OneClosureUnlessUnsubscribing
      /\ MessagesAreNew
  BY DEF RedisInv
<1>2. RedisTypeOK' /\ RegistryInv'
  BY <1>1, TypeStep
<1>3. /\ UNCHANGED <<map, tasks, subscribed>> => TasksMakeSubscribed'
      /\ UNCHANGED <<subscribed, orphaned, crossed, cmds, session>> => CommandsMakeSession'
      /\ UNCHANGED <<subscribed, crossed>> => CrossedAreSubscribed'
      /\ UNCHANGED <<session, attached, down>> => RepliesMakeAttached'
      /\ UNCHANGED <<attached, cmds, down>> => OneClosureUnlessUnsubscribing'
      /\ UNCHANGED <<registryVars, down, sent, seen>> => MessagesAreNew'
  BY <1>1 DEF TasksMakeSubscribed, CommandsMakeSession, CrossedAreSubscribed,
              RepliesMakeAttached, Attached, OneClosureUnlessUnsubscribing, Unsubscribing,
              MessagesAreNew, SeenPublished, registryVars
<1>4. ASSUME NEW s \in Subs, subscribe(s) \/ unsubscribe(s)
      PROVE  RedisInv'
  <2>1. UNCHANGED <<subscribed, cmds, down, session, attached, orphaned, crossed>>
    BY <1>4 DEF subscribe, unsubscribe
  <2>2. TasksMakeSubscribed' /\ MessagesAreNew'
    BY <1>1, <1>2, <1>4, SubscribeTasks, SubscribeMessages
  <2> QED
    BY <1>2, <1>3, <2>1, <2>2 DEF RedisInv
<1>5. ASSUME NEW c \in Channels, publish(c)
      PROVE  RedisInv'
  <2>1. UNCHANGED <<map, tasks, subscribed, orphaned, crossed, cmds, session, attached>>
    BY <1>5 DEF publish, registryVars, linkVars
  <2>2. RepliesMakeAttached' /\ MessagesAreNew'
    BY <1>1, <1>2, <1>5, PublishSwitchesNothing, PublishMessages
  <2>3. OneClosureUnlessUnsubscribing'
    BY <1>1, <1>5, <2>1, StillUnsubscribing DEF OneClosureUnlessUnsubscribing
  <2> QED
    BY <1>2, <1>3, <2>1, <2>2, <2>3 DEF RedisInv
<1>6. CASE Connected \/ UNCHANGED redisVars
  <2>1. UNCHANGED <<registryVars, tasks, subscribed, cmds, down, session, attached, sent, seen,
                    orphaned, crossed>>
    BY <1>6 DEF Connected, redisVars, linkVars
  <2> QED
    BY <1>2, <1>3, <2>1 DEF RedisInv, registryVars
<1>7. CASE RunTask
  <2>1. UNCHANGED <<registryVars, down, sent, seen>>
    BY <1>7 DEF RunTask
  <2> QED
    BY <1>1, <1>2, <1>3, <1>7, <2>1, TaskRuns DEF RedisInv
<1>8. CASE Execute
  <2>1. UNCHANGED <<map, tasks, subscribed, crossed, attached>>
    BY <1>8 DEF Execute, registryVars
  <2>2. OneClosureUnlessUnsubscribing'
    BY <1>1, <1>8, <2>1, StillUnsubscribing DEF OneClosureUnlessUnsubscribing
  <2> QED
    BY <1>1, <1>2, <1>3, <1>8, <2>1, <2>2, CommandExecuted, ExecuteMessages DEF RedisInv
<1>9. CASE SubscribeFails
  <2>1. UNCHANGED <<registryVars, map, tasks, subscribed, crossed, session, attached, down, sent,
                    seen>>
    BY <1>9 DEF SubscribeFails, registryVars
  <2>2. OneClosureUnlessUnsubscribing'
    BY <1>1, <1>9, <2>1, StillUnsubscribing DEF OneClosureUnlessUnsubscribing
  <2> QED
    BY <1>1, <1>2, <1>3, <1>9, <2>1, <2>2, CommandRejected DEF RedisInv
<1>10. CASE Confirmed \/ Message
  <2>1. UNCHANGED <<map, tasks, subscribed, orphaned, crossed, cmds, session>>
    BY <1>10 DEF Confirmed, Message, registryVars, linkVars
  <2>2. /\ RepliesMakeAttached'
        /\ \A c \in Channels : attached'[c] > 1 =>
             attached[c] > 1 /\ Head(down) # Done("UNSUBSCRIBE", c)
    BY <1>1, <1>10, ArrivalSwitches
  <2>3. OneClosureUnlessUnsubscribing'
    BY <1>1, <1>10, <2>2, StillUnsubscribing DEF OneClosureUnlessUnsubscribing
  <2> QED
    BY <1>1, <1>2, <1>3, <1>10, <2>1, <2>2, <2>3, ArrivalMessages DEF RedisInv
<1> QED
  BY <1>4, <1>5, <1>6, <1>7, <1>8, <1>9, <1>10 DEF RedisNext

(***************************************************************************)
(* The invariant of the Redis store: the table is consistent, every queue  *)
(* leads from one end to the other, and messages on their way are new.     *)
(***************************************************************************)
THEOREM RedisInvariant == RedisSpec => []RedisInv
BY RedisStart, RedisStep, PTL DEF RedisSpec

(***************************************************************************)
(* Once callbacks, commands and replies are done, a channel with handlers  *)
(* is forwarded and has one closure, whatever subscribes and unsubscribes  *)
(* overlapped, unless its SUBSCRIBE was rejected or it was crossed; a      *)
(* crossed channel is deaf, and stays in `subscribed`.                     *)
(***************************************************************************)
THEOREM RedisSettlesRight == RedisSpec => []SettledUnlessLost
<1>1. RedisInv => SettledUnlessLost
  <2> SUFFICES ASSUME RedisInv, Settled, NEW c \in Channels
               PROVE  /\ c \in subscribed <=> Reach(c) # {}
                      /\ c \notin orphaned => (c \in session <=> Reach(c) # {} /\ c \notin crossed)
                      /\ attached[c] = IF c \in session THEN 1 ELSE 0
    BY DEF SettledUnlessLost
  <2>1. \A start, stop, A : EndsOff(<<>>, start, stop, c \in A) <=> c \notin A
    BY DEF EndsOff
  <2>2. map[c] = NoSet <=> c \notin subscribed
    BY <2>1 DEF Settled, RedisInv, TasksMakeSubscribed
  <2>3. c \notin orphaned => (c \in session <=> c \in subscribed /\ c \notin crossed)
    BY <2>1 DEF Settled, RedisInv, CommandsMakeSession
  <2>4. Reach(c) = {} <=> map[c] = NoSet
    BY ReachedIsMapped DEF RedisInv, RedisTypeOK, RegistryInv
  <2>5. c \in session <=> c \in Attached
    <3>1. \A i \in 1..Len(down) : \A op : down[i] # Done(op, c)
      BY RecordsDiffer DEF Settled, RedisInv, RedisTypeOK
    <3> QED
      BY <3>1 DEF RedisInv, RepliesMakeAttached, EndsOff
  <2>6. attached[c] \in Nat /\ ~(attached[c] > 1)
    <3>1. ~Unsubscribing(c)
      <4>1. \A i \in 1..Len(down) : \A op : down[i] # Done(op, c)
        BY RecordsDiffer DEF Settled, RedisInv, RedisTypeOK
      <4>2. cmds = <<>>
        BY DEF Settled
      <4> QED
        BY <4>1, <4>2 DEF Unsubscribing
    <3> QED
      BY <3>1 DEF RedisInv, RedisTypeOK, OneClosureUnlessUnsubscribing
  <2> QED
    BY <2>2, <2>3, <2>4, <2>5, <2>6 DEF Attached
<1> QED
  BY <1>1, RedisInvariant, PTL

(***************************************************************************)
(* A channel has a second closure only while an UNSUBSCRIBE of it is on    *)
(* its way: however subscribes, unsubscribes and rejections interleave,    *)
(* none outlives the reply.                                                *)
(***************************************************************************)
THEOREM RedisListensOnce == RedisSpec => []OneClosureUnlessUnsubscribing
<1>1. RedisInv => OneClosureUnlessUnsubscribing
  BY DEF RedisInv
<1> QED
  BY <1>1, RedisInvariant, PTL

(***************************************************************************)
(* A subscription nobody cancelled is found by the next message of its     *)
(* channel, and a cancelled one is not, whatever came and went between.    *)
(***************************************************************************)
THEOREM RedisReachesTheLive == RedisSpec => [](LiveIsReachable /\ CancelledIsUnreachable)
<1>1. RedisInv => LiveIsReachable /\ CancelledIsUnreachable
  BY InvImpliesReachable DEF RedisInv, RedisTypeOK
<1> QED
  BY <1>1, RedisInvariant, PTL

(* Every step is a step of the contract that calls no handler twice unless an
   UNSUBSCRIBE is on its way, or changes nothing the contract knows. *)
LEMMA ContractStep ==
  ASSUME RedisInv, RedisInv', [RedisNext]_redisVars
  PROVE  [Contract!ContractNext /\ OnceUnlessUnsubscribing]_<<Contract!contractVars, twice>>
<1> DEFINE R == [c \in Channels |-> Reach(c)]
<1>1. ASSUME UNCHANGED <<registryVars, sent, seen>>
      PROVE  UNCHANGED Contract!contractVars
  BY <1>1 DEF registryVars, Reach, Contract!contractVars
<1>2. RegistryTypeOK /\ RegistryInv /\ RegistryTypeOK' /\ RegistryInv'
  BY DEF RedisInv, RedisTypeOK
<1>3. ASSUME NEW s \in Subs, subscribe(s)
      PROVE  Contract!Subscribe(s)
  BY <1>2, <1>3, StoreMovesReach DEF subscribe, Contract!Subscribe
<1>4. ASSUME NEW s \in Subs, unsubscribe(s)
      PROVE  Contract!Unsubscribe(s)
  BY <1>2, <1>4, StoreMovesReach DEF unsubscribe, Contract!Unsubscribe
<1>5. ASSUME NEW c \in Channels, publish(c)
      PROVE  Contract!Publish(c)
  <2>1. R' = R
    BY <1>5 DEF publish, registryVars, Reach
  <2> QED
    BY <1>5, <2>1 DEF publish, Contract!Publish
<1>6. ASSUME Message
      PROVE  \/ \E c \in Channels : \E n \in 1..sent[c] : Contract!Deliver(c, n)
             \/ UNCHANGED <<registryVars, sent, seen>>
  <2> DEFINE e == Head(down)
  <2>1. e.type = "message" /\ down # <<>> /\ down \in Seq(Events)
    BY <1>6 DEF Message, RedisInv, RedisTypeOK
  <2>2. 1 \in 1..Len(down) /\ e = down[1] /\ e \in Events
    BY <2>1
  <2>3. /\ e.ch \in Channels /\ e.n \in 1..sent[e.ch]
        /\ \A s \in live : ChannelOf[s] = e.ch => seen[s] < e.n
    BY <2>1, <2>2, Records DEF RedisInv, MessagesAreNew, Pending
  <2>4. Reach(e.ch) \subseteq {s \in live : ChannelOf[s] = e.ch}
    BY <1>2, <2>3, ReachIsOfChannel DEF RegistryInv
  <2>5. R' = R /\ UNCHANGED <<registryVars, sent>> /\ R[e.ch] = Reach(e.ch)
    BY <1>6, <2>3 DEF Message, registryVars, Reach
  <2>6. CASE attached[e.ch] > 0
    <3>1. seen' = [s \in Subs |-> IF s \in R[e.ch] THEN e.n ELSE seen[s]]
      BY <1>6, <2>5, <2>6 DEF Message, Calls
    <3> HIDE DEF e, R
    <3>2. Contract!Deliver(e.ch, e.n)
      BY <2>3, <2>4, <2>5, <3>1 DEF Contract!Deliver, R
    <3> QED
      BY <2>3, <3>2
  <2>7. CASE ~(attached[e.ch] > 0)
    BY <1>6, <2>5, <2>7 DEF Message, Calls, RedisInv, RedisTypeOK
  <2> QED
    BY <2>6, <2>7
<1>7. ASSUME Connected \/ RunTask \/ Execute \/ SubscribeFails \/ Confirmed \/ UNCHANGED redisVars
      PROVE  UNCHANGED <<registryVars, sent, seen, twice>>
  BY <1>7 DEF Connected, RunTask, Execute, SubscribeFails, Confirmed, redisVars
<1>8. ASSUME NEW s \in Subs, subscribe(s) \/ unsubscribe(s)
      PROVE  UNCHANGED twice
  BY <1>8 DEF subscribe, unsubscribe
<1>9. ASSUME NEW c \in Channels, publish(c)
      PROVE  UNCHANGED twice
  BY <1>9 DEF publish
<1>10. ASSUME Message
       PROVE  /\ OnceUnlessUnsubscribing
              /\ UNCHANGED seen => UNCHANGED twice
  <2> DEFINE e == Head(down)
  <2>1. /\ e \in Events /\ e.type = "message" /\ 1 \in 1..Len(down) /\ e = down[1]
    BY <1>10 DEF Message, RedisInv, RedisTypeOK
  <2>2. /\ e.ch \in Channels /\ attached[e.ch] \in Nat
        /\ \A s \in live : ChannelOf[s] = e.ch => seen[s] < e.n /\ seen[s] # e.n
    <3>1. /\ e.ch \in Channels /\ e.n \in Nat
          /\ \A s \in live : ChannelOf[s] = e.ch => seen[s] < e.n
      BY <2>1, Records DEF RedisInv, MessagesAreNew, Pending
    <3>2. \A s \in live : seen[s] \in Nat
      BY DEF RedisInv, RedisTypeOK, RegistryTypeOK
    <3> QED
      BY <3>1, <3>2 DEF RedisInv, RedisTypeOK
  <2>3. Reach(e.ch) \subseteq {s \in live : ChannelOf[s] = e.ch} /\ live \in SUBSET Subs
    BY <1>2, <2>2, ReachIsOfChannel DEF RegistryInv, RegistryTypeOK
  <2>4. /\ twice \in [Subs -> SUBSET Nat] /\ twice' \in [Subs -> SUBSET Nat]
        /\ \A s \in Subs : twice'[s] # twice[s] =>
             attached[e.ch] > 1 /\ s \in Reach(e.ch) /\ seen'[s] = e.n
    BY <1>10, <2>2 DEF Message, Calls, RedisInv, RedisTypeOK
  <2>5. OnceUnlessUnsubscribing
    BY <2>2, <2>3, <2>4
       DEF OnceUnlessUnsubscribing, RedisInv, OneClosureUnlessUnsubscribing
  <2>6. ASSUME UNCHANGED seen
        PROVE  UNCHANGED twice
    <3>1. \A s \in Subs : twice'[s] = twice[s]
      BY <2>2, <2>3, <2>4, <2>6
    <3> QED
      BY <2>4, <3>1
  <2> QED
    BY <2>5, <2>6
<1>11. UNCHANGED twice => OnceUnlessUnsubscribing
  BY DEF OnceUnlessUnsubscribing
<1>12. CASE Message
  BY <1>1, <1>6, <1>10, <1>12 DEF Contract!ContractNext
<1>13. CASE \E s \in Subs : subscribe(s) \/ unsubscribe(s)
  BY <1>3, <1>4, <1>8, <1>11, <1>13 DEF Contract!ContractNext
<1>14. CASE \E c \in Channels : publish(c)
  BY <1>5, <1>9, <1>11, <1>14 DEF Contract!ContractNext
<1> QED
  BY <1>1, <1>7, <1>12, <1>13, <1>14 DEF RedisNext

(***************************************************************************)
(* Every behaviour of the Redis store is one of PubSubContract: a handler  *)
(* is called in the order of publication and only while it is registered,  *)
(* and more than once for one message only while an UNSUBSCRIBE of its     *)
(* channel is on its way.                                                  *)
(***************************************************************************)
THEOREM RedisImplementsContract == RedisSpec => ContractUnlessCrossed
<1>1. RedisInit => Contract!ContractInit
  BY DEF RedisInit, RegistryInit, Reach, Contract!ContractInit
<1>2. RedisInv /\ RedisInv' /\ [RedisNext]_redisVars
        => [Contract!ContractNext /\ OnceUnlessUnsubscribing]_<<Contract!contractVars, twice>>
  BY ContractStep
<1> QED
  BY <1>1, <1>2, RedisInvariant, PTL DEF RedisSpec, ContractUnlessCrossed

==============================================================================
