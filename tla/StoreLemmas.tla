----------------------------- MODULE StoreLemmas -----------------------------
(***************************************************************************)
(* What the proofs of the stores and of the streams share: lemmas about    *)
(* the handler table, for any channels and subscriptions, and about the    *)
(* queues of commands and messages, whatever is in them.                   *)
(***************************************************************************)
EXTENDS Queues, TLAPS

-----------------------------------------------------------------------------
(* The handler table *)

(* The table is empty at first. *)
LEMMA RegistryStart ==
  ASSUME RegistryInit
  PROVE  RegistryTypeOK /\ RegistryInv
BY NoSetAssumption, ChannelAssumption
   DEF RegistryInit, RegistryTypeOK, RegistryInv, HandlesInv, OneSet

(* subscribe() on a channel with or without a Set. *)
LEMMA RegisterKeeps ==
  ASSUME RegistryTypeOK, HandlesInv, NEW s \in Subs, Register(s)
  PROVE  /\ RegistryTypeOK' /\ HandlesInv'
         /\ \A c \in Channels : OneSet(c) => OneSet(c)'
<1> USE NoSetAssumption, ChannelAssumption
<1> DEFINE c == ChannelOf[s]
           set == IF map[c] = NoSet THEN s ELSE map[c]
<1>1. set \in Subs /\ c \in Channels
  BY DEF RegistryTypeOK
<1>2. /\ closure[s] = NoSet
      /\ map' = [map EXCEPT ![c] = set]
      /\ members' = [members EXCEPT ![set] = @ \cup {s}]
      /\ closure' = [closure EXCEPT ![s] = set]
      /\ live' = live \cup {s}
  BY DEF Register
<1>3. RegistryTypeOK'
  BY <1>1, <1>2 DEF RegistryTypeOK
<1>4. ChannelOf[set] = c /\ (set # s => closure[set] = set)
  BY <1>1 DEF HandlesInv, RegistryTypeOK
<1>5. HandlesInv'
  BY <1>1, <1>2, <1>3, <1>4 DEF HandlesInv, RegistryTypeOK
<1>6. ASSUME NEW d \in Channels, OneSet(d)
      PROVE  OneSet(d)'
  BY <1>1, <1>2, <1>4, <1>6 DEF HandlesInv, RegistryTypeOK, OneSet
<1> QED
  BY <1>3, <1>5, <1>6

(* unsubscribe(), by the owner of a handler or once more: the second time it
   may delete a Set that is in use, but none of another channel. *)
LEMMA UnregisterKeeps ==
  ASSUME RegistryTypeOK, HandlesInv, NEW s \in Subs, Unregister(s)
  PROVE  /\ RegistryTypeOK' /\ HandlesInv'
         /\ \A c \in Channels : OneSet(c) /\ (s \in live \/ ChannelOf[s] # c) => OneSet(c)'
<1> USE NoSetAssumption, ChannelAssumption
<1> DEFINE c == ChannelOf[s]
           set == closure[s]
<1>1. c \in Channels /\ set \in Subs /\ ChannelOf[set] = c
  <2>1. closure[s] # NoSet
    BY DEF Unregister
  <2> QED
    BY <2>1 DEF RegistryTypeOK, HandlesInv
<1>2. /\ members' = [members EXCEPT ![set] = @ \ {s}]
      /\ map' = IF members[set] \subseteq {s} THEN [map EXCEPT ![c] = NoSet] ELSE map
      /\ live' = live \ {s}
      /\ closure' = closure
  BY DEF Unregister, Empties
<1>3. RegistryTypeOK'
  BY <1>1, <1>2 DEF RegistryTypeOK
<1>4. HandlesInv'
  <2>1. \A t, u \in Subs : t \in members'[u] <=> t \in live' /\ closure'[t] = u
    BY <1>1, <1>2 DEF RegistryTypeOK, HandlesInv
  <2>2. \A d \in Channels : map'[d] # NoSet => ChannelOf[map'[d]] = d /\ members'[map'[d]] # {}
    BY <1>1, <1>2 DEF RegistryTypeOK, HandlesInv
  <2>3. \A t \in Subs : closure'[t] # NoSet =>
           ChannelOf[closure'[t]] = ChannelOf[t] /\ closure'[closure'[t]] = closure'[t]
    BY <1>2 DEF HandlesInv
  <2>4. \A t \in live' : closure'[t] # NoSet
    BY <1>2 DEF HandlesInv
  <2> QED
    BY <2>1, <2>2, <2>3, <2>4 DEF HandlesInv
<1>5. ASSUME NEW d \in Channels, OneSet(d), s \in live \/ c # d
      PROVE  OneSet(d)'
  BY <1>1, <1>2, <1>5 DEF RegistryTypeOK, HandlesInv, OneSet
<1> QED
  BY <1>3, <1>4, <1>5

(* What a store keeps where every handle is used once. *)
LEMMA StoreKeepsTable ==
  ASSUME RegistryTypeOK, RegistryInv, NEW s \in Subs,
         Register(s) \/ (s \in live /\ Unregister(s))
  PROVE  RegistryTypeOK' /\ RegistryInv'
BY RegisterKeeps, UnregisterKeeps DEF RegistryInv

(* A channel with one Set: its handlers are its live subscriptions. *)
LEMMA ReachIsLive ==
  ASSUME RegistryTypeOK, HandlesInv, NEW c \in Channels, OneSet(c)
  PROVE  Reach(c) = {s \in live : ChannelOf[s] = c}
BY NoSetAssumption, ChannelAssumption DEF RegistryTypeOK, HandlesInv, OneSet, Reach

(* ... and without that, its handlers are some of them. *)
LEMMA ReachIsOfChannel ==
  ASSUME RegistryTypeOK, HandlesInv, NEW c \in Channels
  PROVE  Reach(c) \subseteq {s \in live : ChannelOf[s] = c}
BY NoSetAssumption, ChannelAssumption DEF RegistryTypeOK, HandlesInv, Reach

(* A channel has handlers exactly while the Map has an entry for it. *)
LEMMA ReachedIsMapped ==
  ASSUME RegistryTypeOK, HandlesInv, NEW c \in Channels
  PROVE  Reach(c) = {} <=> map[c] = NoSet
BY DEF RegistryTypeOK, HandlesInv, Reach

(* In a consistent table, who is live is reachable, and nobody else. *)
LEMMA InvImpliesReachable ==
  ASSUME RegistryTypeOK, RegistryInv
  PROVE  LiveIsReachable /\ CancelledIsUnreachable
BY ReachIsLive, ChannelAssumption
   DEF RegistryTypeOK, RegistryInv, LiveIsReachable, CancelledIsUnreachable

(* What subscribe and unsubscribe do to the handlers of the channels. *)
LEMMA StoreMovesReach ==
  ASSUME RegistryTypeOK, RegistryInv, RegistryTypeOK', RegistryInv', NEW s \in Subs
  PROVE  /\ Register(s) =>
              [c \in Channels |-> Reach(c)]' =
                [[c \in Channels |-> Reach(c)] EXCEPT ![ChannelOf[s]] = @ \cup {s}]
         /\ Unregister(s) =>
              [c \in Channels |-> Reach(c)]' =
                [[c \in Channels |-> Reach(c)] EXCEPT ![ChannelOf[s]] = @ \ {s}]
<1> DEFINE R == [c \in Channels |-> Reach(c)]
<1>1. \A c \in Channels : Reach(c) = {t \in live : ChannelOf[t] = c}
  BY ReachIsLive DEF RegistryInv
<1>2. \A c \in Channels : Reach(c)' = {t \in live' : ChannelOf[t] = c}
  BY NoSetAssumption, ChannelAssumption
     DEF RegistryTypeOK, RegistryInv, HandlesInv, OneSet, Reach
<1>3. ASSUME Register(s)
      PROVE  R' = [R EXCEPT ![ChannelOf[s]] = @ \cup {s}]
  <2>1. live' = live \cup {s} /\ ChannelOf[s] \in Channels
    BY <1>3, ChannelAssumption DEF Register
  <2>2. \A c \in Channels : Reach(c)' = IF c = ChannelOf[s] THEN Reach(c) \cup {s} ELSE Reach(c)
    BY <1>1, <1>2, <2>1
  <2> QED
    BY <2>1, <2>2
<1>4. ASSUME Unregister(s)
      PROVE  R' = [R EXCEPT ![ChannelOf[s]] = @ \ {s}]
  <2>1. live' = live \ {s} /\ ChannelOf[s] \in Channels
    BY <1>4, ChannelAssumption DEF Unregister
  <2>2. \A c \in Channels : Reach(c)' = IF c = ChannelOf[s] THEN Reach(c) \ {s} ELSE Reach(c)
    BY <1>1, <1>2, <2>1
  <2> QED
    BY <2>1, <2>2
<1> QED
  BY <1>3, <1>4

-----------------------------------------------------------------------------
(* Queues *)

(* A queue with one more at its end. *)
LEMMA AppendAt ==
  ASSUME NEW S, NEW Q \in Seq(S), NEW e
  PROVE  /\ Len(Q) \in Nat /\ Len(Append(Q, e)) = Len(Q) + 1
         /\ Append(Q, e)[Len(Q) + 1] = e
         /\ \A i \in 1..Len(Q) : Append(Q, e)[i] = Q[i]
OBVIOUS

(* A queue without its first. *)
LEMMA TailAt ==
  ASSUME NEW S, NEW Q \in Seq(S), Q # <<>>
  PROVE  /\ Len(Q) \in Nat /\ Len(Q) > 0 /\ Len(Tail(Q)) = Len(Q) - 1 /\ Head(Q) = Q[1]
         /\ \A i \in 1..Len(Tail(Q)) : Tail(Q)[i] = Q[i + 1]
OBVIOUS

(* Queues keep the type of their members. *)
LEMMA QueueTypes ==
  ASSUME NEW S, NEW Q \in Seq(S)
  PROVE  /\ Q # <<>> => Head(Q) \in S /\ Tail(Q) \in Seq(S)
         /\ \A e \in S : Append(Q, e) \in Seq(S)
OBVIOUS

(* The last command decides. *)
LEMMA AppendSwitches ==
  ASSUME NEW S, NEW Q \in Seq(S), NEW e, NEW start, NEW stop, start # stop, NEW on \in BOOLEAN
  PROVE  /\ EndsOff(Append(Q, e), start, stop, on)
              <=> (e = stop \/ (e # start /\ EndsOff(Q, start, stop, on)))
         /\ StartsOnce(Q, start, stop, on) /\ (e = start => EndsOff(Q, start, stop, on))
              => StartsOnce(Append(Q, e), start, stop, on)
<1> DEFINE n == Len(Q)
           R == Append(Q, e)
<1>1. /\ n \in Nat /\ Len(R) = n + 1 /\ R[n + 1] = e /\ \A i \in 1..n : R[i] = Q[i]
      /\ \A i \in 1..(n + 1) : i \in 1..n \/ i = n + 1
  BY AppendAt
<1> HIDE DEF n, R
<1>2. CASE e = stop
  BY <1>1, <1>2 DEF EndsOff, StartsOnce, n
<1>3. CASE e = start
  <2>1. ~EndsOff(R, start, stop, on)
    BY <1>1, <1>3 DEF EndsOff
  <2>2. ASSUME StartsOnce(Q, start, stop, on), EndsOff(Q, start, stop, on)
        PROVE  StartsOnce(R, start, stop, on)
    BY <1>1, <1>3, <2>2 DEF EndsOff, StartsOnce, n
  <2> QED
    BY <1>3, <2>1, <2>2 DEF R
<1>4. CASE e # start /\ e # stop
  <2>1. EndsOff(R, start, stop, on) <=> EndsOff(Q, start, stop, on)
    BY <1>1, <1>4 DEF EndsOff, n
  <2>2. StartsOnce(Q, start, stop, on) => StartsOnce(R, start, stop, on)
    BY <1>1, <1>4 DEF StartsOnce, n
  <2> QED
    BY <1>4, <2>1, <2>2 DEF R
<1> QED
  BY <1>2, <1>3, <1>4 DEF R

(* Working off the first command does not change where the queue leads. *)
LEMMA TailSwitches ==
  ASSUME NEW S, NEW Q \in Seq(S), Q # <<>>, NEW start, NEW stop, start # stop, NEW on \in BOOLEAN
  PROVE  LET after == Switched(Head(Q), start, stop, on)
         IN  /\ EndsOff(Tail(Q), start, stop, after) <=> EndsOff(Q, start, stop, on)
             /\ StartsOnce(Q, start, stop, on) =>
                  /\ StartsOnce(Tail(Q), start, stop, after)
                  /\ Head(Q) = start => ~on
<1> DEFINE n == Len(Q)
           R == Tail(Q)
           after == Switched(Head(Q), start, stop, on)
<1>1. /\ n \in Nat /\ n > 0 /\ Len(R) = n - 1 /\ Head(Q) = Q[1]
      /\ \A i \in 1..(n - 1) : R[i] = Q[i + 1] /\ i + 1 \in 2..n
      /\ \A i \in 1..n : i = 1 \/ (i - 1 \in 1..(n - 1) /\ Q[i] = R[i - 1])
  <2>1. /\ n \in Nat /\ n > 0 /\ Len(R) = n - 1 /\ Head(Q) = Q[1]
        /\ \A i \in 1..Len(R) : R[i] = Q[i + 1]
    BY TailAt
  <2> HIDE DEF R, n
  <2>2. \A i \in 2..n : i - 1 \in 1..(n - 1) /\ (i - 1) + 1 = i
    BY <2>1
  <2>3. \A i \in 2..n : Q[i] = R[i - 1]
    BY <2>1, <2>2
  <2> QED
    BY <2>1, <2>2, <2>3
<1> HIDE DEF n, R
<1>2. EndsOff(R, start, stop, after) => EndsOff(Q, start, stop, on)
  BY <1>1 DEF EndsOff, Switched, n
<1>3. EndsOff(Q, start, stop, on) => EndsOff(R, start, stop, after)
  <2> SUFFICES ASSUME EndsOff(Q, start, stop, on)
               PROVE  EndsOff(R, start, stop, after)
    OBVIOUS
  <2>1. ASSUME NEW j \in 1..n, Q[j] = stop, j # 1
        PROVE  j - 1 \in 1..Len(R) /\ R[j - 1] = stop
    BY <1>1, <2>1
  <2>2. ASSUME NEW i \in 1..Len(R), R[i] = start
        PROVE  \E j \in 1..Len(R) : i < j /\ R[j] = stop
    <3>1. i + 1 \in 1..n /\ Q[i + 1] = start /\ i \in Nat
      BY <1>1, <2>2
    <3>2. PICK j \in 1..n : i + 1 < j /\ Q[j] = stop
      BY <3>1 DEF EndsOff, n
    <3> QED
      BY <2>1, <3>1, <3>2
  <2>3. ASSUME after
        PROVE  \E j \in 1..Len(R) : R[j] = stop
    <3>1. PICK j \in 1..n : j # 1 /\ Q[j] = stop
      BY <1>1, <2>3 DEF EndsOff, Switched, n
    <3> QED
      BY <2>1, <3>1
  <2> QED
    BY <2>2, <2>3 DEF EndsOff
<1>4. ASSUME StartsOnce(Q, start, stop, on)
      PROVE  StartsOnce(R, start, stop, after) /\ (Head(Q) = start => ~on)
  <2>1. Head(Q) = start => ~on
    BY <1>1, <1>4 DEF StartsOnce, n
  <2>2. ASSUME NEW i \in 1..Len(R), after, R[i] = start
        PROVE  \E j \in 1..Len(R) : j < i /\ R[j] = stop
    <3>1. i + 1 \in 1..n /\ Q[i + 1] = start /\ 1 \in 1..n /\ 1 < i + 1 /\ i \in Nat
      BY <1>1, <2>2
    <3>2. PICK j \in 1..n : j # 1 /\ j < i + 1 /\ Q[j] = stop
      BY <1>1, <1>4, <2>2, <3>1 DEF StartsOnce, Switched, n
    <3>3. j - 1 \in 1..Len(R) /\ R[j - 1] = stop /\ j - 1 < i
      BY <1>1, <3>1, <3>2
    <3> QED
      BY <3>3
  <2>3. ASSUME NEW i \in 1..Len(R), NEW k \in 1..Len(R), i < k, R[i] = start, R[k] = start
        PROVE  \E j \in 1..Len(R) : i < j /\ j < k /\ R[j] = stop
    <3> DEFINE a == i + 1
               b == k + 1
    <3>1. a \in 1..n /\ b \in 1..n /\ a < b /\ i \in Nat /\ k \in Nat
      BY <1>1, <2>3
    <3>2. Q[a] = start /\ Q[b] = start
      BY <1>1, <2>3
    <3>3. PICK j \in 1..n : a < j /\ j < b /\ Q[j] = stop
      <4> HIDE DEF a, b
      <4> QED
        BY <1>4, <3>1, <3>2 DEF StartsOnce, n
    <3>4. j - 1 \in 1..Len(R) /\ R[j - 1] = stop /\ i < j - 1 /\ j - 1 < k
      BY <1>1, <3>1, <3>3
    <3> QED
      BY <3>4
  <2> QED
    BY <2>1, <2>2, <2>3 DEF StartsOnce
<1> QED
  BY <1>2, <1>3, <1>4 DEF R

(* The same of queues that switch channel c in and out of a set. *)
LEMMA AppendSwitchesIn ==
  ASSUME NEW S, NEW Q \in Seq(S), NEW e, NEW start, NEW stop, start # stop, NEW A, NEW c
  PROVE  /\ EndsOff(Append(Q, e), start, stop, c \in A)
              <=> (e = stop \/ (e # start /\ EndsOff(Q, start, stop, c \in A)))
         /\ StartsOnce(Q, start, stop, c \in A) /\ (e = start => EndsOff(Q, start, stop, c \in A))
              => StartsOnce(Append(Q, e), start, stop, c \in A)
<1> DEFINE on == c \in A
<1>1. on \in BOOLEAN
  OBVIOUS
<1> HIDE DEF on
<1>2. /\ EndsOff(Append(Q, e), start, stop, on)
           <=> (e = stop \/ (e # start /\ EndsOff(Q, start, stop, on)))
      /\ StartsOnce(Q, start, stop, on) /\ (e = start => EndsOff(Q, start, stop, on))
           => StartsOnce(Append(Q, e), start, stop, on)
  BY <1>1, AppendSwitches
<1> QED
  BY <1>2 DEF on

(* Working off the first command of a queue: what it did is in the set now. *)
LEMMA TailSwitchesIn ==
  ASSUME NEW S, NEW Q \in Seq(S), Q # <<>>, NEW start, NEW stop, start # stop,
         NEW A, NEW B, NEW c, c \in B <=> Head(Q) = start \/ (c \in A /\ Head(Q) # stop)
  PROVE  /\ EndsOff(Tail(Q), start, stop, c \in B) <=> EndsOff(Q, start, stop, c \in A)
         /\ StartsOnce(Q, start, stop, c \in A) =>
              StartsOnce(Tail(Q), start, stop, c \in B) /\ (Head(Q) = start => c \notin A)
<1> DEFINE on == c \in A
           after == Switched(Head(Q), start, stop, on)
<1>1. on \in BOOLEAN /\ (c \in B <=> after)
  BY DEF Switched
<1>2. /\ EndsOff(Tail(Q), start, stop, after) <=> EndsOff(Q, start, stop, on)
      /\ StartsOnce(Q, start, stop, on) =>
           StartsOnce(Tail(Q), start, stop, after) /\ (Head(Q) = start => ~on)
  <2> HIDE DEF on
  <2> QED
    BY <1>1, TailSwitches
<1>3. /\ EndsOff(Tail(Q), start, stop, c \in B) <=> EndsOff(Tail(Q), start, stop, after)
      /\ StartsOnce(Tail(Q), start, stop, after) => StartsOnce(Tail(Q), start, stop, c \in B)
  <2> HIDE DEF after
  <2> QED
    BY <1>1 DEF EndsOff, StartsOnce
<1> QED
  BY <1>2, <1>3

-----------------------------------------------------------------------------
(* Messages *)

(* An empty queue has no messages. *)
LEMMA NothingPending ==
  ASSUME NEW Q, Q = <<>>, NEW T, NEW sent, NEW seen, NEW to
  PROVE  Pending(Q, T, sent, seen, to)
BY DEF Pending

(* More may have been published, and a handler may have left or be new. *)
LEMMA PendingFor ==
  ASSUME NEW Q, NEW T, NEW sent, NEW seen, NEW to, Pending(Q, T, sent, seen, to),
         NEW sent2, NEW to2 \in SUBSET Subs,
         \A i \in 1..Len(Q) : Q[i].type = T => Q[i].ch \in Channels,
         sent \in [Channels -> Nat], sent2 \in [Channels -> Nat],
         \A c \in Channels : sent[c] <= sent2[c],
         \A s \in to2 \ to : seen[s] = 0
  PROVE  Pending(Q, T, sent2, seen, to2)
<1>1. ASSUME NEW i \in 1..Len(Q), Q[i].type = T
      PROVE  /\ Q[i].n \in 1..sent2[Q[i].ch]
             /\ \A s \in to2 : ChannelOf[s] = Q[i].ch => seen[s] < Q[i].n
  <2>1. Q[i].ch \in Channels /\ Q[i].n \in 1..sent[Q[i].ch]
    BY <1>1 DEF Pending
  <2>2. sent[Q[i].ch] \in Nat /\ sent2[Q[i].ch] \in Nat /\ sent[Q[i].ch] <= sent2[Q[i].ch]
    BY <2>1
  <2>3. Q[i].n \in 1..sent2[Q[i].ch] /\ 0 < Q[i].n
    BY <2>1, <2>2
  <2>4. \A s \in to2 : ChannelOf[s] = Q[i].ch => seen[s] < Q[i].n
    BY <1>1, <2>3 DEF Pending
  <2> QED
    BY <2>3, <2>4
<1> QED
  BY <1>1 DEF Pending

(* A confirmation joins the queue. *)
LEMMA PendingWithOther ==
  ASSUME NEW S, NEW Q \in Seq(S), NEW e, NEW T, e.type # T,
         NEW sent, NEW seen, NEW to, Pending(Q, T, sent, seen, to)
  PROVE  Pending(Append(Q, e), T, sent, seen, to)
<1> DEFINE n == Len(Q)
           R == Append(Q, e)
<1>1. /\ n \in Nat /\ Len(R) = n + 1 /\ R[n + 1] = e /\ \A i \in 1..n : R[i] = Q[i]
      /\ \A i \in 1..(n + 1) : i \in 1..n \/ i = n + 1
  BY AppendAt
<1> HIDE DEF n, R
<1>2. \A i \in 1..Len(R) : R[i].type = T => i \in 1..n
  BY <1>1
<1>3. Pending(R, T, sent, seen, to)
  BY <1>1, <1>2 DEF Pending, n
<1> QED
  BY <1>3 DEF R

(* The next message of a channel joins the queue. *)
LEMMA PendingWithNext ==
  ASSUME NEW S, NEW Q \in Seq(S), NEW e, NEW T,
         NEW sent \in [Channels -> Nat], NEW seen \in [Subs -> Nat], NEW to \in SUBSET Subs,
         \A x \in S : x.type = T => x.ch \in Channels,
         Pending(Q, T, sent, seen, to),
         \A s \in Subs : seen[s] <= sent[ChannelOf[s]],
         e.type = T, e.ch \in Channels, e.n = sent[e.ch] + 1
  PROVE  Pending(Append(Q, e), T, [sent EXCEPT ![e.ch] = @ + 1], seen, to)
<1> DEFINE n == Len(Q)
           R == Append(Q, e)
           sent2 == [sent EXCEPT ![e.ch] = @ + 1]
<1>1. /\ n \in Nat /\ Len(R) = n + 1 /\ R[n + 1] = e /\ \A i \in 1..n : R[i] = Q[i] /\ Q[i] \in S
      /\ \A i \in 1..(n + 1) : i \in 1..n \/ i = n + 1
  BY AppendAt
<1>2. /\ sent2 \in [Channels -> Nat] /\ sent2[e.ch] = sent[e.ch] + 1 /\ sent[e.ch] \in Nat
      /\ \A c \in Channels : sent[c] <= sent2[c]
  OBVIOUS
<1> HIDE DEF n, R, sent2
<1>3. Pending(Q, T, sent2, seen, to)
  BY <1>1, <1>2, PendingFor DEF n
<1>4. ASSUME NEW i \in 1..n, R[i].type = T, R[i].ch = e.ch
      PROVE  R[i].n < e.n
  <2>1. R[i].n \in 1..sent[e.ch]
    BY <1>1, <1>4 DEF Pending, n
  <2> QED
    BY <1>2, <2>1
<1>5. e.n \in 1..sent2[e.ch] /\ \A s \in to : ChannelOf[s] = e.ch => seen[s] < e.n
  BY <1>2
<1>6. ASSUME NEW i \in 1..Len(R), NEW j \in 1..Len(R), i < j,
             R[i].type = T, R[j].type = T, R[i].ch = R[j].ch
      PROVE  R[i].n < R[j].n
  <2>1. CASE j \in 1..n
    BY <1>1, <1>6, <2>1 DEF Pending, n
  <2>2. CASE j = n + 1
    BY <1>1, <1>4, <1>6, <2>2
  <2> QED
    BY <1>1, <2>1, <2>2
<1>7. ASSUME NEW i \in 1..Len(R), R[i].type = T
      PROVE  /\ R[i].n \in 1..sent2[R[i].ch]
             /\ \A s \in to : ChannelOf[s] = R[i].ch => seen[s] < R[i].n
  <2>1. CASE i \in 1..n
    BY <1>1, <1>3, <1>7, <2>1 DEF Pending, n
  <2>2. CASE i = n + 1
    BY <1>1, <1>5, <2>2
  <2> QED
    BY <1>1, <2>1, <2>2
<1>8. Pending(R, T, sent2, seen, to)
  BY <1>6, <1>7 DEF Pending
<1> QED
  BY <1>8 DEF R, sent2

(* The first message leaves the queue, having been seen by handlers of its
   channel or lost; or the first confirmation does. *)
LEMMA PendingTail ==
  ASSUME NEW S, NEW Q \in Seq(S), Q # <<>>, NEW T, NEW sent, NEW seen, NEW to \in SUBSET Subs,
         Pending(Q, T, sent, seen, to), NEW seen2,
         \A s \in to : \/ seen2[s] = seen[s]
                       \/ Head(Q).type = T /\ ChannelOf[s] = Head(Q).ch /\ seen2[s] = Head(Q).n
  PROVE  Pending(Tail(Q), T, sent, seen2, to)
<1> DEFINE R == Tail(Q)
<1>1. /\ Len(Q) \in Nat /\ Len(Q) > 0 /\ Len(R) = Len(Q) - 1 /\ Head(Q) = Q[1]
      /\ \A i \in 1..Len(R) : i + 1 \in 1..Len(Q) /\ 1 < i + 1 /\ R[i] = Q[i + 1]
  BY TailAt
<1> HIDE DEF R
<1>2. ASSUME NEW i \in 1..Len(R), NEW j \in 1..Len(R), i < j,
             R[i].type = T, R[j].type = T, R[i].ch = R[j].ch
      PROVE  R[i].n < R[j].n
  <2>1. i + 1 < j + 1
    BY <1>1, <1>2
  <2> QED
    BY <1>1, <1>2, <2>1 DEF Pending
<1>3. ASSUME NEW i \in 1..Len(R), R[i].type = T
      PROVE  /\ R[i].n \in 1..sent[R[i].ch]
             /\ \A s \in to : ChannelOf[s] = R[i].ch => seen2[s] < R[i].n
  <2>1. R[i].n \in 1..sent[R[i].ch] /\ \A s \in to : ChannelOf[s] = R[i].ch => seen[s] < R[i].n
    BY <1>1, <1>3 DEF Pending
  <2>2. Head(Q).type = T /\ Head(Q).ch = R[i].ch => Head(Q).n < R[i].n
    <3>1. 1 \in 1..Len(Q) /\ i + 1 \in 1..Len(Q) /\ 1 < i + 1
      BY <1>1
    <3> QED
      BY <1>1, <1>3, <3>1 DEF Pending
  <2> QED
    BY <2>1, <2>2
<1>4. Pending(R, T, sent, seen2, to)
  BY <1>2, <1>3 DEF Pending
<1> QED
  BY <1>4 DEF R

=============================================================================
