------------------------------ MODULE AccessProofs ------------------------------
(***************************************************************************)
(* What the access layer keeps: the cache of verdicts, for any principals, *)
(* gates, requests and TTL (CacheInv is inductive and implies what is      *)
(* promised), and the rules about fields, for every schema, query, set of  *)
(* rules, registration and database: from the plan of a read to its answer *)
(* (ReadInv is inductive).                                                 *)
(***************************************************************************)
EXTENDS AccessCache, ReadAnswers, SequenceTheorems, FiniteSetTheorems, WellFoundedInduction, TLAPS

-----------------------------------------------------------------------------
(* The cache of verdicts *)

EntryInv ==
  /\ entries \in [Keys -> Entry \cup {None}]
  /\ EntriesInTime /\ OutdatedInTime /\ CoveredFresh /\ InvalidationCovers

ContextInv ==
  /\ remote \in BOOLEAN /\ may \in [Principals -> BOOLEAN] /\ invalidation \in [Callers -> Invalidation]
  /\ now \in 0..MaxNow /\ changes \in 0..MaxChanges
  /\ invalidations \in 0..MaxInvalidations /\ made \in 0..MaxMade
  /\ changedAt \in [Principals -> Nat] /\ covered \subseteq Keys

RequestInv == request \in [Requests -> Request] /\ Placed /\ AnsweredFresh

\* A request that is under way has a principal and a gate, and so a key of the cache.
LEMMA KeyOfRequest ==
  ASSUME CacheInv, NEW r \in Requests, request[r].phase # "idle"
  PROVE  /\ Key(r) \in Keys /\ Key(r)[1] = request[r].principal
         /\ request[r] \in Request /\ request[r].principal \in Principals
         /\ request[r].gate \in 1..Len(Gates) /\ may[request[r].principal] \in BOOLEAN
<1>1. request[r].gate \in 1..Len(Gates) /\ request[r].principal \in Principals
  BY DEF CacheInv, Placed
<1>2. Gates[request[r].gate] \in GateNames
  BY <1>1, CacheAssumption
<1> QED
  BY <1>1, <1>2 DEF CacheInv, CacheTypeOK, Key, Keys

(* A request may become what is of its type, placed and fresh. *)
LEMMA BecomeKeeps ==
  ASSUME CacheInv, NEW r \in Requests, NEW next \in Request, Become(r, next), UNCHANGED may,
         next.phase # "idle" => next.principal \in Principals /\ next.gate \in 1..Len(Gates),
         next.phase = "evaluated" /\ ~next.changed => next.value = may[next.principal]
  PROVE  RequestInv'
BY DEF CacheInv, CacheTypeOK, Become, RequestInv, Placed, AnsweredFresh

\* A request that moves to another gate keeps its type.
LEMMA NextGate ==
  ASSUME NEW next \in Request, NEW g \in 0..Len(Gates)
  PROVE  [next EXCEPT !.phase = "gate", !.gate = g, !.value = FALSE, !.changed = FALSE] \in Request
BY DEF Request

\* A verdict sends a request to its next gate, or ends it.
LEMMA PassKeeps ==
  ASSUME CacheInv, NEW r \in Requests, request[r].phase # "idle", NEW allowed, Pass(r, allowed),
         UNCHANGED may
  PROVE  RequestInv'
<1>1. /\ request[r] \in Request /\ request[r].principal \in Principals
      /\ request[r].gate \in 1..Len(Gates)
  BY KeyOfRequest
<1>2. Idle \in Request
  BY CacheAssumption DEF Idle, Request
<1>3. CASE Ends(r, allowed)
  BY <1>2, <1>3, BecomeKeeps DEF Pass, Idle
<1>4. CASE ~Ends(r, allowed)
  <2> DEFINE next == [request[r] EXCEPT !.phase = "gate", !.gate = @ + 1, !.value = FALSE, !.changed = FALSE]
  <2>1. request[r].gate + 1 \in 1..Len(Gates) /\ request[r].gate + 1 \in 0..Len(Gates)
    BY <1>1, <1>4, CacheAssumption DEF Ends
  <2>2. /\ next.principal \in Principals /\ next.gate \in 1..Len(Gates) /\ next.phase = "gate"
        /\ next.value = FALSE /\ next.changed = FALSE /\ next.byId = request[r].byId
    BY <1>1, <2>1 DEF Request
  <2>3. next \in Request
    BY <1>1, <2>1, NextGate
  <2>4. Become(r, next)
    BY <1>4 DEF Pass
  <2> HIDE DEF next
  <2> QED
    BY <2>2, <2>3, <2>4, BecomeKeeps
<1> QED
  BY <1>3, <1>4

(* What is put into the store lives for TTL; and it is fresh or marked as late. *)
LEMMA SetKeeps ==
  ASSUME CacheInv, NEW k \in Keys, NEW value \in BOOLEAN, NEW late \in BOOLEAN,
         set(k, value, late), late \/ value = may[k[1]],
         UNCHANGED <<may, now, changedAt, covered, invalidation>>
  PROVE  EntryInv'
<1> DEFINE e == [value |-> value, expiresAt |-> now + TTL, late |-> late]
<1>1. now \in Nat /\ TTL \in Nat /\ TTL > 0
  BY CacheAssumption DEF CacheInv, CacheTypeOK
<1>2. e \in Entry /\ e.value = value /\ e.late = late /\ e.expiresAt = now + TTL
  BY <1>1 DEF Entry
<1>3. entries' = [entries EXCEPT ![k] = e] /\ entries \in [Keys -> Entry \cup {None}]
  BY DEF set, CacheInv, CacheTypeOK
<1> HIDE DEF e
<1>4. /\ entries' \in [Keys -> Entry \cup {None}] /\ entries'[k] = e
      /\ \A j \in Keys \ {k} : entries'[j] = entries[j]
  BY <1>2, <1>3
<1>5. Fresh(k)' /\ \A j \in Keys \ {k} : Fresh(j) => Fresh(j)'
  BY <1>2, <1>4 DEF Fresh
<1>6. EntriesInTime'
  BY <1>1, <1>2, <1>4 DEF CacheInv, EntriesInTime
<1>7. OutdatedInTime'
  <2> SUFFICES ASSUME NEW j \in Keys PROVE Fresh(j)' \/ entries'[j].expiresAt <= changedAt'[j[1]] + TTL
    BY DEF OutdatedInTime
  <2> QED
    BY <1>4, <1>5 DEF CacheInv, OutdatedInTime
<1>8. CoveredFresh'
  BY <1>5 DEF CacheInv, CacheTypeOK, CoveredFresh
<1>9. InvalidationCovers'
  BY <1>5 DEF CacheInv, CacheTypeOK, Invalidation, InvalidationCovers, WillCover
<1> QED
  BY <1>4, <1>6, <1>7, <1>8, <1>9 DEF EntryInv

\* What is said of the cache depends on the cache, the rules and the invalidation alone.
LEMMA SameEntries ==
  ASSUME CacheInv, UNCHANGED <<entries, may, now, changedAt, covered, invalidation>>
  PROVE  EntryInv'
BY DEF CacheInv, CacheTypeOK, EntryInv, EntriesInTime, OutdatedInTime, CoveredFresh, InvalidationCovers, WillCover, Fresh

\* What is said of the requests depends on them and the rules alone.
LEMMA SameRequests ==
  ASSUME CacheInv, UNCHANGED <<request, may>>
  PROVE  RequestInv'
BY DEF CacheInv, CacheTypeOK, RequestInv, Placed, AnsweredFresh

(* Dropped keys hold nothing; the other ones what they held. *)
LEMMA DropKeeps ==
  ASSUME CacheInv, NEW S, Drop(S)
  PROVE  /\ entries' \in [Keys -> Entry \cup {None}]
         /\ \A k \in Keys : entries'[k] \in {None, entries[k]} /\ (k \in S => entries'[k] = None)
BY DEF Drop, CacheInv, CacheTypeOK

(* To drop keys, and nothing else, leaves what holds of the entries. *)
LEMMA DroppedKeeps ==
  ASSUME CacheInv, NEW S, Drop(S), UNCHANGED <<may, now, changedAt>>
  PROVE  /\ entries' \in [Keys -> Entry \cup {None}] /\ EntriesInTime' /\ OutdatedInTime'
         /\ \A k \in Keys : (Fresh(k) \/ k \in S) => Fresh(k)'
<1>1. \A k \in Keys : (Fresh(k) \/ k \in S) => Fresh(k)'
  BY DropKeeps DEF Fresh
<1>2. EntriesInTime'
  BY DropKeeps DEF CacheInv, EntriesInTime
<1>3. OutdatedInTime'
  BY <1>1, DropKeeps DEF CacheInv, OutdatedInTime, Fresh
<1> QED
  BY <1>1, <1>2, <1>3, DropKeeps

\* The invariant speaks of the context, of the cache's entries and of the requests.
LEMMA Parts == CacheInv <=> ContextInv /\ EntryInv /\ RequestInv
BY DEF CacheInv, CacheTypeOK, ContextInv, EntryInv, RequestInv

\* Requests leave the context as it is.
LEMMA SameContext ==
  ASSUME CacheInv, UNCHANGED <<remote, may, invalidation, now, changes, invalidations, changedAt, covered>>,
         made' \in 0..MaxMade
  PROVE  ContextInv'
BY DEF CacheInv, CacheTypeOK, ContextInv

\* A new request has nothing cached or evaluated yet.
LEMMA BeginKeeps ==
  ASSUME CacheInv, NEW r \in Requests, Begin(r)
  PROVE  CacheInv'
<1>1. ContextInv'
  BY SameContext, CacheAssumption DEF Begin, CacheInv, CacheTypeOK
<1>2. EntryInv'
  BY SameEntries DEF Begin
<1>3. PICK p \in Principals, byId \in BOOLEAN :
         Become(r, [Idle EXCEPT !.phase = "gate", !.principal = p, !.byId = byId, !.gate = 1])
  BY DEF Begin
<1>4. RequestInv'
  <2> DEFINE next == [Idle EXCEPT !.phase = "gate", !.principal = p, !.byId = byId, !.gate = 1]
  <2>1. 1 \in 1..Len(Gates) /\ 1 \in 0..Len(Gates)
    BY CacheAssumption
  <2>2. next \in Request /\ next.phase = "gate" /\ next.principal = p /\ next.gate = 1
    BY <2>1 DEF Idle, Request
  <2>3. Become(r, next) /\ UNCHANGED may
    BY <1>3 DEF Begin
  <2> HIDE DEF next
  <2> QED
    BY <2>1, <2>2, <2>3, BecomeKeeps
<1> QED
  BY <1>1, <1>2, <1>4, Parts, PTL

\* wrapSyncBooleanRule: what it caches, in a step, is what the rule says now.
LEMMA SyncKeeps ==
  ASSUME CacheInv, NEW r \in Requests, wrapSyncBooleanRule(r)
  PROVE  CacheInv'
<1>1. /\ request[r].phase # "idle" /\ Key(r) \in Keys /\ Key(r)[1] = request[r].principal
      /\ may[request[r].principal] \in BOOLEAN
  BY KeyOfRequest DEF wrapSyncBooleanRule
<1>2. PICK allowed : Pass(r, allowed)
  BY DEF wrapSyncBooleanRule
<1>3. ContextInv' /\ RequestInv'
  BY <1>1, <1>2, SameContext, PassKeeps DEF wrapSyncBooleanRule, CacheInv, CacheTypeOK
<1>4. EntryInv'
  <2>1. CASE UNCHANGED entries
    BY <2>1, SameEntries DEF wrapSyncBooleanRule
  <2>2. CASE set(Key(r), may[request[r].principal], FALSE)
    BY <1>1, <2>2, SetKeeps DEF wrapSyncBooleanRule
  <2> QED
    BY <2>1, <2>2 DEF wrapSyncBooleanRule
<1> QED
  BY <1>3, <1>4, Parts, PTL

\* A read, an evaluation or a failure does not write to the cache.
LEMMA AwaitedKeeps ==
  ASSUME CacheInv, NEW r \in Requests, ReadCache(r) \/ Evaluate(r) \/ Fail(r)
  PROVE  CacheInv'
<1>1. /\ request[r].phase # "idle" /\ request[r] \in Request /\ request[r].principal \in Principals
      /\ request[r].gate \in 1..Len(Gates) /\ may[request[r].principal] \in BOOLEAN
  BY KeyOfRequest DEF ReadCache, Evaluate, Fail
<1>2. ContextInv' /\ EntryInv'
  BY SameContext, SameEntries DEF ReadCache, Evaluate, Fail, CacheInv, CacheTypeOK
<1>3. RequestInv'
  <2>1. ASSUME NEW allowed, Pass(r, allowed), UNCHANGED may
        PROVE  RequestInv'
    BY <1>1, <2>1, PassKeeps
  <2>2. CASE Become(r, [request[r] EXCEPT !.phase = "missed"]) /\ UNCHANGED may
    <3> DEFINE next == [request[r] EXCEPT !.phase = "missed"]
    <3>1. next \in Request /\ next.phase = "missed" /\ next.principal = request[r].principal /\ next.gate = request[r].gate
      BY <1>1 DEF Request
    <3> HIDE DEF next
    <3> QED
      BY <1>1, <2>2, <3>1, BecomeKeeps DEF next
  <2>3. CASE Evaluate(r)
    <3> DEFINE next == [request[r] EXCEPT !.phase = "evaluated", !.value = may[request[r].principal]]
    <3>1. next \in Request /\ next.principal = request[r].principal /\ next.gate = request[r].gate
          /\ next.value = may[request[r].principal]
      BY <1>1 DEF Request
    <3>2. Become(r, next) /\ UNCHANGED may
      BY <2>3 DEF Evaluate
    <3> HIDE DEF next
    <3> QED
      BY <1>1, <3>1, <3>2, BecomeKeeps
  <2>4. CASE Fail(r)
    <3>1. Idle \in Request /\ Idle.phase = "idle"
      BY CacheAssumption DEF Idle, Request
    <3> QED
      BY <2>4, <3>1, BecomeKeeps DEF Fail
  <2> QED
    BY <2>1, <2>2, <2>3, <2>4 DEF ReadCache
<1> QED
  BY <1>2, <1>3, Parts, PTL

\* A late write carries the mark of the change it missed.
LEMMA WriteKeeps ==
  ASSUME CacheInv, NEW r \in Requests, WriteCache(r)
  PROVE  CacheInv'
<1>1. /\ request[r].phase # "idle" /\ request[r] \in Request
      /\ Key(r) \in Keys /\ Key(r)[1] = request[r].principal
  BY KeyOfRequest DEF WriteCache
<1>2. request[r].value \in BOOLEAN /\ request[r].changed \in BOOLEAN
  BY <1>1 DEF Request
<1>3. request[r].changed \/ request[r].value = may[Key(r)[1]]
  BY <1>1 DEF WriteCache, CacheInv, AnsweredFresh
<1>4. EntryInv'
  BY <1>1, <1>2, <1>3, SetKeeps DEF WriteCache
<1>5. ContextInv' /\ RequestInv'
  BY <1>1, SameContext, PassKeeps DEF WriteCache, CacheInv, CacheTypeOK
<1> QED
  BY <1>4, <1>5, Parts, PTL

(* An invalidation under way, or none, is of its type. *)
LEMMA InvalidationTypes ==
  ASSUME NEW scope \in SUBSET Keys, NEW valid \in SUBSET Keys
  PROVE  /\ NoInvalidation \in Invalidation
         /\ [phase |-> "called", scope |-> scope, found |-> {}, valid |-> valid] \in Invalidation
         /\ \A i \in Invalidation : i.valid \subseteq Keys /\ i.found \subseteq Keys
                                   /\ [i EXCEPT !.valid = valid] \in Invalidation
                                   /\ [i EXCEPT !.phase = "found", !.found = valid] \in Invalidation
BY DEF NoInvalidation, Invalidation

\* What holds of the invalidations under way holds after one of them, or a step that leaves fresh
\* what was fresh, if it holds of that one.
LEMMA OthersCover ==
  ASSUME CacheInv, NEW c \in Callers, NEW next \in Invalidation,
         invalidation' = [invalidation EXCEPT ![c] = next],
         \A k \in Keys : Fresh(k) => Fresh(k)',
         next.valid \subseteq next.scope,
         next.phase = "found" => \A k \in next.valid \ next.found : Fresh(k)'
  PROVE  invalidation' \in [Callers -> Invalidation] /\ InvalidationCovers'
<1>1. /\ invalidation \in [Callers -> Invalidation] /\ invalidation' \in [Callers -> Invalidation]
      /\ invalidation'[c] = next /\ \A d \in Callers \ {c} : invalidation'[d] = invalidation[d]
  BY DEF CacheInv, CacheTypeOK
<1>2. \A d \in Callers : invalidation[d].valid \subseteq Keys /\ WillCover(invalidation[d])
  BY <1>1, InvalidationTypes DEF CacheInv, InvalidationCovers
<1> QED
  BY <1>1, <1>2 DEF InvalidationCovers, WillCover

\* An invalidation takes its keys out of a Map at once; in Redis it is under way when it was called.
LEMMA CallKeeps ==
  ASSUME CacheInv, NEW c \in Callers, NEW scope \in SUBSET Keys, NEW expected \in SUBSET scope,
         Call(c, scope, expected)
  PROVE  CacheInv'
<1>1. RequestInv'
  BY SameRequests DEF Call
<1>2. CASE remote
  <2> DEFINE called == [phase |-> "called", scope |-> scope, found |-> {}, valid |-> expected]
  <2>1. invalidation' = [invalidation EXCEPT ![c] = called] /\ UNCHANGED <<entries, may, now, changedAt, covered>>
    BY <1>2 DEF Call
  <2>2. called \in Invalidation /\ called.phase = "called" /\ called.valid = expected /\ called.scope = scope
    BY InvalidationTypes
  <2>3. \A k \in Keys : Fresh(k) => Fresh(k)'
    BY <2>1 DEF Fresh
  <2> HIDE DEF called
  <2>4. invalidation' \in [Callers -> Invalidation] /\ InvalidationCovers'
    BY <2>1, <2>2, <2>3, OthersCover
  <2>5. ContextInv'
    BY <2>1, <2>4, CacheAssumption DEF Call, CacheInv, CacheTypeOK, ContextInv
  <2>6. EntryInv'
    BY <2>1, <2>4
       DEF CacheInv, CacheTypeOK, EntryInv, EntriesInTime, OutdatedInTime, CoveredFresh, Fresh
  <2> QED
    BY <1>1, <2>5, <2>6, Parts, PTL
<1>3. CASE ~remote
  <2>1. Drop(scope) /\ covered' = covered \cup expected
        /\ UNCHANGED <<remote, invalidation, may, now, changedAt, changes, made>>
    BY <1>3 DEF Call
  <2>2. ContextInv'
    BY <2>1, CacheAssumption DEF Call, CacheInv, CacheTypeOK, ContextInv
  <2>3. /\ entries' \in [Keys -> Entry \cup {None}] /\ EntriesInTime' /\ OutdatedInTime'
        /\ \A k \in Keys : (Fresh(k) \/ k \in scope) => Fresh(k)'
    BY <2>1, DroppedKeeps
  <2>4. CoveredFresh'
    BY <2>1, <2>3 DEF CacheInv, CacheTypeOK, CoveredFresh
  <2>5. invalidation' = invalidation /\ \A d \in Callers : invalidation[d].valid \subseteq Keys
    BY <2>1, InvalidationTypes DEF CacheInv, CacheTypeOK
  <2>6. InvalidationCovers'
    BY <2>3, <2>5 DEF CacheInv, InvalidationCovers, WillCover
  <2>7. EntryInv'
    BY <2>3, <2>4, <2>6 DEF EntryInv
  <2> QED
    BY <1>1, <2>2, <2>7, Parts, PTL
<1> QED
  BY <1>2, <1>3

\* KEYS finds every key in scope that is in the cache.
LEMMA FindKeysKeeps ==
  ASSUME CacheInv, NEW c \in Callers, FindKeys(c)
  PROVE  CacheInv'
<1> DEFINE i == invalidation[c]
           live == {k \in i.scope : Live(k)}
           next == [i EXCEPT !.phase = "found", !.found = live]
<1>1. i \in Invalidation /\ i.scope \in SUBSET Keys /\ i.valid \subseteq Keys
  BY DEF CacheInv, CacheTypeOK, Invalidation
<1>2. live \in SUBSET Keys /\ invalidation' = [invalidation EXCEPT ![c] = next]
  BY <1>1 DEF FindKeys
<1>3. next \in Invalidation /\ next.found = live /\ next.valid = i.valid /\ next.scope = i.scope
  BY <1>1, <1>2, InvalidationTypes DEF Invalidation
<1>4. \A k \in Keys : (entries[k] # None => Live(k)) /\ Fresh(k)' = Fresh(k)
  BY DEF FindKeys, CacheInv, EntriesInTime, Live, LiveAt, Fresh
<1>5. i.valid \subseteq i.scope /\ \A k \in next.valid \ next.found : Fresh(k)'
  <2>1. i.valid \subseteq i.scope
    BY DEF CacheInv, InvalidationCovers, WillCover
  <2>2. \A k \in Keys : ~Live(k) => Fresh(k)
    BY <1>4 DEF Fresh
  <2> QED
    BY <1>1, <1>3, <1>4, <2>1, <2>2
<1> HIDE DEF next
<1>6. invalidation' \in [Callers -> Invalidation] /\ InvalidationCovers'
  BY <1>2, <1>3, <1>4, <1>5, OthersCover
<1>7. ContextInv'
  BY <1>6 DEF FindKeys, CacheInv, CacheTypeOK, ContextInv
<1>8. EntryInv'
  BY <1>6 DEF FindKeys, CacheInv, CacheTypeOK, EntryInv, EntriesInTime, OutdatedInTime, CoveredFresh, Fresh
<1>9. RequestInv'
  BY SameRequests DEF FindKeys
<1> QED
  BY <1>7, <1>8, <1>9, Parts, PTL

\* After DEL nothing false is left in scope but what was written late.
LEMMA DeleteFoundKeeps ==
  ASSUME CacheInv, NEW c \in Callers, DeleteFound(c)
  PROVE  CacheInv'
<1> DEFINE i == invalidation[c]
<1>1. i \in Invalidation /\ i.valid \subseteq Keys /\ NoInvalidation \in Invalidation
  BY InvalidationTypes DEF CacheInv, CacheTypeOK
<1>2. /\ entries' \in [Keys -> Entry \cup {None}] /\ EntriesInTime' /\ OutdatedInTime'
      /\ \A k \in Keys : (Fresh(k) \/ k \in i.found) => Fresh(k)'
  BY DroppedKeeps DEF DeleteFound
<1>3. CoveredFresh'
  <2>1. i.phase = "found" /\ WillCover(i) /\ covered' = covered \cup i.valid
    BY DEF DeleteFound, CacheInv, InvalidationCovers
  <2> QED
    BY <1>1, <1>2, <2>1 DEF CacheInv, CacheTypeOK, CoveredFresh, WillCover
<1>4. invalidation' \in [Callers -> Invalidation] /\ InvalidationCovers'
  BY <1>1, <1>2, OthersCover DEF DeleteFound, NoInvalidation
<1>5. EntryInv'
  BY <1>2, <1>3, <1>4 DEF EntryInv
<1>6. ContextInv'
  BY <1>1, <1>4 DEF DeleteFound, CacheInv, CacheTypeOK, ContextInv
<1>7. RequestInv'
  BY SameRequests DEF DeleteFound
<1> QED
  BY <1>5, <1>6, <1>7, Parts, PTL

\* An invalidation that failed covers nothing.
LEMMA FailInvalidationKeeps ==
  ASSUME CacheInv, NEW c \in Callers, FailInvalidation(c)
  PROVE  CacheInv'
<1>1. NoInvalidation \in Invalidation
  BY InvalidationTypes
<1>2. \A k \in Keys : Fresh(k)' = Fresh(k)
  BY DEF FailInvalidation, Fresh
<1>3. invalidation' \in [Callers -> Invalidation] /\ InvalidationCovers'
  BY <1>1, <1>2, OthersCover DEF FailInvalidation, NoInvalidation
<1> QED
  BY <1>3 DEF FailInvalidation, CacheInv, CacheTypeOK, Placed, AnsweredFresh, EntriesInTime, OutdatedInTime,
              CoveredFresh, Fresh

(* After a change nothing of p's is covered any more, and what is cached for p is in time. *)
LEMMA ChangeKeeps ==
  ASSUME CacheInv, NEW p \in Principals, Change(p)
  PROVE  CacheInv'
<1> DEFINE valid(c) == invalidation[c].valid \ principalPrefix(p)
<1>0. \A c \in Callers :
        /\ valid(c) \in SUBSET Keys /\ invalidation[c] \in Invalidation
        /\ invalidation'[c] = [invalidation[c] EXCEPT !.valid = valid(c)]
  BY InvalidationTypes DEF Change, CacheInv, CacheTypeOK
<1>1. \A k \in Keys \ principalPrefix(p) : k[1] \in Principals /\ k[1] # p
  BY DEF principalPrefix, Keys
<1>2. \A k \in Keys \ principalPrefix(p) : (Fresh(k) => Fresh(k)') /\ changedAt'[k[1]] = changedAt[k[1]]
  BY <1>1 DEF Change, Fresh, CacheInv, CacheTypeOK
<1>3. ContextInv'
  <2>1. invalidation' \in [Callers -> Invalidation]
    BY <1>0, InvalidationTypes DEF Change
  <2>2. may' \in [Principals -> BOOLEAN] /\ now \in Nat
    BY CacheAssumption DEF Change, CacheInv, CacheTypeOK
  <2>3. changedAt' \in [Principals -> Nat]
    BY <2>2 DEF Change, CacheInv, CacheTypeOK
  <2>4. changes' \in 0..MaxChanges
    BY CacheAssumption DEF Change, CacheInv, CacheTypeOK
  <2> QED
    BY <2>1, <2>2, <2>3, <2>4 DEF Change, CacheInv, CacheTypeOK, ContextInv
<1>4. EntriesInTime' /\ entries' \in [Keys -> Entry \cup {None}]
  BY DEF Change, CacheInv, CacheTypeOK, EntriesInTime
<1>5. OutdatedInTime'
  <2> SUFFICES ASSUME NEW k \in Keys, ~Fresh(k)' PROVE entries'[k].expiresAt <= changedAt'[k[1]] + TTL
    BY DEF OutdatedInTime
  <2>1. CASE k \in principalPrefix(p)
    <3>1. changedAt'[k[1]] = now
      BY <2>1 DEF Change, CacheInv, CacheTypeOK, principalPrefix
    <3> QED
      BY <3>1 DEF Change, Fresh, CacheInv, EntriesInTime
  <2>2. CASE k \notin principalPrefix(p)
    BY <1>2, <2>2 DEF Change, CacheInv, OutdatedInTime
  <2> QED
    BY <2>1, <2>2
<1>6. CoveredFresh'
  BY <1>2 DEF Change, CacheInv, CacheTypeOK, CoveredFresh
<1>7. InvalidationCovers'
  <2> SUFFICES ASSUME NEW c \in Callers PROVE WillCover(invalidation[c])'
    BY DEF InvalidationCovers
  <2>1. /\ invalidation'[c].valid = valid(c) /\ invalidation'[c].scope = invalidation[c].scope
        /\ invalidation'[c].found = invalidation[c].found /\ invalidation'[c].phase = invalidation[c].phase
    BY <1>0 DEF Invalidation
  <2>2. WillCover(invalidation[c]) /\ valid(c) \subseteq Keys \ principalPrefix(p)
    BY <1>0 DEF CacheInv, InvalidationCovers
  <2> QED
    BY <1>2, <2>1, <2>2 DEF WillCover
<1>8. RequestInv'
  <2>1. ASSUME NEW r \in Requests
        PROVE  /\ request'[r] \in Request /\ request'[r].phase = request[r].phase
               /\ request'[r].principal = request[r].principal /\ request'[r].gate = request[r].gate
               /\ request'[r].value = request[r].value
               /\ request'[r].phase = "evaluated" /\ ~request'[r].changed
                    => request[r].principal # p /\ ~request[r].changed
    BY DEF Change, CacheInv, CacheTypeOK, Request
  <2>2. request' \in [Requests -> Request] /\ Placed'
    BY <2>1 DEF Change, CacheInv, Placed
  <2>3. AnsweredFresh'
    BY <2>1 DEF Change, CacheInv, CacheTypeOK, Placed, AnsweredFresh
  <2> QED
    BY <2>2, <2>3 DEF RequestInv
<1>9. EntryInv'
  BY <1>4, <1>5, <1>6, <1>7 DEF EntryInv
<1> QED
  BY <1>3, <1>8, <1>9, Parts, PTL

\* Time takes entries away and makes none false.
LEMMA TickKeeps ==
  ASSUME CacheInv, Tick
  PROVE  CacheInv'
<1>1. \A k \in Keys :
        /\ entries'[k] = None \/ (entries'[k] = entries[k] /\ entries[k] # None)
        /\ entries'[k] # None => now + 1 < entries[k].expiresAt
  BY DEF Tick, LiveAt
<1>2. now \in Nat /\ TTL \in Nat
  BY CacheAssumption DEF CacheInv, CacheTypeOK
<1>3. entries' \in [Keys -> Entry \cup {None}]
  BY DEF Tick, CacheInv, CacheTypeOK
<1>4. \A k \in Keys : Fresh(k) => Fresh(k)'
  BY <1>1 DEF Tick, Fresh
<1>5. EntriesInTime'
  <2> SUFFICES ASSUME NEW k \in Keys, entries'[k] # None
               PROVE  now' < entries'[k].expiresAt /\ entries'[k].expiresAt <= now' + TTL
    BY DEF EntriesInTime
  <2>0. entries'[k] = entries[k] /\ entries[k] # None
    BY <1>1
  <2>1. entries[k] \in Entry /\ entries'[k] = entries[k] /\ entries[k].expiresAt <= now + TTL
    BY <2>0 DEF CacheInv, CacheTypeOK, EntriesInTime
  <2>2. entries[k].expiresAt \in Nat
    BY <2>1 DEF Entry
  <2> QED
    BY <1>1, <1>2, <2>1, <2>2 DEF Tick
<1>6. OutdatedInTime'
  BY <1>1, <1>4 DEF Tick, CacheInv, OutdatedInTime, Fresh
<1>7. CoveredFresh'
  BY <1>4 DEF Tick, CacheInv, CacheTypeOK, CoveredFresh
<1>8. InvalidationCovers'
  <2>1. invalidation' = invalidation /\ \A c \in Callers : invalidation[c].valid \subseteq Keys
    BY InvalidationTypes DEF Tick, CacheInv, CacheTypeOK
  <2> QED
    BY <1>4, <2>1 DEF CacheInv, InvalidationCovers, WillCover
<1>9. ContextInv'
  BY CacheAssumption DEF Tick, CacheInv, CacheTypeOK, ContextInv
<1>10. EntryInv' /\ RequestInv'
  BY <1>3, <1>5, <1>6, <1>7, <1>8, SameRequests DEF Tick, EntryInv
<1> QED
  BY <1>9, <1>10, Parts, PTL

-----------------------------------------------------------------------------
\* The cache is empty at first.
LEMMA CacheInit == Init => CacheInv
<1> SUFFICES ASSUME Init PROVE CacheInv
  OBVIOUS
<1>1. \A k \in Keys : entries[k] = None
  BY DEF Init
<1>2. \A r \in Requests : request[r].phase = "idle"
  BY DEF Init, Idle
<1>3. ContextInv
  <2>1. NoInvalidation \in Invalidation
    BY InvalidationTypes
  <2>2. may \in [Principals -> BOOLEAN]
    BY DEF Init
  <2> QED
    BY <2>1, <2>2, CacheAssumption DEF Init, ContextInv
<1>4. entries \in [Keys -> Entry \cup {None}]
  BY DEF Init
<1>5. EntryInv
  BY <1>1, <1>4 DEF Init, EntryInv, EntriesInTime, OutdatedInTime, CoveredFresh, InvalidationCovers, WillCover,
                    NoInvalidation, Fresh
<1>6. request \in [Requests -> Request]
  BY CacheAssumption DEF Init, Idle, Request
<1>7. RequestInv
  BY <1>2, <1>6 DEF RequestInv, Placed, AnsweredFresh
<1> QED
  BY <1>3, <1>5, <1>7, Parts

\* Each step keeps the invariant.
LEMMA CacheStep == CacheInv /\ [Next]_vars => CacheInv'
<1> SUFFICES ASSUME CacheInv, [Next]_vars PROVE CacheInv'
  OBVIOUS
<1>1. ASSUME NEW r \in Requests,
             Begin(r) \/ wrapSyncBooleanRule(r) \/ ReadCache(r) \/ Evaluate(r) \/ WriteCache(r) \/ Fail(r)
      PROVE  CacheInv'
  BY <1>1, BeginKeeps, SyncKeeps, AwaitedKeeps, WriteKeeps
<1>2. ASSUME NEW c \in Callers, invalidateUser(c) PROVE CacheInv'
  <2>1. PICK u \in Users : Call(c, userInvalidationPrefix(u), {k \in Keys : k[1] = <<u, NoRole>>})
    BY <1>2 DEF invalidateUser
  <2> QED
    BY <2>1, CallKeeps DEF userInvalidationPrefix, principalPrefix
<1>3. ASSUME NEW c \in Callers, invalidateRole(c) PROVE CacheInv'
  <2>1. PICK role \in Roles : Call(c, roleInvalidationPrefix(role), {k \in Keys : k[1] = <<NoUser, role>>})
    BY <1>3 DEF invalidateRole
  <2> QED
    BY <2>1, CallKeeps DEF roleInvalidationPrefix, principalPrefix
<1>4. ASSUME NEW c \in Callers, invalidateAll(c) PROVE CacheInv'
  BY <1>4, CallKeeps DEF invalidateAll
<1>5. ASSUME NEW c \in Callers, FindKeys(c) \/ DeleteFound(c) \/ FailInvalidation(c) PROVE CacheInv'
  BY <1>5, FindKeysKeeps, DeleteFoundKeeps, FailInvalidationKeeps
<1>6. CASE \E p \in Principals : Change(p)
  BY <1>6, ChangeKeeps
<1>7. CASE Tick
  BY <1>7, TickKeeps
<1>8. CASE UNCHANGED vars
  <2>1. ContextInv'
    BY <1>8, SameContext DEF vars, CacheInv, CacheTypeOK
  <2>2. EntryInv' /\ RequestInv'
    BY <1>8, SameEntries, SameRequests DEF vars
  <2> QED
    BY <2>1, <2>2, Parts, PTL
<1> QED
  BY <1>1, <1>2, <1>3, <1>4, <1>5, <1>6, <1>7, <1>8 DEF Next

\* The invariant of the cache, for any principals, gates and requests: what is false in it expires in time.
THEOREM CacheInvariant == Spec => []CacheInv
BY CacheInit, CacheStep, PTL DEF Spec

(* Every variable keeps its type: a request is at a gate of the options until it ends. *)
THEOREM CacheTyped == Spec => []CacheTypeOK
<1>1. CacheInv => CacheTypeOK
  BY DEF CacheInv
<1> QED
  BY <1>1, CacheInvariant, PTL

(* Whatever the TTL, a wrong answer that was not written late is served for less than TTL. *)
THEOREM CacheStaleAtMostTTL == Spec => []StaleAtMostTTL
<1>1. CacheInv => StaleAtMostTTL
  <2> SUFFICES ASSUME CacheInv, NEW k \in Keys, Live(k), entries[k].value # may[k[1]], ~entries[k].late
               PROVE  now < changedAt[k[1]] + TTL
    BY DEF StaleAtMostTTL
  <2>1. entries[k] # None /\ entries[k] \in Entry /\ now \in Nat /\ TTL \in Nat
    BY CacheAssumption DEF Live, LiveAt, CacheInv, CacheTypeOK
  <2>2. k[1] \in Principals /\ changedAt[k[1]] \in Nat /\ entries[k].expiresAt \in Nat
    BY <2>1 DEF Keys, Entry, CacheInv, CacheTypeOK
  <2>3. ~Fresh(k) /\ entries[k].expiresAt <= changedAt[k[1]] + TTL
    BY <2>1 DEF Fresh, CacheInv, OutdatedInTime
  <2> QED
    BY <2>1, <2>2, <2>3 DEF Live, LiveAt
<1> QED
  BY <1>1, CacheInvariant, PTL

(* However the steps of requests and invalidations interleave, a returned invalidation holds. *)
THEOREM CacheInvalidatedIsFresh == Spec => []InvalidatedIsFresh
<1>1. CacheInv => InvalidatedIsFresh
  BY DEF CacheInv, CoveredFresh, Fresh, InvalidatedIsFresh, Live, LiveAt
<1> QED
  BY <1>1, CacheInvariant, PTL

-----------------------------------------------------------------------------
(* The rules about fields: what stripFieldsFromPlan leaves of a plan. *)

\* What selection, shaping and these computed fields need.
NeededFor(query, computed) ==
    planNodeFields(query) \cup planIds(query)
        \cup UNION {{depToPlanField(query, entry, dep) : dep \in from(entry)} : entry \in computed}

DeniedBy(denials) == {normalizeFieldPath(r) : r \in denials}

\* A name matches itself, as a prefix too.
LEMMA OwnNameMatches ==
    ASSUME NEW field
    PROVE  fieldMatchesDenied(field, field)
BY DEF fieldMatchesDenied, Front

\* A dependency the query selects by itself is fetched for that.
LEMMA RequestedIsSelected ==
    ASSUME NEW query, \A path \in Paths(query) : EntityAt(query, path) \in Entities,
           NEW entry \in planComputedFields(query), NEW dep \in requestedDeps(query, entry)
    PROVE  depToPlanField(query, entry, dep) \in planNodeFields(query)
<1>1. PICK path, name :
          /\ path \in Paths(query) /\ name \in query.fields[path] /\ isComputedField(query, path, name)
          /\ entry = [path |-> path, entity |-> EntityAt(query, path), name |-> name]
  <2>1. PICK p \in UNION {{path} \X {f \in query.fields[path] : isComputedField(query, path, f)} : path \in Paths(query)} :
          entry = [path |-> p[1], entity |-> EntityAt(query, p[1]), name |-> p[2]]
    BY DEF planComputedFields
  <2>2. PICK path \in Paths(query) : p \in {path} \X {f \in query.fields[path] : isComputedField(query, path, f)}
    BY <2>1
  <2>3. p[1] = path /\ p[2] \in query.fields[path] /\ isComputedField(query, path, p[2])
    BY <2>2
  <2> QED
    BY <2>1, <2>3
<1>2. entry.path = path /\ entry.entity = EntityAt(query, path) /\ entry.name = name
  BY <1>1
<1>3. dep \in from(entry) /\ Len(dep) = 1 /\ dep[1] \in query.fields[path]
  BY <1>2 DEF requestedDeps
<1>4. validateEntityComputed(EntityAt(query, path)) /\ name \in DOMAIN ComputedOf[EntityAt(query, path)]
  BY <1>1, SchemaAssumption DEF isComputedField
<1>5. dep[1] \in FieldsOf[EntityAt(query, path)]
  <2>1. dep \in ComputedOf[EntityAt(query, path)][name]
    BY <1>2, <1>3 DEF from
  <2>2. validateComputedDep(EntityAt(query, path), dep)
    BY <1>4, <2>1 DEF validateEntityComputed
  <2>3. Len(dep) # 2
    BY <1>3
  <2> QED
    BY <2>2, <2>3 DEF validateComputedDep
<1>6. ~isComputedField(query, path, dep[1])
  BY <1>4, <1>5 DEF isComputedField, validateEntityComputed
<1>7. qualifiedField(query, path, dep[1]) \in planNodeFields(query)
  <2> DEFINE plain == {f \in query.fields[path] : ~isComputedField(query, path, f)}
             named == {qualifiedField(query, path, f) : f \in plain}
  <2>1. dep[1] \in plain
    BY <1>3, <1>6
  <2>2. qualifiedField(query, path, dep[1]) \in named
    BY <2>1
  <2>3. named \subseteq planNodeFields(query)
    BY <1>1 DEF planNodeFields
  <2> QED
    BY <2>2, <2>3
<1> QED
  BY <1>2, <1>3, <1>7 DEF depToPlanField

\* What is left to fetch is selected, an id, or needed by a computed field that is left; and
\* it matches no rule.  So a denied computed field takes with it all that only it needed.
THEOREM StrippedIsNeeded ==
    ASSUME NEW query, NEW denials, \A path \in Paths(query) : EntityAt(query, path) \in Entities
    PROVE  LET stripped == stripFieldsFromPlan(query, buildJoinPlan(query), denials)
           IN  \A field \in stripped.fields :
                 /\ field \in NeededFor(query, stripped.computed)
                 /\ ~MatchesAny(field, DeniedBy(denials))
<1> DEFINE whole     == buildJoinPlan(query)
           denied   == DeniedBy(denials)
           stripped == stripFieldsFromPlan(query, whole, denials)
<1>1. /\ whole.fields = planNodeFields(query) \cup planIds(query) \cup expandComputedDeps(query)
      /\ whole.computed = planComputedFields(query)
      /\ whole = [fields |-> whole.fields, joins |-> ensureJoin(query), computed |-> whole.computed,
                 strategy |-> chooseFetchStrategy(query)]
  BY DEF buildJoinPlan
<1>2. /\ stripped.fields = {f \in whole.fields : ~MatchesAny(f, denied \cup depDenied(query, whole, denied))}
      /\ stripped.computed = remainingComputed(whole, denied)
  BY <1>1 DEF stripFieldsFromPlan, DeniedBy
<1> HIDE DEF whole, denied, stripped
<1> SUFFICES ASSUME NEW field \in stripped.fields
             PROVE  field \in NeededFor(query, stripped.computed) /\ ~MatchesAny(field, denied)
  BY DEF whole, denied, stripped
<1>3. /\ field \in whole.fields /\ ~MatchesAny(field, denied)
      /\ field \notin depDenied(query, whole, denied)
  BY <1>2, OwnNameMatches DEF MatchesAny
<1>4. ASSUME field \in expandComputedDeps(query), field \notin planNodeFields(query)
      PROVE  field \in NeededFor(query, stripped.computed)
  <2>1. PICK entry \in planComputedFields(query) :
          \E dep \in from(entry) : field = depToPlanField(query, entry, dep)
    BY <1>4 DEF expandComputedDeps
  <2>2. PICK dep \in from(entry) : field = depToPlanField(query, entry, dep)
    BY <2>1
  <2>3. CASE entry \in stripped.computed
    BY <2>2, <2>3 DEF NeededFor
  <2>4. CASE entry \notin stripped.computed
    <3>1. dep \notin requestedDeps(query, entry)
      BY <1>4, <2>2, RequestedIsSelected
    <3>2. stillNeeded(whole, denied, entry, dep)
      BY <1>1, <1>2, <1>3, <2>2, <2>4, <3>1 DEF depDenied
    <3>3. PICK other \in stripped.computed : dep \in from(other) /\ other.path = entry.path
      BY <1>2, <3>2 DEF stillNeeded
    <3>4. depToPlanField(query, other, dep) = field
      BY <2>2, <3>3 DEF depToPlanField
    <3> QED
      BY <3>3, <3>4 DEF NeededFor
  <2> QED
    BY <2>3, <2>4
<1> QED
  BY <1>1, <1>3, <1>4 DEF NeededFor

\* Another rule never makes a read fetch, or compute, more.
THEOREM RulesOnlyTakeAway ==
    ASSUME NEW query, NEW denials, NEW more, denials \subseteq more
    PROVE  LET whole == buildJoinPlan(query)
           IN  /\ stripFieldsFromPlan(query, whole, more).fields \subseteq stripFieldsFromPlan(query, whole, denials).fields
               /\ stripFieldsFromPlan(query, whole, more).computed \subseteq stripFieldsFromPlan(query, whole, denials).computed
<1> DEFINE whole == buildJoinPlan(query)
           few  == DeniedBy(denials)
           many == DeniedBy(more)
<1>1. few \subseteq many
  BY DEF DeniedBy
<1>2. /\ stripFieldsFromPlan(query, whole, denials).fields = {f \in whole.fields : ~MatchesAny(f, few \cup depDenied(query, whole, few))}
      /\ stripFieldsFromPlan(query, whole, denials).computed = remainingComputed(whole, few)
      /\ stripFieldsFromPlan(query, whole, more).fields = {f \in whole.fields : ~MatchesAny(f, many \cup depDenied(query, whole, many))}
      /\ stripFieldsFromPlan(query, whole, more).computed = remainingComputed(whole, many)
  BY DEF buildJoinPlan, stripFieldsFromPlan, DeniedBy
<1> HIDE DEF whole, few, many
<1>3. \A entry : isAccessPathDenied(entry, few) => isAccessPathDenied(entry, many)
  BY <1>1 DEF isAccessPathDenied, MatchesAny
<1>4. remainingComputed(whole, many) \subseteq remainingComputed(whole, few)
  BY <1>3 DEF remainingComputed
<1>5. depDenied(query, whole, few) \subseteq depDenied(query, whole, many)
  <2> SUFFICES ASSUME NEW field \in depDenied(query, whole, few) PROVE field \in depDenied(query, whole, many)
    OBVIOUS
  <2>1. PICK entry \in whole.computed \ remainingComputed(whole, few) :
          \E dep \in from(entry) \ requestedDeps(query, entry) :
            ~stillNeeded(whole, few, entry, dep) /\ field = depToPlanField(query, entry, dep)
    BY DEF depDenied
  <2>2. PICK dep \in from(entry) \ requestedDeps(query, entry) :
          ~stillNeeded(whole, few, entry, dep) /\ field = depToPlanField(query, entry, dep)
    BY <2>1
  <2>3. entry \in whole.computed \ remainingComputed(whole, many) /\ ~stillNeeded(whole, many, entry, dep)
    BY <1>4, <2>2 DEF stillNeeded
  <2> QED
    BY <2>2, <2>3 DEF depDenied
<1>6. \A f : MatchesAny(f, few \cup depDenied(query, whole, few)) => MatchesAny(f, many \cup depDenied(query, whole, many))
  BY <1>1, <1>5 DEF MatchesAny
<1> QED
  BY <1>2, <1>4, <1>6 DEF whole

-----------------------------------------------------------------------------
(* What a request fetches, for every schema, query and set of rules.         *)

\* A column's path and name can be read off its qualified name.
LEMMA AppendParts ==
    ASSUME NEW S, NEW path \in Seq(S), NEW name \in S
    PROVE  /\ Append(path, name) \in Seq(S) /\ Len(Append(path, name)) = Len(path) + 1
           /\ Front(Append(path, name)) = path /\ Last(Append(path, name)) = name
<1> DEFINE field == Append(path, name)
<1>1. /\ field \in Seq(S) /\ Len(field) = Len(path) + 1 /\ field[Len(field)] = name
      /\ \A k \in 1..Len(path) : field[k] = path[k]
  BY AppendProperties
<1> HIDE DEF field
<1>2. Front(field) = path
  <2>1. Len(path) \in Nat /\ Len(field) - 1 = Len(path)
    BY <1>1
  <2>2. /\ SubSeq(field, 1, Len(path)) \in Seq(S) /\ Len(SubSeq(field, 1, Len(path))) = Len(path)
        /\ \A k \in 1..Len(path) : SubSeq(field, 1, Len(path))[k] = field[k]
    BY <1>1, <2>1, SubSeqProperties
  <2>3. SubSeq(field, 1, Len(path)) = path
    BY <1>1, <2>2, SeqEqual
  <2> QED
    BY <2>1, <2>3 DEF Front
<1> QED
  BY <1>1, <1>2 DEF field, Last

\* A dotted dependency is a column of the relation it begins with.
LEMMA DottedDependency ==
    ASSUME NEW S, NEW path \in Seq(S), NEW dep \in Seq(S), Len(dep) = 2
    PROVE  path \o dep = Append(Append(path, dep[1]), dep[2])
<1> DEFINE to    == Append(path, dep[1])
           field == Append(to, dep[2])
<1>1. dep[1] \in S /\ dep[2] \in S
  <2>1. 1 \in 1..Len(dep) /\ 2 \in 1..Len(dep)
    OBVIOUS
  <2> QED
    BY <2>1, ElementOfSeq
<1>2. to \in Seq(S) /\ Len(to) = Len(path) + 1 /\ to[Len(to)] = dep[1] /\ \A k \in 1..Len(path) : to[k] = path[k]
  BY <1>1, AppendProperties
<1>3. /\ field \in Seq(S) /\ Len(field) = Len(to) + 1 /\ field[Len(field)] = dep[2]
      /\ \A k \in 1..Len(to) : field[k] = to[k]
  BY <1>1, <1>2, AppendProperties
<1>4. /\ path \o dep \in Seq(S) /\ Len(path \o dep) = Len(path) + 2
      /\ \A k \in 1..(Len(path) + 2) : (path \o dep)[k] = IF k <= Len(path) THEN path[k] ELSE dep[k - Len(path)]
  <2>1. /\ path \o dep \in Seq(S) /\ Len(path \o dep) = Len(path) + Len(dep)
        /\ \A k \in 1..(Len(path) + Len(dep)) :
             (path \o dep)[k] = IF k <= Len(path) THEN path[k] ELSE dep[k - Len(path)]
    BY ConcatProperties
  <2> QED
    BY <2>1
<1> HIDE DEF to, field
<1>5. \A k \in 1..(Len(path) + 2) : (path \o dep)[k] = field[k]
  <2> SUFFICES ASSUME NEW k \in 1..(Len(path) + 2) PROVE (path \o dep)[k] = field[k]
    OBVIOUS
  <2>1. Len(path) \in Nat
    OBVIOUS
  <2>2. k \in 1..Len(path) \/ k = Len(path) + 1 \/ k = Len(path) + 2
    BY <2>1
  <2> QED
    BY <1>2, <1>3, <1>4, <2>1, <2>2
<1>6. Len(field) = Len(path) + 2
  BY <1>2, <1>3
<1> QED
  BY <1>3, <1>4, <1>5, <1>6, SeqEqual DEF to, field

NamesAreStrings(query) ==
    Paths(query) \subseteq Seq(STRING) /\ \A path \in Paths(query) : query.fields[path] \subseteq STRING

\* An entry of a plan, and its dependencies, which are the schema's.
LEMMA EntryFacts ==
    ASSUME NEW query, \A path \in Paths(query) : EntityAt(query, path) \in Entities,
           NEW entry \in planComputedFields(query), NEW dep \in from(entry)
    PROVE  /\ entry.path \in Paths(query) /\ dep \in Seq(STRING) /\ Len(dep) \in {1, 2}
<1>1. PICK path \in Paths(query) : \E name \in query.fields[path] :
          /\ isComputedField(query, path, name)
          /\ entry = [path |-> path, entity |-> EntityAt(query, path), name |-> name]
  <2>1. PICK p \in UNION {{path} \X {f \in query.fields[path] : isComputedField(query, path, f)} : path \in Paths(query)} :
          entry = [path |-> p[1], entity |-> EntityAt(query, p[1]), name |-> p[2]]
    BY DEF planComputedFields
  <2>2. PICK path \in Paths(query) : p \in {path} \X {f \in query.fields[path] : isComputedField(query, path, f)}
    BY <2>1
  <2>3. p[1] = path /\ p[2] \in query.fields[path] /\ isComputedField(query, path, p[2])
    BY <2>2
  <2> QED
    BY <2>1, <2>3
<1>2. PICK name \in query.fields[path] :
          /\ isComputedField(query, path, name)
          /\ entry = [path |-> path, entity |-> EntityAt(query, path), name |-> name]
  BY <1>1
<1>3. entry.path = path /\ entry.entity = EntityAt(query, path) /\ entry.name = name
  BY <1>2
<1>4. validateEntityComputed(entry.entity) /\ entry.name \in DOMAIN ComputedOf[entry.entity]
  BY <1>2, <1>3, SchemaAssumption DEF isComputedField
<1>5. dep \in Seq(STRING) /\ validateComputedDep(entry.entity, dep)
  BY <1>4 DEF validateEntityComputed, from
<1> QED
  BY <1>3, <1>5 DEF validateComputedDep

\* The joins of a plan lie below the root, and their paths are names of relations.
LEMMA JoinsAreStrings ==
    ASSUME NEW query, \A path \in Paths(query) : EntityAt(query, path) \in Entities, NamesAreStrings(query)
    PROVE  \A path \in ensureJoin(query) : path \in Seq(STRING) /\ path # <<>>
<1> SUFFICES ASSUME NEW path \in ensureJoin(query) PROVE path \in Seq(STRING) /\ path # <<>>
  OBVIOUS
<1>1. CASE path \in Paths(query) \ {<<>>}
  BY <1>1 DEF NamesAreStrings
<1>2. CASE path \in UNION {{Append(entry.path, dep[1]) : dep \in {d \in from(entry) : Len(d) > 1}}
                             : entry \in planComputedFields(query)}
  <2>1. PICK entry \in planComputedFields(query) : \E dep \in from(entry) : path = Append(entry.path, dep[1])
    BY <1>2
  <2> PICK dep \in from(entry) : path = Append(entry.path, dep[1])
    BY <2>1
  <2>2. entry.path \in Seq(STRING) /\ dep \in Seq(STRING) /\ Len(dep) \in {1, 2}
    BY EntryFacts DEF NamesAreStrings
  <2>3. dep[1] \in STRING
    BY <2>2
  <2>4. path \in Seq(STRING) /\ Len(path) = Len(entry.path) + 1 /\ Len(entry.path) \in Nat
    BY <2>2, <2>3, AppendParts
  <2> QED
    BY <2>2, <2>4
<1> QED
  BY <1>1, <1>2 DEF ensureJoin

\* A column of the root, or of a join of the plan.
ColumnOf(query, field) ==
    \/ \E name \in STRING : field = <<TableOf[query.root], name>>
    \/ \E path \in ensureJoin(query), name \in STRING : field = Append(path, name)

\* Every field of a plan is a column of the root or of a join of that plan.
LEMMA PlannedColumns ==
    ASSUME NEW query, \A path \in Paths(query) : EntityAt(query, path) \in Entities, NamesAreStrings(query),
           NEW some \in Entities
    PROVE  \A field \in buildJoinPlan(query).fields : ColumnOf(query, field)
<1>0. "id" \in STRING
  BY SchemaAssumption
<1>1. \A path \in ensureJoin(query) \cup {<<>>}, name \in STRING : ColumnOf(query, qualifiedField(query, path, name))
  BY DEF ColumnOf, qualifiedField
<1>2. Paths(query) \subseteq ensureJoin(query) \cup {<<>>}
  BY DEF ensureJoin
<1>3. \A field \in planNodeFields(query) : ColumnOf(query, field)
  <2> SUFFICES ASSUME NEW field \in planNodeFields(query) PROVE ColumnOf(query, field)
    OBVIOUS
  <2>1. PICK path \in Paths(query) : \E name \in query.fields[path] : field = qualifiedField(query, path, name)
    BY DEF planNodeFields
  <2> QED
    BY <1>1, <1>2, <2>1 DEF NamesAreStrings
<1>4. \A field \in planIds(query) : ColumnOf(query, field)
  <2> SUFFICES ASSUME NEW field \in planIds(query) PROVE ColumnOf(query, field)
    OBVIOUS
  <2>1. PICK path \in ensureJoin(query) \cup {<<>>} : field = qualifiedField(query, path, "id")
    BY DEF planIds
  <2> QED
    BY <1>0, <1>1, <2>1
<1>5. \A field \in expandComputedDeps(query) : ColumnOf(query, field)
  <2> SUFFICES ASSUME NEW field \in expandComputedDeps(query) PROVE ColumnOf(query, field)
    OBVIOUS
  <2>0. PICK entry \in planComputedFields(query) : \E dep \in from(entry) : field = depToPlanField(query, entry, dep)
    BY DEF expandComputedDeps
  <2>1. PICK dep \in from(entry) : field = depToPlanField(query, entry, dep)
    BY <2>0
  <2>2. entry.path \in Paths(query) /\ dep \in Seq(STRING) /\ Len(dep) \in {1, 2} /\ dep[1] \in STRING
    BY EntryFacts, ElementOfSeq
  <2>3. CASE Len(dep) = 1
    BY <1>1, <1>2, <2>1, <2>2, <2>3 DEF depToPlanField
  <2>4. CASE Len(dep) = 2
    <3>1. field = entry.path \o dep
      BY <2>1, <2>4 DEF depToPlanField
    <3>2. entry.path \in Seq(STRING)
      BY <2>2 DEF NamesAreStrings
    <3>3. field = Append(Append(entry.path, dep[1]), dep[2])
      BY <2>2, <2>4, <3>1, <3>2, DottedDependency
    <3>4. dep[2] \in STRING
      <4>1. 2 \in 1..Len(dep)
        BY <2>4
      <4> QED
        BY <2>2, <4>1, ElementOfSeq
    <3>5. Append(entry.path, dep[1]) \in ensureJoin(query)
      BY <2>4 DEF ensureJoin
    <3> QED
      BY <3>3, <3>4, <3>5 DEF ColumnOf
  <2> QED
    BY <2>2, <2>3, <2>4
<1> QED
  BY <1>3, <1>4, <1>5 DEF buildJoinPlan

\* A word is a sequence of one.
LEMMA OneWord ==
    ASSUME NEW S, NEW word \in S
    PROVE  <<word>> \in Seq(S)
OBVIOUS

\* A rule that covers a column's place in the schema matches the column's name in the plan.
LEMMA CoveredIsMatched ==
    ASSUME NEW root, NEW path \in Seq(STRING), path # <<>>, NEW name \in STRING,
           NEW rule \in Seq(STRING), Len(rule) >= 2,
           Covers(rule, <<root>> \o path \o <<name>>)
    PROVE  fieldMatchesDenied(Append(path, name), normalizeFieldPath(rule))
<1> DEFINE W     == STRING \cup {root}
           field == Append(path, name)
           place == <<root>> \o field
<1>1. path \in Seq(W) /\ rule \in Seq(W) /\ <<root>> \in Seq(W) /\ <<name>> \in Seq(W) /\ field \in Seq(W)
  <2>1. path \in Seq(W) /\ rule \in Seq(W)
    BY SeqMonotonic
  <2>2. root \in W /\ name \in W
    OBVIOUS
  <2> HIDE DEF W
  <2>4. <<root>> \in Seq(W) /\ <<name>> \in Seq(W)
    BY <2>2, OneWord
  <2>3. field \in Seq(W)
    BY <2>1, <2>2, AppendProperties
  <2> QED
    BY <2>1, <2>3, <2>4
<1>2. Len(path) \in Nat \ {0} /\ Len(rule) \in Nat /\ Len(field) = Len(path) + 1 /\ Len(<<root>>) = 1
  BY AppendParts, EmptySeq
<1>3. <<root>> \o path \o <<name>> = place
  <2>1. field = path \o <<name>>
    BY <1>1, AppendIsConcat
  <2>2. (<<root>> \o path) \o <<name>> = <<root>> \o (path \o <<name>>)
    BY <1>1, ConcatAssociative
  <2> QED
    BY <2>1, <2>2
<1> HIDE DEF W, field
<1>4. /\ place \in Seq(W) /\ Len(place) = Len(field) + 1
      /\ \A k \in 1..Len(field) : place[k + 1] = field[k]
  <2>1. /\ place \in Seq(W) /\ Len(place) = 1 + Len(field)
        /\ \A k \in 1..(1 + Len(field)) : place[k] = IF k <= 1 THEN <<root>>[k] ELSE field[k - 1]
    BY <1>1, <1>2, ConcatProperties
  <2> QED
    BY <1>2, <2>1
<1> HIDE DEF place
<1>5. Covers(rule, place)
  BY <1>3
<1>6. Len(place) \in Nat /\ Len(place) >= 3 /\ Len(rule) # 2
  <2>1. Len(place) \in Nat /\ Len(place) >= 3
    BY <1>2, <1>4
  <2>2. CASE rule = place
    <3>1. Len(rule) = Len(place)
      BY <2>2
    <3> QED
      BY <2>1, <3>1
  <2>3. CASE Len(rule) = 2 => Len(place) = 2
    <3>1. \A n \in Nat : n >= 3 => n # 2
      OBVIOUS
    <3> QED
      BY <2>1, <2>3, <3>1
  <2> QED
    BY <1>5, <2>2, <2>3 DEF Covers
<1> DEFINE rest == Tail(rule)
<1>7. /\ normalizeFieldPath(rule) = rest /\ rest \in Seq(W) /\ Len(rest) = Len(rule) - 1
      /\ \A k \in 1..Len(rest) : rest[k] = rule[k + 1]
  BY <1>1, <1>2, <1>6, HeadTailProperties DEF normalizeFieldPath
<1> HIDE DEF rest
<1>8. CASE rule = place
  <2>1. rest = field
    BY <1>1, <1>2, <1>4, <1>7, <1>8, SeqEqual
  <2> QED
    BY <1>7, <2>1, OwnNameMatches DEF field
<1>9. CASE /\ Last(rule) = "" /\ Len(rule) <= Len(place)
           /\ Front(rule) = SubSeq(place, 1, Len(rule) - 1)
  <2>1. Last(rest) = ""
    <3>1. Len(rest) \in 1..Len(rest) /\ Len(rest) + 1 = Len(rule)
      BY <1>2, <1>7
    <3>2. rest[Len(rest)] = rule[Len(rule)]
      BY <1>7, <3>1
    <3> QED
      BY <1>9, <3>2 DEF Last
  <2>2. Len(field) >= Len(rest) /\ Len(field) \in Nat /\ Len(rest) \in Nat
    <3>1. Len(rule) <= Len(place)
      BY <1>9
    <3> QED
      BY <1>2, <1>4, <1>7, <3>1
  <2> DEFINE n == Len(rest) - 1
  <2>3. n \in Nat /\ n <= Len(field) /\ Len(rule) - 1 = n + 1 /\ n + 1 <= Len(place)
    BY <1>2, <1>4, <1>7, <2>2
  <2>4. /\ Front(rest) \in Seq(W) /\ Len(Front(rest)) = n /\ \A k \in 1..n : Front(rest)[k] = rest[k]
    BY <1>7, <2>3, SubSeqProperties DEF Front
  <2>5. /\ SubSeq(field, 1, n) \in Seq(W) /\ Len(SubSeq(field, 1, n)) = n
        /\ \A k \in 1..n : SubSeq(field, 1, n)[k] = field[k]
    <3>1. field \in Seq(W) /\ 1 \in 1..(Len(field) + 1) /\ n \in 0..Len(field)
      BY <1>1, <1>2, <2>3
    <3> HIDE DEF n
    <3> QED
      BY <2>3, <3>1, SubSeqProperties
  <2>6. \A k \in 1..(n + 1) : rule[k] = place[k]
    <3>1. \A k \in 1..(n + 1) : Front(rule)[k] = rule[k]
      BY <1>1, <1>7, <2>3, SubSeqProperties DEF Front
    <3>2. \A k \in 1..(n + 1) : SubSeq(place, 1, n + 1)[k] = place[k]
      BY <1>4, <2>3, SubSeqProperties
    <3> QED
      BY <1>9, <2>3, <3>1, <3>2
  <2> HIDE DEF n
  <2>7. \A k \in 1..n : rest[k] = field[k]
    <3> SUFFICES ASSUME NEW k \in 1..n PROVE rest[k] = field[k]
      OBVIOUS
    <3>1. k + 1 \in 1..(n + 1) /\ k \in 1..Len(rest) /\ k \in 1..Len(field)
      BY <1>2, <1>7, <2>3
    <3> QED
      BY <1>4, <1>7, <2>6, <3>1
  <2>8. Front(rest) = SubSeq(field, 1, n)
    BY <2>4, <2>5, <2>7, SeqEqual
  <2> QED
    BY <1>7, <2>1, <2>2, <2>8 DEF fieldMatchesDenied, field, n
<1> QED
  BY <1>5, <1>8, <1>9 DEF Covers

\* The first word of a sequence.
LEMMA FirstWord ==
    ASSUME NEW words
    PROVE  SubSeq(words, 1, 1) = <<words[1]>> /\ SubSeq(words, 1, 1)[1] = words[1]
<1> DEFINE S == {words[1]}
<1>1. \A k \in 1..1 : words[k] \in S
  OBVIOUS
<1>2. 1 \in Int /\ 1 <= 1 /\ 1 - 1 + 1 = 1
  OBVIOUS
<1>3. <<words[1]>> \in Seq(S) /\ Len(<<words[1]>>) = 1
  OBVIOUS
<1> HIDE DEF S
<1>4. /\ SubSeq(words, 1, 1) \in Seq(S) /\ Len(SubSeq(words, 1, 1)) = 1
      /\ \A k \in 1..1 : SubSeq(words, 1, 1)[k] = words[1 + k - 1]
  BY <1>1, <1>2, SubSeqProperties
<1>5. SubSeq(words, 1, 1)[1] = words[1]
  BY <1>4
<1>6. \A k \in 1..Len(SubSeq(words, 1, 1)) : SubSeq(words, 1, 1)[k] = <<words[1]>>[k]
  <2>1. <<words[1]>>[1] = words[1]
    OBVIOUS
  <2> QED
    BY <1>4, <1>5, <2>1
<1>7. Len(SubSeq(words, 1, 1)) = Len(<<words[1]>>)
  BY <1>3, <1>4
<1>8. SubSeq(words, 1, 1) = <<words[1]>>
  BY <1>3, <1>4, <1>6, <1>7, SeqEqual
<1> QED
  BY <1>5, <1>8

\* The columns of the root's table, and its computed fields, are in the plan under its table.
LEMMA CoveredOfTable ==
    ASSUME NEW entity, NEW name, NEW rule \in Seq(STRING), Len(rule) >= 2,
           Covers(rule, <<entity, name>>)
    PROVE  fieldMatchesDenied(<<TableOf[entity], name>>, normalizeFieldPath(rule))
<1> DEFINE place == <<entity, name>>
           field == <<TableOf[entity], name>>
<1>1. Len(rule) = 2
  <2>1. rule = place \/ Len(rule) <= Len(place)
    BY DEF Covers
  <2>2. Len(place) = 2 /\ Len(rule) \in Nat
    OBVIOUS
  <2> QED
    BY <2>1, <2>2
<1>2. normalizeFieldPath(rule) = <<TableOf[rule[1]], rule[2]>>
  BY <1>1 DEF normalizeFieldPath
<1>3. CASE rule = place
  BY <1>2, <1>3, OwnNameMatches
<1>4. CASE Last(rule) = "" /\ Front(rule) = SubSeq(place, 1, Len(rule) - 1)
  <2>1. Len(rule) - 1 = 1
    BY <1>1
  <2>2. rule[2] = "" /\ SubSeq(rule, 1, 1) = SubSeq(place, 1, 1)
    BY <1>1, <1>4, <2>1 DEF Last, Front
  <2>3. rule[1] = entity
    <3>1. rule[1] \in STRING
      BY <1>1
    <3>2. SubSeq(rule, 1, 1)[1] = rule[1]
      BY <3>1, FirstWord
    <3>3. SubSeq(place, 1, 1)[1] = place[1]
      BY FirstWord
    <3> QED
      BY <2>2, <3>2, <3>3
  <2>4. normalizeFieldPath(rule) = <<TableOf[entity], "">>
    BY <1>2, <2>2, <2>3
  <2> DEFINE denied == <<TableOf[entity], "">>
  <2>5. Len(field) = 2 /\ Len(denied) = 2 /\ denied[2] = ""
    OBVIOUS
  <2>6. SubSeq(denied, 1, 1) = <<TableOf[entity]>> /\ SubSeq(field, 1, 1) = <<TableOf[entity]>>
    <3>1. denied[1] = TableOf[entity] /\ field[1] = TableOf[entity]
      OBVIOUS
    <3> HIDE DEF denied, field
    <3> QED
      BY <3>1, FirstWord
  <2> HIDE DEF denied, field
  <2>7. Last(denied) = ""
    BY <2>5 DEF Last
  <2>8. Len(denied) - 1 = 1 /\ Len(field) >= Len(denied)
    <3> DEFINE n == Len(denied)
               m == Len(field)
    <3>1. n = 2 /\ m = 2
      BY <2>5
    <3> HIDE DEF n, m
    <3>2. n - 1 = 1 /\ m >= n
      BY <3>1
    <3> QED
      BY <3>2 DEF n, m
  <2>9. fieldMatchesDenied(field, denied)
    BY <2>6, <2>7, <2>8 DEF fieldMatchesDenied, Front
  <2> QED
    BY <2>4, <2>9 DEF denied, field
<1> QED
  BY <1>3, <1>4 DEF Covers

\* A request has no plan at first.
LEMMA RequestStart == RequestInit => PlanInv
BY DEF RequestInit, PlanInv

\* A plan is made once, of a legal tree, and rules are applied to it once.
LEMMA RequestStep == PlanInv /\ [RequestNext]_requestVars => PlanInv'
<1> SUFFICES ASSUME PlanInv, [RequestNext]_requestVars PROVE PlanInv'
  OBVIOUS
<1>1. CASE Plan
  BY <1>1 DEF Plan, PlanInv, Legal
<1>2. CASE Strip
  BY <1>2 DEF Strip, PlanInv, Legal
<1>3. CASE Onward
  BY <1>3 DEF Onward, PlanInv, Legal
<1>4. CASE UNCHANGED requestVars
  BY <1>4 DEF requestVars, PlanInv, Legal
<1> QED
  BY <1>1, <1>2, <1>3, <1>4 DEF RequestNext

\* A request's plan is the one its legal query makes, or what stripping it once left (runMeshExecute).
THEOREM RequestInvariant == RequestSpec => []PlanInv
BY RequestStart, RequestStep, PTL DEF RequestSpec

\* A column of the root has no path.
LEMMA BareColumn ==
    ASSUME NEW entity, NEW name
    PROVE  <<entity>> \o <<>> \o <<name>> = <<entity, name>>
<1> DEFINE S == {entity, name}
           one == <<entity>>
           two == <<name>>
           both == <<entity, name>>
<1>1. one \in Seq(S) /\ two \in Seq(S) /\ both \in Seq(S)
  OBVIOUS
<1>2. /\ Len(one) = 1 /\ one[1] = entity /\ Len(two) = 1 /\ two[1] = name
      /\ Len(both) = 2 /\ both[1] = entity /\ both[2] = name
  OBVIOUS
<1> HIDE DEF S, one, two, both
<1>3. one \o <<>> = one
  BY <1>1, ConcatEmptySeq
<1>4. one \o two \in Seq(S) /\ Len(one \o two) = 2 /\ (one \o two)[1] = entity /\ (one \o two)[2] = name
  <2>1. /\ one \o two \in Seq(S) /\ Len(one \o two) = Len(one) + Len(two)
        /\ \A k \in 1..(Len(one) + Len(two)) : (one \o two)[k] = IF k <= Len(one) THEN one[k] ELSE two[k - Len(one)]
    BY <1>1, ConcatProperties
  <2>2. 1 \in 1..2 /\ 2 \in 1..2 /\ 1 <= 1 /\ ~(2 <= 1) /\ 2 - 1 = 1 /\ 1 + 1 = 2
    OBVIOUS
  <2> QED
    BY <1>2, <2>1, <2>2
<1>5. one \o two = both
  <2>1. \A k \in 1..2 : (one \o two)[k] = both[k]
    BY <1>2, <1>4
  <2> QED
    BY <1>1, <1>2, <1>4, <2>1, SeqEqual
<1> QED
  BY <1>3, <1>5 DEF one, two, both

\* What no rule matches in a plan, no rule covers in the schema.
LEMMA UnmatchedIsAllowed ==
    ASSUME NEW field, ColumnOf(q, field), plan.joins = ensureJoin(q),
           \A path \in ensureJoin(q) : path \in Seq(STRING) /\ path # <<>>,
           \A rule \in rules : rule \in Seq(STRING) /\ Len(rule) >= 2,
           ~MatchesAny(field, DeniedBy(rules))
    PROVE  Allowed(field)
<1> SUFFICES ASSUME NEW rule \in rules,
                    Covers(rule, ColumnLocation(resolvePlanField(plan, field), Last(field)))
             PROVE  FALSE
  BY DEF Allowed, DeniedAt
<1>1. ~fieldMatchesDenied(field, normalizeFieldPath(rule))
  BY DEF MatchesAny, DeniedBy
<1>2. ASSUME NEW path \in ensureJoin(q), NEW name \in STRING, field = Append(path, name)
      PROVE  FALSE
  <2>1. Front(field) = path /\ Last(field) = name
    BY <1>2, AppendParts
  <2>2. Covers(rule, <<q.root>> \o path \o <<name>>)
    BY <2>1 DEF resolvePlanField, ColumnLocation
  <2> QED
    BY <1>1, <1>2, <2>2, CoveredIsMatched
<1>3. ASSUME NEW name \in STRING, field = <<TableOf[q.root], name>>
      PROVE  FALSE
  <2>1. Front(field) = <<TableOf[q.root]>> /\ Last(field) = name
    <3>1. Len(field) = 2 /\ field[1] = TableOf[q.root] /\ field[2] = name
      BY <1>3
    <3>2. Len(field) - 1 = 1
      BY <3>1
    <3> QED
      BY <3>1, <3>2, FirstWord DEF Front, Last
  <2>2. CASE Front(field) \in ensureJoin(q)
    <3>1. field = Append(<<TableOf[q.root]>>, name)
      BY <1>3
    <3> QED
      BY <1>2, <2>1, <2>2, <3>1
  <2>3. CASE Front(field) \notin ensureJoin(q)
    <3>1. Covers(rule, <<q.root>> \o <<>> \o <<name>>)
      BY <2>1, <2>3 DEF resolvePlanField, ColumnLocation
    <3>2. <<q.root>> \o <<>> \o <<name>> = <<q.root, name>>
      BY BareColumn
    <3> QED
      BY <1>1, <1>3, <3>1, <3>2, CoveredOfTable
  <2> QED
    BY <2>2, <2>3
<1> QED
  BY <1>2, <1>3 DEF ColumnOf

\* What such a plan has is needed and not denied.
LEMMA RequestIsNeeded == PlanInv => FetchedIsNeeded
<1> SUFFICES ASSUME PlanInv, stage \in {"stripped", "fetched", "answered"}
             PROVE  /\ plan.fields \subseteq {f \in Needed : Allowed(f)}
                    /\ \A entry \in plan.computed : ~DeniedAt(<<entry.entity, entry.name>>)
  BY DEF FetchedIsNeeded
<1> DEFINE whole == buildJoinPlan(q)
<1>1. /\ q \in Queries /\ rules \in RuleSets
      /\ plan = IF rules = {} THEN whole ELSE stripFieldsFromPlan(q, whole, rules)
      /\ \A path \in Paths(q) : EntityAt(q, path) \in Entities
  BY DEF PlanInv, Legal, normalizeReadTree
<1>2. NamesAreStrings(q) /\ Paths(q) # {}
  BY <1>1, RequestAssumption DEF NamesAreStrings
<1>3. \A rule \in rules : rule \in Seq(STRING) /\ Len(rule) >= 2
  BY <1>1, RequestAssumption
<1>4. /\ whole.fields = planNodeFields(q) \cup planIds(q) \cup expandComputedDeps(q)
      /\ whole.joins = ensureJoin(q) /\ whole.computed = planComputedFields(q)
      /\ whole = [fields |-> whole.fields, joins |-> ensureJoin(q), computed |-> whole.computed,
                  strategy |-> chooseFetchStrategy(q)]
  BY DEF buildJoinPlan
<1> HIDE DEF whole
<1>5. CASE rules = {}
  <2>1. \A location : ~DeniedAt(location)
    BY <1>5 DEF DeniedAt
  <2>2. whole.fields \subseteq Needed
    BY <1>1, <1>4, <1>5 DEF Needed, planIds, expandComputedDeps
  <2> QED
    BY <1>1, <1>5, <2>1, <2>2 DEF Allowed
<1>6. CASE rules # {}
  <2>1. /\ plan.joins = ensureJoin(q)
        /\ plan.fields \subseteq whole.fields
        /\ plan.computed = remainingComputed(whole, DeniedBy(rules))
    BY <1>1, <1>4, <1>6 DEF stripFieldsFromPlan, DeniedBy
  <2>2. ASSUME NEW field \in plan.fields PROVE field \in Needed /\ Allowed(field)
    <3>1. field \in NeededFor(q, plan.computed) /\ ~MatchesAny(field, DeniedBy(rules))
      BY <1>1, <1>6, StrippedIsNeeded DEF whole
    <3>2. field \in Needed
      BY <2>1, <3>1 DEF NeededFor, Needed, planIds
    <3>3. ColumnOf(q, field)
      BY <1>1, <1>2, <2>1, PlannedColumns DEF whole
    <3> QED
      BY <1>1, <1>2, <1>3, <2>1, <3>1, <3>2, <3>3, JoinsAreStrings, UnmatchedIsAllowed
  <2>3. ASSUME NEW entry \in plan.computed PROVE ~DeniedAt(<<entry.entity, entry.name>>)
    <3>1. ~MatchesAny(<<TableOf[entry.entity], entry.name>>, DeniedBy(rules))
      BY <2>1 DEF remainingComputed, isAccessPathDenied
    <3>2. \A rule \in rules : ~fieldMatchesDenied(<<TableOf[entry.entity], entry.name>>, normalizeFieldPath(rule))
      BY <3>1 DEF MatchesAny, DeniedBy
    <3> QED
      BY <1>3, <3>2, CoveredOfTable DEF DeniedAt
  <2> QED
    BY <2>2, <2>3
<1> QED
  BY <1>5, <1>6

\* A read fetches nothing but what is selected, an id, or needed by a computed field that no
\* rule denies, and no field a rule denies (runMeshExecute, stripFieldsFromPlan).
THEOREM FetchedStaysNeeded == RequestSpec => []FetchedIsNeeded
BY RequestInvariant, RequestIsNeeded, PTL

\* Every non-empty set of naturals has a least member.
LEMMA LeastOf ==
    ASSUME NEW S, S \subseteq Nat, S # {}
    PROVE  \E n \in S : \A m \in S : n <= m
<1> DEFINE R == OpToRel(<, Nat)
<1>1. IsWellFoundedOn(R, Nat)
  BY NatLessThanWellFounded
<1>2. \A x, y \in Nat : x < y => <<x, y>> \in R
  BY DEF OpToRel
<1> HIDE DEF R
<1>3. PICK n \in S : \A m \in S : ~(<<m, n>> \in R)
  BY <1>1, WFMin
<1>4. \A m \in S : n <= m
  <2> SUFFICES ASSUME NEW m \in S PROVE n <= m
    OBVIOUS
  <2>1. m \in Nat /\ n \in Nat /\ ~(m < n)
    BY <1>2, <1>3
  <2> QED
    BY <2>1
<1> QED
  BY <1>4

\* A set of naturals that has 0 and with a number the next one has them all.
LEMMA AllNaturals ==
    ASSUME NEW S, S \subseteq Nat, 0 \in S, \A n \in S : n + 1 \in S
    PROVE  S = Nat
<1> SUFFICES ASSUME Nat \ S # {} PROVE FALSE
  OBVIOUS
<1> DEFINE Others == Nat \ S
<1>0. Others \subseteq Nat /\ Others # {}
  OBVIOUS
<1> HIDE DEF Others
<1>1. PICK n \in Others : \A m \in Others : n <= m
  BY <1>0, LeastOf
<1>2. n \in Nat /\ n \notin S /\ n # 0
  BY DEF Others
<1>3. n - 1 \in Nat /\ ~(n <= n - 1) /\ (n - 1) + 1 = n
  BY <1>2
<1>4. n - 1 \in S
  BY <1>1, <1>3 DEF Others
<1> QED
  BY <1>2, <1>3, <1>4

\* The sequences of a finite set are no longer than some number.
LEMMA FiniteIsBounded ==
    ASSUME NEW S, IsFiniteSet(S), \A s \in S : Len(s) \in Nat
    PROVE  \E bound \in Nat : \A s \in S : Len(s) <= bound
<1>1. PICK n \in Nat : ExistsBijection(1..n, S)
  BY FS_NatBijection
<1>2. PICK f \in [1..n -> S] : \A s \in S : \E k \in 1..n : f[k] = s
  BY <1>1 DEF ExistsBijection, Bijection, Surjection
<1> DEFINE B == {m \in Nat : \E bound \in Nat : \A k \in 1..n : k <= m => Len(f[k]) <= bound}
<1>3. 0 \in B
  OBVIOUS
<1>4. ASSUME NEW m \in B PROVE m + 1 \in B
  <2> SUFFICES \E bound \in Nat : \A k \in 1..n : k <= m + 1 => Len(f[k]) <= bound
    OBVIOUS
  <2>1. PICK bound \in Nat : \A k \in 1..n : k <= m => Len(f[k]) <= bound
    OBVIOUS
  <2>2. CASE m + 1 \in 1..n
    <3>1. Len(f[m + 1]) \in Nat
      BY <1>2, <2>2
    <3>2. \A k \in 1..n : k <= m + 1 => Len(f[k]) <= bound + Len(f[m + 1])
      <4> SUFFICES ASSUME NEW k \in 1..n, k <= m + 1 PROVE Len(f[k]) <= bound + Len(f[m + 1])
        OBVIOUS
      <4>1. Len(f[k]) \in Nat
        BY <1>2
      <4>2. k <= m \/ k = m + 1
        OBVIOUS
      <4> QED
        BY <2>1, <3>1, <4>1, <4>2
    <3>3. bound + Len(f[m + 1]) \in Nat
      BY <3>1
    <3> QED
      BY <3>2, <3>3
  <2>3. CASE m + 1 \notin 1..n
    BY <2>1, <2>3
  <2> QED
    BY <2>2, <2>3
<1>5. B \subseteq Nat
  OBVIOUS
<1> HIDE DEF B
<1>6. n \in B
  BY <1>3, <1>4, <1>5, AllNaturals
<1>7. PICK bound \in Nat : \A k \in 1..n : k <= n => Len(f[k]) <= bound
  BY <1>6 DEF B
<1>8. \A k \in 1..n : k <= n
  OBVIOUS
<1> QED
  BY <1>2, <1>7, <1>8

\* The union of two functions, of which the first counts.
LEMMA Joined ==
    ASSUME NEW f, NEW g
    PROVE  /\ DOMAIN (f ++ g) = DOMAIN f \cup DOMAIN g
           /\ \A x \in DOMAIN f : (f ++ g)[x] = f[x]
           /\ \A x \in DOMAIN g \ DOMAIN f : (f ++ g)[x] = g[x]
BY DEF ++

\* The members of a bag are the values it was made of.
LEMMA BagMembers ==
    ASSUME NEW f
    PROVE  DOMAIN BagOf(f) = {f[x] : x \in DOMAIN f}
BY DEF BagOf, Range

\* A path is its front and the relation it ends in.
LEMMA PathParts ==
    ASSUME NEW path \in Seq(STRING), path # <<>>
    PROVE  /\ Front(path) \in Seq(STRING) /\ Last(path) \in STRING
           /\ Append(Front(path), Last(path)) = path
           /\ Len(path) \in Nat /\ Len(Front(path)) = Len(path) - 1
<1>1. Len(path) \in Nat \ {0}
  BY EmptySeq
<1>2. /\ Front(path) \in Seq(STRING) /\ Len(Front(path)) = Len(path) - 1
      /\ \A k \in 1..(Len(path) - 1) : Front(path)[k] = path[k]
  <2> DEFINE n == Len(path) - 1
  <2>1. n \in Nat /\ 1 \in 1..(Len(path) + 1) /\ n \in 0..Len(path)
    BY <1>1
  <2> HIDE DEF n
  <2>2. /\ SubSeq(path, 1, n) \in Seq(STRING) /\ Len(SubSeq(path, 1, n)) = n
        /\ \A k \in 1..n : SubSeq(path, 1, n)[k] = path[k]
    BY <2>1, SubSeqProperties
  <2> QED
    BY <2>2 DEF Front, n
<1>3. Last(path) = path[Len(path)] /\ Last(path) \in STRING
  BY <1>1, ElementOfSeq DEF Last
<1> DEFINE again == Append(Front(path), Last(path))
<1>4. /\ again \in Seq(STRING) /\ Len(again) = Len(path) /\ again[Len(path)] = Last(path)
      /\ \A k \in 1..(Len(path) - 1) : again[k] = Front(path)[k]
  BY <1>1, <1>2, <1>3, AppendProperties
<1> HIDE DEF again
<1>5. \A k \in 1..Len(path) : again[k] = path[k]
  <2> SUFFICES ASSUME NEW k \in 1..Len(path) PROVE again[k] = path[k]
    OBVIOUS
  <2>1. k \in 1..(Len(path) - 1) \/ k = Len(path)
    BY <1>1
  <2> QED
    BY <1>2, <1>3, <1>4, <2>1
<1>6. again = path
  BY <1>1, <1>4, <1>5, SeqEqual
<1> QED
  BY <1>1, <1>2, <1>3, <1>6 DEF again

-----------------------------------------------------------------------------
(* Where a plan leads.                                                       *)

\* A function that has the entity before each relation of a path.
Steps(query, path, entity) ==
    entity = [n \in 0..Len(path) |->
                IF n = 0 THEN query.root ELSE joinTargetEntity(Joins[<<entity[n - 1], path[n]>>])]

\* The entity before each relation of a path, in a function that steps from one to the next.
LEMMA EntityFunction ==
    ASSUME NEW query, NEW path, Len(path) \in Nat
    PROVE  \E entity : EntityAt(query, path) = entity[Len(path)] /\ Steps(query, path, entity)
<1> DEFINE B == {k \in Nat : \E e : e = [n \in 0..k |->
                    IF n = 0 THEN query.root ELSE joinTargetEntity(Joins[<<e[n - 1], path[n]>>])]}
<1>1. B \subseteq Nat
  OBVIOUS
<1>2. 0 \in B
  <2> DEFINE e == [n \in 0..0 |-> query.root]
  <2>1. e = [n \in 0..0 |-> IF n = 0 THEN query.root ELSE joinTargetEntity(Joins[<<e[n - 1], path[n]>>])]
    OBVIOUS
  <2> HIDE DEF e
  <2> QED
    BY <2>1
<1>3. ASSUME NEW k \in B PROVE k + 1 \in B
  <2>1. PICK e : e = [n \in 0..k |-> IF n = 0 THEN query.root ELSE joinTargetEntity(Joins[<<e[n - 1], path[n]>>])]
    OBVIOUS
  <2> DEFINE next == [n \in 0..(k + 1) |->
                        IF n = 0 THEN query.root ELSE joinTargetEntity(Joins[<<e[n - 1], path[n]>>])]
  <2>2. \A n \in 0..k : next[n] = e[n]
    <3> SUFFICES ASSUME NEW n \in 0..k PROVE next[n] = e[n]
      OBVIOUS
    <3>1. n \in 0..(k + 1)
      OBVIOUS
    <3>2. next[n] = IF n = 0 THEN query.root ELSE joinTargetEntity(Joins[<<e[n - 1], path[n]>>])
      BY <3>1
    <3>3. e[n] = IF n = 0 THEN query.root ELSE joinTargetEntity(Joins[<<e[n - 1], path[n]>>])
      BY <2>1
    <3> QED
      BY <3>2, <3>3
  <2>3. \A n \in 0..(k + 1) : n # 0 => n - 1 \in 0..k
    OBVIOUS
  <2>4. next = [n \in 0..(k + 1) |->
                  IF n = 0 THEN query.root ELSE joinTargetEntity(Joins[<<next[n - 1], path[n]>>])]
    BY <2>2, <2>3
  <2> HIDE DEF next
  <2> QED
    BY <2>4
<1> HIDE DEF B
<1>4. Len(path) \in B
  BY <1>1, <1>2, <1>3, AllNaturals
<1>5. \E e : e = [n \in 0..Len(path) |->
                    IF n = 0 THEN query.root ELSE joinTargetEntity(Joins[<<e[n - 1], path[n]>>])]
  BY <1>4 DEF B
<1> QED
  BY <1>5 DEF EntityAt, Steps

\* The root's entity is the query's.
LEMMA EntityRoot ==
    ASSUME NEW query
    PROVE  EntityAt(query, <<>>) = query.root
<1>1. Len(<<>>) = 0
  OBVIOUS
<1>2. PICK e : EntityAt(query, <<>>) = e[Len(<<>>)] /\ Steps(query, <<>>, e)
  BY <1>1, EntityFunction
<1> QED
  BY <1>1, <1>2 DEF Steps

\* The last relation of a path leads from the entity before it.
LEMMA EntityStep ==
    ASSUME NEW query, NEW path \in Seq(STRING), path # <<>>
    PROVE  EntityAt(query, path) = joinTargetEntity(JoinAt(query, path))
<1> DEFINE before == Front(path)
<1>1. Len(path) \in Nat \ {0} /\ before \in Seq(STRING) /\ Len(before) = Len(path) - 1
  BY PathParts, EmptySeq
<1>2. \A n \in 1..Len(before) : before[n] = path[n]
  <2>1. Append(before, Last(path)) = path /\ Last(path) \in STRING
    BY PathParts
  <2> HIDE DEF before
  <2> QED
    BY <1>1, <2>1, AppendProperties
<1> HIDE DEF before
<1>0. Len(path) \in Nat /\ Len(before) \in Nat
  BY <1>1
<1>3. PICK e : EntityAt(query, path) = e[Len(path)] /\ Steps(query, path, e)
  BY <1>0, EntityFunction
<1>4. PICK d : EntityAt(query, before) = d[Len(before)] /\ Steps(query, before, d)
  BY <1>0, EntityFunction
<1> DEFINE B == {n \in Nat : n <= Len(before) => d[n] = e[n]}
<1>5. B \subseteq Nat
  OBVIOUS
<1>6. 0 \in B
  <2>1. d[0] = query.root /\ e[0] = query.root
    BY <1>1, <1>3, <1>4 DEF Steps
  <2> QED
    BY <2>1
<1>7. ASSUME NEW n \in B PROVE n + 1 \in B
  <2> SUFFICES ASSUME n + 1 <= Len(before) PROVE d[n + 1] = e[n + 1]
    OBVIOUS
  <2>1. n \in Nat /\ n + 1 \in 0..Len(before) /\ n + 1 \in 0..Len(path) /\ n + 1 \in 1..Len(before) /\ n <= Len(before)
    BY <1>1
  <2>2. d[n] = e[n]
    BY <2>1
  <2>3. (n + 1) - 1 = n /\ n + 1 # 0
    BY <2>1
  <2>4. d[n + 1] = joinTargetEntity(Joins[<<d[n], before[n + 1]>>])
    BY <1>4, <2>1, <2>3 DEF Steps
  <2>5. e[n + 1] = joinTargetEntity(Joins[<<e[n], path[n + 1]>>])
    BY <1>3, <2>1, <2>3 DEF Steps
  <2> QED
    BY <1>2, <2>1, <2>2, <2>4, <2>5
<1> HIDE DEF B
<1>8. Len(before) \in B
  BY <1>0, <1>5, <1>6, <1>7, AllNaturals
<1>9. d[Len(before)] = e[Len(path) - 1]
  BY <1>1, <1>8 DEF B
<1>10. e[Len(path)] = joinTargetEntity(Joins[<<e[Len(path) - 1], path[Len(path)]>>])
  BY <1>1, <1>3 DEF Steps
<1> QED
  BY <1>3, <1>4, <1>9, <1>10 DEF JoinAt, before, Last

\* A request that rules were applied to: its query is legal, and its plan that of the query
\* without what the rules took.
Stripped == PlanInv /\ stage \in {"stripped", "fetched", "answered"}

\* What such a request and its plan are (stripFieldsFromPlan).
LEMMA StrippedPlan ==
    ASSUME Stripped
    PROVE  /\ q \in Queries /\ rules \in RuleSets /\ normalizeReadTree(q) /\ validateAst(q)
           /\ plan.joins = ensureJoin(q) /\ plan.strategy = chooseFetchStrategy(q)
           /\ plan.computed \subseteq planComputedFields(q)
           /\ plan.fields \subseteq planNodeFields(q) \cup planIds(q) \cup expandComputedDeps(q)
           /\ FetchedIsNeeded
<1> DEFINE whole == buildJoinPlan(q)
<1>1. /\ q \in Queries /\ rules \in RuleSets /\ Legal
      /\ plan = IF rules = {} THEN whole ELSE stripFieldsFromPlan(q, whole, rules)
  BY DEF Stripped, PlanInv
<1>2. /\ whole.joins = ensureJoin(q) /\ whole.strategy = chooseFetchStrategy(q)
      /\ whole.computed = planComputedFields(q)
      /\ whole.fields = planNodeFields(q) \cup planIds(q) \cup expandComputedDeps(q)
      /\ whole = [fields |-> whole.fields, joins |-> whole.joins, computed |-> whole.computed,
                  strategy |-> whole.strategy]
  BY DEF buildJoinPlan
<1> HIDE DEF whole
<1>3. /\ plan.joins = whole.joins /\ plan.strategy = whole.strategy
      /\ plan.computed \subseteq whole.computed /\ plan.fields \subseteq whole.fields
  <2>1. CASE rules = {}
    BY <1>1, <2>1
  <2>2. CASE rules # {}
    BY <1>1, <1>2, <2>2 DEF stripFieldsFromPlan, remainingComputed
  <2> QED
    BY <2>1, <2>2
<1>4. FetchedIsNeeded
  BY RequestIsNeeded DEF Stripped
<1> QED
  BY <1>1, <1>2, <1>3, <1>4 DEF Legal

\* The paths of a legal query are sequences of names, each of which leads to an entity.
LEMMA QueryPaths ==
    ASSUME Stripped
    PROVE  /\ NamesAreStrings(q) /\ IsFiniteSet(Paths(q)) /\ <<>> \in Paths(q)
           /\ \A path \in Paths(q) :
                /\ path \in Seq(STRING) /\ EntityAt(q, path) \in Entities
                /\ q.fields[path] \subseteq entityQueryableFields(EntityAt(q, path))
                /\ "$entity" \notin q.fields[path]
                /\ path # <<>> => Front(path) \in Paths(q) /\ <<EntityAt(q, Front(path)), Last(path)>> \in DOMAIN Joins
<1>1. q \in Queries /\ normalizeReadTree(q)
  BY StrippedPlan
<1>2. /\ NamesAreStrings(q) /\ IsFiniteSet(Paths(q)) /\ <<>> \in Paths(q)
      /\ \A path \in Paths(q) :
           /\ path \in Seq(STRING) /\ "$entity" \notin q.fields[path]
           /\ path # <<>> => Front(path) \in Paths(q)
  BY <1>1, RequestAssumption DEF NamesAreStrings
<1>3. \A path \in Paths(q) :
        /\ EntityAt(q, path) \in Entities /\ resolveRefEntity(q, path)
        /\ q.fields[path] \subseteq entityQueryableFields(EntityAt(q, path))
  BY <1>1 DEF normalizeReadTree
<1>4. ASSUME NEW path \in Paths(q), path # <<>>
      PROVE  <<EntityAt(q, Front(path)), Last(path)>> \in DOMAIN Joins
  <2>1. Len(path) \in 1..Len(path)
    BY <1>2, <1>4, EmptySeq
  <2> QED
    BY <1>3, <2>1 DEF resolveRefEntity, Front, Last
<1> QED
  BY <1>2, <1>3, <1>4

\* A planned computed field is selected at a path of the query.
LEMMA ComputedEntry ==
    ASSUME NEW query, NEW entry \in planComputedFields(query)
    PROVE  /\ entry.path \in Paths(query) /\ entry.entity = EntityAt(query, entry.path)
           /\ entry.name \in query.fields[entry.path] /\ isComputedField(query, entry.path, entry.name)
<1>1. PICK p \in UNION {{path} \X {f \in query.fields[path] : isComputedField(query, path, f)} : path \in Paths(query)} :
        entry = [path |-> p[1], entity |-> EntityAt(query, p[1]), name |-> p[2]]
  BY DEF planComputedFields
<1>2. PICK path \in Paths(query) : p \in {path} \X {f \in query.fields[path] : isComputedField(query, path, f)}
  BY <1>1
<1>3. p[1] = path /\ p[2] \in query.fields[path] /\ isComputedField(query, path, p[2])
  BY <1>2
<1> QED
  BY <1>1, <1>3

\* Each join of a plan is a relation of the entity before it, at a path of the query or one
\* relation below one.
LEMMA PlanJoins ==
    ASSUME Stripped
    PROVE  /\ Paths(q) \subseteq plan.joins \cup {<<>>}
           /\ \A path \in plan.joins :
                /\ path \in Seq(STRING) /\ path # <<>> /\ Front(path) \in Paths(q)
                /\ <<EntityAt(q, Front(path)), Last(path)>> \in DOMAIN Joins
                /\ Append(Front(path), Last(path)) = path
<1>1. Paths(q) \subseteq plan.joins \cup {<<>>}
  BY StrippedPlan DEF ensureJoin
<1>2. \A path \in plan.joins : path \in Seq(STRING) /\ path # <<>>
  BY QueryPaths, StrippedPlan, JoinsAreStrings
<1>3. ASSUME NEW path \in plan.joins
      PROVE  Front(path) \in Paths(q) /\ <<EntityAt(q, Front(path)), Last(path)>> \in DOMAIN Joins
  <2>1. CASE path \in Paths(q)
    BY <1>2, <2>1, QueryPaths
  <2>2. CASE path \notin Paths(q)
    <3>1. path \in UNION {{Append(entry.path, dep[1]) : dep \in {d \in from(entry) : Len(d) > 1}}
                            : entry \in planComputedFields(q)}
      BY <2>2, <1>2, StrippedPlan DEF ensureJoin
    <3>2. PICK entry \in planComputedFields(q) : \E dep \in from(entry) : Len(dep) > 1 /\ path = Append(entry.path, dep[1])
      BY <3>1
    <3>3. PICK dep \in from(entry) : Len(dep) > 1 /\ path = Append(entry.path, dep[1])
      BY <3>2
    <3>4. dep \in Seq(STRING) /\ dep[1] \in STRING /\ Len(dep) = 2
      <4>1. dep \in Seq(STRING) /\ Len(dep) \in {1, 2}
        <5>1. \A p \in Paths(q) : EntityAt(q, p) \in Entities
          BY QueryPaths
        <5> QED
          BY <5>1, EntryFacts
      <4>2. Len(dep) = 2
        <5>1. Len(dep) > 1
          BY <3>3
        <5>2. \A n : n = 1 => ~(n > 1)
          OBVIOUS
        <5> QED
          BY <4>1, <5>1, <5>2
      <4>3. 1 \in 1..Len(dep)
        BY <4>2
      <4> QED
        BY <4>1, <4>2, <4>3, ElementOfSeq
    <3>5. /\ entry.path \in Paths(q) /\ entry.path \in Seq(STRING) /\ entry.entity = EntityAt(q, entry.path)
          /\ entry.entity \in Entities /\ entry.name \in DOMAIN ComputedOf[entry.entity]
      <4>1. /\ entry.path \in Paths(q) /\ entry.entity = EntityAt(q, entry.path)
            /\ isComputedField(q, entry.path, entry.name)
        BY ComputedEntry
      <4> QED
        BY <4>1, QueryPaths DEF isComputedField
    <3>6. validateComputedDep(entry.entity, dep)
      BY <3>5, SchemaAssumption DEF validateEntityComputed, from
    <3>7. <<entry.entity, dep[1]>> \in DOMAIN Joins
      BY <3>4, <3>6 DEF validateComputedDep
    <3>8. Front(path) = entry.path /\ Last(path) = dep[1]
      BY <3>3, <3>4, <3>5, AppendParts
    <3> QED
      BY <3>5, <3>7, <3>8
  <2> QED
    BY <2>1, <2>2
<1> QED
  BY <1>1, <1>2, <1>3, PathParts

\* A path of one relation begins at the root.
LEMMA OneWordParts ==
    ASSUME NEW ref, <<ref>> \in Seq(STRING)
    PROVE  Front(<<ref>>) = <<>> /\ Last(<<ref>>) = ref
<1> DEFINE path == <<ref>>
<1>1. Len(path) = 1 /\ path[1] = ref /\ path # <<>> /\ path \in Seq(STRING)
  OBVIOUS
<1> HIDE DEF path
<1>2. Front(path) \in Seq(STRING) /\ Len(Front(path)) = 0
  BY <1>1, PathParts
<1>3. Front(path) = <<>>
  BY <1>2, EmptySeq
<1> QED
  BY <1>1, <1>3 DEF Last, path

\* A column of a plan is found at its path, by its own name.
LEMMA ColumnPlace ==
    ASSUME Stripped, NEW path \in plan.joins \cup {<<>>}, NEW name \in STRING
    PROVE  /\ resolvePlanField(plan, qualifiedField(q, path, name)) = path
           /\ Last(qualifiedField(q, path, name)) = name
<1>1. CASE path = <<>>
  <2> DEFINE field == <<TableOf[q.root], name>>
  <2>1. Len(field) = 2 /\ field[1] = TableOf[q.root] /\ field[2] = name
    OBVIOUS
  <2>2. Len(field) - 1 = 1
    BY <2>1
  <2>3. Front(field) = <<TableOf[q.root]>> /\ Last(field) = name
    BY <2>1, <2>2, FirstWord DEF Front, Last
  <2>4. <<TableOf[q.root]>> \notin plan.joins
    <3> SUFFICES ASSUME <<TableOf[q.root]>> \in plan.joins PROVE FALSE
      OBVIOUS
    <3>1. <<EntityAt(q, Front(<<TableOf[q.root]>>)), Last(<<TableOf[q.root]>>)>> \in DOMAIN Joins
      BY PlanJoins
    <3>2. Last(<<TableOf[q.root]>>) = TableOf[q.root] /\ Front(<<TableOf[q.root]>>) = <<>>
      BY PlanJoins, OneWordParts
    <3>3. EntityAt(q, <<>>) = q.root
      BY EntityRoot
    <3>4. <<q.root, TableOf[q.root]>> \in DOMAIN Joins
      BY <3>1, <3>2, <3>3
    <3> DEFINE j == <<q.root, TableOf[q.root]>>
    <3>5. j[2] = TableOf[j[1]]
      OBVIOUS
    <3> QED
      BY <3>4, <3>5, SchemaAssumption
  <2>5. qualifiedField(q, path, name) = field
    BY <1>1 DEF qualifiedField
  <2> HIDE DEF field
  <2> QED
    BY <1>1, <2>3, <2>4, <2>5 DEF resolvePlanField
<1>2. CASE path # <<>>
  <2>1. path \in plan.joins /\ path \in Seq(STRING)
    BY <1>2, PlanJoins
  <2>2. qualifiedField(q, path, name) = Append(path, name)
    BY <1>2 DEF qualifiedField
  <2> QED
    BY <2>1, <2>2, AppendParts DEF resolvePlanField
<1> QED
  BY <1>1, <1>2

\* Where a column may be: at a path of the plan, and at one of the query it is physical.
PlacedAt(field, path, name) ==
    /\ field = qualifiedField(q, path, name)
    /\ path \in Paths(q) => PolymorphicAt(q, path) \/ name \in FieldsOf[EntityAt(q, path)]

\* A dependency of a planned computed field is a physical field of its entity, or of a relation the
\* plan joins below its path.
LEMMA DependencyPlace ==
    ASSUME Stripped, NEW entry \in planComputedFields(q), NEW dep \in from(entry)
    PROVE  /\ dep \in Seq(STRING) /\ Len(dep) \in {1, 2} /\ dep[1] \in STRING
           /\ entry.path \in Paths(q) /\ entry.entity = EntityAt(q, entry.path)
           /\ Len(dep) = 1 =>
                /\ dep[1] \in FieldsOf[EntityAt(q, entry.path)]
                /\ depToPlanField(q, entry, dep) = qualifiedField(q, entry.path, dep[1])
           /\ Len(dep) = 2 =>
                /\ Append(entry.path, dep[1]) \in plan.joins /\ dep[1] \in childJoins(entry.path)
                /\ dep[2] \in STRING /\ EntityAt(q, Append(entry.path, dep[1])) \in Entities
                /\ dep[2] \in FieldsOf[EntityAt(q, Append(entry.path, dep[1]))]
                /\ depToPlanField(q, entry, dep) = qualifiedField(q, Append(entry.path, dep[1]), dep[2])
<1>1. /\ entry.path \in Paths(q) /\ entry.entity = EntityAt(q, entry.path)
      /\ isComputedField(q, entry.path, entry.name)
  BY ComputedEntry
<1>2. entry.path \in Seq(STRING) /\ entry.entity \in Entities /\ entry.name \in DOMAIN ComputedOf[entry.entity]
  BY <1>1, QueryPaths DEF isComputedField
<1>3. dep \in Seq(STRING) /\ validateComputedDep(entry.entity, dep)
  BY <1>2, SchemaAssumption DEF validateEntityComputed, from
<1>4. Len(dep) \in {1, 2} /\ dep[1] \in STRING
  <2>1. Len(dep) \in {1, 2}
    BY <1>3 DEF validateComputedDep
  <2>2. 1 \in 1..Len(dep)
    BY <2>1
  <2> QED
    BY <1>3, <2>1, <2>2, ElementOfSeq
<1>5. ASSUME Len(dep) = 1
      PROVE  /\ dep[1] \in FieldsOf[EntityAt(q, entry.path)]
             /\ depToPlanField(q, entry, dep) = qualifiedField(q, entry.path, dep[1])
  <2>1. Len(dep) # 2
    BY <1>5
  <2> QED
    BY <1>1, <1>3, <1>5, <2>1 DEF validateComputedDep, depToPlanField
<1>6. ASSUME Len(dep) = 2
      PROVE  /\ Append(entry.path, dep[1]) \in plan.joins /\ dep[1] \in childJoins(entry.path)
             /\ dep[2] \in STRING /\ EntityAt(q, Append(entry.path, dep[1])) \in Entities
             /\ dep[2] \in FieldsOf[EntityAt(q, Append(entry.path, dep[1]))]
             /\ depToPlanField(q, entry, dep) = qualifiedField(q, Append(entry.path, dep[1]), dep[2])
  <2> DEFINE path == Append(entry.path, dep[1])
  <2>0. Len(dep) # 1 /\ Len(dep) > 1 /\ 2 \in 1..Len(dep)
    BY <1>6
  <2>1. /\ <<entry.entity, dep[1]>> \in DOMAIN Joins
        /\ dep[2] \in FieldsOf[joinTargetEntity(Joins[<<entry.entity, dep[1]>>])]
    BY <1>3, <2>0 DEF validateComputedDep
  <2>2. dep[2] \in STRING
    BY <1>3, <2>0, ElementOfSeq
  <2>3. path \in Seq(STRING) /\ path # <<>> /\ Front(path) = entry.path /\ Last(path) = dep[1]
    <3>1. path \in Seq(STRING) /\ Len(path) = Len(entry.path) + 1 /\ Front(path) = entry.path /\ Last(path) = dep[1]
      BY <1>2, <1>4, AppendParts
    <3>2. Len(path) # 0
      BY <1>2, <3>1
    <3> HIDE DEF path
    <3>3. path # <<>>
      BY <3>2
    <3> QED
      BY <3>1, <3>3
  <2>4. path \in plan.joins
    <3>1. dep \in {d \in from(entry) : Len(d) > 1}
      BY <2>0
    <3>2. path \in ensureJoin(q)
      BY <3>1 DEF ensureJoin
    <3> QED
      BY <3>2, StrippedPlan
  <2>5. depToPlanField(q, entry, dep) = Append(path, dep[2])
    BY <1>2, <1>3, <1>6, <2>0, DottedDependency DEF depToPlanField
  <2>6. EntityAt(q, path) = joinTargetEntity(Joins[<<entry.entity, dep[1]>>])
    BY <1>1, <2>3, EntityStep DEF JoinAt
  <2>7. EntityAt(q, path) \in Entities
    <3>1. validateJoin(Joins[<<entry.entity, dep[1]>>])
      BY <2>1, SchemaAssumption
    <3> DEFINE targets == Joins[<<entry.entity, dep[1]>>].targets
    <3>2. targets \in Seq(Entities) /\ targets # <<>>
      BY <3>1 DEF validateJoin
    <3>3. Head(targets) \in Entities
      <4> HIDE DEF targets
      <4> QED
        BY <3>2, HeadTailProperties
    <3> QED
      BY <2>6, <3>3 DEF joinTargetEntity
  <2> HIDE DEF path
  <2>8. depToPlanField(q, entry, dep) = qualifiedField(q, path, dep[2]) /\ dep[1] \in childJoins(entry.path)
    BY <2>3, <2>4, <2>5 DEF qualifiedField, childJoins
  <2> QED
    BY <2>1, <2>2, <2>4, <2>6, <2>7, <2>8 DEF path
<1> QED
  BY <1>1, <1>3, <1>4, <1>5, <1>6

\* Each column of a plan is one of the entity at its path, or of a polymorphic relation.
LEMMA PlannedColumn ==
    ASSUME Stripped, NEW field \in plan.fields
    PROVE  \E path \in plan.joins \cup {<<>>}, name \in STRING : PlacedAt(field, path, name)
<1>0. "id" \in STRING /\ Paths(q) \subseteq plan.joins \cup {<<>>}
  <2>1. q.root \in Entities
    BY QueryPaths, EntityRoot
  <2> QED
    BY <2>1, SchemaAssumption, PlanJoins
<1>1. CASE field \in planNodeFields(q)
  <2>1. PICK path \in Paths(q) : field \in {qualifiedField(q, path, f) : f \in {f \in q.fields[path] : ~isComputedField(q, path, f)}}
    BY <1>1 DEF planNodeFields
  <2>2. PICK name \in q.fields[path] : ~isComputedField(q, path, name) /\ field = qualifiedField(q, path, name)
    BY <2>1
  <2>3. name \in STRING /\ name \in entityQueryableFields(EntityAt(q, path))
    BY QueryPaths DEF NamesAreStrings
  <2>4. PolymorphicAt(q, path) \/ name \in FieldsOf[EntityAt(q, path)]
    BY <2>2, <2>3 DEF entityQueryableFields, isComputedField
  <2> QED
    BY <1>0, <2>2, <2>3, <2>4 DEF PlacedAt
<1>2. CASE field \in planIds(q)
  <2>1. PICK path \in ensureJoin(q) \cup {<<>>} : field = qualifiedField(q, path, "id")
    BY <1>2 DEF planIds
  <2>2. path \in Paths(q) => "id" \in FieldsOf[EntityAt(q, path)]
    BY QueryPaths, SchemaAssumption
  <2>3. path \in plan.joins \cup {<<>>}
    BY StrippedPlan
  <2> QED
    BY <1>0, <2>1, <2>2, <2>3 DEF PlacedAt
<1>3. CASE field \in expandComputedDeps(q)
  <2>1. PICK entry \in planComputedFields(q) : field \in {depToPlanField(q, entry, dep) : dep \in from(entry)}
    BY <1>3 DEF expandComputedDeps
  <2>2. PICK dep \in from(entry) : field = depToPlanField(q, entry, dep)
    BY <2>1
  <2>3. CASE Len(dep) = 1
    BY <1>0, <2>2, <2>3, DependencyPlace DEF PlacedAt
  <2>4. CASE Len(dep) = 2
    BY <2>2, <2>4, DependencyPlace DEF PlacedAt
  <2> QED
    BY <2>3, <2>4, DependencyPlace
<1> QED
  BY <1>1, <1>2, <1>3, StrippedPlan

\* A column at a path of the query is physical there, and no rule denies it.
LEMMA ColumnAt ==
    ASSUME Stripped, NEW path \in Paths(q), NEW field \in plan.fields,
           resolvePlanField(plan, field) = path
    PROVE  /\ PolymorphicAt(q, path) \/ Last(field) \in FieldsOf[EntityAt(q, path)]
           /\ ~DeniedAt(ColumnLocation(path, Last(field)))
<1>1. PICK at \in plan.joins \cup {<<>>}, name \in STRING : PlacedAt(field, at, name)
  BY PlannedColumn
<1>2. at = path /\ Last(field) = name
  BY <1>1, ColumnPlace DEF PlacedAt
<1>3. Allowed(field)
  BY StrippedPlan DEF FetchedIsNeeded, Stripped
<1> QED
  BY <1>1, <1>2, <1>3 DEF PlacedAt, Allowed

\* What rules deny is no column of the plan at its path.
LEMMA DeniedIsNoColumn ==
    ASSUME Stripped, NEW path \in Paths(q), NEW name \in q.fields[path], Denied(path, name),
           NEW field \in plan.fields, resolvePlanField(plan, field) = path
    PROVE  Last(field) # name
<1> SUFFICES ASSUME Last(field) = name PROVE FALSE
  OBVIOUS
<1>1. /\ PolymorphicAt(q, path) \/ name \in FieldsOf[EntityAt(q, path)]
      /\ ~DeniedAt(ColumnLocation(path, name))
  BY ColumnAt
<1>2. isComputedField(q, path, name)
  BY <1>1 DEF Denied, Location
<1>3. EntityAt(q, path) \in Entities
  BY QueryPaths
<1> QED
  BY <1>1, <1>2, <1>3, SchemaAssumption DEF isComputedField, validateEntityComputed

\* Nor is it computed there by the plan.
LEMMA DeniedIsNotComputed ==
    ASSUME Stripped, NEW path \in Paths(q), NEW name, Denied(path, name),
           NEW entry \in plan.computed, entry.path = path
    PROVE  entry.name # name
<1> SUFFICES ASSUME entry.name = name PROVE FALSE
  OBVIOUS
<1>1. entry \in planComputedFields(q)
  BY StrippedPlan
<1>2. entry.entity = EntityAt(q, path) /\ isComputedField(q, path, name)
  BY <1>1, ComputedEntry
<1>3. ~DeniedAt(<<entry.entity, entry.name>>)
  BY StrippedPlan DEF FetchedIsNeeded, Stripped
<1> QED
  BY <1>2, <1>3 DEF Denied, Location

\* The columns that are fetched with a path are those whose row it is, the root's wherever its table
\* is not called like its key (parseQualifiedPlanField).
LEMMA FieldsJoined ==
    ASSUME Stripped, NEW path \in plan.joins \cup {<<>>}
    PROVE  /\ \A name \in joinFields(path) :
                 \E field \in plan.fields : resolvePlanField(plan, field) = path /\ Last(field) = name
           /\ \A field \in plan.fields :
                 resolvePlanField(plan, field) = path /\ TableOf[q.root] # q.root => Last(field) \in joinFields(path)
<1>1. ASSUME NEW name \in joinFields(path)
      PROVE  \E field \in plan.fields : resolvePlanField(plan, field) = path /\ Last(field) = name
  <2>1. PICK field \in plan.fields : parseQualifiedPlanField(q, plan, field) = path /\ Last(field) = name
    BY <1>1 DEF joinFields
  <2>2. <<q.root>> # <<>>
    OBVIOUS
  <2>3. resolvePlanField(plan, field) = path
    BY <2>1, <2>2 DEF parseQualifiedPlanField, resolvePlanField
  <2> QED
    BY <2>1, <2>3
<1>2. ASSUME NEW field \in plan.fields, resolvePlanField(plan, field) = path, TableOf[q.root] # q.root
      PROVE  Last(field) \in joinFields(path)
  <2>1. CASE Front(field) \in plan.joins
    <3>1. parseQualifiedPlanField(q, plan, field) = path
      BY <1>2, <2>1 DEF parseQualifiedPlanField, resolvePlanField
    <3> QED
      BY <3>1 DEF joinFields
  <2>2. CASE Front(field) \notin plan.joins
    <3>1. path = <<>>
      BY <1>2, <2>2 DEF resolvePlanField
    <3>2. PICK at \in plan.joins \cup {<<>>}, name \in STRING : field = qualifiedField(q, at, name)
      BY PlannedColumn DEF PlacedAt
    <3>3. field = <<TableOf[q.root], name>>
      BY <1>2, <3>1, <3>2, ColumnPlace DEF qualifiedField
    <3>4. Front(field) = <<TableOf[q.root]>>
      <4>1. Len(field) = 2 /\ field[1] = TableOf[q.root]
        BY <3>3
      <4>2. Len(field) - 1 = 1
        BY <4>1
      <4> QED
        BY <3>3, <4>1, <4>2, FirstWord DEF Front
    <3>5. Front(field) # <<q.root>>
      <4>1. <<TableOf[q.root]>>[1] # <<q.root>>[1]
        BY <1>2
      <4> QED
        BY <3>4, <4>1
    <3>6. parseQualifiedPlanField(q, plan, field) = path
      BY <2>2, <3>1, <3>5 DEF parseQualifiedPlanField
    <3> QED
      BY <3>6 DEF joinFields
  <2> QED
    BY <2>1, <2>2
<1> QED
  BY <1>1, <1>2

\* A relation below a path, as a join of the plan.
LEMMA ChildJoin ==
    ASSUME Stripped, NEW path \in plan.joins \cup {<<>>}, NEW ref \in childJoins(path)
    PROVE  /\ path \in Paths(q) /\ Append(path, ref) \in plan.joins
           /\ Front(Append(path, ref)) = path /\ Last(Append(path, ref)) = ref
           /\ ref \notin entityQueryableFields(EntityAt(q, path)) /\ ref \in STRING
           /\ ~PolymorphicAt(q, path) => ref \notin joinFields(path)
<1>1. PICK join \in plan.joins : Front(join) = path /\ Last(join) = ref
  BY DEF childJoins
<1>2. /\ join \in Seq(STRING) /\ join # <<>> /\ path \in Paths(q)
      /\ <<EntityAt(q, path), ref>> \in DOMAIN Joins /\ Append(path, ref) = join
  BY <1>1, PlanJoins
<1>3. ref \notin entityQueryableFields(EntityAt(q, path))
  <2> DEFINE j == <<EntityAt(q, path), ref>>
  <2>1. j \in DOMAIN Joins /\ j[1] = EntityAt(q, path) /\ j[2] = ref
    BY <1>2
  <2> HIDE DEF j
  <2> QED
    BY <2>1, SchemaAssumption
<1>4. ASSUME ~PolymorphicAt(q, path) PROVE ref \notin joinFields(path)
  <2> SUFFICES ASSUME NEW field \in plan.fields, resolvePlanField(plan, field) = path, Last(field) = ref
               PROVE  FALSE
    BY FieldsJoined
  <2>1. ref \in FieldsOf[EntityAt(q, path)]
    BY <1>2, <1>4, ColumnAt
  <2> QED
    BY <1>3, <2>1 DEF entityQueryableFields
<1>5. ref \in STRING
  BY <1>1, <1>2, PathParts
<1> QED
  BY <1>1, <1>2, <1>3, <1>4, <1>5

\* So an object of a path, with its columns and relations, has no name for a denied field.
LEMMA DeniedIsNoName ==
    ASSUME Stripped, NEW path \in Paths(q), NEW name \in q.fields[path], Denied(path, name)
    PROVE  name \notin joinFields(path) \cup childJoins(path)
<1>1. name \in entityQueryableFields(EntityAt(q, path)) /\ path \in plan.joins \cup {<<>>}
  BY QueryPaths, PlanJoins
<1>2. name \notin joinFields(path)
  BY <1>1, FieldsJoined, DeniedIsNoColumn
<1>3. name \notin childJoins(path)
  BY <1>1, ChildJoin
<1> QED
  BY <1>2, <1>3

-----------------------------------------------------------------------------
(* Functions on the paths of a tree, defined from level to level.            *)

\* The paths of a set whose level is one of the last n, or of the first n.
Lower(S, bound, n) == {path \in S : Len(path) + n > bound}
Upper(S, n) == {path \in S : Len(path) < n}

\* A legal tree has a deepest level, and so has its plan.
LEMMA BoundedTree ==
    ASSUME Stripped
    PROVE  \E bound \in Nat : \A path \in Paths(q) \cup plan.joins : Len(path) \in Nat /\ Len(path) <= bound
<1>1. \A path \in Paths(q) : Len(path) \in Nat
  BY QueryPaths
<1>2. PICK bound \in Nat : \A path \in Paths(q) : Len(path) <= bound
  BY <1>1, QueryPaths, FiniteIsBounded
<1>3. ASSUME NEW path \in plan.joins PROVE Len(path) \in Nat /\ Len(path) <= bound + 1
  <2>1. path \in Seq(STRING) /\ path # <<>> /\ Front(path) \in Paths(q)
    BY PlanJoins
  <2>2. Len(path) \in Nat /\ Len(Front(path)) = Len(path) - 1
    BY <2>1, PathParts
  <2> QED
    BY <1>2, <2>1, <2>2
<1>4. \A path \in Paths(q) : Len(path) <= bound + 1
  BY <1>1, <1>2
<1>5. bound + 1 \in Nat
  OBVIOUS
<1> QED
  BY <1>1, <1>3, <1>4, <1>5

\* The first level is empty from below and from above, the last one is the set.
LEMMA Levels ==
    ASSUME NEW S, NEW bound \in Nat, \A path \in S : Len(path) \in Nat /\ Len(path) <= bound
    PROVE  /\ Lower(S, bound, 0) = {} /\ Lower(S, bound, bound + 1) = S
           /\ Upper(S, 0) = {} /\ Upper(S, bound + 1) = S
BY DEF Lower, Upper

\* From level to level: what is there for none of them, and with n of them for one more, is
\* there for all.
LEMMA LevelByLevel ==
    ASSUME NEW B, B \subseteq Nat, 0 \in B, \A n \in B : n + 1 \in B, NEW bound \in Nat
    PROVE  bound + 1 \in B
BY AllNaturals

\* A relation of a node of the query, as a path.
LEMMA ChildPath ==
    ASSUME Stripped, NEW path \in Paths(q), NEW ref \in Refs(q, path)
    PROVE  /\ Append(path, ref) \in Paths(q) \cap plan.joins /\ Append(path, ref) # <<>>
           /\ Front(Append(path, ref)) = path /\ Last(Append(path, ref)) = ref
           /\ Len(Append(path, ref)) = Len(path) + 1 /\ Len(path) \in Nat
           /\ ref \in childJoins(path) /\ ref \notin q.fields[path]
<1>1. PICK child \in Paths(q) : child # <<>> /\ Front(child) = path /\ Last(child) = ref
  BY DEF Refs
<1>2. /\ child \in plan.joins /\ child \in Seq(STRING) /\ Append(path, ref) = child
      /\ Len(child) \in Nat /\ Len(path) = Len(child) - 1 /\ path \in Seq(STRING)
  BY <1>1, QueryPaths, PlanJoins, PathParts
<1>3. ref \in childJoins(path)
  BY <1>1, <1>2 DEF childJoins
<1>4. path \in plan.joins \cup {<<>>}
  BY PlanJoins
<1>5. ref \notin q.fields[path]
  BY <1>3, <1>4, ChildJoin, QueryPaths
<1>6. Len(child) = Len(path) + 1 /\ Len(path) \in Nat
  BY <1>2
<1> QED
  BY <1>1, <1>2, <1>3, <1>5, <1>6

\* Each record of an answer below the root is in a value of one at the path before.
RecordsFrom(response, records, path) ==
    IF path = <<>> THEN RecordsIn(response, path)
    ELSE UNION {RecordsIn(Get(r, Last(path)), path) : r \in records[Front(path)]}

\* RecordsOf is what it is defined as.
LEMMA RecordsStep ==
    ASSUME Stripped, NEW response
    PROVE  \A path \in Paths(q) : RecordsOf(response)[path] = RecordsFrom(response, RecordsOf(response), path)
<1> DEFINE B == {n \in Nat : \E g : g = [path \in Upper(Paths(q), n) |-> RecordsFrom(response, g, path)]}
<1>1. PICK bound \in Nat : \A path \in Paths(q) : Len(path) \in Nat /\ Len(path) <= bound
  BY BoundedTree
<1>2. B \subseteq Nat
  OBVIOUS
<1>3. 0 \in B
  <2> DEFINE g == [path \in {} |-> {}]
  <2>1. g = [path \in {} |-> RecordsFrom(response, g, path)]
    OBVIOUS
  <2> QED
    BY <1>1, <2>1, Levels
<1>4. ASSUME NEW n \in B PROVE n + 1 \in B
  <2>1. PICK g : g = [path \in Upper(Paths(q), n) |-> RecordsFrom(response, g, path)]
    OBVIOUS
  <2> DEFINE h == [path \in Upper(Paths(q), n + 1) |-> RecordsFrom(response, g, path)]
  <2>2. Upper(Paths(q), n) \subseteq Upper(Paths(q), n + 1)
    BY <1>1 DEF Upper
  <2>3. \A path \in Upper(Paths(q), n) : h[path] = g[path]
    BY <2>1, <2>2
  <2>4. ASSUME NEW path \in Upper(Paths(q), n + 1) PROVE RecordsFrom(response, g, path) = RecordsFrom(response, h, path)
    <3>1. CASE path = <<>>
      BY <3>1 DEF RecordsFrom
    <3>2. CASE path # <<>>
      <4>1. path \in Paths(q) /\ path \in Seq(STRING) /\ Front(path) \in Paths(q)
        BY <3>2, QueryPaths DEF Upper
      <4>2. Front(path) \in Upper(Paths(q), n)
        <5>1. Len(path) \in Nat /\ Len(Front(path)) = Len(path) - 1 /\ Len(path) < n + 1
          BY <3>2, <4>1, PathParts DEF Upper
        <5> QED
          BY <4>1, <5>1 DEF Upper
      <4>3. h[Front(path)] = g[Front(path)]
        BY <2>3, <4>2
      <4> HIDE DEF h
      <4> QED
        BY <3>2, <4>3 DEF RecordsFrom
    <3> QED
      BY <3>1, <3>2
  <2>5. h = [path \in Upper(Paths(q), n + 1) |-> RecordsFrom(response, h, path)]
    BY <2>4
  <2> HIDE DEF h
  <2> QED
    BY <2>5
<1> HIDE DEF B
<1>5. bound + 1 \in B
  BY <1>2, <1>3, <1>4, LevelByLevel
<1>6. PICK g : g = [path \in Upper(Paths(q), bound + 1) |-> RecordsFrom(response, g, path)]
  BY <1>5 DEF B
<1>7. g = [path \in Paths(q) |-> RecordsFrom(response, g, path)]
  BY <1>1, <1>6, Levels
<1>8. RecordsOf(response) = [path \in Paths(q) |-> RecordsFrom(response, RecordsOf(response), path)]
  BY <1>7 DEF RecordsOf, RecordsFrom
<1> QED
  BY <1>8

-----------------------------------------------------------------------------
(* Flat rows.                                                                *)

\* What makes the record of a path out of some rows, given that of the paths below.
FlatRecord(rows, record, path) ==
    [some \in SUBSET DOMAIN rows |->
        [f \in q.fields[path] |-> readField(rows[CHOOSE r \in some : TRUE], path, f)]
            ++ [r \in Refs(q, path) |->
                  IF JoinAt(q, Append(path, r)).many
                  THEN shapeRefMany(rows, some, Append(path, r), record[Append(path, r)])
                  ELSE shapeRefOne(rows, some, Append(path, r), record[Append(path, r)])]]

\* It depends on nothing but what shapes the relations below (shapeRefRecord).
LEMMA FlatCongruence ==
    ASSUME NEW rows, NEW g, NEW h, NEW path,
           \A r \in Refs(q, path) : g[Append(path, r)] = h[Append(path, r)]
    PROVE  FlatRecord(rows, g, path) = FlatRecord(rows, h, path)
<1> DEFINE of(record, some) ==
             [r \in Refs(q, path) |->
                IF JoinAt(q, Append(path, r)).many
                THEN shapeRefMany(rows, some, Append(path, r), record[Append(path, r)])
                ELSE shapeRefOne(rows, some, Append(path, r), record[Append(path, r)])]
           own(some) == [f \in q.fields[path] |-> readField(rows[CHOOSE r \in some : TRUE], path, f)]
<1>1. \A some : of(g, some) = of(h, some)
  OBVIOUS
<1>2. /\ FlatRecord(rows, g, path) = [some \in SUBSET DOMAIN rows |-> own(some) ++ of(g, some)]
      /\ FlatRecord(rows, h, path) = [some \in SUBSET DOMAIN rows |-> own(some) ++ of(h, some)]
  BY DEF FlatRecord
<1> HIDE DEF of, own
<1> QED
  BY <1>1, <1>2

\* shapeRefRecord is what it is defined as.
LEMMA FlatStep ==
    ASSUME Stripped, NEW rows
    PROVE  \A path \in Paths(q) : shapeRefRecord(rows)[path] = FlatRecord(rows, shapeRefRecord(rows), path)
<1>1. PICK bound \in Nat : \A path \in Paths(q) : Len(path) \in Nat /\ Len(path) <= bound
  BY BoundedTree
<1> DEFINE below(n) == Lower(Paths(q), bound, n)
           B == {n \in Nat : \E g : g = [path \in below(n) |-> FlatRecord(rows, g, path)]}
<1>2. B \subseteq Nat
  OBVIOUS
<1>3. 0 \in B
  <2> DEFINE g == [path \in {} |-> {}]
  <2>1. g = [path \in {} |-> FlatRecord(rows, g, path)]
    OBVIOUS
  <2> QED
    BY <1>1, <2>1, Levels
<1>4. ASSUME NEW n \in B PROVE n + 1 \in B
  <2>1. PICK g : g = [path \in below(n) |-> FlatRecord(rows, g, path)]
    OBVIOUS
  <2> DEFINE h == [path \in below(n + 1) |-> FlatRecord(rows, g, path)]
  <2>2. below(n) \subseteq below(n + 1)
    BY <1>1 DEF Lower
  <2>3. \A path \in below(n) : h[path] = g[path]
    BY <2>1, <2>2
  <2>4. ASSUME NEW path \in below(n + 1) PROVE FlatRecord(rows, g, path) = FlatRecord(rows, h, path)
    <3>1. ASSUME NEW r \in Refs(q, path) PROVE Append(path, r) \in below(n)
      <4>1. path \in Paths(q) /\ Len(path) + (n + 1) > bound
        BY DEF Lower
      <4>2. Append(path, r) \in Paths(q) /\ Len(Append(path, r)) = Len(path) + 1 /\ Len(path) \in Nat
        BY <4>1, ChildPath
      <4>3. Len(Append(path, r)) + n > bound
        BY <4>1, <4>2
      <4> QED
        BY <4>2, <4>3 DEF Lower
    <3> HIDE DEF h
    <3> QED
      BY <2>3, <3>1, FlatCongruence
  <2>5. h = [path \in below(n + 1) |-> FlatRecord(rows, h, path)]
    BY <2>4
  <2> HIDE DEF h
  <2> QED
    BY <2>5
<1>5. below(bound + 1) = Paths(q)
  BY <1>1, Levels
<1> HIDE DEF B, below
<1>6. bound + 1 \in B
  BY <1>2, <1>3, <1>4, LevelByLevel
<1>7. PICK g : g = [path \in Paths(q) |-> FlatRecord(rows, g, path)]
  BY <1>5, <1>6 DEF B
<1>8. shapeRefRecord(rows) = [path \in Paths(q) |-> FlatRecord(rows, shapeRefRecord(rows), path)]
  BY <1>7 DEF shapeRefRecord, FlatRecord
<1> QED
  BY <1>8

\* Rows that have only what the plan knows by name: its columns, its computed fields and the
\* entities of its polymorphic relations.
RowsOfPlan(rows) ==
    \A row \in DOMAIN rows : \A alias \in DOMAIN rows[row] :
        PlacesOf(alias) # {} \/ \E path : alias = Append(path, "$entity") /\ path \in polymorphicEntityColumns

\* A SELECT has the columns of the plan, and what is put into its rows the plan computes.
LEMMA SelectedRows == RowsOfPlan(buildSelectSql)
<1> DEFINE aliases == {rowAliasForPlanField(f) : f \in plan.fields}
           types == {Append(p, "$entity") : p \in polymorphicEntityColumns}
<1>1. \A row \in JoinedRows : DOMAIN SelectedColumns(row) = aliases \cup types
  BY DEF SelectedColumns, ++
<1>2. DOMAIN buildSelectSql = JoinedRows /\ \A row \in JoinedRows : buildSelectSql[row] = SelectedColumns(row)
  BY DEF buildSelectSql
<1> SUFFICES ASSUME NEW row \in DOMAIN buildSelectSql, NEW alias \in DOMAIN buildSelectSql[row]
             PROVE  PlacesOf(alias) # {} \/ \E path : alias = Append(path, "$entity") /\ path \in polymorphicEntityColumns
  BY DEF RowsOfPlan
<1>3. alias \in aliases \/ alias \in types
  BY <1>1, <1>2
<1>4. CASE alias \in aliases
  <2>1. PICK f \in plan.fields : rowAliasForPlanField(f) = alias
    BY <1>4
  <2>2. resolvePlanField(plan, f) \in PlacesOf(alias)
    BY <2>1 DEF PlacesOf
  <2> QED
    BY <2>2
<1>5. CASE alias \in types
  BY <1>5
<1> QED
  BY <1>3, <1>4, <1>5

\* injectComputedIntoFlatRows adds nothing that the plan does not know.
LEMMA ComputedRows ==
    ASSUME NEW columns, RowsOfPlan(columns)
    PROVE  RowsOfPlan(injectComputedIntoFlatRows(columns))
<1> DEFINE rows == injectComputedIntoFlatRows(columns)
           computed == UNION {computedKeys(entry) : entry \in plan.computed}
<1>1. DOMAIN rows = DOMAIN columns /\ \A row \in DOMAIN rows : DOMAIN rows[row] = computed \cup DOMAIN columns[row]
  BY DEF injectComputedIntoFlatRows, ++
<1> HIDE DEF rows
<1> SUFFICES ASSUME NEW row \in DOMAIN rows, NEW alias \in DOMAIN rows[row]
             PROVE  PlacesOf(alias) # {} \/ \E path : alias = Append(path, "$entity") /\ path \in polymorphicEntityColumns
  BY DEF RowsOfPlan, rows
<1>2. CASE alias \in computed
  <2>1. PICK entry \in plan.computed : alias \in computedKeys(entry)
    BY <1>2
  <2> QED
    BY <2>1 DEF PlacesOf
<1>3. CASE alias \in DOMAIN columns[row]
  BY <1>1, <1>3 DEF RowsOfPlan
<1> QED
  BY <1>1, <1>2, <1>3

\* The last of two words.
LEMMA PairLast ==
    ASSUME NEW first, NEW second
    PROVE  Last(<<first, second>>) = second
<1> DEFINE pair == <<first, second>>
<1>1. Len(pair) = 2 /\ pair[2] = second
  OBVIOUS
<1> HIDE DEF pair
<1>2. Last(pair) = second
  BY <1>1 DEF Last
<1> QED
  BY <1>2 DEF pair

\* The last of a sequence and one more word.
LEMMA AppendLast ==
    ASSUME NEW path \in Seq(STRING), NEW word
    PROVE  Last(Append(path, word)) = word
<1> DEFINE S == STRING \cup {word}
<1>1. path \in Seq(S) /\ word \in S
  BY SeqMonotonic
<1> HIDE DEF S
<1> QED
  BY <1>1, AppendParts

\* Whatever name a row may have for a field ends in the field's.
LEMMA KeyNames ==
    ASSUME NEW path \in Seq(STRING), NEW field \in STRING
    PROVE  /\ DOMAIN RowKeys(path, field) = 1..Len(RowKeys(path, field)) /\ Len(RowKeys(path, field)) \in Nat
           /\ \A k \in DOMAIN RowKeys(path, field) : Last(RowKeys(path, field)[k]) = field
<1>1. CASE path = <<>>
  <2>1. RowKeys(path, field) = <<<<q.name, field>>>>
    BY <1>1 DEF RowKeys
  <2> DEFINE key == <<q.name, field>>
  <2>2. Last(key) = field
    BY PairLast
  <2> HIDE DEF key
  <2>3. RowKeys(path, field) = <<key>>
    BY <2>1 DEF key
  <2>4. DOMAIN <<key>> = 1..1 /\ Len(<<key>>) = 1 /\ \A k \in 1..1 : <<key>>[k] = key
    OBVIOUS
  <2> QED
    BY <2>2, <2>3, <2>4
<1>2. CASE path # <<>>
  <2> DEFINE own == Append(path, field)
             bare == <<Last(path), field>>
  <2>1. Last(own) = field /\ Last(bare) = field
    BY AppendParts, PairLast
  <2>2. RowKeys(path, field) = <<own, bare>>
    BY <1>2 DEF RowKeys
  <2> HIDE DEF own, bare
  <2>3. /\ DOMAIN <<own, bare>> = 1..2 /\ Len(<<own, bare>>) = 2
        /\ \A k \in 1..2 : <<own, bare>>[k] = own \/ <<own, bare>>[k] = bare
    OBVIOUS
  <2> QED
    BY <2>1, <2>2, <2>3
<1> QED
  BY <1>1, <1>2

\* A place under whose alias a row may have a field at a path has a column or a computed field
\* of that name there.
LEMMA PlaceNames ==
    ASSUME Stripped, NEW alias, NEW path \in PlacesOf(alias)
    PROVE  \/ \E f \in plan.fields : resolvePlanField(plan, f) = path /\ Last(f) = Last(alias)
           \/ \E entry \in plan.computed : entry.path = path /\ entry.name = Last(alias)
<1>1. ASSUME NEW f \in plan.fields, rowAliasForPlanField(f) = alias
      PROVE  Last(f) = Last(alias)
  <2>1. CASE parseQualifiedPlanField(q, plan, f) = <<>>
    BY <1>1, <2>1, PairLast DEF rowAliasForPlanField
  <2>2. CASE parseQualifiedPlanField(q, plan, f) # <<>>
    BY <1>1, <2>2 DEF rowAliasForPlanField
  <2> QED
    BY <2>1, <2>2
<1>2. ASSUME NEW entry \in plan.computed, alias \in computedKeys(entry)
      PROVE  entry.name = Last(alias)
  <2>1. entry.path \in Seq(STRING) /\ entry.name \in STRING
    <3>1. entry \in planComputedFields(q)
      BY StrippedPlan
    <3>2. entry.path \in Paths(q) /\ entry.name \in q.fields[entry.path]
      BY <3>1, ComputedEntry
    <3> QED
      BY <3>2, QueryPaths DEF NamesAreStrings
  <2>2. CASE entry.path = <<>>
    <3>1. computedKeys(entry) = {<<TableOf[q.root], entry.name>>, <<q.root, entry.name>>}
      BY <2>2 DEF computedKeys
    <3>2. alias = <<TableOf[q.root], entry.name>> \/ alias = <<q.root, entry.name>>
      BY <1>2, <3>1
    <3> QED
      BY <3>2, PairLast
  <2>3. CASE entry.path # <<>>
    <3>1. alias = Append(entry.path, entry.name)
      BY <1>2, <2>3 DEF computedKeys
    <3> QED
      BY <2>1, <3>1, AppendParts
  <2> QED
    BY <2>2, <2>3
<1>3. \/ \E f \in plan.fields : rowAliasForPlanField(f) = alias /\ resolvePlanField(plan, f) = path
      \/ \E entry \in plan.computed : alias \in computedKeys(entry) /\ entry.path = path
  BY DEF PlacesOf
<1> QED
  BY <1>1, <1>2, <1>3

\* No row knows a denied field, where the field's names are not those of something elsewhere.
LEMMA DeniedIsUnread ==
    ASSUME Stripped, NEW rows, RowsOfPlan(rows), NEW row \in DOMAIN rows,
           NEW path \in Paths(q), NEW field \in q.fields[path],
           Denied(path, field), ~FoundElsewhere(path, field)
    PROVE  readField(rows[row], path, field) = Undefined
<1> DEFINE keys == RowKeys(path, field)
           known == {k \in DOMAIN keys : PlacesOf(keys[k]) # {}}
<1>1. path \in Seq(STRING) /\ field \in STRING /\ field # "$entity"
  BY QueryPaths DEF NamesAreStrings
<1>2. /\ DOMAIN keys = 1..Len(keys) /\ Len(keys) \in Nat
      /\ \A k \in DOMAIN keys : Last(keys[k]) = field
  BY <1>1, KeyNames
<1>3. ~\E k \in known : (\A j \in known : k <= j) /\ PlacesOf(keys[k]) # {path}
  BY DEF FoundElsewhere
<1> HIDE DEF keys
<1>4. known = {}
  <2> SUFFICES ASSUME known # {} PROVE FALSE
    OBVIOUS
  <2>1. known \subseteq Nat
    BY <1>2
  <2>2. PICK k \in known : \A j \in known : k <= j
    BY <2>1, LeastOf
  <2>3. path \in PlacesOf(keys[k]) /\ Last(keys[k]) = field
    BY <1>2, <1>3, <2>2
  <2>4. \/ \E f \in plan.fields : resolvePlanField(plan, f) = path /\ Last(f) = field
        \/ \E entry \in plan.computed : entry.path = path /\ entry.name = field
    BY <2>3, PlaceNames
  <2> QED
    BY <2>4, DeniedIsNoColumn, DeniedIsNotComputed
<1>5. \A k \in 1..Len(keys) : keys[k] \notin DOMAIN rows[row]
  <2> SUFFICES ASSUME NEW k \in 1..Len(keys), keys[k] \in DOMAIN rows[row] PROVE FALSE
    OBVIOUS
  <2>1. PICK at : keys[k] = Append(at, "$entity") /\ at \in polymorphicEntityColumns
    BY <1>2, <1>4 DEF RowsOfPlan
  <2>2. at \in Seq(STRING)
    <3>1. at \in plan.joins
      BY <2>1 DEF polymorphicEntityColumns
    <3> QED
      BY <3>1, PlanJoins
  <2>3. Last(keys[k]) = "$entity"
    BY <2>1, <2>2, AppendLast
  <2> QED
    BY <1>1, <1>2, <2>3
<1> QED
  BY <1>5 DEF readField, FirstOf, keys

\* Only a plan without a per-parent control reads flat rows, and then no list is in groups.
LEMMA FlatHasNoGroups ==
    ASSUME Stripped, plan.strategy = "flat", ~AggregateMode(q), NEW path \in Paths(q)
    PROVE  ControlAt(path) # "groupBy"
<1> SUFFICES ASSUME ControlAt(path) = "groupBy" PROVE FALSE
  OBVIOUS
<1>1. Controlled(q, path) /\ q.control.kind = "groupBy"
  BY DEF ControlAt, NoControl
<1>2. path # <<>>
  BY <1>1 DEF AggregateMode
<1>3. JoinAt(q, path).many
  BY <1>1, <1>2, StrippedPlan DEF normalizeReadTree, ControlAllowed
<1>4. perParent(q, path)
  BY <1>1, <1>2, <1>3 DEF perParent
<1> QED
  BY <1>4, StrippedPlan DEF chooseFetchStrategy

\* The records that are shaped from flat rows.
FlatRecords(rows, path) ==
    IF PolymorphicAt(q, path)
    THEN {shapePolymorphicOne(rows, some, path) : some \in SUBSET DOMAIN rows} \ {Null}
    ELSE {shapeRefRecord(rows)[path][some] : some \in (SUBSET DOMAIN rows) \ {{}}}

\* None of them has a value for a denied field.
LEMMA FlatRecordLacks ==
    ASSUME Stripped, NEW rows, RowsOfPlan(rows), NEW path \in Paths(q), NEW field \in q.fields[path],
           Denied(path, field), ~FoundElsewhere(path, field), NEW record \in FlatRecords(rows, path)
    PROVE  Get(record, field) = Undefined
<1>1. \A row \in DOMAIN rows : readField(rows[row], path, field) = Undefined
  BY DeniedIsUnread
<1>2. CASE PolymorphicAt(q, path)
  <2>1. PICK some \in SUBSET DOMAIN rows : record = shapePolymorphicOne(rows, some, path) /\ record # Null
    BY <1>2 DEF FlatRecords
  <2> DEFINE typed == {r \in some : ~Missing(readField(rows[r], path, "$entity"))}
             row == CHOOSE r \in typed : TRUE
             present == {f \in q.fields[path] : ~Missing(readField(rows[row], path, f))}
             type == [n \in {"$entity"} |-> readField(rows[row], path, n)]
             fields == [f \in present |-> readField(rows[row], path, f)]
  <2>2. typed # {} /\ record = type ++ fields
    BY <2>1 DEF shapePolymorphicOne
  <2>3. row \in DOMAIN rows
    BY <2>2
  <2>4. field \notin present
    <3>1. Missing(readField(rows[row], path, field))
      BY <1>1, <2>3 DEF Missing
    <3> HIDE DEF row
    <3> QED
      BY <3>1
  <2>5. DOMAIN record = {"$entity"} \cup present
    <3>1. DOMAIN type = {"$entity"} /\ DOMAIN fields = present
      OBVIOUS
    <3> HIDE DEF type, fields, present
    <3> QED
      BY <2>2, <3>1 DEF ++
  <2>6. field # "$entity"
    BY QueryPaths
  <2> QED
    BY <2>4, <2>5, <2>6 DEF Get
<1>3. CASE ~PolymorphicAt(q, path)
  <2>1. PICK some \in (SUBSET DOMAIN rows) \ {{}} : record = shapeRefRecord(rows)[path][some]
    BY <1>3 DEF FlatRecords
  <2> DEFINE row == CHOOSE r \in some : TRUE
             own == [f \in q.fields[path] |-> readField(rows[row], path, f)]
  <2>2. row \in DOMAIN rows
    BY <2>1
  <2>3. PICK rest : record = own ++ rest
    <3>1. record = FlatRecord(rows, shapeRefRecord(rows), path)[some]
      BY <2>1, FlatStep
    <3> QED
      BY <2>1, <3>1 DEF FlatRecord
  <2>4. DOMAIN own = q.fields[path] /\ own[field] = Undefined
    BY <1>1, <2>2
  <2> HIDE DEF own
  <2>5. field \in DOMAIN record /\ record[field] = own[field]
    BY <2>3, <2>4 DEF ++
  <2> QED
    BY <2>4, <2>5 DEF Get
<1> QED
  BY <1>2, <1>3

\* The records in a relation that is in no groups.
LEMMA PlainRecords ==
    ASSUME NEW value, NEW path, path # <<>>, ControlAt(path) # "groupBy" \/ ~FromSql
    PROVE  RecordsIn(value, path) =
             IF Missing(value) THEN {} ELSE IF JoinAt(q, path).many THEN DOMAIN value ELSE {value}
BY DEF RecordsIn

\* What a list of one relation is made of.
LEMMA FlatListMembers ==
    ASSUME NEW rows, NEW some \in SUBSET DOMAIN rows, NEW path, NEW record
    PROVE  DOMAIN shapeRefMany(rows, some, path, record)
             \subseteq {record[rs] : rs \in (SUBSET DOMAIN rows) \ {{}}}
<1> DEFINE id(r) == readField(rows[r], path, "id")
           ids == {id(r) : r \in some} \ {Null, Undefined}
           byId == [i \in ids |-> record[{r \in some : id(r) = i}]]
           each == [r \in some |-> record[{r}]]
<1>1. shapeRefMany(rows, some, path, record) = BagOf(byId) \/ shapeRefMany(rows, some, path, record) = BagOf(each)
  BY DEF shapeRefMany
<1>2. DOMAIN BagOf(byId) = {byId[i] : i \in ids} /\ DOMAIN BagOf(each) = {each[r] : r \in some}
  BY BagMembers
<1>3. \A i \in ids : byId[i] \in {record[rs] : rs \in (SUBSET DOMAIN rows) \ {{}}}
  <2> SUFFICES ASSUME NEW i \in ids PROVE byId[i] \in {record[rs] : rs \in (SUBSET DOMAIN rows) \ {{}}}
    OBVIOUS
  <2> DEFINE rs == {r \in some : id(r) = i}
  <2>1. rs \in (SUBSET DOMAIN rows) \ {{}}
    OBVIOUS
  <2>2. byId[i] = record[rs]
    OBVIOUS
  <2> QED
    BY <2>1, <2>2
<1>4. \A r \in some : each[r] \in {record[rs] : rs \in (SUBSET DOMAIN rows) \ {{}}}
  <2> SUFFICES ASSUME NEW r \in some PROVE each[r] \in {record[rs] : rs \in (SUBSET DOMAIN rows) \ {{}}}
    OBVIOUS
  <2>1. {r} \in (SUBSET DOMAIN rows) \ {{}} /\ each[r] = record[{r}]
    OBVIOUS
  <2> QED
    BY <2>1
<1> HIDE DEF byId, each, ids
<1> QED
  BY <1>1, <1>2, <1>3, <1>4

\* A relation of a record that is shaped from rows has records that are shaped from rows.
LEMMA FlatChild ==
    ASSUME Stripped, plan.strategy = "flat", ~AggregateMode(q), NEW rows,
           NEW path \in Paths(q), path # <<>>, NEW parent \in FlatRecords(rows, Front(path))
    PROVE  RecordsIn(Get(parent, Last(path)), path) \subseteq FlatRecords(rows, path)
<1> DEFINE before == Front(path)
           ref == Last(path)
           record == shapeRefRecord(rows)
           value == Get(parent, ref)
<1>1. /\ before \in Paths(q) /\ path \in Seq(STRING) /\ Append(before, ref) = path
      /\ <<EntityAt(q, before), ref>> \in DOMAIN Joins
  BY QueryPaths, PathParts
<1>2. ref \in Refs(q, before) /\ ref \notin q.fields[before]
  <2>1. ref \in Refs(q, before)
    BY DEF Refs
  <2> QED
    BY <1>1, <2>1, ChildPath
<1>3. ~PolymorphicAt(q, before)
  BY <1>1, <1>2, StrippedPlan DEF validateAst
<1>4. PICK some \in (SUBSET DOMAIN rows) \ {{}} : parent = record[before][some]
  BY <1>3 DEF FlatRecords
<1> DEFINE own == [f \in q.fields[before] |-> readField(rows[CHOOSE r \in some : TRUE], before, f)]
           rest == [r \in Refs(q, before) |->
                      IF JoinAt(q, Append(before, r)).many
                      THEN shapeRefMany(rows, some, Append(before, r), record[Append(before, r)])
                      ELSE shapeRefOne(rows, some, Append(before, r), record[Append(before, r)])]
<1>5. parent = own ++ rest
  <2>1. parent = FlatRecord(rows, record, before)[some]
    BY <1>1, <1>4, FlatStep
  <2> HIDE DEF record
  <2> QED
    BY <2>1 DEF FlatRecord
<1>6. value = IF JoinAt(q, path).many THEN shapeRefMany(rows, some, path, record[path])
              ELSE shapeRefOne(rows, some, path, record[path])
  <2>1. DOMAIN own = q.fields[before] /\ DOMAIN rest = Refs(q, before)
    OBVIOUS
  <2>2. rest[ref] = IF JoinAt(q, path).many THEN shapeRefMany(rows, some, path, record[path])
                    ELSE shapeRefOne(rows, some, path, record[path])
    <3> HIDE DEF before, ref, record
    <3> QED
      BY <1>1, <1>2
  <2> HIDE DEF own, rest, record, ref, before
  <2>3. ref \in DOMAIN parent /\ parent[ref] = rest[ref]
    BY <1>2, <1>5, <2>1 DEF ++
  <2> QED
    BY <2>2, <2>3 DEF Get
<1>7. RecordsIn(value, path) = IF Missing(value) THEN {} ELSE IF JoinAt(q, path).many THEN DOMAIN value ELSE {value}
  BY FlatHasNoGroups, PlainRecords
<1>8. validateJoin(JoinAt(q, path))
  BY <1>1, SchemaAssumption DEF JoinAt
<1> HIDE DEF value, record
<1>9. CASE JoinAt(q, path).many
  <2>1. ~PolymorphicAt(q, path)
    BY <1>8, <1>9 DEF validateJoin, PolymorphicAt
  <2>2. DOMAIN value \subseteq {record[path][rs] : rs \in (SUBSET DOMAIN rows) \ {{}}}
    BY <1>6, <1>9, FlatListMembers
  <2> QED
    BY <1>7, <1>9, <2>1, <2>2 DEF FlatRecords, record, value
<1>10. CASE ~JoinAt(q, path).many
  <2>1. value = shapeRefOne(rows, some, path, record[path])
    BY <1>6, <1>10
  <2>2. CASE PolymorphicAt(q, path)
    <3>1. value = shapePolymorphicOne(rows, some, path)
      BY <2>1, <2>2 DEF shapeRefOne
    <3> QED
      BY <1>7, <1>10, <2>2, <3>1 DEF FlatRecords, Missing, value
  <2>3. CASE ~PolymorphicAt(q, path)
    <3> DEFINE there == {r \in some : hasField(rows, some, path, "id") => ~Missing(readField(rows[r], path, "id"))}
    <3>1. value = IF there = {} THEN Null ELSE record[path][{CHOOSE r \in there : TRUE}]
      BY <2>1, <2>3 DEF shapeRefOne
    <3>2. there # {} => {CHOOSE r \in there : TRUE} \in (SUBSET DOMAIN rows) \ {{}}
      OBVIOUS
    <3> HIDE DEF there
    <3> QED
      BY <1>7, <1>10, <2>3, <3>1, <3>2 DEF FlatRecords, Missing, value, record
  <2> QED
    BY <2>2, <2>3
<1> QED
  BY <1>9, <1>10 DEF value

\* No record, or no value, is in what is missing.
LEMMA NoneInMissing ==
    ASSUME NEW value, Missing(value), NEW path
    PROVE  RecordsIn(value, path) = {}
BY DEF RecordsIn

\* The answer that is shaped from rows has only records that are.
LEMMA FlatWalk ==
    ASSUME Stripped, plan.strategy = "flat", ~AggregateMode(q), NEW rows, NEW response,
           RecordsOf(response)[<<>>] \subseteq FlatRecords(rows, <<>>) \cup {EmptyRecord}
    PROVE  \A path \in Paths(q) : RecordsOf(response)[path] \subseteq FlatRecords(rows, path) \cup {EmptyRecord}
<1>1. PICK bound \in Nat : \A path \in Paths(q) : Len(path) \in Nat /\ Len(path) <= bound
  BY BoundedTree
<1> DEFINE Good(path) == RecordsOf(response)[path] \subseteq FlatRecords(rows, path) \cup {EmptyRecord}
           B == {n \in Nat : \A path \in Upper(Paths(q), n) : Good(path)}
<1>2. B \subseteq Nat
  OBVIOUS
<1>3. 0 \in B
  BY <1>1, Levels
<1>4. ASSUME NEW n \in B PROVE n + 1 \in B
  <2> SUFFICES ASSUME NEW path \in Upper(Paths(q), n + 1) PROVE Good(path)
    OBVIOUS
  <2>1. path \in Paths(q) /\ Len(path) < n + 1
    BY DEF Upper
  <2>2. CASE path = <<>>
    BY <2>2
  <2>3. CASE path # <<>>
    <3>1. path \in Seq(STRING) /\ Front(path) \in Paths(q) /\ Len(Front(path)) = Len(path) - 1
      BY <2>1, <2>3, QueryPaths, PathParts
    <3>2. Front(path) \in Upper(Paths(q), n)
      BY <1>1, <2>1, <3>1 DEF Upper
    <3>3. Good(Front(path))
      BY <3>2
    <3> SUFFICES ASSUME NEW r \in RecordsOf(response)[path] PROVE r \in FlatRecords(rows, path)
      OBVIOUS
    <3>4. PICK parent \in RecordsOf(response)[Front(path)] : r \in RecordsIn(Get(parent, Last(path)), path)
      <4>1. RecordsOf(response)[path] = RecordsFrom(response, RecordsOf(response), path)
        BY <2>1, RecordsStep
      <4>2. RecordsOf(response)[path] = UNION {RecordsIn(Get(x, Last(path)), path) : x \in RecordsOf(response)[Front(path)]}
        BY <2>3, <4>1 DEF RecordsFrom
      <4> QED
        BY <4>2
    <3>5. CASE parent \in FlatRecords(rows, Front(path))
      BY <2>1, <2>3, <3>4, <3>5, FlatChild
    <3>6. CASE parent = EmptyRecord
      <4>1. Missing(Get(parent, Last(path)))
        BY <3>6 DEF EmptyRecord, Get, Missing
      <4> QED
        BY <3>4, <4>1, NoneInMissing
    <3> QED
      BY <3>3, <3>4, <3>5, <3>6
  <2> QED
    BY <2>2, <2>3
<1> HIDE DEF B
<1>5. bound + 1 \in B
  BY <1>2, <1>3, <1>4, LevelByLevel
<1>6. \A path \in Upper(Paths(q), bound + 1) : Good(path)
  BY <1>5 DEF B
<1>7. Upper(Paths(q), bound + 1) = Paths(q)
  BY <1>1, Levels
<1> QED
  BY <1>6, <1>7

\* What a read of flat rows answers with has the records that are shaped from them.
LEMMA FlatRoot ==
    ASSUME Stripped, plan.strategy = "flat", ~AggregateMode(q), NEW rows, NEW response,
           rows = [row \in DOMAIN rows |-> rows[row]],
           response = IF ListRead THEN shapeMany(rows) ELSE shape(rows)
    PROVE  RecordsOf(response)[<<>>] \subseteq FlatRecords(rows, <<>>) \cup {EmptyRecord}
<1>1. <<>> \in Paths(q) /\ ~PolymorphicAt(q, <<>>)
  BY QueryPaths DEF PolymorphicAt
<1>2. RecordsOf(response)[<<>>] = RecordsIn(response, <<>>) /\ ControlAt(<<>>) # "groupBy"
  BY <1>1, RecordsStep, FlatHasNoGroups DEF RecordsFrom
<1>3. RecordsIn(response, <<>>) \subseteq IF ListRead THEN DOMAIN response ELSE {response}
  BY <1>2 DEF RecordsIn
<1>4. FlatRecords(rows, <<>>) = {shapeRefRecord(rows)[<<>>][some] : some \in (SUBSET DOMAIN rows) \ {{}}}
  BY <1>1 DEF FlatRecords
<1>5. CASE ListRead
  <2>1. DOMAIN shapeRefMany(rows, DOMAIN rows, <<>>, shapeRefRecord(rows)[<<>>])
          \subseteq {shapeRefRecord(rows)[<<>>][some] : some \in (SUBSET DOMAIN rows) \ {{}}}
    <3> DEFINE record == shapeRefRecord(rows)[<<>>]
    <3> HIDE DEF record
    <3>1. DOMAIN rows \in SUBSET DOMAIN rows
      OBVIOUS
    <3>2. DOMAIN shapeRefMany(rows, DOMAIN rows, <<>>, record) \subseteq {record[some] : some \in (SUBSET DOMAIN rows) \ {{}}}
      BY <3>1, FlatListMembers
    <3> QED
      BY <3>2 DEF record
  <2>2. response = shapeRefMany(rows, DOMAIN rows, <<>>, shapeRefRecord(rows)[<<>>])
    BY <1>5 DEF shapeMany
  <2> QED
    BY <1>2, <1>3, <1>4, <1>5, <2>1, <2>2
<1>6. CASE ~ListRead
  <2>1. CASE rows = EmptyRecord
    BY <1>2, <1>3, <1>6, <2>1 DEF shape
  <2>2. CASE rows # EmptyRecord /\ DOMAIN rows # {}
    <3>1. response = shapeRefRecord(rows)[<<>>][DOMAIN rows]
      BY <1>6, <2>2 DEF shape
    <3> QED
      BY <1>2, <1>3, <1>4, <1>6, <2>2, <3>1
  <2>3. CASE rows # EmptyRecord /\ DOMAIN rows = {}
    BY <2>3 DEF EmptyRecord
  <2> QED
    BY <2>1, <2>2, <2>3
<1> QED
  BY <1>5, <1>6

\* So what the flat reads answer with has no value for a denied field.
LEMMA FlatLacks ==
    ASSUME Stripped, plan.strategy = "flat", ~AggregateMode(q),
           NEW response, NEW rows, rows = injectComputedIntoFlatRows(data), RowsOfPlan(data),
           response = IF ListRead THEN shapeMany(rows) ELSE shape(rows),
           NEW path \in Paths(q), NEW field \in q.fields[path],
           Denied(path, field), ~FoundElsewhere(path, field), NEW record \in RecordsOf(response)[path]
    PROVE  Get(record, field) = Undefined
<1>1. RowsOfPlan(rows)
  BY ComputedRows
<1>2. rows = [row \in DOMAIN rows |-> rows[row]]
  BY DEF injectComputedIntoFlatRows
<1>3. RecordsOf(response)[<<>>] \subseteq FlatRecords(rows, <<>>) \cup {EmptyRecord}
  BY <1>2, FlatRoot
<1>4. RecordsOf(response)[path] \subseteq FlatRecords(rows, path) \cup {EmptyRecord}
  BY <1>3, FlatWalk
<1>5. CASE record \in FlatRecords(rows, path)
  BY <1>1, <1>5, FlatRecordLacks
<1>6. CASE record = EmptyRecord
  BY <1>6 DEF EmptyRecord, Get
<1> QED
  BY <1>4, <1>5, <1>6

-----------------------------------------------------------------------------
(* Nested rows and the objects of an ORM.                                    *)

\* What makes the JSON objects of a path, given that of the paths below.
RenderedRecord(render, path) ==
    [scope \in Scopes(path) |-> [patch \in BOOLEAN |->
        LET object == Columns(path, scope[Len(path) + 1])
                        ++ [r \in childJoins(path) |->
                              renderRelation(Append(path, r), scope, patch \/ r \in jsonObject(path),
                                             render[Append(path, r)])]
        IN  mergePatch(object, IF patch THEN DOMAIN object ELSE jsonObject(path))]]

\* It depends on nothing but what renders the relations below (renderRecordObject).
LEMMA RenderedCongruence ==
    ASSUME NEW g, NEW h, NEW path,
           \A r \in childJoins(path) : g[Append(path, r)] = h[Append(path, r)]
    PROVE  RenderedRecord(g, path) = RenderedRecord(h, path)
<1> DEFINE of(render, scope, patch) ==
             [r \in childJoins(path) |->
                renderRelation(Append(path, r), scope, patch \/ r \in jsonObject(path), render[Append(path, r)])]
           own(scope) == Columns(path, scope[Len(path) + 1])
           merge(object, patch) == mergePatch(object, IF patch THEN DOMAIN object ELSE jsonObject(path))
<1>1. \A scope, patch : of(g, scope, patch) = of(h, scope, patch)
  OBVIOUS
<1>2. /\ RenderedRecord(g, path)
           = [scope \in Scopes(path) |-> [patch \in BOOLEAN |-> merge(own(scope) ++ of(g, scope, patch), patch)]]
      /\ RenderedRecord(h, path)
           = [scope \in Scopes(path) |-> [patch \in BOOLEAN |-> merge(own(scope) ++ of(h, scope, patch), patch)]]
  BY DEF RenderedRecord
<1> HIDE DEF of, own, merge
<1> QED
  BY <1>1, <1>2

\* A join below a path is one level deeper.
LEMMA ChildBelow ==
    ASSUME Stripped, NEW path \in plan.joins \cup {<<>>}, NEW r \in childJoins(path)
    PROVE  /\ Append(path, r) \in plan.joins /\ Len(path) \in Nat
           /\ Len(Append(path, r)) = Len(path) + 1
<1>1. path \in Paths(q) /\ Append(path, r) \in plan.joins
  BY ChildJoin
<1>2. path \in Seq(STRING)
  BY <1>1, QueryPaths
<1> QED
  BY <1>1, <1>2

\* renderRecordObject is what it is defined as.
LEMMA RenderedStep ==
    ASSUME Stripped
    PROVE  \A path \in plan.joins : renderRecordObject[path] = RenderedRecord(renderRecordObject, path)
<1>1. PICK bound \in Nat : \A path \in plan.joins : Len(path) \in Nat /\ Len(path) <= bound
  BY BoundedTree
<1> DEFINE below(n) == Lower(plan.joins, bound, n)
           B == {n \in Nat : \E g : g = [path \in below(n) |-> RenderedRecord(g, path)]}
<1>2. B \subseteq Nat
  OBVIOUS
<1>3. 0 \in B
  <2> DEFINE g == [path \in {} |-> {}]
  <2>1. g = [path \in {} |-> RenderedRecord(g, path)]
    OBVIOUS
  <2> QED
    BY <1>1, <2>1, Levels
<1>4. ASSUME NEW n \in B PROVE n + 1 \in B
  <2>1. PICK g : g = [path \in below(n) |-> RenderedRecord(g, path)]
    OBVIOUS
  <2> DEFINE h == [path \in below(n + 1) |-> RenderedRecord(g, path)]
  <2>2. below(n) \subseteq below(n + 1)
    BY <1>1 DEF Lower
  <2>3. \A path \in below(n) : h[path] = g[path]
    BY <2>1, <2>2
  <2>4. ASSUME NEW path \in below(n + 1) PROVE RenderedRecord(g, path) = RenderedRecord(h, path)
    <3>1. ASSUME NEW r \in childJoins(path) PROVE Append(path, r) \in below(n)
      BY <1>1, ChildBelow DEF Lower
    <3> HIDE DEF h
    <3> QED
      BY <2>3, <3>1, RenderedCongruence
  <2>5. h = [path \in below(n + 1) |-> RenderedRecord(h, path)]
    BY <2>4
  <2> HIDE DEF h
  <2> QED
    BY <2>5
<1>5. below(bound + 1) = plan.joins
  BY <1>1, Levels
<1> HIDE DEF B, below
<1>6. bound + 1 \in B
  BY <1>2, <1>3, <1>4, LevelByLevel
<1>7. PICK g : g = [path \in plan.joins |-> RenderedRecord(g, path)]
  BY <1>5, <1>6 DEF B
<1>8. renderRecordObject = [path \in plan.joins |-> RenderedRecord(renderRecordObject, path)]
  BY <1>7 DEF renderRecordObject, RenderedRecord
<1> QED
  BY <1>8

\* What makes the objects of an ORM at a path, given that of the paths below.
RelationNode(render, path) ==
    [ref \in References |->
        Columns(path, ref)
            ++ [r \in childJoins(path) |->
                  LET to   == Linked(ref, r)
                      node == render[Append(path, r)]
                  IN  IF JoinAt(q, Append(path, r)).many THEN [x \in to |-> node[x]]
                      ELSE IF to = {} THEN Null ELSE node[CHOOSE x \in to : TRUE]]]

\* It depends on nothing but the nodes of the relations below (toRelationNode).
LEMMA RelationCongruence ==
    ASSUME NEW g, NEW h, NEW path,
           \A r \in childJoins(path) : g[Append(path, r)] = h[Append(path, r)]
    PROVE  RelationNode(g, path) = RelationNode(h, path)
<1> DEFINE of(render, ref) ==
             [r \in childJoins(path) |->
                IF JoinAt(q, Append(path, r)).many THEN [x \in Linked(ref, r) |-> render[Append(path, r)][x]]
                ELSE IF Linked(ref, r) = {} THEN Null ELSE render[Append(path, r)][CHOOSE x \in Linked(ref, r) : TRUE]]
           own(ref) == Columns(path, ref)
<1>1. \A ref : of(g, ref) = of(h, ref)
  OBVIOUS
<1>2. /\ RelationNode(g, path) = [ref \in References |-> own(ref) ++ of(g, ref)]
      /\ RelationNode(h, path) = [ref \in References |-> own(ref) ++ of(h, ref)]
  BY DEF RelationNode
<1> HIDE DEF of, own
<1> QED
  BY <1>1, <1>2

\* toRelationNode is what it is defined as.
LEMMA RelationStep ==
    ASSUME Stripped
    PROVE  \A path \in plan.joins \cup {<<>>} : toRelationNode[path] = RelationNode(toRelationNode, path)
<1> DEFINE tree == plan.joins \cup {<<>>}
<1>1. PICK bound \in Nat : \A path \in tree : Len(path) \in Nat /\ Len(path) <= bound
  BY BoundedTree, QueryPaths
<1> DEFINE below(n) == Lower(tree, bound, n)
           B == {n \in Nat : \E g : g = [path \in below(n) |-> RelationNode(g, path)]}
<1> HIDE DEF tree
<1>2. B \subseteq Nat
  OBVIOUS
<1>3. 0 \in B
  <2> DEFINE g == [path \in {} |-> {}]
  <2>1. g = [path \in {} |-> RelationNode(g, path)]
    OBVIOUS
  <2> QED
    BY <1>1, <2>1, Levels
<1>4. ASSUME NEW n \in B PROVE n + 1 \in B
  <2>1. PICK g : g = [path \in below(n) |-> RelationNode(g, path)]
    OBVIOUS
  <2> DEFINE h == [path \in below(n + 1) |-> RelationNode(g, path)]
  <2>2. below(n) \subseteq below(n + 1)
    BY <1>1 DEF Lower
  <2>3. \A path \in below(n) : h[path] = g[path]
    BY <2>1, <2>2
  <2>4. ASSUME NEW path \in below(n + 1) PROVE RelationNode(g, path) = RelationNode(h, path)
    <3>1. ASSUME NEW r \in childJoins(path) PROVE Append(path, r) \in below(n)
      BY <1>1, ChildBelow DEF Lower, tree
    <3> HIDE DEF h
    <3> QED
      BY <2>3, <3>1, RelationCongruence
  <2>5. h = [path \in below(n + 1) |-> RelationNode(h, path)]
    BY <2>4
  <2> HIDE DEF h
  <2> QED
    BY <2>5
<1>5. below(bound + 1) = tree
  BY <1>1, Levels
<1> HIDE DEF B, below
<1>6. bound + 1 \in B
  BY <1>2, <1>3, <1>4, LevelByLevel
<1>7. PICK g : g = [path \in tree |-> RelationNode(g, path)]
  BY <1>5, <1>6 DEF B
<1>8. toRelationNode = [path \in tree |-> RelationNode(toRelationNode, path)]
  BY <1>7 DEF toRelationNode, RelationNode, tree
<1> QED
  BY <1>8 DEF tree

\* No control is at a relation of one.
LEMMA OneUncontrolled ==
    ASSUME Stripped, NEW path \in plan.joins, ~JoinAt(q, path).many
    PROVE  ControlAt(path) = NoControl
<1>1. q \in Queries /\ normalizeReadTree(q) /\ path # <<>>
  BY StrippedPlan, PlanJoins
<1>2. q.control.at \in Paths(q)
  BY <1>1, RequestAssumption
<1>3. ~Controlled(q, path)
  BY <1>1, <1>2 DEF normalizeReadTree, ControlAllowed, Controlled
<1> QED
  BY <1>3 DEF ControlAt

\* The groups in the value of a relation have their records in `items`.
Grouped(value, path) ==
    JoinAt(q, path).many /\ FromSql /\ ControlAt(path) = "groupBy" /\ ~Missing(value)
        => \A bucket \in Range(value) : "items" \in DOMAIN bucket

\* A relation in SQL has objects that were rendered for it.
LEMMA RenderedObjects ==
    ASSUME Stripped, FromSql, NEW path \in plan.joins, NEW scope, NEW patch \in BOOLEAN, NEW object, NEW O,
           \A ref \in References : \A b \in BOOLEAN : object[Append(scope, ref)][b] \in O,
           NEW value, value = renderRelation(path, scope, patch, object)
    PROVE  ObjectsIn(value, path) \subseteq O /\ Grouped(value, path)
<1> DEFINE many == JoinAt(q, path).many
           to == JoinedFrom(path, scope[Len(BoundTo(path)) + 1])
           window == Window(ControlAt(path), to)
           plain == patch /\ ~many
           records == [ref \in window |-> object[Append(scope, ref)][plain]]
<1>1. to \subseteq References
  BY DEF JoinedFrom, OwnRows, Linked
<1>2. window \subseteq to /\ (ControlAt(path) = NoControl => window = to)
  <2> HIDE DEF to
  <2> QED
    BY DEF Window, NoControl
<1>3. plain \in BOOLEAN
  OBVIOUS
<1>4. DOMAIN records = window /\ \A ref \in DOMAIN records : records[ref] \in O
  <2> HIDE DEF plain, to
  <2> QED
    BY <1>1, <1>2, <1>3
<1>5. value = IF ~many THEN IF to = {} THEN Null ELSE records[CHOOSE ref \in DOMAIN records : TRUE]
              ELSE IF ControlAt(path) = "groupBy" THEN Buckets(records) ELSE records
  <2>1. value = CASE ~many -> IF to = {} THEN Null ELSE records[CHOOSE ref \in DOMAIN records : TRUE]
                  [] many /\ ControlAt(path) = "groupBy" -> Buckets(records)
                  [] OTHER -> records
    BY DEF renderRelation
  <2> HIDE DEF records, many
  <2> QED
    BY <2>1
<1> HIDE DEF records, window, to, plain
<1>6. CASE ~many
  <2>1. value = Null \/ value \in O
    BY <1>2, <1>4, <1>5, <1>6, OneUncontrolled
  <2> QED
    BY <1>6, <2>1 DEF ObjectsIn, Missing, Grouped
<1>7. CASE many /\ ControlAt(path) = "groupBy"
  <2>1. \A k \in DOMAIN value : /\ "items" \in DOMAIN value[k]
                                /\ DOMAIN value[k].items \subseteq DOMAIN records
                                /\ \A ref \in DOMAIN value[k].items : value[k].items[ref] = records[ref]
    BY <1>5, <1>7 DEF Buckets
  <2>2. Range(value) = {value[k] : k \in DOMAIN value}
    BY DEF Range
  <2>3. ASSUME NEW bucket \in Range(value) PROVE "items" \in DOMAIN bucket /\ Range(bucket.items) \subseteq O
    BY <1>4, <2>1, <2>2 DEF Range
  <2>4. ObjectsIn(value, path) \subseteq UNION {Range(bucket.items) : bucket \in Range(value)}
    BY <1>7 DEF ObjectsIn
  <2> QED
    BY <2>3, <2>4 DEF Grouped
<1>8. CASE many /\ ControlAt(path) # "groupBy"
  <2>1. value = records
    BY <1>5, <1>8
  <2>2. Range(records) \subseteq O
    BY <1>4 DEF Range
  <2> QED
    BY <1>8, <2>1, <2>2 DEF ObjectsIn, Grouped
<1> QED
  BY <1>6, <1>7, <1>8

\* The objects that are made for a path.
Objects(path) ==
    IF resolver = "orm" THEN {toRelationNode[path][ref] : ref \in References}
    ELSE IF path = <<>> THEN {buildNestedSelectSql[ref] : ref \in Roots}
    ELSE UNION {{renderRecordObject[path][scope][patch] : patch \in BOOLEAN} : scope \in Scopes(path)}

\* What an object has: its columns and relations, and in a relation the objects made for it.
WellMade(object, path) ==
    /\ DOMAIN object \subseteq joinFields(path) \cup childJoins(path)
    /\ \A r \in childJoins(path) :
          /\ ObjectsIn(Get(object, r), Append(path, r)) \subseteq Objects(Append(path, r))
          /\ Grouped(Get(object, r), Append(path, r))

\* Nothing is below a polymorphic relation.
LEMMA ChildOfOne ==
    ASSUME Stripped, NEW path \in plan.joins \cup {<<>>}, NEW ref \in childJoins(path)
    PROVE  ~PolymorphicAt(q, path)
<1>1. /\ path \in Paths(q) /\ Append(path, ref) \in plan.joins /\ path \in Seq(STRING) /\ ref \in STRING
      /\ Front(Append(path, ref)) = path /\ Last(Append(path, ref)) = ref
  BY ChildJoin, QueryPaths
<1>2. Append(path, ref) \in ensureJoin(q)
  BY <1>1, StrippedPlan
<1>3. CASE Append(path, ref) \in Paths(q) \ {<<>>}
  <2>1. ref \in Refs(q, path)
    BY <1>1, <1>3 DEF Refs
  <2> QED
    BY <1>1, <2>1, StrippedPlan DEF validateAst
<1>4. CASE Append(path, ref) \notin Paths(q) \ {<<>>}
  <2>1. PICK entry \in planComputedFields(q) : \E dep \in from(entry) : Append(path, ref) = Append(entry.path, dep[1])
    BY <1>2, <1>4 DEF ensureJoin
  <2>2. entry.path \in Paths(q) /\ isComputedField(q, entry.path, entry.name)
    BY <2>1, ComputedEntry
  <2>3. entry.path \in Seq(STRING)
    BY <2>2, QueryPaths
  <2>4. PICK word : Append(path, ref) = Append(entry.path, word)
    BY <2>1
  <2>5. entry.path = path
    BY <1>1, <2>3, <2>4
  <2> QED
    BY <2>2, <2>5 DEF isComputedField
<1> QED
  BY <1>3, <1>4

\* An object with a path's columns and these relations.
Holds(object, path, relations) ==
    /\ DOMAIN object = joinFields(path) \cup childJoins(path)
    /\ \A r \in childJoins(path) : object[r] = relations[r]

\* A child's name is not a column's, so its value is the relation's.
LEMMA ColumnsAndRelations ==
    ASSUME Stripped, NEW path \in plan.joins \cup {<<>>}, NEW ref, NEW relations,
           DOMAIN relations = childJoins(path)
    PROVE  Holds(Columns(path, ref) ++ relations, path, relations)
<1>1. DOMAIN Columns(path, ref) = joinFields(path)
  BY DEF Columns
<1>2. \A r \in childJoins(path) : r \notin joinFields(path)
  BY ChildJoin, ChildOfOne
<1> HIDE DEF Columns
<1>3. DOMAIN (Columns(path, ref) ++ relations) = joinFields(path) \cup childJoins(path)
  BY <1>1 DEF ++
<1>4. \A r \in childJoins(path) : (Columns(path, ref) ++ relations)[r] = relations[r]
  BY <1>1, <1>2 DEF ++
<1> QED
  BY <1>3, <1>4 DEF Holds

\* What is rendered below a record is an object made for its relation.
LEMMA RenderedBelow ==
    ASSUME Stripped, FromSql, NEW path \in Paths(q), NEW r \in childJoins(path), NEW scope \in Scopes(path),
           NEW patch \in BOOLEAN, NEW value,
           value = renderRelation(Append(path, r), scope, patch, renderRecordObject[Append(path, r)])
    PROVE  ObjectsIn(value, Append(path, r)) \subseteq Objects(Append(path, r)) /\ Grouped(value, Append(path, r))
<1> DEFINE p == Append(path, r)
<1>1. /\ p \in plan.joins /\ p # <<>> /\ Len(path) \in Nat /\ Len(p) = Len(path) + 1
  <2>1. path \in plan.joins \cup {<<>>}
    BY PlanJoins
  <2> QED
    BY <2>1, ChildBelow, PlanJoins
<1>2. resolver # "orm"
  BY DEF FromSql
<1>3. ASSUME NEW ref \in References PROVE Append(scope, ref) \in Scopes(p)
  <2> HIDE DEF p
  <2>1. scope \in [1..(Len(path) + 1) -> References]
    BY DEF Scopes
  <2>2. Append(scope, ref) \in [1..(Len(path) + 2) -> References]
    <3>1. scope \in Seq(References) /\ Len(scope) = Len(path) + 1
      BY <1>1, <2>1
    <3>2. Append(scope, ref) \in Seq(References) /\ Len(Append(scope, ref)) = Len(path) + 2
      BY <1>1, <3>1
    <3> QED
      BY <3>2, LenProperties
  <2> QED
    BY <1>1, <2>2 DEF Scopes
<1>4. \A ref \in References : \A b \in BOOLEAN : renderRecordObject[p][Append(scope, ref)][b] \in Objects(p)
  <2> HIDE DEF p
  <2> QED
    BY <1>1, <1>2, <1>3 DEF Objects
<1> HIDE DEF p
<1>5. value = renderRelation(p, scope, patch, renderRecordObject[p])
  BY DEF p
<1>6. ObjectsIn(value, p) \subseteq Objects(p) /\ Grouped(value, p)
  BY <1>1, <1>4, <1>5, RenderedObjects
<1> QED
  BY <1>6 DEF p

\* No value of a relation is no object.
LEMMA NothingBelow ==
    ASSUME NEW path
    PROVE  ObjectsIn(Undefined, path) = {} /\ Grouped(Undefined, path)
BY DEF ObjectsIn, Grouped, Missing

\* The rows of the root are rows of an entity.
LEMMA RootsAreReferred ==
    ASSUME Stripped
    PROVE  Roots \subseteq References
<1> SUFFICES ASSUME NEW ref \in Roots PROVE ref \in References
  OBVIOUS
<1>1. q.root \in Entities
  BY QueryPaths, EntityRoot
<1>2. PICK id \in Ids(q.root) : ref = <<q.root, id>>
  BY DEF Roots
<1>3. ref \in {<<q.root, i>> : i \in Ids(q.root)}
  BY <1>2
<1>4. ref \in UNION {{<<e, i>> : i \in Ids(e)} : e \in Entities}
  BY <1>1, <1>3
<1> QED
  BY <1>4 DEF References

\* The rows of a nested SELECT are well made.
LEMMA NestedRow ==
    ASSUME Stripped, FromSql, NEW ref \in Roots
    PROVE  WellMade(buildNestedSelectSql[ref], <<>>)
<1> DEFINE relations == [r \in childJoins(<<>>) |->
                           renderRelation(<<r>>, <<ref>>, FALSE, renderRecordObject[<<r>>])]
           row == Columns(<<>>, ref) ++ relations
<1>1. buildNestedSelectSql[ref] = row
  BY DEF buildNestedSelectSql
<1>2. <<>> \in Paths(q) /\ \A r \in childJoins(<<>>) : <<r>> = Append(<<>>, r)
  BY QueryPaths
<1>3. ref \in References
  BY RootsAreReferred
<1>4. <<ref>> \in Scopes(<<>>)
  <2>1. <<ref>> \in [1..1 -> References]
    BY <1>3
  <2> QED
    BY <2>1 DEF Scopes
<1>5. DOMAIN relations = childJoins(<<>>)
  OBVIOUS
<1>6. ASSUME NEW r \in childJoins(<<>>)
      PROVE  /\ ObjectsIn(relations[r], Append(<<>>, r)) \subseteq Objects(Append(<<>>, r))
             /\ Grouped(relations[r], Append(<<>>, r))
  <2>1. relations[r] = renderRelation(Append(<<>>, r), <<ref>>, FALSE, renderRecordObject[Append(<<>>, r)])
    BY <1>2
  <2> HIDE DEF relations
  <2> QED
    BY <1>2, <1>4, <2>1, RenderedBelow
<1> HIDE DEF relations
<1>7. DOMAIN row = joinFields(<<>>) \cup childJoins(<<>>) /\ \A r \in childJoins(<<>>) : row[r] = relations[r]
  <2>1. <<>> \in plan.joins \cup {<<>>}
    OBVIOUS
  <2>2. Holds(row, <<>>, relations)
    BY <1>5, <2>1, ColumnsAndRelations
  <2> HIDE DEF row
  <2> QED
    BY <2>2 DEF Holds
<1> HIDE DEF row
<1> QED
  BY <1>1, <1>6, <1>7 DEF WellMade, Get

\* The JSON objects of the records below them are, what patches drop included.
LEMMA RenderedRow ==
    ASSUME Stripped, FromSql, NEW path \in plan.joins \cap Paths(q), NEW scope \in Scopes(path), NEW patch \in BOOLEAN
    PROVE  WellMade(renderRecordObject[path][scope][patch], path)
<1> DEFINE patched(r) == patch \/ r \in jsonObject(path)
           relations == [r \in childJoins(path) |->
                           renderRelation(Append(path, r), scope, patched(r), renderRecordObject[Append(path, r)])]
           ref == scope[Len(path) + 1]
           object == Columns(path, ref) ++ relations
           names == IF patch THEN DOMAIN object ELSE jsonObject(path)
           row == renderRecordObject[path][scope][patch]
<1>1. row = mergePatch(object, names)
  <2>1. renderRecordObject[path] = RenderedRecord(renderRecordObject, path)
    BY RenderedStep
  <2>2. RenderedRecord(renderRecordObject, path)[scope][patch] = mergePatch(object, names)
    BY DEF RenderedRecord
  <2> HIDE DEF object, names
  <2> QED
    BY <2>1, <2>2
<1>2. DOMAIN relations = childJoins(path)
  OBVIOUS
<1>3. ASSUME NEW r \in childJoins(path)
      PROVE  /\ ObjectsIn(relations[r], Append(path, r)) \subseteq Objects(Append(path, r))
             /\ Grouped(relations[r], Append(path, r))
  <2>1. relations[r] = renderRelation(Append(path, r), scope, patched(r), renderRecordObject[Append(path, r)])
    OBVIOUS
  <2>2. patched(r) \in BOOLEAN
    OBVIOUS
  <2> HIDE DEF relations, patched
  <2> QED
    BY <2>1, <2>2, RenderedBelow
<1> HIDE DEF relations, ref
<1>4. DOMAIN object = joinFields(path) \cup childJoins(path) /\ \A r \in childJoins(path) : object[r] = relations[r]
  <2>1. path \in plan.joins \cup {<<>>}
    OBVIOUS
  <2>2. Holds(object, path, relations)
    BY <1>2, <2>1, ColumnsAndRelations
  <2> HIDE DEF object
  <2> QED
    BY <2>2 DEF Holds
<1> HIDE DEF object, names
<1>5. DOMAIN row \subseteq DOMAIN object /\ \A n \in DOMAIN row : row[n] = object[n]
  BY <1>1 DEF mergePatch, Restrict
<1> HIDE DEF row
<1>6. \A r \in childJoins(path) : Get(row, r) \in {relations[r], Undefined}
  BY <1>4, <1>5 DEF Get
<1>7. WellMade(row, path)
  BY <1>3, <1>4, <1>5, <1>6, NothingBelow DEF WellMade
<1> QED
  BY <1>7 DEF row

\* The objects of an ORM are.
LEMMA RelatedRow ==
    ASSUME Stripped, resolver = "orm", NEW path \in plan.joins \cup {<<>>}, NEW ref \in References
    PROVE  WellMade(toRelationNode[path][ref], path)
<1> DEFINE node(r) == toRelationNode[Append(path, r)]
           to(r) == Linked(ref, r)
           relations == [r \in childJoins(path) |->
                           IF JoinAt(q, Append(path, r)).many THEN [x \in to(r) |-> node(r)[x]]
                           ELSE IF to(r) = {} THEN Null ELSE node(r)[CHOOSE x \in to(r) : TRUE]]
           object == Columns(path, ref) ++ relations
<1>1. toRelationNode[path][ref] = object
  <2>1. toRelationNode[path] = RelationNode(toRelationNode, path)
    BY RelationStep
  <2>2. RelationNode(toRelationNode, path)[ref] = object
    BY DEF RelationNode
  <2> HIDE DEF object
  <2> QED
    BY <2>1, <2>2
<1>2. DOMAIN relations = childJoins(path)
  OBVIOUS
<1>3. ASSUME NEW r \in childJoins(path)
      PROVE  /\ ObjectsIn(relations[r], Append(path, r)) \subseteq Objects(Append(path, r))
             /\ Grouped(relations[r], Append(path, r))
  <2>1. to(r) \subseteq References
    BY DEF Linked
  <2>2. \A x \in to(r) : node(r)[x] \in Objects(Append(path, r))
    <3> HIDE DEF to
    <3> QED
      BY <2>1 DEF Objects
  <2>3. relations[r] = IF JoinAt(q, Append(path, r)).many THEN [x \in to(r) |-> node(r)[x]]
                       ELSE IF to(r) = {} THEN Null ELSE node(r)[CHOOSE x \in to(r) : TRUE]
    OBVIOUS
  <2> HIDE DEF to, node, relations
  <2>4. ~FromSql
    BY DEF FromSql
  <2>5. CASE JoinAt(q, Append(path, r)).many
    <3>1. Range([x \in to(r) |-> node(r)[x]]) \subseteq Objects(Append(path, r))
      BY <2>2 DEF Range
    <3> QED
      BY <2>3, <2>4, <2>5, <3>1 DEF ObjectsIn, Grouped
  <2>6. CASE ~JoinAt(q, Append(path, r)).many
    <3>1. relations[r] = Null \/ relations[r] \in Objects(Append(path, r))
      BY <2>2, <2>3, <2>6
    <3> QED
      BY <2>6, <3>1 DEF ObjectsIn, Grouped, Missing
  <2> QED
    BY <2>5, <2>6
<1> HIDE DEF relations
<1>4. DOMAIN object = joinFields(path) \cup childJoins(path) /\ \A r \in childJoins(path) : object[r] = relations[r]
  <2>1. Holds(object, path, relations)
    BY <1>2, ColumnsAndRelations
  <2> HIDE DEF object
  <2> QED
    BY <2>1 DEF Holds
<1> HIDE DEF object
<1> QED
  BY <1>1, <1>3, <1>4 DEF WellMade, Get

\* An object that is made for a path is well made.
LEMMA MadeWell ==
    ASSUME Stripped, FromSql \/ resolver = "orm", NEW path \in Paths(q), NEW object \in Objects(path)
    PROVE  WellMade(object, path)
<1>1. path \in plan.joins \cup {<<>>}
  BY PlanJoins
<1>2. CASE resolver = "orm"
  BY <1>1, <1>2, RelatedRow DEF Objects
<1>3. CASE FromSql /\ path = <<>>
  <2>1. PICK ref \in Roots : object = buildNestedSelectSql[ref]
    BY <1>3 DEF Objects, FromSql
  <2> QED
    BY <1>3, <2>1, NestedRow
<1>4. CASE FromSql /\ path # <<>>
  <2>1. PICK scope \in Scopes(path), patch \in BOOLEAN : object = renderRecordObject[path][scope][patch]
    BY <1>4 DEF Objects, FromSql
  <2>2. path \in plan.joins \cap Paths(q)
    BY <1>1, <1>4
  <2> QED
    BY <1>4, <2>1, <2>2, RenderedRow
<1> QED
  BY <1>2, <1>3, <1>4

\* Objects for every path, each with its columns and relations, and with objects of its relations'
\* paths in those.
Family(O) ==
    \A path \in Paths(q) : \A object \in O[path] :
        /\ DOMAIN object \subseteq joinFields(path) \cup childJoins(path)
        /\ \A r \in childJoins(path) :
              /\ ObjectsIn(Get(object, r), Append(path, r)) \subseteq O[Append(path, r)]
              /\ Grouped(Get(object, r), Append(path, r))

\* What is fetched for nested shaping, or by an ORM, is of such a family.
Nested(objects) == \E O : Range(objects) \subseteq O[<<>>] /\ Family(O)

\* What the resolvers made for the paths of a plan is (buildNestedSelectSql, buildPlanRelationTree).
LEMMA FetchedIsNested ==
    ASSUME Stripped, FromSql \/ resolver = "orm", NEW objects, Range(objects) \subseteq Objects(<<>>)
    PROVE  Nested(objects)
<1> DEFINE O == [path \in plan.joins \cup {<<>>} |-> Objects(path)]
<1>1. O[<<>>] = Objects(<<>>)
  OBVIOUS
<1>2. ASSUME NEW path \in Paths(q), NEW object \in O[path], NEW r \in childJoins(path)
      PROVE  O[Append(path, r)] = Objects(Append(path, r))
  BY PlanJoins, ChildJoin
<1>3. ASSUME NEW path \in Paths(q), NEW object \in O[path] PROVE WellMade(object, path)
  BY PlanJoins, MadeWell
<1> HIDE DEF O
<1>4. Family(O)
  BY <1>2, <1>3 DEF Family, WellMade
<1> QED
  BY <1>1, <1>4 DEF Nested

\* Each object below the root is in a value of one at the path before.
ObjectsFrom(objects, path) ==
    IF path = <<>> THEN Range(data) \cup {EmptyRecord}
    ELSE UNION {ObjectsIn(Get(obj, Last(path)), path) : obj \in objects[Front(path)]}

\* ObjectsAt is what it is defined as.
LEMMA ObjectsStep ==
    ASSUME Stripped
    PROVE  \A path \in plan.joins \cup {<<>>} : ObjectsAt[path] = ObjectsFrom(ObjectsAt, path)
<1> DEFINE tree == plan.joins \cup {<<>>}
           B == {n \in Nat : \E g : g = [path \in Upper(tree, n) |-> ObjectsFrom(g, path)]}
<1>1. PICK bound \in Nat : \A path \in tree : Len(path) \in Nat /\ Len(path) <= bound
  BY BoundedTree, QueryPaths
<1> HIDE DEF tree
<1>2. B \subseteq Nat
  OBVIOUS
<1>3. 0 \in B
  <2> DEFINE g == [path \in {} |-> {}]
  <2>1. g = [path \in {} |-> ObjectsFrom(g, path)]
    OBVIOUS
  <2> QED
    BY <1>1, <2>1, Levels
<1>4. ASSUME NEW n \in B PROVE n + 1 \in B
  <2>1. PICK g : g = [path \in Upper(tree, n) |-> ObjectsFrom(g, path)]
    OBVIOUS
  <2> DEFINE h == [path \in Upper(tree, n + 1) |-> ObjectsFrom(g, path)]
  <2>2. Upper(tree, n) \subseteq Upper(tree, n + 1)
    BY <1>1 DEF Upper
  <2>3. \A path \in Upper(tree, n) : h[path] = g[path]
    BY <2>1, <2>2
  <2>4. ASSUME NEW path \in Upper(tree, n + 1) PROVE ObjectsFrom(g, path) = ObjectsFrom(h, path)
    <3>1. CASE path = <<>>
      BY <3>1 DEF ObjectsFrom
    <3>2. CASE path # <<>>
      <4>1. path \in tree /\ path \in Seq(STRING) /\ Front(path) \in tree
        BY <3>2, PlanJoins DEF Upper, tree
      <4>2. Front(path) \in Upper(tree, n)
        <5>1. Len(path) \in Nat /\ Len(Front(path)) = Len(path) - 1 /\ Len(path) < n + 1
          BY <3>2, <4>1, PathParts DEF Upper
        <5> QED
          BY <4>1, <5>1 DEF Upper
      <4>3. h[Front(path)] = g[Front(path)]
        BY <2>3, <4>2
      <4> HIDE DEF h
      <4> QED
        BY <3>2, <4>3 DEF ObjectsFrom
    <3> QED
      BY <3>1, <3>2
  <2>5. h = [path \in Upper(tree, n + 1) |-> ObjectsFrom(h, path)]
    BY <2>4
  <2> HIDE DEF h
  <2> QED
    BY <2>5
<1> HIDE DEF B
<1>5. bound + 1 \in B
  BY <1>2, <1>3, <1>4, LevelByLevel
<1>6. PICK g : g = [path \in Upper(tree, bound + 1) |-> ObjectsFrom(g, path)]
  BY <1>5 DEF B
<1>7. g = [path \in tree |-> ObjectsFrom(g, path)]
  BY <1>1, <1>6, Levels
<1>8. ObjectsAt = [path \in tree |-> ObjectsFrom(ObjectsAt, path)]
  BY <1>7 DEF ObjectsAt, ObjectsFrom, tree
<1> QED
  BY <1>8 DEF tree

\* What is at a path was made for it, or is the record of no row.
LEMMA ObjectsMade ==
    ASSUME Stripped, NEW O, Range(data) \subseteq O[<<>>], Family(O)
    PROVE  \A path \in plan.joins \cup {<<>>} : ObjectsAt[path] \subseteq O[path] \cup {EmptyRecord}
<1> DEFINE tree == plan.joins \cup {<<>>}
           Good(path) == ObjectsAt[path] \subseteq O[path] \cup {EmptyRecord}
           B == {n \in Nat : \A path \in Upper(tree, n) : Good(path)}
<1>1. PICK bound \in Nat : \A path \in tree : Len(path) \in Nat /\ Len(path) <= bound
  BY BoundedTree, QueryPaths
<1>2. B \subseteq Nat
  OBVIOUS
<1>3. 0 \in B
  BY <1>1, Levels
<1>4. ASSUME NEW n \in B PROVE n + 1 \in B
  <2>1. ASSUME NEW path \in Upper(tree, n + 1) PROVE Good(path)
    <3>1. path \in tree /\ Len(path) < n + 1
      BY DEF Upper
    <3>2. CASE path = <<>>
      <4>1. ObjectsAt[<<>>] = Range(data) \cup {EmptyRecord}
        <5>1. ObjectsAt[<<>>] = ObjectsFrom(ObjectsAt, <<>>)
          BY ObjectsStep
        <5> QED
          BY <5>1 DEF ObjectsFrom
      <4> QED
        BY <3>2, <4>1
    <3>3. CASE path # <<>>
      <4>1. path \in plan.joins /\ path \in Seq(STRING) /\ Front(path) \in Paths(q) /\ Append(Front(path), Last(path)) = path
        BY <3>1, <3>3, PlanJoins
      <4>2. Len(Front(path)) = Len(path) - 1 /\ Front(path) \in tree
        BY <3>3, <4>1, PathParts, PlanJoins
      <4>3. Front(path) \in Upper(tree, n)
        BY <1>1, <3>1, <4>2 DEF Upper
      <4>4. Good(Front(path))
        BY <4>3
      <4>5. Last(path) \in childJoins(Front(path))
        BY <4>1 DEF childJoins
      <4>6. ObjectsAt[path] = UNION {ObjectsIn(Get(obj, Last(path)), path) : obj \in ObjectsAt[Front(path)]}
        <5>1. ObjectsAt[path] = ObjectsFrom(ObjectsAt, path)
          BY <3>1, ObjectsStep
        <5> QED
          BY <3>3, <5>1 DEF ObjectsFrom
      <4>7. ASSUME NEW obj \in ObjectsAt[Front(path)] PROVE ObjectsIn(Get(obj, Last(path)), path) \subseteq O[path]
        <5>1. CASE obj \in O[Front(path)]
          BY <4>1, <4>5, <5>1 DEF Family
        <5>2. CASE obj = EmptyRecord
          <6>1. Get(obj, Last(path)) = Undefined
            BY <5>2 DEF Get, EmptyRecord
          <6> QED
            BY <6>1, NothingBelow
        <5> QED
          BY <4>4, <5>1, <5>2
      <4> QED
        BY <4>6, <4>7
    <3> QED
      BY <3>2, <3>3
  <2>2. \A path \in Upper(tree, n + 1) : Good(path)
    BY <2>1
  <2>3. n + 1 \in Nat
    OBVIOUS
  <2> HIDE DEF Good, tree
  <2> QED
    BY <2>2, <2>3
<1> HIDE DEF B
<1>5. bound + 1 \in B
  BY <1>2, <1>3, <1>4, LevelByLevel
<1>6. \A path \in Upper(tree, bound + 1) : Good(path)
  BY <1>5 DEF B
<1>7. Upper(tree, bound + 1) = tree
  BY <1>1, Levels
<1> QED
  BY <1>6, <1>7

\* So an object at a path has its columns and relations, and what is in those is at the paths below.
LEMMA ObjectAt ==
    ASSUME Stripped, Nested(data),
           NEW path \in Paths(q), NEW object \in ObjectsAt[path]
    PROVE  /\ DOMAIN object \subseteq joinFields(path) \cup childJoins(path)
           /\ \A r \in childJoins(path) :
                 /\ ObjectsIn(Get(object, r), Append(path, r)) \subseteq ObjectsAt[Append(path, r)]
                 /\ Grouped(Get(object, r), Append(path, r))
<1>1. path \in plan.joins \cup {<<>>}
  BY PlanJoins
<1> PICK O : Range(data) \subseteq O[<<>>] /\ Family(O)
  BY DEF Nested
<1>2. object \in O[path] \/ object = EmptyRecord
  BY <1>1, ObjectsMade
<1>3. ASSUME NEW r \in childJoins(path)
      PROVE  ObjectsIn(Get(object, r), Append(path, r)) \subseteq ObjectsAt[Append(path, r)]
  <2>1. /\ Append(path, r) \in plan.joins /\ Append(path, r) # <<>>
        /\ Front(Append(path, r)) = path /\ Last(Append(path, r)) = r
    BY <1>1, ChildJoin, PlanJoins
  <2>2. ObjectsAt[Append(path, r)] = ObjectsFrom(ObjectsAt, Append(path, r))
    BY <2>1, ObjectsStep
  <2>3. ObjectsAt[Append(path, r)] = UNION {ObjectsIn(Get(obj, r), Append(path, r)) : obj \in ObjectsAt[path]}
    BY <2>1, <2>2 DEF ObjectsFrom
  <2> QED
    BY <2>3
<1>4. CASE object \in O[path]
  BY <1>3, <1>4 DEF Family
<1>5. CASE object = EmptyRecord
  <2>1. DOMAIN object = {} /\ \A r : Get(object, r) = Undefined
    BY <1>5 DEF EmptyRecord, Get
  <2> QED
    BY <1>3, <2>1, NothingBelow
<1> QED
  BY <1>2, <1>4, <1>5

\* What a value of a relation is shaped into, given what its records are.
ShapedValue(value, path, record) ==
    IF Missing(value) THEN IF FromSql THEN Null ELSE value
    ELSE IF ~JoinAt(q, path).many THEN record[value]
    ELSE IF FromSql /\ ControlAt(path) = "groupBy"
    THEN BagOf([x \in DOMAIN value |-> shapeBucket(value[x], record)])
    ELSE BagOf([x \in DOMAIN value |-> record[value[x]]])

\* What shapes the objects of a path, given what shapes those below.
ShapedRecord(record, path) ==
    [obj \in ObjectsAt[path] |->
        [f \in q.fields[path] |-> SelectedValue(obj, path, f)]
            ++ [r \in Refs(q, path) |-> ShapedValue(Get(obj, r), Append(path, r), record[Append(path, r)])]]

\* It depends on nothing but what shapes the relations below (shapeNested).
LEMMA ShapedCongruence ==
    ASSUME NEW g, NEW h, NEW path,
           \A r \in Refs(q, path) : g[Append(path, r)] = h[Append(path, r)]
    PROVE  ShapedRecord(g, path) = ShapedRecord(h, path)
<1> DEFINE of(record, obj) ==
             [r \in Refs(q, path) |-> ShapedValue(Get(obj, r), Append(path, r), record[Append(path, r)])]
           own(obj) == [f \in q.fields[path] |-> SelectedValue(obj, path, f)]
<1>1. \A obj : of(g, obj) = of(h, obj)
  OBVIOUS
<1>2. /\ ShapedRecord(g, path) = [obj \in ObjectsAt[path] |-> own(obj) ++ of(g, obj)]
      /\ ShapedRecord(h, path) = [obj \in ObjectsAt[path] |-> own(obj) ++ of(h, obj)]
  BY DEF ShapedRecord
<1> HIDE DEF of, own
<1> QED
  BY <1>1, <1>2

\* shapeNested is what it is defined as.
LEMMA ShapedStep ==
    ASSUME Stripped
    PROVE  \A path \in Paths(q) : shapeNested[path] = ShapedRecord(shapeNested, path)
<1>1. PICK bound \in Nat : \A path \in Paths(q) : Len(path) \in Nat /\ Len(path) <= bound
  BY BoundedTree
<1> DEFINE below(n) == Lower(Paths(q), bound, n)
           B == {n \in Nat : \E g : g = [path \in below(n) |-> ShapedRecord(g, path)]}
<1>2. B \subseteq Nat
  OBVIOUS
<1>3. 0 \in B
  <2> DEFINE g == [path \in {} |-> {}]
  <2>1. g = [path \in {} |-> ShapedRecord(g, path)]
    OBVIOUS
  <2> QED
    BY <1>1, <2>1, Levels
<1>4. ASSUME NEW n \in B PROVE n + 1 \in B
  <2>1. PICK g : g = [path \in below(n) |-> ShapedRecord(g, path)]
    OBVIOUS
  <2> DEFINE h == [path \in below(n + 1) |-> ShapedRecord(g, path)]
  <2>2. below(n) \subseteq below(n + 1)
    BY <1>1 DEF Lower
  <2>3. \A path \in below(n) : h[path] = g[path]
    BY <2>1, <2>2
  <2>4. ASSUME NEW path \in below(n + 1) PROVE ShapedRecord(g, path) = ShapedRecord(h, path)
    <3>1. ASSUME NEW r \in Refs(q, path) PROVE Append(path, r) \in below(n)
      <4>1. path \in Paths(q) /\ Len(path) + (n + 1) > bound
        BY DEF Lower
      <4>2. Append(path, r) \in Paths(q) /\ Len(Append(path, r)) = Len(path) + 1 /\ Len(path) \in Nat
        BY <4>1, ChildPath
      <4>3. Len(Append(path, r)) + n > bound
        BY <4>1, <4>2
      <4> QED
        BY <4>2, <4>3 DEF Lower
    <3> HIDE DEF h
    <3> QED
      BY <2>3, <3>1, ShapedCongruence
  <2>5. h = [path \in below(n + 1) |-> ShapedRecord(h, path)]
    BY <2>4
  <2> HIDE DEF h
  <2> QED
    BY <2>5
<1>5. below(bound + 1) = Paths(q)
  BY <1>1, Levels
<1> HIDE DEF B, below
<1>6. bound + 1 \in B
  BY <1>2, <1>3, <1>4, LevelByLevel
<1>7. PICK g : g = [path \in Paths(q) |-> ShapedRecord(g, path)]
  BY <1>5, <1>6 DEF B
<1>8. shapeNested = [path \in Paths(q) |-> ShapedRecord(shapeNested, path)]
  BY <1>7 DEF shapeNested, ShapedRecord, ShapedValue
<1> QED
  BY <1>8

\* What leaves the objects of a path as they are, given what does those below.
ReturnedRecord(record, path) ==
    [obj \in ObjectsAt[path] |->
        [n \in DOMAIN obj |->
            IF Append(path, n) \notin plan.joins \/ Missing(obj[n]) THEN obj[n]
            ELSE IF JoinAt(q, Append(path, n)).many
            THEN BagOf([x \in DOMAIN obj[n] |-> record[Append(path, n)][obj[n][x]]])
            ELSE record[Append(path, n)][obj[n]]]]

\* It depends on nothing but what is done with the relations below.
LEMMA ReturnedCongruence ==
    ASSUME NEW g, NEW h, NEW path,
           \A n : Append(path, n) \in plan.joins => g[Append(path, n)] = h[Append(path, n)]
    PROVE  ReturnedRecord(g, path) = ReturnedRecord(h, path)
<1> DEFINE many(obj, n, record) == BagOf([x \in DOMAIN obj[n] |-> record[obj[n][x]]])
           value(record, obj, n) ==
             IF Append(path, n) \notin plan.joins \/ Missing(obj[n]) THEN obj[n]
             ELSE IF JoinAt(q, Append(path, n)).many THEN many(obj, n, record[Append(path, n)])
             ELSE record[Append(path, n)][obj[n]]
           of(record, obj) == [n \in DOMAIN obj |-> value(record, obj, n)]
<1>1. \A obj, n : value(g, obj, n) = value(h, obj, n)
  <2> HIDE DEF many
  <2> QED
    OBVIOUS
<1>2. /\ ReturnedRecord(g, path) = [obj \in ObjectsAt[path] |-> of(g, obj)]
      /\ ReturnedRecord(h, path) = [obj \in ObjectsAt[path] |-> of(h, obj)]
  BY DEF ReturnedRecord
<1> HIDE DEF value
<1> QED
  BY <1>1, <1>2

\* AsReturned is what it is defined as.
LEMMA ReturnedStep ==
    ASSUME Stripped
    PROVE  \A path \in plan.joins \cup {<<>>} : AsReturned[path] = ReturnedRecord(AsReturned, path)
<1> DEFINE tree == plan.joins \cup {<<>>}
<1>1. PICK bound \in Nat : \A path \in tree : Len(path) \in Nat /\ Len(path) <= bound
  BY BoundedTree, QueryPaths
<1> DEFINE below(n) == Lower(tree, bound, n)
           B == {n \in Nat : \E g : g = [path \in below(n) |-> ReturnedRecord(g, path)]}
<1> HIDE DEF tree
<1>2. B \subseteq Nat
  OBVIOUS
<1>3. 0 \in B
  <2> DEFINE g == [path \in {} |-> {}]
  <2>1. g = [path \in {} |-> ReturnedRecord(g, path)]
    OBVIOUS
  <2> QED
    BY <1>1, <2>1, Levels
<1>4. ASSUME NEW n \in B PROVE n + 1 \in B
  <2>1. PICK g : g = [path \in below(n) |-> ReturnedRecord(g, path)]
    OBVIOUS
  <2> DEFINE h == [path \in below(n + 1) |-> ReturnedRecord(g, path)]
  <2>2. below(n) \subseteq below(n + 1)
    BY <1>1 DEF Lower
  <2>3. \A path \in below(n) : h[path] = g[path]
    BY <2>1, <2>2
  <2>4. ASSUME NEW path \in below(n + 1) PROVE ReturnedRecord(g, path) = ReturnedRecord(h, path)
    <3>1. ASSUME NEW r, Append(path, r) \in plan.joins PROVE Append(path, r) \in below(n)
      <4>1. path \in tree /\ Len(path) + (n + 1) > bound /\ Append(path, r) \in tree
        BY <3>1 DEF Lower, tree
      <4>2. path \in Seq(STRING)
        BY <4>1, PlanJoins, QueryPaths DEF tree
      <4>3. Len(Append(path, r)) = Len(path) + 1
        BY <4>2
      <4> QED
        BY <1>1, <4>1, <4>3 DEF Lower
    <3> HIDE DEF h
    <3> QED
      BY <2>3, <3>1, ReturnedCongruence
  <2>5. h = [path \in below(n + 1) |-> ReturnedRecord(h, path)]
    BY <2>4
  <2> HIDE DEF h
  <2> QED
    BY <2>5
<1>5. below(bound + 1) = tree
  BY <1>1, Levels
<1> HIDE DEF B, below
<1>6. bound + 1 \in B
  BY <1>2, <1>3, <1>4, LevelByLevel
<1>7. PICK g : g = [path \in tree |-> ReturnedRecord(g, path)]
  BY <1>5, <1>6 DEF B
<1>8. AsReturned = [path \in tree |-> ReturnedRecord(AsReturned, path)]
  BY <1>7 DEF AsReturned, ReturnedRecord, tree
<1> QED
  BY <1>8 DEF tree

\* The records in what a value of a relation is shaped into are those of its objects.
LEMMA ShapedRecords ==
    ASSUME NEW path, path # <<>>, ~JoinAt(q, path).many => ControlAt(path) = NoControl,
           NEW record, NEW value, Grouped(value, path)
    PROVE  RecordsIn(ShapedValue(value, path, record), path) \subseteq {record[o] : o \in ObjectsIn(value, path)}
<1> DEFINE many == JoinAt(q, path).many
           groups == FromSql /\ ControlAt(path) = "groupBy"
           out == ShapedValue(value, path, record)
<1>1. CASE Missing(value)
  <2>1. Missing(out)
    BY <1>1 DEF ShapedValue, Missing
  <2> QED
    BY <2>1 DEF RecordsIn
<1>2. CASE ~Missing(value) /\ ~many
  <2>1. out = record[value] /\ ~groups
    BY <1>2 DEF ShapedValue, NoControl
  <2>2. RecordsIn(out, path) \subseteq {out} /\ ObjectsIn(value, path) = {value}
    BY <1>2, <2>1 DEF RecordsIn, ObjectsIn
  <2> QED
    BY <2>1, <2>2
<1>3. CASE ~Missing(value) /\ many /\ groups
  <2> DEFINE bucket(x) == shapeBucket(value[x], record)
             buckets == [x \in DOMAIN value |-> bucket(x)]
  <2>1. out = BagOf(buckets)
    BY <1>3 DEF ShapedValue
  <2>2. DOMAIN out = {bucket(x) : x \in DOMAIN value}
    <3>1. DOMAIN BagOf(buckets) = {buckets[x] : x \in DOMAIN buckets}
      BY BagMembers
    <3> HIDE DEF bucket
    <3> QED
      BY <2>1, <3>1
  <2>3. RecordsIn(out, path) \subseteq UNION {DOMAIN b.items : b \in DOMAIN out}
    BY <1>3 DEF RecordsIn
  <2>4. ObjectsIn(value, path) = UNION {Range(b.items) : b \in Range(value)}
    BY <1>3 DEF ObjectsIn
  <2>5. ASSUME NEW x \in DOMAIN value
        PROVE  DOMAIN bucket(x).items \subseteq {record[o] : o \in ObjectsIn(value, path)}
    <3> DEFINE items == value[x].items
               shaped == [y \in DOMAIN items |-> record[items[y]]]
    <3>1. value[x] \in Range(value) /\ "items" \in DOMAIN value[x]
      BY <1>3 DEF Range, Grouped
    <3>2. bucket(x).items = BagOf(shaped)
      BY <3>1 DEF shapeBucket
    <3>3. DOMAIN BagOf(shaped) = {shaped[y] : y \in DOMAIN shaped}
      BY BagMembers
    <3>4. \A y \in DOMAIN items : items[y] \in ObjectsIn(value, path)
      BY <2>4, <3>1 DEF Range
    <3> HIDE DEF items, bucket
    <3> QED
      BY <3>2, <3>3, <3>4
  <2> HIDE DEF bucket, out
  <2> QED
    BY <2>2, <2>3, <2>5 DEF out
<1>4. CASE ~Missing(value) /\ many /\ ~groups
  <2> DEFINE shaped == [x \in DOMAIN value |-> record[value[x]]]
  <2>1. out = BagOf(shaped)
    BY <1>4 DEF ShapedValue
  <2>2. DOMAIN BagOf(shaped) = {shaped[x] : x \in DOMAIN shaped}
    BY BagMembers
  <2>3. RecordsIn(out, path) \subseteq DOMAIN out
    BY <1>4 DEF RecordsIn
  <2>4. \A x \in DOMAIN value : value[x] \in ObjectsIn(value, path)
    BY <1>4 DEF ObjectsIn, Range
  <2> HIDE DEF out
  <2>5. RecordsIn(out, path) \subseteq {record[o] : o \in ObjectsIn(value, path)}
    BY <2>1, <2>2, <2>3, <2>4
  <2> QED
    BY <2>5 DEF out
<1> QED
  BY <1>1, <1>2, <1>3, <1>4

\* What shapes the objects of a path for the answer.
Shapes(path) == IF LeftAsReturned THEN AsReturned[path] ELSE shapeNested[path]

\* The records in a relation of one are shaped from the objects there.
LEMMA ShapedBelow ==
    ASSUME Stripped, Nested(data),
           NEW path \in Paths(q), NEW ref \in Refs(q, path), NEW object \in ObjectsAt[path]
    PROVE  RecordsIn(Get(Shapes(path)[object], ref), Append(path, ref))
             \subseteq {Shapes(Append(path, ref))[o] : o \in ObjectsAt[Append(path, ref)]}
<1> DEFINE p == Append(path, ref)
           value == Get(object, ref)
           out == Get(Shapes(path)[object], ref)
<1>1. /\ p \in Paths(q) /\ p \in plan.joins /\ p # <<>> /\ ref \in childJoins(path) /\ ref \notin q.fields[path]
      /\ path \in plan.joins \cup {<<>>}
  BY ChildPath, PlanJoins
<1>2. /\ ObjectsIn(value, p) \subseteq ObjectsAt[p] /\ Grouped(value, p)
      /\ ~JoinAt(q, p).many => ControlAt(p) = NoControl
  BY <1>1, ObjectAt, OneUncontrolled
<1>3. CASE ~LeftAsReturned
  <2>1. Shapes(path) = shapeNested[path] /\ Shapes(p) = shapeNested[p]
    BY <1>3 DEF Shapes
  <2>2. out = ShapedValue(value, p, shapeNested[p])
    <3> DEFINE own == [f \in q.fields[path] |-> SelectedValue(object, path, f)]
               rest == [r \in Refs(q, path) |-> ShapedValue(Get(object, r), Append(path, r), shapeNested[Append(path, r)])]
    <3>1. shapeNested[path][object] = own ++ rest
      <4>1. shapeNested[path] = ShapedRecord(shapeNested, path)
        BY ShapedStep
      <4>2. ShapedRecord(shapeNested, path)[object] = own ++ rest
        BY DEF ShapedRecord
      <4> HIDE DEF own, rest
      <4> QED
        BY <4>1, <4>2
    <3>2. DOMAIN own = q.fields[path] /\ DOMAIN rest = Refs(q, path)
      OBVIOUS
    <3>3. rest[ref] = ShapedValue(value, p, shapeNested[p])
      OBVIOUS
    <3> HIDE DEF own, rest
    <3>4. ref \in DOMAIN (own ++ rest) /\ (own ++ rest)[ref] = rest[ref]
      BY <1>1, <3>2 DEF ++
    <3>5. Get(own ++ rest, ref) = rest[ref]
      BY <3>4 DEF Get
    <3> QED
      BY <2>1, <3>1, <3>3, <3>5
  <2>3. RecordsIn(ShapedValue(value, p, shapeNested[p]), p) \subseteq {shapeNested[p][o] : o \in ObjectsIn(value, p)}
    BY <1>1, <1>2, ShapedRecords
  <2> HIDE DEF p, value, out
  <2>4. RecordsIn(out, p) \subseteq {Shapes(p)[o] : o \in ObjectsAt[p]}
    BY <1>2, <2>1, <2>2, <2>3
  <2> QED
    BY <2>4 DEF p, out
<1>4. CASE LeftAsReturned
  <2>1. Shapes(path) = AsReturned[path] /\ Shapes(p) = AsReturned[p] /\ ~FromSql
    BY <1>4 DEF Shapes, LeftAsReturned, FromSql
  <2> DEFINE each == [x \in DOMAIN object[ref] |-> AsReturned[p][object[ref][x]]]
             kept(n) == IF Append(path, n) \notin plan.joins \/ Missing(object[n]) THEN object[n]
                        ELSE IF JoinAt(q, Append(path, n)).many
                        THEN BagOf([x \in DOMAIN object[n] |-> AsReturned[Append(path, n)][object[n][x]]])
                        ELSE AsReturned[Append(path, n)][object[n]]
  <2>2. AsReturned[path][object] = [n \in DOMAIN object |-> kept(n)]
    <3>1. AsReturned[path] = ReturnedRecord(AsReturned, path)
      BY <1>1, ReturnedStep
    <3>2. ReturnedRecord(AsReturned, path)[object] = [n \in DOMAIN object |-> kept(n)]
      BY DEF ReturnedRecord
    <3> HIDE DEF kept
    <3> QED
      BY <3>1, <3>2
  <2>3. CASE ref \notin DOMAIN object
    <3>1. out = Undefined
      <4> HIDE DEF kept
      <4> QED
        BY <2>1, <2>2, <2>3 DEF Get
    <3> QED
      BY <3>1, NoneInMissing DEF Missing
  <2>4. CASE ref \in DOMAIN object
    <3>1. value = object[ref] /\ out = kept(ref)
      <4> HIDE DEF kept
      <4> QED
        BY <2>1, <2>2, <2>4 DEF Get
    <3>2. RecordsIn(out, p) = IF Missing(out) THEN {} ELSE IF JoinAt(q, p).many THEN DOMAIN out ELSE {out}
      BY <1>1, <2>1 DEF RecordsIn
    <3>3. out = IF Missing(value) THEN value ELSE IF JoinAt(q, p).many THEN BagOf(each) ELSE AsReturned[p][value]
      BY <1>1, <3>1
    <3>4. DOMAIN BagOf(each) = {each[x] : x \in DOMAIN each}
      BY BagMembers
    <3>5. ObjectsIn(value, p) = IF Missing(value) THEN {} ELSE IF JoinAt(q, p).many THEN Range(value) ELSE {value}
      BY <2>1 DEF ObjectsIn
    <3>6. {each[x] : x \in DOMAIN each} = {AsReturned[p][o] : o \in Range(value)}
      BY <3>1 DEF Range
    <3> HIDE DEF p, value, out, each, kept
    <3>7. RecordsIn(out, p) \subseteq {AsReturned[p][o] : o \in ObjectsAt[p]}
      <4>1. CASE Missing(value)
        BY <3>2, <3>3, <4>1
      <4>2. CASE ~Missing(value) /\ JoinAt(q, p).many
        <5>1. out = BagOf(each) /\ Range(value) \subseteq ObjectsAt[p]
          BY <1>2, <3>3, <3>5, <4>2
        <5>2. RecordsIn(out, p) \subseteq {each[x] : x \in DOMAIN each}
          BY <3>2, <3>4, <4>2, <5>1
        <5> QED
          BY <3>6, <5>1, <5>2
      <4>3. CASE ~Missing(value) /\ ~JoinAt(q, p).many
        <5>1. out = AsReturned[p][value] /\ value \in ObjectsAt[p]
          BY <1>2, <3>3, <3>5, <4>3
        <5> QED
          BY <3>2, <4>3, <5>1
      <4> QED
        BY <4>1, <4>2, <4>3
    <3> QED
      BY <2>1, <3>7 DEF p, out
  <2> QED
    BY <2>3, <2>4
<1> QED
  BY <1>3, <1>4

\* The records of an answer whose own record, or list, is shaped from objects are shaped from objects.
LEMMA ShapedWalk ==
    ASSUME Stripped, Nested(data), NEW response,
           RecordsOf(response)[<<>>] \subseteq {Shapes(<<>>)[o] : o \in ObjectsAt[<<>>]}
    PROVE  \A path \in Paths(q) : RecordsOf(response)[path] \subseteq {Shapes(path)[o] : o \in ObjectsAt[path]}
<1>1. PICK bound \in Nat : \A path \in Paths(q) : Len(path) \in Nat /\ Len(path) <= bound
  BY BoundedTree
<1> DEFINE Good(path) == RecordsOf(response)[path] \subseteq {Shapes(path)[o] : o \in ObjectsAt[path]}
           B == {n \in Nat : \A path \in Upper(Paths(q), n) : Good(path)}
<1>2. B \subseteq Nat
  OBVIOUS
<1>3. 0 \in B
  BY <1>1, Levels
<1>4. ASSUME NEW n \in B PROVE n + 1 \in B
  <2>1. ASSUME NEW path \in Upper(Paths(q), n + 1) PROVE Good(path)
    <3>1. path \in Paths(q) /\ Len(path) < n + 1
      BY DEF Upper
    <3>2. CASE path = <<>>
      BY <3>2
    <3>3. CASE path # <<>>
      <4> DEFINE before == Front(path)
                 ref == Last(path)
      <4>1. path \in Seq(STRING) /\ before \in Paths(q) /\ Len(before) = Len(path) - 1 /\ Append(before, ref) = path
        BY <3>1, <3>3, QueryPaths, PathParts
      <4>2. before \in Upper(Paths(q), n)
        BY <1>1, <3>1, <4>1 DEF Upper
      <4>3. Good(before)
        BY <4>2
      <4>4. ref \in Refs(q, before)
        BY <3>1, <3>3 DEF Refs
      <4>5. RecordsOf(response)[path] = UNION {RecordsIn(Get(x, ref), path) : x \in RecordsOf(response)[before]}
        <5>1. RecordsOf(response)[path] = RecordsFrom(response, RecordsOf(response), path)
          BY <3>1, RecordsStep
        <5> QED
          BY <3>3, <5>1 DEF RecordsFrom
      <4>6. ASSUME NEW x \in RecordsOf(response)[before]
            PROVE  RecordsIn(Get(x, ref), path) \subseteq {Shapes(path)[o] : o \in ObjectsAt[path]}
        <5>1. PICK object \in ObjectsAt[before] : x = Shapes(before)[object]
          BY <4>3
        <5> HIDE DEF before, ref
        <5>2. RecordsIn(Get(Shapes(before)[object], ref), Append(before, ref))
                \subseteq {Shapes(Append(before, ref))[o] : o \in ObjectsAt[Append(before, ref)]}
          BY <4>1, <4>4, ShapedBelow
        <5> QED
          BY <4>1, <5>1, <5>2
      <4> QED
        BY <4>5, <4>6
    <3> QED
      BY <3>2, <3>3
  <2>2. \A path \in Upper(Paths(q), n + 1) : Good(path)
    BY <2>1
  <2>3. n + 1 \in Nat
    OBVIOUS
  <2> HIDE DEF Good
  <2> QED
    BY <2>2, <2>3
<1> HIDE DEF B
<1>5. bound + 1 \in B
  BY <1>2, <1>3, <1>4, LevelByLevel
<1>6. \A path \in Upper(Paths(q), bound + 1) : Good(path)
  BY <1>5 DEF B
<1>7. Upper(Paths(q), bound + 1) = Paths(q)
  BY <1>1, Levels
<1> QED
  BY <1>6, <1>7

\* What a nested read, or one by an ORM, answers with.
ShapedAnswer(response) ==
    LET shaped == [x \in DOMAIN data |-> Shapes(<<>>)[data[x]]]
    IN  \/ response = BagOf(shaped) /\ ListRead
        \/ ~ListRead /\ \/ \E x \in DOMAIN data : response = shaped[x]
                        \/ response = Shapes(<<>>)[EmptyRecord]
                        \/ response = Null

\* Its own record, or the records of its list, are shaped from those of the resolver (shapeResponse).
LEMMA ShapedRoot ==
    ASSUME Stripped, Nested(data), NEW response, ~AggregateMode(q), ShapedAnswer(response)
    PROVE  RecordsOf(response)[<<>>] \subseteq {Shapes(<<>>)[o] : o \in ObjectsAt[<<>>]}
<1> DEFINE shaped == [x \in DOMAIN data |-> Shapes(<<>>)[data[x]]]
<1>1. ControlAt(<<>>) # "groupBy"
  BY DEF AggregateMode, ControlAt, NoControl
<1>2. RecordsOf(response)[<<>>] = RecordsIn(response, <<>>)
  BY QueryPaths, RecordsStep DEF RecordsFrom
<1>3. RecordsOf(response)[<<>>] = IF Missing(response) THEN {} ELSE IF ListRead THEN DOMAIN response ELSE {response}
  BY <1>1, <1>2 DEF RecordsIn
<1>4. ObjectsAt[<<>>] = Range(data) \cup {EmptyRecord}
  BY ObjectsStep DEF ObjectsFrom
<1>5. \A x \in DOMAIN data : shaped[x] \in {Shapes(<<>>)[o] : o \in ObjectsAt[<<>>]}
  <2> SUFFICES ASSUME NEW x \in DOMAIN data PROVE shaped[x] \in {Shapes(<<>>)[o] : o \in ObjectsAt[<<>>]}
    OBVIOUS
  <2>1. data[x] \in ObjectsAt[<<>>] /\ shaped[x] = Shapes(<<>>)[data[x]]
    BY <1>4 DEF Range
  <2> QED
    BY <2>1
<1>6. DOMAIN BagOf(shaped) = {shaped[x] : x \in DOMAIN data}
  <2>1. DOMAIN BagOf(shaped) = {shaped[x] : x \in DOMAIN shaped}
    BY BagMembers
  <2> QED
    BY <2>1
<1>7. CASE response = BagOf(shaped) /\ ListRead
  <2> HIDE DEF shaped
  <2> QED
    BY <1>3, <1>5, <1>6, <1>7
<1>8. CASE ~ListRead /\ \E x \in DOMAIN data : response = shaped[x]
  <2> HIDE DEF shaped
  <2> QED
    BY <1>3, <1>5, <1>8
<1>9. CASE ~ListRead /\ response = Shapes(<<>>)[EmptyRecord]
  BY <1>3, <1>4, <1>9
<1>10. CASE response = Null
  BY <1>3, <1>10 DEF Missing
<1> QED
  BY <1>7, <1>8, <1>9, <1>10 DEF ShapedAnswer

\* No record that is shaped from an object has a value for a denied field.
LEMMA ShapedLacks ==
    ASSUME Stripped, Nested(data), ~ReadFlat,
           NEW path \in Paths(q), NEW field \in q.fields[path], Denied(path, field),
           ~(ComputedRevived /\ isComputedField(q, path, field)), NEW object \in ObjectsAt[path]
    PROVE  Get(Shapes(path)[object], field) = Undefined
<1>1. field \notin DOMAIN object
  BY ObjectAt, DeniedIsNoName
<1>2. CASE LeftAsReturned
  <2> DEFINE kept(n) == IF Append(path, n) \notin plan.joins \/ Missing(object[n]) THEN object[n]
                        ELSE IF JoinAt(q, Append(path, n)).many
                        THEN BagOf([x \in DOMAIN object[n] |-> AsReturned[Append(path, n)][object[n][x]]])
                        ELSE AsReturned[Append(path, n)][object[n]]
  <2>1. AsReturned[path] = ReturnedRecord(AsReturned, path)
    BY PlanJoins, ReturnedStep
  <2>2. ReturnedRecord(AsReturned, path)[object] = [n \in DOMAIN object |-> kept(n)]
    BY DEF ReturnedRecord
  <2> HIDE DEF kept
  <2>3. Shapes(path)[object] = [n \in DOMAIN object |-> kept(n)]
    BY <1>2, <2>1, <2>2 DEF Shapes
  <2>4. field \notin DOMAIN Shapes(path)[object]
    BY <1>1, <2>3
  <2> QED
    BY <2>4 DEF Get
<1>3. CASE ~LeftAsReturned
  <2> DEFINE own == [f \in q.fields[path] |-> SelectedValue(object, path, f)]
             rest == [r \in Refs(q, path) |-> ShapedValue(Get(object, r), Append(path, r), shapeNested[Append(path, r)])]
  <2>1. shapeNested[path] = ShapedRecord(shapeNested, path)
    BY ShapedStep
  <2>2. ShapedRecord(shapeNested, path)[object] = own ++ rest
    BY DEF ShapedRecord
  <2>3. DOMAIN own = q.fields[path] /\ own[field] = SelectedValue(object, path, field)
    OBVIOUS
  <2> HIDE DEF own, rest
  <2>4. field \in DOMAIN (own ++ rest) /\ (own ++ rest)[field] = own[field]
    BY <2>3 DEF ++
  <2>5. Get(Shapes(path)[object], field) = SelectedValue(object, path, field)
    BY <1>3, <2>1, <2>2, <2>3, <2>4 DEF Shapes, Get
  <2>6. ~isComputedField(q, path, field)
    <3> SUFFICES ASSUME isComputedField(q, path, field) PROVE FALSE
      OBVIOUS
    <3>1. planComputedFields(q) = plan.computed
      BY <1>3 DEF ComputedRevived
    <3> DEFINE entry == [path |-> path, entity |-> EntityAt(q, path), name |-> field]
    <3>2. <<path, field>> \in UNION {{p} \X {f \in q.fields[p] : isComputedField(q, p, f)} : p \in Paths(q)}
      <4>1. <<path, field>> \in {path} \X {f \in q.fields[path] : isComputedField(q, path, f)}
        OBVIOUS
      <4> QED
        BY <4>1
    <3>3. entry \in planComputedFields(q)
      <4>1. entry = [path |-> <<path, field>>[1], entity |-> EntityAt(q, <<path, field>>[1]), name |-> <<path, field>>[2]]
        OBVIOUS
      <4> QED
        BY <3>2, <4>1 DEF planComputedFields
    <3> QED
      BY <3>1, <3>3, DeniedIsNotComputed
  <2>7. SelectedValue(object, path, field) = Undefined
    BY <1>1, <2>6 DEF SelectedValue, Get
  <2> QED
    BY <2>5, <2>7
<1> QED
  BY <1>2, <1>3

-----------------------------------------------------------------------------
(* From the plan to the answer.                                              *)

\* What a resolver makes of a stripped plan: rows that have only what the plan knows, or objects
\* that have only their paths' columns and relations.
OfPlan(result) ==
    /\ resolver \in ResolverKinds
    /\ ~AggregateMode(q) => IF ReadFlat THEN RowsOfPlan(result) ELSE Nested(result)

\* What the resolver of a stripped plan returns is that (Fetched).
LEMMA FetchedIsOfPlan ==
    ASSUME Stripped, resolver \in ResolverKinds
    PROVE  OfPlan(Fetched)
<1>1. plan.strategy \in {"flat", "nested"}
  BY StrippedPlan DEF chooseFetchStrategy
<1>2. Roots \subseteq References
  BY RootsAreReferred
<1>3. CASE resolver = "orm"
  <2>1. Fetched = buildPlanRelationTree /\ ~ReadFlat
    BY <1>3 DEF Fetched, ReadFlat, FromSql
  <2>2. Range(buildPlanRelationTree) \subseteq Objects(<<>>)
    BY <1>2, <1>3 DEF buildPlanRelationTree, Range, Objects
  <2>3. Nested(buildPlanRelationTree)
    BY <1>3, <2>2, FetchedIsNested
  <2> QED
    BY <2>1, <2>3 DEF OfPlan
<1>4. CASE FromSql /\ ~AggregateMode(q) /\ plan.strategy = "nested"
  <2>1. Fetched = buildNestedSelectSql /\ ~ReadFlat
    BY <1>4 DEF Fetched, ReadFlat, FromSql
  <2>2. DOMAIN buildNestedSelectSql = Roots
    BY DEF buildNestedSelectSql
  <2>3. Range(buildNestedSelectSql) \subseteq Objects(<<>>)
    BY <1>4, <2>2 DEF Range, Objects, FromSql
  <2>4. Nested(buildNestedSelectSql)
    BY <1>4, <2>3, FetchedIsNested
  <2> QED
    BY <2>1, <2>4 DEF OfPlan
<1>5. CASE FromSql /\ ~AggregateMode(q) /\ plan.strategy = "flat"
  <2>1. Fetched = buildSelectSql /\ ReadFlat
    BY <1>5 DEF Fetched, ReadFlat, FromSql
  <2> QED
    BY <2>1, SelectedRows DEF OfPlan
<1>6. CASE FromSql /\ AggregateMode(q)
  BY <1>6 DEF OfPlan
<1> QED
  BY <1>1, <1>3, <1>4, <1>5, <1>6 DEF FromSql, ResolverKinds

\* DeniedIsAbsent, of any answer.
LacksDenied(response) ==
    ~AggregateMode(q) =>
        \A p \in Paths(q) : \A f \in q.fields[p] :
            /\ Denied(p, f)
            /\ ~(ReadFlat /\ FoundElsewhere(p, f))
            /\ ~(ComputedRevived /\ isComputedField(q, p, f))
            => \A r \in RecordsOf(response)[p] : Get(r, f) = Undefined

\* What a resolver made of the plan is shaped into an answer without what rules deny.
LEMMA ResponseLacksDenied ==
    ASSUME Stripped, OfPlan(data)
    PROVE  LacksDenied(shapeResponse)
<1> SUFFICES ASSUME ~AggregateMode(q), NEW path \in Paths(q), NEW field \in q.fields[path], Denied(path, field),
                    ~(ReadFlat /\ FoundElsewhere(path, field)),
                    ~(ComputedRevived /\ isComputedField(q, path, field)),
                    NEW record \in RecordsOf(shapeResponse)[path]
             PROVE  Get(record, field) = Undefined
  BY DEF LacksDenied
<1>1. plan.strategy \in {"flat", "nested"}
  BY StrippedPlan DEF chooseFetchStrategy
<1>2. CASE ReadFlat
  <2> DEFINE rows == injectComputedIntoFlatRows(data)
  <2>1. shapeResponse = IF ListRead THEN shapeMany(rows) ELSE shape(rows)
    BY <1>2 DEF shapeResponse, ReadFlat, FromSql
  <2>2. RowsOfPlan(data)
    BY <1>2 DEF OfPlan
  <2> HIDE DEF rows
  <2>3. rows = injectComputedIntoFlatRows(data)
    BY DEF rows
  <2> QED
    BY <1>2, <2>1, <2>2, <2>3, FlatLacks DEF ReadFlat
<1>3. CASE ~ReadFlat
  <2>1. Nested(data)
    BY <1>3 DEF OfPlan
  <2> DEFINE shaped == [x \in DOMAIN data |-> Shapes(<<>>)[data[x]]]
             one(f, none) == IF DOMAIN f = {} THEN none ELSE f[CHOOSE x \in DOMAIN f : TRUE]
  <2>2. ASSUME resolver = "orm" PROVE ShapedAnswer(shapeResponse)
    <3> DEFINE preshaped == [x \in DOMAIN data |-> applyComputedToPreshaped(data[x])]
    <3>1. shapeResponse = IF ListRead THEN BagOf(preshaped) ELSE one(preshaped, applyComputedToPreshaped(EmptyRecord))
      BY <2>2 DEF shapeResponse, FromSql
    <3>2. \A object : applyComputedToPreshaped(object) = Shapes(<<>>)[object]
      BY <2>2 DEF applyComputedToPreshaped, Shapes, LeftAsReturned
    <3>3. preshaped = shaped
      BY <3>2
    <3> HIDE DEF preshaped
    <3>4. ListRead => shapeResponse = BagOf(shaped)
      BY <3>1, <3>3
    <3>5. ~ListRead => shapeResponse = Shapes(<<>>)[EmptyRecord] \/ \E x \in DOMAIN data : shapeResponse = shaped[x]
      <4>1. DOMAIN shaped = DOMAIN data
        OBVIOUS
      <4> HIDE DEF shaped
      <4>2. shapeResponse = IF ListRead THEN BagOf(shaped)
                            ELSE IF DOMAIN shaped = {} THEN Shapes(<<>>)[EmptyRecord]
                            ELSE shaped[CHOOSE x \in DOMAIN shaped : TRUE]
        BY <3>1, <3>2, <3>3
      <4>3. DOMAIN shaped # {} => (CHOOSE x \in DOMAIN shaped : TRUE) \in DOMAIN data
        BY <4>1
      <4> QED
        BY <4>2, <4>3
    <3> QED
      BY <3>4, <3>5 DEF ShapedAnswer
  <2>3. ASSUME resolver # "orm" PROVE ShapedAnswer(shapeResponse)
    <3> DEFINE nested == [x \in DOMAIN data |-> shapeNested[<<>>][data[x]]]
    <3>1. FromSql /\ plan.strategy = "nested"
      BY <1>1, <1>3, <2>3 DEF OfPlan, ResolverKinds, FromSql, ReadFlat
    <3>2. shapeResponse = IF ListRead THEN BagOf(nested) ELSE one(nested, Null)
      BY <2>3, <3>1 DEF shapeResponse
    <3>3. nested = shaped
      BY <2>3 DEF Shapes, LeftAsReturned
    <3> HIDE DEF nested
    <3>4. ListRead => shapeResponse = BagOf(shaped)
      BY <3>2, <3>3
    <3>5. ~ListRead => shapeResponse = Null \/ \E x \in DOMAIN data : shapeResponse = shaped[x]
      <4>1. DOMAIN shaped = DOMAIN data
        OBVIOUS
      <4> HIDE DEF shaped
      <4>2. shapeResponse = IF ListRead THEN BagOf(shaped)
                            ELSE IF DOMAIN shaped = {} THEN Null ELSE shaped[CHOOSE x \in DOMAIN shaped : TRUE]
        BY <3>2, <3>3
      <4>3. DOMAIN shaped # {} => (CHOOSE x \in DOMAIN shaped : TRUE) \in DOMAIN data
        BY <4>1
      <4> QED
        BY <4>2, <4>3
    <3> QED
      BY <3>4, <3>5 DEF ShapedAnswer
  <2> HIDE DEF shaped
  <2>4. ShapedAnswer(shapeResponse)
    BY <2>2, <2>3
  <2>5. RecordsOf(shapeResponse)[path] \subseteq {Shapes(path)[o] : o \in ObjectsAt[path]}
    BY <2>1, <2>4, ShapedRoot, ShapedWalk
  <2>6. PICK object \in ObjectsAt[path] : record = Shapes(path)[object]
    BY <2>5
  <2> QED
    BY <1>3, <2>1, <2>6, ShapedLacks
<1> QED
  BY <1>2, <1>3

\* What these facts are about: neither fetching nor shaping changes it.
Still == UNCHANGED <<q, plan, rules, registry>>

\* The resolver is the same, and the way it reads.
LEMMA StillResolved ==
    ASSUME Still
    PROVE  (resolver = resolver)' /\ resolver' = resolver /\ (FromSql' <=> FromSql) /\ (ReadFlat' <=> ReadFlat)
BY DEF Still, resolver, getEntry, FromSql, ReadFlat, AggregateMode, Controlled

\* So is what an alias is known for.
LEMMA StillPlaced ==
    ASSUME Still, NEW alias
    PROVE  PlacesOf(alias)' = PlacesOf(alias)
BY DEF Still, PlacesOf, resolvePlanField, parseQualifiedPlanField, rowAliasForPlanField, computedKeys

\* Rows that had only what the plan knows still do.
LEMMA StillRows ==
    ASSUME Still, NEW rows
    PROVE  RowsOfPlan(rows)' <=> RowsOfPlan(rows)
<1>1. polymorphicEntityColumns' = polymorphicEntityColumns
  BY DEF Still, polymorphicEntityColumns, PolymorphicAt, JoinAt, EntityAt
<1> QED
  BY <1>1, StillPlaced DEF RowsOfPlan

\* The columns and relations of a path are the same.
LEMMA StillNamed ==
    ASSUME Still, NEW path
    PROVE  joinFields(path)' = joinFields(path) /\ childJoins(path)' = childJoins(path)
BY DEF Still, joinFields, childJoins, parseQualifiedPlanField

\* And what is in the value of a relation.
LEMMA StillInside ==
    ASSUME Still, NEW value, NEW path
    PROVE  /\ ObjectsIn(value, path)' = ObjectsIn(value, path)
           /\ Grouped(value, path)' <=> Grouped(value, path)
           /\ RecordsIn(value, path)' = RecordsIn(value, path)
<1>1. JoinAt(q, path)' = JoinAt(q, path) /\ ControlAt(path)' = ControlAt(path) /\ (FromSql' <=> FromSql) /\ (ListRead' <=> ListRead)
  BY StillResolved DEF Still, JoinAt, EntityAt, ControlAt, Controlled, ListRead
<1> QED
  BY <1>1 DEF ObjectsIn, Grouped, RecordsIn

\* So objects that were of such a family still are.
LEMMA StillNested ==
    ASSUME Still, NEW objects
    PROVE  Nested(objects)' <=> Nested(objects)
<1>1. Paths(q)' = Paths(q)
  BY DEF Still, Paths
<1>2. ASSUME NEW O PROVE Family(O)' <=> Family(O)
  BY <1>1, StillNamed, StillInside DEF Family
<1> QED
  BY <1>2 DEF Nested

\* What a resolver made of the plan is still that.
LEMMA StillOfPlan ==
    ASSUME Still, NEW result
    PROVE  OfPlan(result)' <=> OfPlan(result)
BY StillResolved, StillRows, StillNested DEF OfPlan, Still, AggregateMode, Controlled

\* What rules deny is the same, and where the code does not keep to it.
LEMMA StillDenied ==
    ASSUME Still, NEW path, NEW field
    PROVE  /\ Denied(path, field)' <=> Denied(path, field)
           /\ FoundElsewhere(path, field)' <=> FoundElsewhere(path, field)
           /\ isComputedField(q, path, field)' <=> isComputedField(q, path, field)
           /\ ComputedRevived' <=> ComputedRevived
<1>1. Denied(path, field)' <=> Denied(path, field)
  BY DEF Still, Denied, DeniedAt, Location, ColumnLocation, isComputedField, PolymorphicAt, JoinAt, EntityAt
<1>2. FoundElsewhere(path, field)' <=> FoundElsewhere(path, field)
  <2>1. RowKeys(path, field)' = RowKeys(path, field)
    BY DEF Still, RowKeys
  <2> QED
    BY <2>1, StillPlaced DEF FoundElsewhere
<1>3. isComputedField(q, path, field)' <=> isComputedField(q, path, field)
  BY DEF Still, isComputedField, PolymorphicAt, JoinAt, EntityAt
<1>4. ComputedRevived' <=> ComputedRevived
  <2>1. planComputedFields(q)' = planComputedFields(q)
    BY DEF Still, planComputedFields, isComputedField, PolymorphicAt, JoinAt, EntityAt, Paths
  <2>2. plan' = plan
    BY DEF Still
  <2> QED
    BY <2>1, <2>2, StillResolved DEF ComputedRevived, LeftAsReturned
<1> QED
  BY <1>1, <1>2, <1>3, <1>4

\* An answer has the same records.
LEMMA StillRecords ==
    ASSUME Still, NEW response
    PROVE  RecordsOf(response)' = RecordsOf(response)
BY DEF Still, RecordsOf, Paths, RecordsIn, JoinAt, EntityAt, ControlAt, Controlled, FromSql, resolver, getEntry, ListRead

\* So it has still no value for what the rules deny.
LEMMA StillLacks ==
    ASSUME Still, NEW response
    PROVE  LacksDenied(response)' <=> LacksDenied(response)
<1>1. Paths(q)' = Paths(q) /\ q' = q /\ (AggregateMode(q)' <=> AggregateMode(q))
  BY DEF Still, Paths, AggregateMode, Controlled
<1> QED
  BY <1>1, StillRecords, StillDenied, StillResolved DEF LacksDenied

\* Each entity's resolver is of a kind that was registered.
KindsKnown == \A e \in DOMAIN registry : registry[e] \in ResolverKinds

\* A read from its start to its end: what was fetched is of the plan, and so is the answer.
ReadInv ==
    /\ PlanInv /\ KindsKnown
    /\ stage = "fetched" => OfPlan(data)
    /\ stage = "answered" => LacksDenied(answer)

\* The last of the calls for an entity is one of them.
LEMMA LastCall ==
    ASSUME NEW calls \in Registrations, NEW e \in {calls[n][1] : n \in DOMAIN calls}
    PROVE  register(calls)[e] \in ResolverKinds
<1> DEFINE S == {n \in DOMAIN calls : calls[n][1] = e}
           T == {Len(calls) - n : n \in S}
           last == CHOOSE n \in DOMAIN calls : calls[n][1] = e /\ \A m \in DOMAIN calls : calls[m][1] = e => m <= n
<1>1. /\ DOMAIN calls = 1..Len(calls) /\ Len(calls) \in Nat
      /\ \A n \in DOMAIN calls : calls[n][2] \in ResolverKinds
  BY PipelineAssumption
<1>2. S # {}
  OBVIOUS
<1>3. T \subseteq Nat /\ T # {}
  BY <1>1, <1>2
<1> HIDE DEF T
<1>4. PICK least \in T : \A m \in T : least <= m
  BY <1>3, LeastOf
<1>5. PICK n \in S : least = Len(calls) - n
  BY <1>4 DEF T
<1>6. ASSUME NEW m \in DOMAIN calls, calls[m][1] = e PROVE m <= n
  <2>1. m \in S /\ Len(calls) - m \in T
    BY <1>6 DEF T
  <2>2. Len(calls) - n <= Len(calls) - m
    BY <1>4, <1>5, <2>1
  <2> QED
    BY <1>1, <2>2
<1>7. last \in DOMAIN calls
  <2>1. n \in DOMAIN calls /\ calls[n][1] = e
    BY <1>5
  <2>2. \E k \in DOMAIN calls : calls[k][1] = e /\ \A m \in DOMAIN calls : calls[m][1] = e => m <= k
    BY <1>6, <2>1
  <2> QED
    BY <2>2
<1>8. register(calls)[e] = calls[last][2]
  BY DEF register
<1> HIDE DEF last
<1> QED
  BY <1>1, <1>7, <1>8

\* At the start nothing is fetched, and the registry has what was registered (ReadInit).
LEMMA ReadStart == ReadInit => ReadInv
<1> SUFFICES ASSUME ReadInit PROVE ReadInv
  OBVIOUS
<1>1. PlanInv /\ stage = "received"
  BY RequestStart DEF ReadInit, RequestInit
<1>2. PICK calls \in Registrations : registry = register(calls)
  BY DEF ReadInit
<1>3. DOMAIN registry = {calls[n][1] : n \in DOMAIN calls}
  BY <1>2 DEF register
<1>4. KindsKnown
  BY <1>2, <1>3, LastCall DEF KindsKnown
<1> QED
  BY <1>1, <1>4 DEF ReadInv

\* The steps of a read are those of its request.
LEMMA ReadStepIsRequestStep == [ReadNext]_readVars => [RequestNext]_requestVars
BY DEF ReadNext, Prepare, Resolve, Shape, RequestNext, Onward, readVars, requestVars

\* Every step of a read keeps that: one that fetches makes rows or objects of the plan, one that
\* shapes makes an answer of those (Prepare, Resolve, Shape).
LEMMA ReadStep == ReadInv /\ [ReadNext]_readVars => ReadInv'
<1> SUFFICES ASSUME ReadInv, [ReadNext]_readVars PROVE ReadInv'
  OBVIOUS
<1>1. PlanInv /\ PlanInv'
  BY RequestStep, ReadStepIsRequestStep DEF ReadInv
<1>2. registry' = registry /\ KindsKnown'
  BY DEF ReadInv, KindsKnown, ReadNext, Prepare, Resolve, Shape, readVars
<1>3. ASSUME Still, NEW result, data' = result, OfPlan(result) PROVE OfPlan(data)'
  <2>1. OfPlan(result)'
    BY <1>3, StillOfPlan
  <2> QED
    BY <1>3, <2>1
<1>4. ASSUME Still, NEW response, answer' = response, LacksDenied(response) PROVE LacksDenied(answer)'
  <2>1. LacksDenied(response)'
    BY <1>4, StillLacks
  <2> QED
    BY <1>4, <2>1
<1>5. CASE Prepare
  BY <1>1, <1>2, <1>5 DEF ReadInv, Prepare, Plan, Strip
<1>6. CASE Resolve /\ ResolverFails
  BY <1>1, <1>2, <1>6 DEF ReadInv, Resolve
<1>7. CASE Resolve /\ ~ResolverFails
  <2>1. Still /\ Stripped /\ stage' = "fetched" /\ data' = Fetched
    BY <1>1, <1>7 DEF Resolve, Still, Stripped
  <2>2. resolver \in ResolverKinds
    BY <1>7 DEF ResolverFails, ReadInv, KindsKnown, resolver, getEntry
  <2>3. OfPlan(Fetched)
    BY <2>1, <2>2, FetchedIsOfPlan
  <2>4. OfPlan(data)'
    BY <1>3, <2>1, <2>3
  <2> QED
    BY <1>1, <1>2, <2>1, <2>4 DEF ReadInv
<1>8. CASE Shape
  <2>1. Still /\ Stripped /\ stage' = "answered" /\ answer' = shapeResponse /\ OfPlan(data)
    BY <1>1, <1>8 DEF Shape, Still, Stripped, ReadInv
  <2>2. LacksDenied(shapeResponse)
    BY <2>1, ResponseLacksDenied
  <2>3. LacksDenied(answer)'
    BY <1>4, <2>1, <2>2
  <2> QED
    BY <1>1, <1>2, <2>1, <2>3 DEF ReadInv
<1>9. CASE UNCHANGED readVars
  <2>1. Still /\ stage' = stage /\ data' = data /\ answer' = answer
    BY <1>9 DEF readVars, requestVars, Still
  <2>2. OfPlan(data) => OfPlan(data)'
    BY <1>3, <2>1
  <2>3. LacksDenied(answer) => LacksDenied(answer)'
    BY <1>4, <2>1
  <2> QED
    BY <1>1, <1>2, <2>1, <2>2, <2>3 DEF ReadInv
<1> QED
  BY <1>5, <1>6, <1>7, <1>8, <1>9 DEF ReadNext

\* From the start of a read to its answer, what is fetched is of the plan (ReadInv is inductive).
THEOREM ReadInvariant == ReadSpec => []ReadInv
BY ReadStart, ReadStep, PTL DEF ReadSpec

\* No pipeline fetches more than what is needed and not denied (runMeshExecute, stripFieldsFromPlan).
THEOREM ReadStaysNeeded == ReadSpec => []FetchedIsNeeded
<1>1. ReadInv => FetchedIsNeeded
  BY RequestIsNeeded DEF ReadInv
<1> QED
  BY <1>1, ReadInvariant, PTL

\* No record of an answer, whichever resolver fetched and shaper shaped it, has a value for a field its
\* rules deny, but for the two cases that DeniedIsAbsent excepts: a flat read that finds the field under
\* another path's alias, and a denied computed field that shaping computes anew where the plan has lost
\* one (runMeshExecute, shapeMany, shapeNested, applyComputedToPreshaped).
THEOREM DeniedStaysAbsent == ReadSpec => []DeniedIsAbsent
<1>1. ReadInv => DeniedIsAbsent
  BY DEF ReadInv, LacksDenied, DeniedIsAbsent, NoRecordHas
<1> QED
  BY <1>1, ReadInvariant, PTL

-----------------------------------------------------------------------------
(* The selected tree.                                                        *)

\* What selects the tree below a path, given the trees below that.
TreeRecord(tree, path) ==
    [ref \in References |->
        [f \in Shown(path) |-> Value(path, ref, f)]
            ++ [r \in Refs(q, path) |-> Relation(Append(path, r), ref, tree[Append(path, r)])]]

\* It depends on nothing but the trees of the relations below (Tree).
LEMMA TreeCongruence ==
    ASSUME NEW g, NEW h, NEW path,
           \A r \in Refs(q, path) : g[Append(path, r)] = h[Append(path, r)]
    PROVE  TreeRecord(g, path) = TreeRecord(h, path)
<1> DEFINE of(tree, ref) == [r \in Refs(q, path) |-> Relation(Append(path, r), ref, tree[Append(path, r)])]
           own(ref) == [f \in Shown(path) |-> Value(path, ref, f)]
<1>1. \A ref : of(g, ref) = of(h, ref)
  OBVIOUS
<1>2. /\ TreeRecord(g, path) = [ref \in References |-> own(ref) ++ of(g, ref)]
      /\ TreeRecord(h, path) = [ref \in References |-> own(ref) ++ of(h, ref)]
  BY DEF TreeRecord
<1> HIDE DEF of, own
<1> QED
  BY <1>1, <1>2

\* Tree is what it is defined as.
LEMMA TreeStep ==
    ASSUME Stripped
    PROVE  \A path \in Paths(q) : Tree[path] = TreeRecord(Tree, path)
<1>1. PICK bound \in Nat : \A path \in Paths(q) : Len(path) \in Nat /\ Len(path) <= bound
  BY BoundedTree
<1> DEFINE below(n) == Lower(Paths(q), bound, n)
           B == {n \in Nat : \E g : g = [path \in below(n) |-> TreeRecord(g, path)]}
<1>2. B \subseteq Nat
  OBVIOUS
<1>3. 0 \in B
  <2> DEFINE g == [path \in {} |-> {}]
  <2>1. g = [path \in {} |-> TreeRecord(g, path)]
    OBVIOUS
  <2> QED
    BY <1>1, <2>1, Levels
<1>4. ASSUME NEW n \in B PROVE n + 1 \in B
  <2>1. PICK g : g = [path \in below(n) |-> TreeRecord(g, path)]
    OBVIOUS
  <2> DEFINE h == [path \in below(n + 1) |-> TreeRecord(g, path)]
  <2>2. below(n) \subseteq below(n + 1)
    BY <1>1 DEF Lower
  <2>3. \A path \in below(n) : h[path] = g[path]
    BY <2>1, <2>2
  <2>4. ASSUME NEW path \in below(n + 1) PROVE TreeRecord(g, path) = TreeRecord(h, path)
    <3>1. ASSUME NEW r \in Refs(q, path) PROVE Append(path, r) \in below(n)
      <4>1. path \in Paths(q) /\ Len(path) + (n + 1) > bound
        BY DEF Lower
      <4>2. Append(path, r) \in Paths(q) /\ Len(Append(path, r)) = Len(path) + 1 /\ Len(path) \in Nat
        BY <4>1, ChildPath
      <4>3. Len(Append(path, r)) + n > bound
        BY <4>1, <4>2
      <4> QED
        BY <4>2, <4>3 DEF Lower
    <3> HIDE DEF h
    <3> QED
      BY <2>3, <3>1, TreeCongruence
  <2>5. h = [path \in below(n + 1) |-> TreeRecord(h, path)]
    BY <2>4
  <2> HIDE DEF h
  <2> QED
    BY <2>5
<1>5. below(bound + 1) = Paths(q)
  BY <1>1, Levels
<1> HIDE DEF B, below
<1>6. bound + 1 \in B
  BY <1>2, <1>3, <1>4, LevelByLevel
<1>7. PICK g : g = [path \in Paths(q) |-> TreeRecord(g, path)]
  BY <1>5, <1>6 DEF B
<1>8. Tree = [path \in Paths(q) |-> TreeRecord(Tree, path)]
  BY <1>7 DEF Tree, TreeRecord
<1> QED
  BY <1>8

\* A read that fetches objects as asked (buildNestedSelectSql, buildPlanRelationTree): of no polymorphic
\* relation, and by no case that AsAsked names.
ObjectRead ==
    /\ Stripped /\ AsAsked /\ ~ReadFlat /\ ~AggregateMode(q)
    /\ resolver \in ResolverKinds
    /\ \A path \in Paths(q) : ~PolymorphicAt(q, path)

\* In SQL such a read is nested, its subqueries are bound to the parent, and no name comes by a patch.
LEMMA ObjectSql ==
    ASSUME ObjectRead, FromSql
    PROVE  /\ resolver # "orm" /\ plan.strategy = "nested"
           /\ \A path \in plan.joins : BoundTo(path) = Front(path) /\ jsonObject(path) = {}
<1>1. plan.strategy \in {"flat", "nested"}
  BY StrippedPlan DEF ObjectRead, chooseFetchStrategy
<1>2. resolver # "orm" /\ plan.strategy = "nested"
  BY <1>1 DEF ObjectRead, ReadFlat, FromSql
<1>3. ~BoundElsewhere /\ ~NullDropped
  BY DEF ObjectRead, AsAsked
<1> QED
  BY <1>2, <1>3 DEF BoundElsewhere, NullDropped

\* An ORM has no controls to apply.
LEMMA ObjectOrm ==
    ASSUME ObjectRead, resolver = "orm"
    PROVE  ~FromSql /\ q.control.kind = NoControl /\ \A path : ControlAt(path) = NoControl
<1>1. ~ControlIgnored
  BY DEF ObjectRead, AsAsked
<1> QED
  BY <1>1 DEF ControlIgnored, FromSql, ControlAt, Controlled

\* The rows that a relation has for a record.
RowsTo(path, ref) == Window(ControlAt(path), Linked(ref, Last(path)))

LEMMA RowsToAreReferred ==
    ASSUME NEW path, NEW ref
    PROVE  /\ RowsTo(path, ref) \subseteq References
           /\ ControlAt(path) = NoControl => RowsTo(path, ref) = Linked(ref, Last(path))
<1> DEFINE to == Linked(ref, Last(path))
<1>1. to \subseteq References
  BY DEF Linked
<1> HIDE DEF to
<1>2. Window(ControlAt(path), to) \subseteq to /\ (ControlAt(path) = NoControl => Window(ControlAt(path), to) = to)
  BY DEF Window, NoControl
<1> QED
  BY <1>1, <1>2 DEF RowsTo, to

\* The objects that are made for a row at a path.
MadeOf(path, ref) ==
    IF resolver = "orm" THEN {toRelationNode[path][ref]}
    ELSE IF path = <<>> THEN {buildNestedSelectSql[ref]}
    ELSE {renderRecordObject[path][scope][FALSE] : scope \in {s \in Scopes(path) : s[Len(path) + 1] = ref}}

\* What a relation of a record is, with an object for each row that it leads to.
IsRelation(value, path, ref) ==
    LET to == RowsTo(path, ref)
    IN  \E objects :
          /\ objects = [x \in to |-> objects[x]]
          /\ \A x \in to : objects[x] \in MadeOf(path, x)
          /\ value = IF ~JoinAt(q, path).many THEN IF to = {} THEN Null ELSE objects[CHOOSE x \in to : TRUE]
                     ELSE IF ControlAt(path) = "groupBy" THEN Buckets(objects) ELSE objects

\* An object tells of its row what the plan wants of it: its columns and its relations.
Tells(object, path, ref) ==
    /\ object = [n \in joinFields(path) \cup childJoins(path) |-> object[n]]
    /\ \A f \in joinFields(path) : object[f] = Cell(ref, f)
    /\ \A r \in childJoins(path) : IsRelation(object[r], Append(path, r), ref)

\* The object of columns and relations tells of its row.
LEMMA JoinedTells ==
    ASSUME Stripped, NEW path \in plan.joins \cup {<<>>}, NEW ref, NEW relations, DOMAIN relations = childJoins(path),
           \A r \in childJoins(path) : IsRelation(relations[r], Append(path, r), ref)
    PROVE  Tells(Columns(path, ref) ++ relations, path, ref)
<1> DEFINE object == Columns(path, ref) ++ relations
<1>1. DOMAIN object = joinFields(path) \cup childJoins(path) /\ \A r \in childJoins(path) : object[r] = relations[r]
  <2>1. Holds(object, path, relations)
    BY ColumnsAndRelations
  <2> HIDE DEF object
  <2> QED
    BY <2>1 DEF Holds
<1>2. object = [n \in DOMAIN object |-> object[n]]
  BY DEF ++
<1>3. \A f \in joinFields(path) : object[f] = Cell(ref, f)
  BY DEF ++, Columns
<1> HIDE DEF object
<1>4. Tells(object, path, ref)
  BY <1>1, <1>2, <1>3 DEF Tells
<1> QED
  BY <1>4 DEF object

\* The correlated subquery of a relation is one (renderRelation).
LEMMA RenderedIsRelation ==
    ASSUME ObjectRead, FromSql, NEW path \in plan.joins \cup {<<>>}, NEW r \in childJoins(path),
           NEW scope \in Scopes(path)
    PROVE  IsRelation(renderRelation(Append(path, r), scope, FALSE, renderRecordObject[Append(path, r)]),
                      Append(path, r), scope[Len(path) + 1])
<1> DEFINE p == Append(path, r)
           ref == scope[Len(path) + 1]
           to == RowsTo(p, ref)
           objects == [x \in to |-> renderRecordObject[p][Append(scope, x)][FALSE]]
<1>1. /\ p \in plan.joins /\ p # <<>> /\ Len(path) \in Nat /\ Len(p) = Len(path) + 1
      /\ Front(p) = path /\ Last(p) = r
  BY ChildBelow, ChildJoin, PlanJoins DEF ObjectRead
<1>2. BoundTo(p) = path /\ resolver # "orm"
  BY <1>1, ObjectSql
<1>3. to \subseteq References
  BY RowsToAreReferred
<1>4. ASSUME NEW x \in to PROVE objects[x] \in MadeOf(p, x)
  <2> HIDE DEF p
  <2>1. scope \in [1..(Len(path) + 1) -> References] /\ x \in References
    BY <1>3 DEF Scopes
  <2>2. scope \in Seq(References) /\ Len(scope) = Len(path) + 1
    BY <1>1, <2>1
  <2>3. /\ Append(scope, x) \in Seq(References) /\ Len(Append(scope, x)) = Len(p) + 1
        /\ Append(scope, x)[Len(p) + 1] = x
    BY <1>1, <2>1, <2>2
  <2>4. Append(scope, x) \in Scopes(p)
    BY <2>3, LenProperties DEF Scopes
  <2>5. renderRecordObject[p][Append(scope, x)][FALSE] \in MadeOf(p, x)
    BY <1>1, <1>2, <2>3, <2>4 DEF MadeOf
  <2> QED
    BY <2>5
<1>5. renderRelation(p, scope, FALSE, renderRecordObject[p])
        = CASE ~JoinAt(q, p).many -> IF Linked(ref, r) = {} THEN Null ELSE objects[CHOOSE x \in DOMAIN objects : TRUE]
            [] JoinAt(q, p).many /\ ControlAt(p) = "groupBy" -> Buckets(objects)
            [] OTHER -> objects
  <2> HIDE DEF p
  <2> DEFINE many == JoinAt(q, p).many
             rows == JoinedFrom(p, scope[Len(BoundTo(p)) + 1])
             records == [x \in Window(ControlAt(p), rows) |-> renderRecordObject[p][Append(scope, x)][FALSE /\ ~many]]
  <2>1. renderRelation(p, scope, FALSE, renderRecordObject[p])
          = CASE ~many -> IF rows = {} THEN Null ELSE records[CHOOSE x \in DOMAIN records : TRUE]
              [] many /\ ControlAt(p) = "groupBy" -> Buckets(records)
              [] OTHER -> records
    BY DEF renderRelation
  <2>2. rows = Linked(ref, r) /\ Window(ControlAt(p), rows) = to
    <3>1. p # path
      BY <1>1
    <3> QED
      BY <1>1, <1>2, <3>1 DEF RowsTo, JoinedFrom
  <2>3. (FALSE /\ ~many) = FALSE
    OBVIOUS
  <2>4. records = objects
    BY <2>2, <2>3
  <2> HIDE DEF records, objects, rows, many
  <2> QED
    BY <2>1, <2>2, <2>4 DEF many
<1>6. ~JoinAt(q, p).many => to = Linked(ref, r)
  BY <1>1, OneUncontrolled, RowsToAreReferred DEF ObjectRead
<1>7. DOMAIN objects = to /\ objects = [x \in to |-> objects[x]]
  OBVIOUS
<1> HIDE DEF objects, to, ref, p
<1>8. IsRelation(renderRelation(p, scope, FALSE, renderRecordObject[p]), p, ref)
  <2>1. to = RowsTo(p, ref)
    BY DEF to
  <2>2. renderRelation(p, scope, FALSE, renderRecordObject[p])
          = IF ~JoinAt(q, p).many THEN IF to = {} THEN Null ELSE objects[CHOOSE x \in to : TRUE]
            ELSE IF ControlAt(p) = "groupBy" THEN Buckets(objects) ELSE objects
    BY <1>5, <1>6, <1>7
  <2> QED
    BY <1>4, <1>7, <2>1, <2>2 DEF IsRelation
<1> QED
  BY <1>8 DEF p, ref

\* So a row of a nested SELECT tells of its row.
LEMMA NestedTells ==
    ASSUME ObjectRead, FromSql, NEW ref \in Roots
    PROVE  Tells(buildNestedSelectSql[ref], <<>>, ref)
<1> DEFINE relations == [r \in childJoins(<<>>) |->
                           renderRelation(<<r>>, <<ref>>, FALSE, renderRecordObject[<<r>>])]
<1>0. Stripped /\ ref \in References
  BY RootsAreReferred DEF ObjectRead
<1>1. buildNestedSelectSql[ref] = Columns(<<>>, ref) ++ relations
  BY DEF buildNestedSelectSql
<1>2. DOMAIN relations = childJoins(<<>>)
  OBVIOUS
<1>3. <<ref>> \in Scopes(<<>>) /\ <<ref>>[Len(<<>>) + 1] = ref
  <2>1. <<ref>> \in [1..1 -> References]
    BY <1>0
  <2> QED
    BY <2>1 DEF Scopes
<1>4. ASSUME NEW r \in childJoins(<<>>) PROVE IsRelation(relations[r], Append(<<>>, r), ref)
  <2>1. relations[r] = renderRelation(Append(<<>>, r), <<ref>>, FALSE, renderRecordObject[Append(<<>>, r)])
    <3>1. <<r>> = Append(<<>>, r)
      OBVIOUS
    <3> QED
      BY <3>1
  <2>2. <<>> \in plan.joins \cup {<<>>}
    OBVIOUS
  <2> HIDE DEF relations
  <2> QED
    BY <1>3, <2>1, <2>2, RenderedIsRelation
<1> HIDE DEF relations
<1> QED
  BY <1>0, <1>1, <1>2, <1>4, JoinedTells

\* The JSON object of a record below tells of its row, since nothing comes by a patch.
LEMMA RenderedTells ==
    ASSUME ObjectRead, FromSql, NEW path \in plan.joins, NEW scope \in Scopes(path)
    PROVE  Tells(renderRecordObject[path][scope][FALSE], path, scope[Len(path) + 1])
<1> DEFINE patched(r) == FALSE \/ r \in jsonObject(path)
           relations == [r \in childJoins(path) |->
                           renderRelation(Append(path, r), scope, patched(r), renderRecordObject[Append(path, r)])]
           ref == scope[Len(path) + 1]
           object == Columns(path, ref) ++ relations
           names == IF FALSE THEN DOMAIN object ELSE jsonObject(path)
<1>0. Stripped
  BY DEF ObjectRead
<1>1. renderRecordObject[path][scope][FALSE] = mergePatch(object, names)
  <2>1. renderRecordObject[path] = RenderedRecord(renderRecordObject, path)
    BY <1>0, RenderedStep
  <2>2. RenderedRecord(renderRecordObject, path)[scope][FALSE] = mergePatch(object, names)
    BY DEF RenderedRecord
  <2> HIDE DEF object, names
  <2> QED
    BY <2>1, <2>2
<1>2. jsonObject(path) = {}
  BY ObjectSql
<1>3. names = {} /\ \A r : patched(r) = FALSE
  BY <1>2
<1>4. DOMAIN relations = childJoins(path)
  OBVIOUS
<1>5. ASSUME NEW r \in childJoins(path) PROVE IsRelation(relations[r], Append(path, r), ref)
  <2>1. relations[r] = renderRelation(Append(path, r), scope, FALSE, renderRecordObject[Append(path, r)])
    BY <1>3
  <2> HIDE DEF relations
  <2> QED
    BY <2>1, RenderedIsRelation
<1> HIDE DEF relations, names
<1>6. Tells(object, path, ref)
  <2> HIDE DEF ref
  <2> QED
    BY <1>0, <1>4, <1>5, JoinedTells
<1> HIDE DEF object
<1>7. object = [n \in DOMAIN object |-> object[n]]
  BY <1>6 DEF Tells
<1>8. mergePatch(object, {}) = object
  <2>1. {n \in DOMAIN object : n \in {} => object[n] # Null} = DOMAIN object
    OBVIOUS
  <2>2. mergePatch(object, {}) = [n \in DOMAIN object |-> object[n]]
    BY <2>1 DEF mergePatch, Restrict
  <2> QED
    BY <1>7, <2>2
<1> QED
  BY <1>1, <1>3, <1>6, <1>8

\* So does the node of an ORM, which looks at no control.
LEMMA RelatedTells ==
    ASSUME ObjectRead, resolver = "orm", NEW path \in plan.joins \cup {<<>>}, NEW ref \in References
    PROVE  Tells(toRelationNode[path][ref], path, ref)
<1> DEFINE node(r) == toRelationNode[Append(path, r)]
           to(r) == Linked(ref, r)
           relations == [r \in childJoins(path) |->
                           IF JoinAt(q, Append(path, r)).many THEN [x \in to(r) |-> node(r)[x]]
                           ELSE IF to(r) = {} THEN Null ELSE node(r)[CHOOSE x \in to(r) : TRUE]]
           object == Columns(path, ref) ++ relations
<1>0. Stripped
  BY DEF ObjectRead
<1>1. toRelationNode[path][ref] = object
  <2>1. toRelationNode[path] = RelationNode(toRelationNode, path)
    BY <1>0, RelationStep
  <2>2. RelationNode(toRelationNode, path)[ref] = object
    BY DEF RelationNode
  <2> HIDE DEF object
  <2> QED
    BY <2>1, <2>2
<1>2. DOMAIN relations = childJoins(path)
  OBVIOUS
<1>3. ASSUME NEW r \in childJoins(path) PROVE IsRelation(relations[r], Append(path, r), ref)
  <2> DEFINE p == Append(path, r)
             objects == [x \in to(r) |-> node(r)[x]]
  <2>1. Last(p) = r /\ ControlAt(p) = NoControl
    BY <1>0, ChildJoin, ObjectOrm
  <2>2. RowsTo(p, ref) = to(r) /\ ControlAt(p) # "groupBy"
    BY <2>1, RowsToAreReferred DEF NoControl
  <2>3. /\ \A x \in to(r) : objects[x] \in MadeOf(p, x)
        /\ objects = [x \in to(r) |-> objects[x]]
    BY DEF MadeOf
  <2>4. relations[r] = IF ~JoinAt(q, p).many THEN IF to(r) = {} THEN Null ELSE objects[CHOOSE x \in to(r) : TRUE]
                       ELSE IF ControlAt(p) = "groupBy" THEN Buckets(objects) ELSE objects
    <3>1. relations[r] = IF JoinAt(q, p).many THEN objects
                         ELSE IF to(r) = {} THEN Null ELSE node(r)[CHOOSE x \in to(r) : TRUE]
      OBVIOUS
    <3>2. to(r) # {} => objects[CHOOSE x \in to(r) : TRUE] = node(r)[CHOOSE x \in to(r) : TRUE]
      OBVIOUS
    <3> HIDE DEF relations, objects, to, p, node
    <3> QED
      BY <2>2, <3>1, <3>2
  <2> HIDE DEF objects, relations, p, to
  <2>5. IsRelation(relations[r], p, ref)
    BY <2>2, <2>3, <2>4 DEF IsRelation
  <2> QED
    BY <2>5 DEF p
<1> HIDE DEF relations
<1>4. Tells(object, path, ref)
  BY <1>0, <1>2, <1>3, JoinedTells
<1> QED
  BY <1>1, <1>4

\* Whatever is made for a row tells of it.
LEMMA MadeTells ==
    ASSUME ObjectRead, NEW path \in plan.joins \cup {<<>>}, NEW ref \in IF path = <<>> THEN Roots ELSE References,
           NEW object \in MadeOf(path, ref)
    PROVE  Tells(object, path, ref)
<1>0. Stripped /\ (resolver = "orm" \/ FromSql)
  BY DEF ObjectRead, ResolverKinds, FromSql
<1>1. ref \in References
  BY <1>0, RootsAreReferred
<1>2. CASE resolver = "orm"
  BY <1>1, <1>2, RelatedTells DEF MadeOf
<1>3. CASE FromSql /\ path = <<>>
  BY <1>3, NestedTells DEF MadeOf, FromSql
<1>4. CASE FromSql /\ path # <<>>
  <2>1. PICK scope \in {s \in Scopes(path) : s[Len(path) + 1] = ref} : object = renderRecordObject[path][scope][FALSE]
    BY <1>4 DEF MadeOf, FromSql
  <2> QED
    BY <1>4, <2>1, RenderedTells
<1> QED
  BY <1>0, <1>2, <1>3, <1>4

\* A physical field is where its column is.
LEMMA PhysicalPlace ==
    ASSUME NEW path, EntityAt(q, path) \in Entities, NEW name \in FieldsOf[EntityAt(q, path)]
    PROVE  /\ ~isComputedField(q, path, name) /\ Location(path, name) = ColumnLocation(path, name)
           /\ Denied(path, name) <=> DeniedAt(ColumnLocation(path, name))
<1>1. ~isComputedField(q, path, name)
  BY SchemaAssumption DEF isComputedField, validateEntityComputed
<1> QED
  BY <1>1 DEF Location, Denied

\* What is needed is fetched, unless it is denied.
LEMMA NeededColumn ==
    ASSUME Stripped, ~StrippedInPassing, TableOf[q.root] # q.root, NEW path \in plan.joins \cup {<<>>}, NEW name \in STRING,
           qualifiedField(q, path, name) \in Needed
    PROVE  name \in joinFields(path) <=> ~DeniedAt(ColumnLocation(path, name))
<1> DEFINE field == qualifiedField(q, path, name)
<1>1. resolvePlanField(plan, field) = path /\ Last(field) = name
  BY ColumnPlace
<1> HIDE DEF field
<1>2. Allowed(field) <=> ~DeniedAt(ColumnLocation(path, name))
  BY <1>1 DEF Allowed
<1>3. Allowed(field) => name \in joinFields(path)
  BY <1>1, FieldsJoined DEF StrippedInPassing, field
<1>4. ASSUME name \in joinFields(path) PROVE ~DeniedAt(ColumnLocation(path, name))
  <2>1. PICK f \in plan.fields : resolvePlanField(plan, f) = path /\ Last(f) = name
    BY <1>4, FieldsJoined
  <2>2. Allowed(f)
    BY StrippedPlan DEF FetchedIsNeeded, Stripped
  <2> QED
    BY <2>1, <2>2 DEF Allowed
<1> QED
  BY <1>2, <1>3, <1>4

\* A selected column is fetched, unless it is denied.
LEMMA SelectedColumn ==
    ASSUME Stripped, ~StrippedInPassing, TableOf[q.root] # q.root,
           NEW path \in Paths(q), NEW f \in q.fields[path], ~isComputedField(q, path, f)
    PROVE  f \in joinFields(path) <=> ~Denied(path, f)
<1>1. path \in plan.joins \cup {<<>>} /\ f \in STRING
  BY PlanJoins, QueryPaths DEF NamesAreStrings
<1>2. qualifiedField(q, path, f) \in Needed
  <2>1. qualifiedField(q, path, f) \in planNodeFields(q)
    BY DEF planNodeFields
  <2> QED
    BY <2>1 DEF Needed
<1>3. Location(path, f) = ColumnLocation(path, f)
  BY DEF Location
<1> QED
  BY <1>1, <1>2, <1>3, NeededColumn DEF Denied

\* Null and undefined are no objects.
NoObject(value) == \A f : value # [x \in DOMAIN f |-> f[x]]

LEMMA ObjectIsThere ==
    ASSUME NoObject(Null), NoObject(Undefined), NEW S, NEW object, object = [n \in S |-> object[n]]
    PROVE  ~Missing(object)
<1>1. DOMAIN object = S
  OBVIOUS
<1>2. object = [x \in DOMAIN object |-> object[x]]
  BY <1>1
<1> QED
  BY <1>2 DEF NoObject, Missing

\* The value of a relation of one: null, or what was made for the row it leads to.
LEMMA RelationOfOne ==
    ASSUME ObjectRead, NoObject(Null), NoObject(Undefined), NEW path \in plan.joins, ~JoinAt(q, path).many,
           NEW ref, NEW value, IsRelation(value, path, ref)
    PROVE  LET to == Linked(ref, Last(path))
               x  == CHOOSE y \in to : TRUE
           IN  /\ RowsTo(path, ref) = to
               /\ to = {} => value = Null
               /\ to # {} => /\ x \in References /\ value \in MadeOf(path, x)
                             /\ Tells(value, path, x) /\ ~Missing(value)
<1> DEFINE to == Linked(ref, Last(path))
           row == CHOOSE y \in to : TRUE
<1>1. RowsTo(path, ref) = to /\ to \subseteq References /\ path # <<>>
  BY OneUncontrolled, RowsToAreReferred, PlanJoins DEF ObjectRead
<1>2. PICK objects : /\ \A x \in to : objects[x] \in MadeOf(path, x)
                     /\ value = IF to = {} THEN Null ELSE objects[CHOOSE x \in to : TRUE]
  BY <1>1 DEF IsRelation
<1>3. to # {} => row \in to
  OBVIOUS
<1>4. to # {} => value = objects[row]
  BY <1>2
<1> HIDE DEF to, row
<1>5. ASSUME to # {}
      PROVE  row \in References /\ value \in MadeOf(path, row) /\ Tells(value, path, row) /\ ~Missing(value)
  <2>1. row \in References /\ value \in MadeOf(path, row)
    BY <1>1, <1>2, <1>3, <1>4, <1>5
  <2>2. Tells(value, path, row)
    BY <1>1, <2>1, MadeTells
  <2>3. value = [n \in joinFields(path) \cup childJoins(path) |-> value[n]]
    BY <2>2 DEF Tells
  <2> QED
    BY <2>1, <2>2, <2>3, ObjectIsThere
<1> QED
  BY <1>1, <1>2, <1>5 DEF to, row

\* What a computed field of a row is computed from.
DependencyOf(path, ref, dep) ==
    IF Len(dep) = 1
    THEN IF Denied(path, dep[1]) THEN Undefined ELSE Cell(ref, dep[1])
    ELSE LET to == Linked(ref, dep[1]) IN
         IF Denied(Append(path, dep[1]), dep[2]) \/ (to = {} /\ ~ReadFlat) THEN Undefined
         ELSE IF to = {} THEN Null ELSE Cell(CHOOSE x \in to : TRUE, dep[2])

\* An object has, or has not, what a name of its path stands for.
LEMMA ToldColumn ==
    ASSUME Stripped, ~StrippedInPassing, TableOf[q.root] # q.root,
           NEW path \in plan.joins \cup {<<>>}, EntityAt(q, path) \in Entities,
           NEW name \in FieldsOf[EntityAt(q, path)], name \in STRING, qualifiedField(q, path, name) \in Needed,
           NEW ref, NEW object, Tells(object, path, ref)
    PROVE  Get(object, name) = IF Denied(path, name) THEN Undefined ELSE Cell(ref, name)
<1>1. name \in joinFields(path) <=> ~Denied(path, name)
  BY NeededColumn, PhysicalPlace
<1>2. name \notin childJoins(path)
  BY ChildJoin DEF entityQueryableFields
<1>3. DOMAIN object = joinFields(path) \cup childJoins(path) /\ \A f \in joinFields(path) : object[f] = Cell(ref, f)
  BY DEF Tells
<1> QED
  BY <1>1, <1>2, <1>3 DEF Get

\* Nested shaping computes from that (readDep).
LEMMA ToldDependency ==
    ASSUME ObjectRead, NoObject(Null), NoObject(Undefined),
           NEW entry \in plan.computed, NEW dep \in from(entry),
           NEW ref, NEW object, Tells(object, entry.path, ref)
    PROVE  readDep(object, entry.path, dep) = DependencyOf(entry.path, ref, dep)
<1> DEFINE path == entry.path
<1>0. Stripped /\ ~StrippedInPassing /\ TableOf[q.root] # q.root /\ ~ComputedOfMany /\ ~ReadFlat
  BY DEF ObjectRead, AsAsked, RootDropped
<1>1. entry \in planComputedFields(q) /\ depToPlanField(q, entry, dep) \in Needed
  BY <1>0, StrippedPlan DEF Needed
<1>2. path \in Paths(q) /\ path \in plan.joins \cup {<<>>} /\ EntityAt(q, path) \in Entities /\ dep[1] \in STRING
  BY <1>0, <1>1, DependencyPlace, PlanJoins, QueryPaths
<1>3. CASE Len(dep) = 1
  <2>1. dep[1] \in FieldsOf[EntityAt(q, path)] /\ qualifiedField(q, path, dep[1]) \in Needed
    BY <1>0, <1>1, <1>3, DependencyPlace
  <2>2. Get(object, dep[1]) = IF Denied(path, dep[1]) THEN Undefined ELSE Cell(ref, dep[1])
    BY <1>0, <1>2, <2>1, ToldColumn
  <2> QED
    BY <1>3, <2>2 DEF readDep, DependencyOf
<1>4. CASE Len(dep) = 2
  <2> DEFINE p == Append(path, dep[1])
             to == Linked(ref, dep[1])
             row == CHOOSE x \in to : TRUE
             value == object[dep[1]]
  <2>0. Len(dep) # 1 /\ Len(dep) > 1
    BY <1>4
  <2>1. /\ p \in plan.joins /\ dep[1] \in childJoins(path) /\ dep[2] \in STRING /\ EntityAt(q, p) \in Entities
        /\ dep[2] \in FieldsOf[EntityAt(q, p)] /\ qualifiedField(q, p, dep[2]) \in Needed
    BY <1>0, <1>1, <1>4, DependencyPlace
  <2>2. Last(p) = dep[1]
    BY <1>0, <1>2, <2>1, ChildJoin
  <2>3. ~JoinAt(q, p).many
    BY <1>0, <2>0 DEF ComputedOfMany
  <2>4. Get(object, dep[1]) = value /\ IsRelation(value, p, ref)
    BY <2>1 DEF Tells, Get
  <2>5. /\ to = {} => value = Null
        /\ to # {} => Tells(value, p, row) /\ ~Missing(value)
    <3> HIDE DEF p, value
    <3> QED
      BY <2>1, <2>2, <2>3, <2>4, RelationOfOne
  <2>6. readDep(object, path, dep) = IF Missing(value) THEN Undefined ELSE Get(value, dep[2])
    BY <2>0, <2>1, <2>3, <2>4 DEF readDep
  <2>7. DependencyOf(path, ref, dep)
          = IF Denied(p, dep[2]) \/ to = {} THEN Undefined ELSE Cell(row, dep[2])
    BY <1>0, <2>0 DEF DependencyOf
  <2> HIDE DEF p, to, row, value
  <2>8. CASE to = {}
    BY <2>5, <2>6, <2>7, <2>8 DEF Missing
  <2>9. CASE to # {}
    <3>1. Get(value, dep[2]) = IF Denied(p, dep[2]) THEN Undefined ELSE Cell(row, dep[2])
      BY <1>0, <2>1, <2>5, <2>9, ToldColumn
    <3> QED
      BY <2>5, <2>6, <2>7, <2>9, <3>1
  <2> QED
    BY <2>8, <2>9
<1> QED
  BY <1>0, <1>1, <1>3, <1>4, DependencyPlace

\* So each value of a shaped record is its row's (shapeNested).
LEMMA ToldValue ==
    ASSUME ObjectRead, NoObject(Null), NoObject(Undefined), ~LeftAsReturned,
           NEW path \in Paths(q), NEW f \in q.fields[path], NEW ref, NEW object, Tells(object, path, ref)
    PROVE  SelectedValue(object, path, f) = Value(path, ref, f)
<1>0. Stripped /\ ~StrippedInPassing /\ TableOf[q.root] # q.root
  BY DEF ObjectRead, AsAsked, RootDropped
<1>1. CASE ~isComputedField(q, path, f)
  <2>1. f \in joinFields(path) <=> ~Denied(path, f)
    BY <1>0, <1>1, SelectedColumn
  <2>2. Denied(path, f) => f \notin childJoins(path)
    BY <1>0, DeniedIsNoName
  <2>3. Get(object, f) = IF Denied(path, f) THEN Undefined ELSE Cell(ref, f)
    BY <2>1, <2>2 DEF Tells, Get
  <2> QED
    BY <1>1, <2>3 DEF SelectedValue, Value
<1>2. CASE isComputedField(q, path, f)
  <2> DEFINE entry == [path |-> path, entity |-> EntityAt(q, path), name |-> f]
             deps == ComputedOf[EntityAt(q, path)][f]
  <2>1. entry \in planComputedFields(q)
    <3>1. <<path, f>> \in {path} \X {g \in q.fields[path] : isComputedField(q, path, g)}
      BY <1>2
    <3>2. <<path, f>> \in UNION {{p} \X {g \in q.fields[p] : isComputedField(q, p, g)} : p \in Paths(q)}
      BY <3>1
    <3>3. <<path, f>>[1] = path /\ <<path, f>>[2] = f
      OBVIOUS
    <3> QED
      BY <3>2, <3>3 DEF planComputedFields
  <2>2. planComputedFields(q) = plan.computed
    BY DEF ObjectRead, AsAsked, ComputedRevived
  <2>3. entry.path = path /\ entry.entity = EntityAt(q, path) /\ entry.name = f /\ from(entry) = deps
    BY DEF from
  <2> HIDE DEF entry
  <2>4. ~Denied(path, f)
    BY <1>0, <2>1, <2>2, <2>3, DeniedIsNotComputed
  <2>5. \A dep \in deps : readDep(object, path, dep) = DependencyOf(path, ref, dep)
    BY <2>1, <2>2, <2>3, ToldDependency
  <2>6. SelectedValue(object, path, f) = [dep \in deps |-> readDep(object, path, dep)]
    BY <1>2 DEF SelectedValue
  <2>7. Value(path, ref, f) = [dep \in deps |-> DependencyOf(path, ref, dep)]
    BY <1>2, <2>4 DEF Value, DependencyOf
  <2> HIDE DEF deps
  <2> QED
    BY <2>5, <2>6, <2>7
<1> QED
  BY <1>1, <1>2

\* A bucket of shaped records.
LEMMA ShapedBucket ==
    ASSUME NEW k, NEW n, NEW items, NEW record
    PROVE  shapeBucket([key |-> k, count |-> n, items |-> items], record)
             = [key |-> k, count |-> n, items |-> BagOf([x \in DOMAIN items |-> record[items[x]]])]
<1> DEFINE shaped == BagOf([x \in DOMAIN items |-> record[items[x]]])
           bucket == [key |-> k, count |-> n, items |-> items]
<1>1. bucket.items = items
  OBVIOUS
<1>2. shapeBucket(bucket, record) = [bucket EXCEPT !.items = shaped]
  BY <1>1 DEF shapeBucket
<1> HIDE DEF shaped
<1> QED
  BY <1>2 DEF shaped

\* A relation of a record is shaped into the trees of the rows it leads to, if each object in it is
\* shaped into the tree of its row.
LEMMA ToldRelation ==
    ASSUME ObjectRead, NoObject(Null), NoObject(Undefined), NEW path \in Paths(q) \cap plan.joins, NEW ref,
           NEW value, IsRelation(value, path, ref), NEW record, NEW tree,
           \A x \in References : \A object \in MadeOf(path, x) \cap ObjectsIn(value, path) : record[object] = tree[x]
    PROVE  ShapedValue(value, path, record) = Relation(path, ref, tree)
<1> DEFINE many == JoinAt(q, path).many
           to == RowsTo(path, ref)
           trees == [x \in to |-> tree[x]]
           same(k) == {x \in to : KeyOf(x) = k}
           keys == {KeyOf(x) : x \in to}
           groups == ControlAt(path) = "groupBy"
<1>0. Stripped /\ ~PolymorphicAt(q, path) /\ (resolver = "orm" \/ FromSql)
  BY DEF ObjectRead, ResolverKinds, FromSql
<1>1. Relation(path, ref, tree)
        = IF ~many THEN IF to = {} THEN Null ELSE trees[CHOOSE x \in to : TRUE]
          ELSE IF groups
          THEN BagOf([k \in keys |-> [key |-> k, count |-> Cardinality(same(k)),
                                      items |-> BagOf([x \in same(k) |-> trees[x]])]])
          ELSE BagOf(trees)
  <2>1. to = Window(ControlAt(path), Linked(ref, Last(path)))
    BY DEF RowsTo
  <2> QED
    BY <1>0, <2>1 DEF Relation
<1>2. groups => FromSql
  BY <1>0, ObjectOrm DEF NoControl
<1>3. to \subseteq References
  BY RowsToAreReferred
<1>4. CASE ~many
  <2> DEFINE row == CHOOSE x \in to : TRUE
  <2>1. /\ to = {} => value = Null
        /\ to # {} => row \in References /\ value \in MadeOf(path, row) /\ ~Missing(value)
    <3> DEFINE rows == Linked(ref, Last(path))
               first == CHOOSE y \in rows : TRUE
    <3>1. /\ to = rows /\ (rows = {} => value = Null)
          /\ rows # {} => first \in References /\ value \in MadeOf(path, first) /\ ~Missing(value)
      BY <1>4, RelationOfOne
    <3>2. row = first
      BY <3>1
    <3> HIDE DEF row, first, rows, to
    <3> QED
      BY <3>1, <3>2
  <2>2. CASE to = {}
    <3>1. Missing(value) /\ value = Null
      BY <2>1, <2>2 DEF Missing
    <3>2. ShapedValue(value, path, record) = Null
      BY <3>1 DEF ShapedValue
    <3> QED
      BY <1>1, <1>4, <2>2, <3>2
  <2>3. CASE to # {}
    <3>1. ShapedValue(value, path, record) = record[value]
      BY <1>4, <2>1, <2>3 DEF ShapedValue
    <3>2. value \in MadeOf(path, row) \cap ObjectsIn(value, path)
      BY <1>4, <2>1, <2>3 DEF ObjectsIn
    <3>3. row \in to
      BY <2>3
    <3>4. trees[row] = tree[row]
      BY <3>3
    <3> HIDE DEF row, trees, to
    <3> QED
      BY <1>1, <1>4, <2>1, <2>3, <3>1, <3>2, <3>4 DEF row
  <2> QED
    BY <2>2, <2>3
<1>5. CASE many
  <2>1. PICK objects : /\ objects = [x \in to |-> objects[x]]
                       /\ \A x \in to : objects[x] \in MadeOf(path, x)
                       /\ value = IF groups THEN Buckets(objects) ELSE objects
    BY <1>5 DEF IsRelation
  <2>2. DOMAIN objects = to
    BY <2>1
  <2>3. CASE groups
    <3> DEFINE items(k) == [x \in same(k) |-> objects[x]]
               bucket(k) == [key |-> k, count |-> Cardinality(same(k)), items |-> items(k)]
    <3>1. value = [k \in keys |-> bucket(k)]
      BY <2>1, <2>2, <2>3 DEF Buckets
    <3>2. ~Missing(value)
      BY <3>1, ObjectIsThere
    <3>3. ASSUME NEW x \in to PROVE objects[x] \in ObjectsIn(value, path)
      <4> DEFINE k == KeyOf(x)
      <4>1. k \in keys /\ x \in same(k)
        OBVIOUS
      <4>2. bucket(k).items = items(k) /\ value[k] = bucket(k) /\ DOMAIN value = keys
        BY <3>1, <4>1
      <4>3. objects[x] \in Range(items(k))
        BY <4>1 DEF Range
      <4>4. value[k] \in Range(value)
        BY <4>1, <4>2 DEF Range
      <4> HIDE DEF items, bucket, k, keys, same, to
      <4>5. objects[x] \in UNION {Range(b.items) : b \in Range(value)}
        BY <4>2, <4>3, <4>4
      <4> QED
        BY <1>2, <1>5, <2>3, <3>2, <4>5 DEF ObjectsIn
    <3>4. \A x \in to : record[objects[x]] = trees[x]
      BY <1>3, <2>1, <3>3
    <3>5. ASSUME NEW k \in keys
          PROVE  shapeBucket(value[k], record)
                   = [key |-> k, count |-> Cardinality(same(k)), items |-> BagOf([x \in same(k) |-> trees[x]])]
      <4>1. value[k] = bucket(k)
        BY <3>1
      <4>2. DOMAIN items(k) = same(k) /\ same(k) \subseteq to /\ \A x \in same(k) : items(k)[x] = objects[x]
        OBVIOUS
      <4> HIDE DEF items, same, trees, to
      <4>3. [x \in DOMAIN items(k) |-> record[items(k)[x]]] = [x \in same(k) |-> trees[x]]
        BY <3>4, <4>2
      <4> HIDE DEF keys
      <4> QED
        BY <4>1, <4>3, ShapedBucket
    <3>6. ShapedValue(value, path, record) = BagOf([k \in DOMAIN value |-> shapeBucket(value[k], record)])
      BY <1>2, <1>5, <2>3, <3>2 DEF ShapedValue
    <3>7. DOMAIN value = keys
      BY <3>1
    <3> HIDE DEF same, keys, trees, to
    <3>8. [k \in DOMAIN value |-> shapeBucket(value[k], record)]
            = [k \in keys |-> [key |-> k, count |-> Cardinality(same(k)), items |-> BagOf([x \in same(k) |-> trees[x]])]]
      BY <3>5, <3>7
    <3> QED
      BY <1>1, <1>5, <2>3, <3>6, <3>8
  <2>4. CASE ~groups
    <3>1. value = objects /\ ~Missing(value)
      BY <2>1, <2>4, ObjectIsThere
    <3>2. \A x \in to : objects[x] \in Range(value)
      BY <2>2, <3>1 DEF Range
    <3>3. ObjectsIn(value, path) = Range(value)
      BY <1>5, <2>4, <3>1 DEF ObjectsIn
    <3>4. \A x \in to : record[objects[x]] = trees[x]
      BY <1>3, <2>1, <3>2, <3>3
    <3>5. ShapedValue(value, path, record) = BagOf([x \in DOMAIN value |-> record[value[x]]])
      BY <1>5, <2>4, <3>1 DEF ShapedValue
    <3>6. trees = [x \in to |-> trees[x]]
      OBVIOUS
    <3> HIDE DEF trees, to
    <3>7. [x \in DOMAIN value |-> record[value[x]]] = trees
      <4>1. [x \in DOMAIN value |-> record[value[x]]] = [x \in to |-> trees[x]]
        BY <2>2, <3>1, <3>4
      <4> QED
        BY <3>6, <4>1
    <3> QED
      BY <1>1, <1>5, <2>4, <3>5, <3>7
  <2> QED
    BY <2>3, <2>4
<1> QED
  BY <1>4, <1>5

\* An object that is left as it is has what is shown at its path, and the relations of the tree.
LEMMA ReturnedNames ==
    ASSUME ObjectRead, LeftAsReturned, NEW path \in Paths(q)
    PROVE  /\ joinFields(path) = Shown(path) /\ childJoins(path) = Refs(q, path)
           /\ \A f \in Shown(path) : ~Denied(path, f) /\ ~isComputedField(q, path, f) /\ Append(path, f) \notin plan.joins
<1>0. /\ Stripped /\ ~StrippedInPassing /\ TableOf[q.root] # q.root
      /\ plan.computed = {} /\ plan.joins = Paths(q) \ {<<>>}
      /\ path \in plan.joins \cup {<<>>} /\ path \in Seq(STRING)
  BY QueryPaths, PlanJoins DEF ObjectRead, AsAsked, RootDropped, LeftOver, LeftAsReturned
<1>1. childJoins(path) = Refs(q, path)
  BY <1>0 DEF childJoins, Refs
<1>2. "id" \in FieldsOf[EntityAt(q, path)] /\ EntityAt(q, path) \in Entities /\ "id" \in STRING
  BY <1>0, QueryPaths, SchemaAssumption
<1>3. Shown(path) = {f \in q.fields[path] \cup {"id"} : ~Denied(path, f)}
  BY DEF Shown
<1>4. ASSUME NEW f \in Shown(path)
      PROVE  f \in joinFields(path) /\ ~Denied(path, f) /\ ~isComputedField(q, path, f) /\ Append(path, f) \notin plan.joins
  <2>0. f \in entityQueryableFields(EntityAt(q, path)) /\ ~Denied(path, f) /\ f \in STRING
    <3>1. f \in q.fields[path] \cup {"id"} /\ ~Denied(path, f)
      BY <1>3
    <3>2. q.fields[path] \subseteq entityQueryableFields(EntityAt(q, path)) /\ q.fields[path] \subseteq STRING
      BY <1>0, QueryPaths DEF NamesAreStrings
    <3>3. "id" \in entityQueryableFields(EntityAt(q, path))
      BY <1>2 DEF entityQueryableFields
    <3> QED
      BY <1>2, <3>1, <3>2, <3>3
  <2>1. ASSUME f = "id" PROVE f \in joinFields(path) /\ ~isComputedField(q, path, f)
    <3>1. qualifiedField(q, path, "id") \in Needed
      BY <1>0 DEF Needed
    <3>2. "id" \in joinFields(path) <=> ~DeniedAt(ColumnLocation(path, "id"))
      BY <1>0, <1>2, <3>1, NeededColumn
    <3>3. ~isComputedField(q, path, "id") /\ (Denied(path, "id") <=> DeniedAt(ColumnLocation(path, "id")))
      BY <1>2, PhysicalPlace
    <3> QED
      BY <2>0, <2>1, <3>2, <3>3
  <2>2. ASSUME f \in q.fields[path] PROVE f \in joinFields(path) /\ ~isComputedField(q, path, f)
    <3>1. ~isComputedField(q, path, f)
      <4> SUFFICES ASSUME isComputedField(q, path, f) PROVE FALSE
        OBVIOUS
      <4> DEFINE entry == [path |-> path, entity |-> EntityAt(q, path), name |-> f]
      <4>1. entry \in planComputedFields(q)
        <5>1. <<path, f>> \in {path} \X {g \in q.fields[path] : isComputedField(q, path, g)}
          BY <2>2
        <5>2. <<path, f>> \in UNION {{p} \X {g \in q.fields[p] : isComputedField(q, p, g)} : p \in Paths(q)}
          BY <5>1
        <5>3. <<path, f>>[1] = path /\ <<path, f>>[2] = f
          OBVIOUS
        <5> QED
          BY <5>2, <5>3 DEF planComputedFields
      <4>2. <<entry.entity, entry.name>> = Location(path, f)
        <5>1. entry.entity = EntityAt(q, path) /\ entry.name = f
          OBVIOUS
        <5> HIDE DEF entry
        <5> QED
          BY <5>1 DEF Location
      <4> HIDE DEF entry
      <4>3. DeniedAt(<<entry.entity, entry.name>>)
        BY <1>0, <4>1 DEF StrippedInPassing
      <4> QED
        BY <2>0, <4>2, <4>3 DEF Denied
    <3> QED
      BY <1>0, <2>0, <2>2, <3>1, SelectedColumn
  <2>3. f \in joinFields(path) /\ ~isComputedField(q, path, f)
    BY <1>3, <2>1, <2>2
  <2>4. Append(path, f) \notin plan.joins
    <3> SUFFICES ASSUME Append(path, f) \in plan.joins PROVE FALSE
      OBVIOUS
    <3>1. Front(Append(path, f)) = path /\ Last(Append(path, f)) = f
      BY <1>0, <2>0, AppendParts
    <3>2. f \in childJoins(path)
      BY <3>1 DEF childJoins
    <3> QED
      BY <1>0, <2>0, <3>2, ChildJoin
  <2> QED
    BY <2>0, <2>3, <2>4
<1>5. ASSUME NEW f \in joinFields(path) PROVE f \in Shown(path)
  <2>1. PICK field \in plan.fields : resolvePlanField(plan, field) = path /\ Last(field) = f
    BY <1>0, <1>5, FieldsJoined
  <2>2. field \in Needed /\ Allowed(field)
    BY <1>0, StrippedPlan DEF FetchedIsNeeded, Stripped
  <2>3. ~DeniedAt(ColumnLocation(path, f))
    BY <2>1, <2>2 DEF Allowed
  <2>4. field \in planNodeFields(q) \cup {qualifiedField(q, p, "id") : p \in plan.joins \cup {<<>>}}
    BY <1>0, <2>2 DEF Needed
  <2>5. CASE field \in planNodeFields(q)
    <3>1. PICK p \in Paths(q) : field \in {qualifiedField(q, p, g) : g \in {g \in q.fields[p] : ~isComputedField(q, p, g)}}
      BY <2>5 DEF planNodeFields
    <3>2. PICK g \in q.fields[p] : ~isComputedField(q, p, g) /\ field = qualifiedField(q, p, g)
      BY <3>1
    <3>3. p \in plan.joins \cup {<<>>} /\ g \in STRING
      BY <1>0, PlanJoins, QueryPaths DEF NamesAreStrings
    <3>4. p = path /\ g = f
      BY <1>0, <2>1, <3>2, <3>3, ColumnPlace
    <3>5. ~Denied(path, f)
      BY <2>3, <3>2, <3>4 DEF Denied, Location
    <3> QED
      BY <1>3, <3>4, <3>5
  <2>6. CASE field \in {qualifiedField(q, p, "id") : p \in plan.joins \cup {<<>>}}
    <3>1. PICK p \in plan.joins \cup {<<>>} : field = qualifiedField(q, p, "id")
      BY <2>6
    <3>2. p = path /\ f = "id"
      BY <1>0, <1>2, <2>1, <3>1, ColumnPlace
    <3>3. ~Denied(path, f)
      BY <1>2, <2>3, <3>2, PhysicalPlace
    <3> QED
      BY <1>3, <3>2, <3>3
  <2> QED
    BY <2>4, <2>5, <2>6
<1>6. joinFields(path) = Shown(path)
  BY <1>4, <1>5
<1> QED
  BY <1>1, <1>4, <1>6

\* The union of two functions is, value by value, that of two others.
LEMMA JoinedAlike ==
    ASSUME NEW S, NEW T, NEW f, NEW g, NEW h, NEW k,
           f = [x \in S |-> f[x]], g = [x \in S |-> g[x]], \A x \in S : f[x] = g[x],
           h = [x \in T |-> h[x]], k = [x \in T |-> k[x]], \A x \in T : h[x] = k[x]
    PROVE  f ++ h = g ++ k
<1>1. f = g
  <2>1. [x \in S |-> f[x]] = [x \in S |-> g[x]]
    OBVIOUS
  <2> QED
    BY <2>1
<1>2. h = k
  <2>1. [x \in T |-> h[x]] = [x \in T |-> k[x]]
    OBVIOUS
  <2> QED
    BY <2>1
<1> QED
  BY <1>1, <1>2

\* An object is shaped into the tree of its row, if those in its relations are (shapeNested, or
\* applyComputedToPreshaped that leaves it as it is).
LEMMA ShapedIsTree ==
    ASSUME ObjectRead, NoObject(Null), NoObject(Undefined), Nested(data), NEW path \in Paths(q),
           NEW ref \in References, NEW object \in ObjectsAt[path], Tells(object, path, ref),
           \A r \in Refs(q, path) : \A x \in References :
             \A o \in MadeOf(Append(path, r), x) \cap ObjectsAt[Append(path, r)] :
               Shapes(Append(path, r))[o] = Tree[Append(path, r)][x]
    PROVE  Shapes(path)[object] = Tree[path][ref]
<1> DEFINE values == [f \in Shown(path) |-> Value(path, ref, f)]
           relations == [r \in Refs(q, path) |-> Relation(Append(path, r), ref, Tree[Append(path, r)])]
<1>0. Stripped
  BY DEF ObjectRead
<1>1. Tree[path][ref] = values ++ relations
  <2>1. Tree[path] = TreeRecord(Tree, path)
    BY <1>0, TreeStep
  <2>2. TreeRecord(Tree, path)[ref] = values ++ relations
    BY DEF TreeRecord
  <2> HIDE DEF values, relations
  <2> QED
    BY <2>1, <2>2
<1>2. ASSUME NEW r \in Refs(q, path)
      PROVE  ShapedValue(object[r], Append(path, r), Shapes(Append(path, r))) = relations[r]
  <2> DEFINE p == Append(path, r)
  <2>1. p \in Paths(q) \cap plan.joins /\ r \in childJoins(path)
    BY <1>0, ChildPath
  <2>2. IsRelation(object[r], p, ref) /\ Get(object, r) = object[r]
    BY <2>1 DEF Tells, Get
  <2>3. ObjectsIn(object[r], p) \subseteq ObjectsAt[p]
    BY <1>0, <2>1, <2>2, ObjectAt
  <2>4. \A x \in References : \A o \in MadeOf(p, x) \cap ObjectsIn(object[r], p) : Shapes(p)[o] = Tree[p][x]
    BY <2>3
  <2>5. relations[r] = Relation(p, ref, Tree[p])
    OBVIOUS
  <2> HIDE DEF p, relations
  <2>6. ShapedValue(object[r], p, Shapes(p)) = Relation(p, ref, Tree[p])
    BY <2>1, <2>2, <2>4, ToldRelation
  <2> QED
    BY <2>5, <2>6 DEF p
<1>3. CASE ~LeftAsReturned
  <2> DEFINE own == [f \in q.fields[path] |-> SelectedValue(object, path, f)]
             shaped == [r \in Refs(q, path) |-> ShapedValue(Get(object, r), Append(path, r), shapeNested[Append(path, r)])]
  <2>1. Shapes(path)[object] = own ++ shaped
    <3>1. shapeNested[path] = ShapedRecord(shapeNested, path)
      BY <1>0, ShapedStep
    <3>2. ShapedRecord(shapeNested, path)[object] = own ++ shaped
      BY DEF ShapedRecord
    <3> HIDE DEF own, shaped
    <3> QED
      BY <1>3, <3>1, <3>2 DEF Shapes
  <2>2. Shown(path) = q.fields[path]
    BY <1>3 DEF Shown
  <2>3. /\ own = [f \in q.fields[path] |-> own[f]] /\ values = [f \in q.fields[path] |-> values[f]]
        /\ \A f \in q.fields[path] : own[f] = values[f]
    BY <1>3, <2>2, ToldValue
  <2>4. \A r \in Refs(q, path) : shaped[r] = relations[r]
    <3> SUFFICES ASSUME NEW r \in Refs(q, path) PROVE shaped[r] = relations[r]
      OBVIOUS
    <3>1. r \in childJoins(path)
      BY <1>0, ChildPath
    <3>2. Get(object, r) = object[r]
      BY <3>1 DEF Tells, Get
    <3>3. shaped[r] = ShapedValue(object[r], Append(path, r), shapeNested[Append(path, r)])
      BY <3>2
    <3>4. Shapes(Append(path, r)) = shapeNested[Append(path, r)]
      BY <1>3 DEF Shapes
    <3> HIDE DEF shaped, relations
    <3> QED
      BY <1>2, <3>3, <3>4
  <2>5. /\ shaped = [r \in Refs(q, path) |-> shaped[r]] /\ relations = [r \in Refs(q, path) |-> relations[r]]
    OBVIOUS
  <2> HIDE DEF own, shaped, values, relations
  <2> QED
    BY <1>1, <2>1, <2>3, <2>4, <2>5, JoinedAlike
<1>4. CASE LeftAsReturned
  <2> DEFINE value(n) == IF Append(path, n) \notin plan.joins \/ Missing(object[n]) THEN object[n]
                         ELSE IF JoinAt(q, Append(path, n)).many
                         THEN BagOf([x \in DOMAIN object[n] |-> AsReturned[Append(path, n)][object[n][x]]])
                         ELSE AsReturned[Append(path, n)][object[n]]
             tree == values ++ relations
  <2>1. Shapes(path)[object] = [n \in DOMAIN object |-> value(n)]
    <3>1. AsReturned[path] = ReturnedRecord(AsReturned, path)
      BY <1>0, ReturnedStep, PlanJoins
    <3>2. ReturnedRecord(AsReturned, path)[object] = [n \in DOMAIN object |-> value(n)]
      BY DEF ReturnedRecord
    <3> HIDE DEF value
    <3> QED
      BY <1>4, <3>1, <3>2 DEF Shapes
  <2>2. DOMAIN object = Shown(path) \cup Refs(q, path) /\ \A f \in Shown(path) : object[f] = Cell(ref, f)
    BY <1>4, ReturnedNames DEF Tells
  <2>3. DOMAIN values = Shown(path) /\ DOMAIN relations = Refs(q, path)
    OBVIOUS
  <2>4. ASSUME NEW f \in Shown(path) PROVE value(f) = values[f]
    <3>1. Append(path, f) \notin plan.joins /\ ~Denied(path, f) /\ ~isComputedField(q, path, f)
      BY <1>4, ReturnedNames
    <3>2. values[f] = Cell(ref, f)
      BY <3>1 DEF Value
    <3> HIDE DEF values
    <3> QED
      BY <2>2, <3>1, <3>2
  <2>5. ASSUME NEW r \in Refs(q, path) PROVE value(r) = relations[r]
    <3>1. Append(path, r) \in plan.joins
      BY <1>0, ChildPath
    <3>2. ~FromSql /\ Shapes(Append(path, r)) = AsReturned[Append(path, r)]
      BY <1>4 DEF LeftAsReturned, FromSql, Shapes
    <3>3. value(r) = ShapedValue(object[r], Append(path, r), AsReturned[Append(path, r)])
      BY <3>1, <3>2 DEF ShapedValue
    <3> HIDE DEF value, relations
    <3> QED
      BY <1>2, <3>2, <3>3
  <2>6. Shown(path) \cap Refs(q, path) = {}
    <3> SUFFICES ASSUME NEW r \in Refs(q, path), r \in Shown(path) PROVE FALSE
      OBVIOUS
    <3> QED
      BY <1>0, <1>4, ReturnedNames, ChildPath
  <2> HIDE DEF values, relations, value
  <2>7. /\ DOMAIN tree = Shown(path) \cup Refs(q, path)
        /\ \A f \in Shown(path) : tree[f] = values[f]
        /\ \A r \in Refs(q, path) : tree[r] = relations[r]
    <3>1. \A r \in Refs(q, path) : r \in DOMAIN relations \ DOMAIN values
      BY <2>3, <2>6
    <3>2. /\ DOMAIN tree = DOMAIN values \cup DOMAIN relations
          /\ \A n \in DOMAIN values : tree[n] = values[n]
          /\ \A n \in DOMAIN relations \ DOMAIN values : tree[n] = relations[n]
      BY Joined
    <3> HIDE DEF tree
    <3> QED
      BY <2>3, <3>1, <3>2
  <2>8. tree = [n \in DOMAIN tree |-> tree[n]]
    BY DEF ++
  <2> HIDE DEF tree
  <2>9. \A n \in DOMAIN tree : value(n) = tree[n]
    BY <2>4, <2>5, <2>7
  <2>10. [n \in DOMAIN object |-> value(n)] = [n \in DOMAIN tree |-> tree[n]]
    BY <2>2, <2>7, <2>9
  <2>11. Tree[path][ref] = tree
    BY <1>1 DEF tree
  <2> QED
    BY <2>1, <2>8, <2>10, <2>11
<1> QED
  BY <1>3, <1>4

\* By levels, from the leaves of the tree up, every object made for a row is shaped into its row's tree.
LEMMA ShapedAreTrees ==
    ASSUME ObjectRead, NoObject(Null), NoObject(Undefined), Nested(data)
    PROVE  \A path \in Paths(q) : \A ref \in IF path = <<>> THEN Roots ELSE References :
             \A object \in MadeOf(path, ref) \cap ObjectsAt[path] : Shapes(path)[object] = Tree[path][ref]
<1> DEFINE Done(path) == \A ref \in IF path = <<>> THEN Roots ELSE References :
                           \A object \in MadeOf(path, ref) \cap ObjectsAt[path] :
                             Shapes(path)[object] = Tree[path][ref]
<1>0. Stripped
  BY DEF ObjectRead
<1>1. PICK bound \in Nat : \A path \in Paths(q) : Len(path) \in Nat /\ Len(path) <= bound
  BY <1>0, BoundedTree
<1> DEFINE below(n) == Lower(Paths(q), bound, n)
           B == {n \in Nat : \A path \in below(n) : Done(path)}
<1>2. B \subseteq Nat
  OBVIOUS
<1>3. 0 \in B
  BY <1>1, Levels
<1>4. ASSUME NEW n \in B PROVE n + 1 \in B
  <2> SUFFICES ASSUME NEW path \in below(n + 1), NEW ref \in IF path = <<>> THEN Roots ELSE References,
                      NEW object \in MadeOf(path, ref) \cap ObjectsAt[path]
               PROVE  Shapes(path)[object] = Tree[path][ref]
    OBVIOUS
  <2>1. path \in Paths(q) /\ Len(path) + (n + 1) > bound /\ path \in plan.joins \cup {<<>>}
    BY <1>0, PlanJoins DEF Lower
  <2>2. Tells(object, path, ref) /\ ref \in References
    BY <1>0, <2>1, MadeTells, RootsAreReferred
  <2>3. ASSUME NEW r \in Refs(q, path)
        PROVE  \A x \in References : \A o \in MadeOf(Append(path, r), x) \cap ObjectsAt[Append(path, r)] :
                 Shapes(Append(path, r))[o] = Tree[Append(path, r)][x]
    <3> DEFINE p == Append(path, r)
    <3>1. p \in Paths(q) /\ Len(p) = Len(path) + 1 /\ Len(path) \in Nat /\ p # <<>>
      <4>1. p \in Paths(q) /\ Len(p) = Len(path) + 1 /\ Len(path) \in Nat
        BY <1>0, <2>1, ChildPath
      <4>2. Len(p) # 0
        BY <4>1
      <4> HIDE DEF p
      <4> QED
        BY <4>1, <4>2
    <3>2. p \in below(n)
      BY <2>1, <3>1 DEF Lower
    <3> HIDE DEF p
    <3>3. Done(p)
      BY <3>2
    <3> QED
      BY <3>1, <3>3 DEF p
  <2> QED
    BY <2>1, <2>2, <2>3, ShapedIsTree
<1>5. below(bound + 1) = Paths(q)
  BY <1>1, Levels
<1> HIDE DEF B, below
<1>6. bound + 1 \in B
  BY <1>2, <1>3, <1>4, LevelByLevel
<1> QED
  BY <1>5, <1>6 DEF B

\* So is each object that a resolver returns.
LEMMA RootsAreTrees ==
    ASSUME ObjectRead, NoObject(Null), NoObject(Undefined), data = Fetched
    PROVE  DOMAIN data = Roots /\ \A ref \in Roots : Shapes(<<>>)[data[ref]] = Tree[<<>>][ref]
<1>0. Stripped /\ resolver \in ResolverKinds /\ (resolver = "orm" \/ FromSql) /\ ~AggregateMode(q) /\ ~ReadFlat
  BY DEF ObjectRead, ResolverKinds, FromSql
<1>1. Nested(data)
  BY <1>0, FetchedIsOfPlan DEF OfPlan
<1>2. DOMAIN data = Roots /\ \A ref \in Roots : data[ref] \in MadeOf(<<>>, ref)
  <2>1. CASE resolver = "orm"
    <3>1. data = buildPlanRelationTree
      BY <2>1 DEF Fetched, FromSql
    <3> QED
      BY <2>1, <3>1 DEF buildPlanRelationTree, MadeOf
  <2>2. CASE FromSql
    <3>1. data = buildNestedSelectSql /\ resolver # "orm"
      BY <1>0, <2>2, ObjectSql DEF Fetched
    <3>2. DOMAIN buildNestedSelectSql = Roots
      BY DEF buildNestedSelectSql
    <3> QED
      BY <3>1, <3>2 DEF MadeOf
  <2> QED
    BY <1>0, <2>1, <2>2
<1>3. ObjectsAt[<<>>] = Range(data) \cup {EmptyRecord}
  <2>1. ObjectsAt[<<>>] = ObjectsFrom(ObjectsAt, <<>>)
    BY <1>0, ObjectsStep
  <2> QED
    BY <2>1 DEF ObjectsFrom
<1>4. ASSUME NEW ref \in Roots PROVE Shapes(<<>>)[data[ref]] = Tree[<<>>][ref]
  <2>1. data[ref] \in MadeOf(<<>>, ref) \cap ObjectsAt[<<>>]
    BY <1>2, <1>3 DEF Range
  <2>2. <<>> \in Paths(q)
    BY <1>0, QueryPaths
  <2>3. \A x \in Roots : \A object \in MadeOf(<<>>, x) \cap ObjectsAt[<<>>] : Shapes(<<>>)[object] = Tree[<<>>][x]
    BY <1>1, <2>2, ShapedAreTrees
  <2> QED
    BY <2>1, <2>3
<1> QED
  BY <1>2, <1>4

\* A grouping of the root has each of its groups once, with its count (buildAggregateSql).
LEMMA GroupsOfRoots ==
    ASSUME Stripped
    PROVE  Groups(BagOf(buildAggregateSql))
<1> DEFINE key == KeyField[q.root]
           of(k) == Cardinality({r \in Roots : KeyOf(r) = k})
           group(k) == [n \in {key} |-> k] ++ [count |-> of(k)]
           keys == {KeyOf(r) : r \in Roots}
<1>1. key # "count"
  <2>1. q.root \in Entities
    BY QueryPaths, EntityRoot
  <2> QED
    BY <2>1, PipelineAssumption
<1>2. ASSUME NEW k PROVE group(k)[key] = k /\ group(k).count = of(k)
  <2> HIDE DEF key, of
  <2> QED
    BY <1>1 DEF ++
<1>3. buildAggregateSql = [k \in keys |-> group(k)]
  BY DEF buildAggregateSql
<1> HIDE DEF group, of, key
<1> DEFINE groups == buildAggregateSql
<1>4. DOMAIN groups = keys /\ \A k \in keys : groups[k] = group(k)
  BY <1>3
<1>5. DOMAIN BagOf(groups) = {group(k) : k \in keys}
  BY <1>4 DEF BagOf, Range
<1>6. ASSUME NEW k \in keys PROVE BagOf(groups)[group(k)] = 1
  <2>1. {x \in DOMAIN groups : groups[x] = group(k)} = {k}
    BY <1>2, <1>4
  <2>2. BagOf(groups)[group(k)] = Cardinality({x \in DOMAIN groups : groups[x] = group(k)})
    BY <1>4 DEF BagOf, Range
  <2> QED
    BY <2>1, <2>2, FS_Singleton
<1> HIDE DEF groups
<1>7. Groups(BagOf(groups))
  <2>1. \A r \in Roots : \E g \in DOMAIN BagOf(groups) : g[key] = KeyOf(r)
    BY <1>2, <1>5
  <2>2. ASSUME NEW g \in DOMAIN BagOf(groups) PROVE BagOf(groups)[g] = 1 /\ g.count = of(g[key])
    BY <1>2, <1>5, <1>6
  <2>3. \A g : of(g[key]) = Cardinality({r \in Roots : KeyOf(r) = g[key]})
    BY DEF of
  <2> HIDE DEF groups
  <2> QED
    BY <2>1, <2>2, <2>3 DEF Groups, key
<1> QED
  BY <1>7 DEF groups

\* A read that is planned as one of objects has no polymorphic relation.
LEMMA ReadsObjects ==
    ASSUME Stripped, AsAsked, ~ReadFlat, ~AggregateMode(q), resolver \in ResolverKinds,
           resolver = "orm" => \A path \in Paths(q) : ~PolymorphicAt(q, path)
    PROVE  ObjectRead
<1>1. plan.strategy = chooseFetchStrategy(q) /\ Plannable(q)
  BY StrippedPlan DEF Stripped, PlanInv, Legal
<1>2. plan.strategy \in {"flat", "nested"}
  BY <1>1 DEF chooseFetchStrategy
<1>3. resolver = "orm" \/ (FromSql /\ plan.strategy = "nested")
  BY <1>2 DEF ReadFlat, FromSql, ResolverKinds
<1> QED
  BY <1>1, <1>3 DEF ObjectRead, Plannable

\* Shaping what was fetched answers with the tree (shapeNested, applyComputedToPreshaped,
\* shapeAggregateRows).
LEMMA TreeIsAnswered ==
    ASSUME NoObject(Null), NoObject(Undefined), Stripped, ~ReadFlat, resolver \in ResolverKinds,
           resolver = "orm" => \A path \in Paths(q) : ~PolymorphicAt(q, path),
           data = Fetched, answer = shapeResponse
    PROVE  AnswerIsTheTree
<1> SUFFICES ASSUME AsAsked
             PROVE  IF AggregateMode(q) THEN Groups(answer)
                    ELSE IF ListRead THEN answer = BagOf([r \in Roots |-> Tree[<<>>][r]])
                    ELSE IF Roots # {} THEN \E r \in Roots : answer = Tree[<<>>][r]
                    ELSE answer = Null
  BY DEF AnswerIsTheTree
<1>1. CASE AggregateMode(q)
  <2>1. FromSql /\ resolver # "orm"
    <3>1. ~ControlIgnored
      BY DEF AsAsked
    <3> QED
      BY <1>1, <3>1 DEF ControlIgnored, AggregateMode, NoControl, FromSql, ResolverKinds
  <2>2. data = buildAggregateSql
    BY <1>1, <2>1 DEF Fetched
  <2>3. answer = BagOf(data)
    BY <1>1, <2>1 DEF shapeResponse, shapeAggregateRows
  <2> QED
    BY <1>1, <2>2, <2>3, GroupsOfRoots
<1>2. CASE ~AggregateMode(q)
  <2> DEFINE trees == [r \in Roots |-> Tree[<<>>][r]]
             preshaped == [x \in DOMAIN data |-> applyComputedToPreshaped(data[x])]
             nested == [x \in DOMAIN data |-> shapeNested[<<>>][data[x]]]
             one(f, none) == IF DOMAIN f = {} THEN none ELSE f[CHOOSE x \in DOMAIN f : TRUE]
             first == CHOOSE x \in Roots : TRUE
  <2>1. ObjectRead
    BY <1>2, ReadsObjects
  <2>2. DOMAIN data = Roots /\ \A ref \in Roots : Shapes(<<>>)[data[ref]] = Tree[<<>>][ref]
    BY <2>1, RootsAreTrees
  <2>3. DOMAIN trees = Roots /\ (Roots # {} => first \in Roots /\ trees[first] = Tree[<<>>][first])
    OBVIOUS
  <2>4. CASE resolver = "orm"
    <3>1. \A object : applyComputedToPreshaped(object) = Shapes(<<>>)[object]
      BY <2>4 DEF applyComputedToPreshaped, Shapes, LeftAsReturned
    <3>2. preshaped = trees
      BY <2>2, <3>1
    <3>3. ~FromSql
      BY <2>4 DEF FromSql
    <3> HIDE DEF trees, preshaped, one
    <3>4. answer = IF ListRead THEN BagOf(preshaped) ELSE one(preshaped, applyComputedToPreshaped(EmptyRecord))
      BY <2>4, <3>3 DEF shapeResponse, one, preshaped
    <3>5. ListRead => answer = BagOf(trees)
      BY <3>2, <3>4
    <3>6. ~ListRead /\ Roots # {} => answer = Tree[<<>>][first]
      BY <2>3, <3>2, <3>4 DEF one
    <3>7. ListRead \/ Roots # {}
      BY <2>4 DEF AsAsked, MissingIsEmpty
    <3> QED
      BY <1>2, <2>3, <3>5, <3>6, <3>7 DEF trees
  <2>5. CASE FromSql
    <3>1. plan.strategy = "nested" /\ resolver # "orm"
      BY <2>1, <2>5, ObjectSql
    <3>2. nested = trees
      BY <2>2, <3>1 DEF Shapes, LeftAsReturned
    <3> HIDE DEF trees, nested, one
    <3>3. answer = IF ListRead THEN BagOf(nested) ELSE one(nested, Null)
      BY <1>2, <2>5, <3>1 DEF shapeResponse, one, nested
    <3>4. ListRead => answer = BagOf(trees)
      BY <3>2, <3>3
    <3>5. ~ListRead /\ Roots # {} => answer = Tree[<<>>][first]
      BY <2>3, <3>2, <3>3 DEF one
    <3>6. ~ListRead /\ Roots = {} => answer = Null
      BY <2>3, <3>2, <3>3 DEF one
    <3> QED
      BY <1>2, <2>3, <3>4, <3>5, <3>6 DEF trees
  <2> QED
    BY <2>4, <2>5 DEF FromSql, ResolverKinds
<1> QED
  BY <1>1, <1>2

\* While the database stays as it is, so do the columns of its rows and the rows they lead to.
LEMMA StillColumns ==
    ASSUME Still, db' = db, NEW path, NEW ref, NEW relation
    PROVE  Columns(path, ref)' = Columns(path, ref) /\ Linked(ref, relation)' = Linked(ref, relation) /\ References' = References
BY DEF Still, Columns, joinFields, parseQualifiedPlanField, Cell, Exists, Ids, Linked, References

\* So do the nodes of an ORM.
LEMMA StillNodes ==
    ASSUME Still, db' = db
    PROVE  toRelationNode' = toRelationNode
BY DEF Still, toRelationNode, References, Columns, joinFields, childJoins, parseQualifiedPlanField, Cell, Exists, Ids, Linked, JoinAt, EntityAt

\* A subquery is bound as before.
LEMMA StillBound ==
    ASSUME Still, NEW path
    PROVE  BoundTo(path)' = BoundTo(path)
<1>1. ASSUME NEW at PROVE EntityAt(q, at)' = EntityAt(q, at)
  BY DEF Still, EntityAt
<1>2. ASSUME NEW at PROVE TableAt(at)' = TableAt(at)
  BY <1>1 DEF TableAt
<1>3. ASSUME NEW word PROVE rewriteJoinOn(path, word)' = rewriteJoinOn(path, word)
  BY <1>2 DEF rewriteJoinOn
<1>4. JoinAt(q, path)' = JoinAt(q, path) /\ (PolymorphicAt(q, path)' <=> PolymorphicAt(q, path)) /\ q' = q
  BY DEF Still, JoinAt, PolymorphicAt, EntityAt
<1> QED
  BY <1>2, <1>3, <1>4 DEF BoundTo

\* And its join leads to the same rows.
LEMMA StillJoined ==
    ASSUME Still, db' = db, NEW path, NEW ref
    PROVE  JoinedFrom(path, ref)' = JoinedFrom(path, ref)
<1>1. EntityAt(q, Front(path))' = EntityAt(q, Front(path)) /\ References' = References
  BY StillColumns DEF Still, EntityAt
<1>2. OwnRows(path)' = OwnRows(path)
  BY <1>1 DEF OwnRows
<1> QED
  BY <1>2, StillBound, StillColumns DEF JoinedFrom

\* A control leaves the same rows, and groups them alike.
LEMMA StillWindow ==
    ASSUME db' = db
    PROVE  /\ \A kind, refs : Window(kind, refs)' = Window(kind, refs)
           /\ \A records : Buckets(records)' = Buckets(records)
BY DEF Window, renderWhereSql, Before, Buckets, Cell, Exists, Ids, KeyOf

\* So a relation is rendered alike, from the same objects.
LEMMA StillRelations ==
    ASSUME Still, db' = db, NEW path, NEW scope, NEW patch, NEW object
    PROVE  renderRelation(path, scope, patch, object)' = renderRelation(path, scope, patch, object)
<1> DEFINE records(join, refs) == [ref \in refs |-> object[Append(scope, ref)][patch /\ ~join.many]]
           value(join, kind, to, objects, buckets) ==
             CASE ~join.many -> IF to = {} THEN Null ELSE objects[CHOOSE ref \in DOMAIN objects : TRUE]
               [] join.many /\ kind = "groupBy" -> buckets
               [] OTHER -> objects
           to == JoinedFrom(path, scope[Len(BoundTo(path)) + 1])
           objects == records(JoinAt(q, path), Window(ControlAt(path), to))
<1>1. renderRelation(path, scope, patch, object) = value(JoinAt(q, path), ControlAt(path), to, objects, Buckets(objects))
  BY DEF renderRelation
<1>2. renderRelation(path, scope, patch, object)'
        = value(JoinAt(q, path)', ControlAt(path)', to', objects', Buckets(objects)')
  BY DEF renderRelation
<1>3. JoinAt(q, path)' = JoinAt(q, path) /\ ControlAt(path)' = ControlAt(path)
  BY DEF Still, JoinAt, EntityAt, ControlAt, Controlled
<1>4. to' = to
  BY StillBound, StillJoined
<1> HIDE DEF to
<1>5. objects' = objects
  <2>1. Window(ControlAt(path), to)' = Window(ControlAt(path), to)
    BY <1>3, <1>4, StillWindow
  <2> QED
    BY <1>3, <2>1
<1> HIDE DEF objects
<1>6. Buckets(objects)' = Buckets(objects)
  BY <1>5, StillWindow
<1> HIDE DEF value
<1> QED
  BY <1>1, <1>2, <1>3, <1>4, <1>5, <1>6

\* The same names come by a patch.
LEMMA StillPatched ==
    ASSUME Still, NEW path
    PROVE  jsonObject(path)' = jsonObject(path)
BY DEF Still, jsonObject, joinFields, childJoins, parseQualifiedPlanField, resolver, getEntry

\* A record is rendered alike.
LEMMA StillRecord ==
    ASSUME Still, db' = db, NEW f, NEW path
    PROVE  RenderedRecord(f, path)' = RenderedRecord(f, path)
<1> DEFINE relation(scope, patch, r) ==
             renderRelation(Append(path, r), scope, patch \/ r \in jsonObject(path), f[Append(path, r)])
           relations(scope, patch) == [r \in childJoins(path) |-> relation(scope, patch, r)]
           object(scope, patch) == Columns(path, scope[Len(path) + 1]) ++ relations(scope, patch)
           names(scope, patch) == IF patch THEN DOMAIN object(scope, patch) ELSE jsonObject(path)
           record(scope, patch) == mergePatch(object(scope, patch), names(scope, patch))
<1>0. jsonObject(path)' = jsonObject(path) /\ childJoins(path)' = childJoins(path)
  BY StillPatched, StillNamed
<1>1. ASSUME NEW scope, NEW patch, NEW r PROVE relation(scope, patch, r)' = relation(scope, patch, r)
  BY <1>0, StillRelations
<1> HIDE DEF relation
<1>2. ASSUME NEW scope, NEW patch PROVE relations(scope, patch)' = relations(scope, patch)
  BY <1>0, <1>1
<1> HIDE DEF relations
<1>3. ASSUME NEW scope, NEW patch PROVE object(scope, patch)' = object(scope, patch)
  <2>1. Columns(path, scope[Len(path) + 1])' = Columns(path, scope[Len(path) + 1])
    BY StillColumns
  <2> QED
    BY <1>2, <2>1
<1> HIDE DEF object
<1>4. ASSUME NEW scope, NEW patch PROVE record(scope, patch)' = record(scope, patch)
  BY <1>0, <1>3 DEF mergePatch
<1>5. /\ RenderedRecord(f, path) = [scope \in Scopes(path) |-> [patch \in BOOLEAN |-> record(scope, patch)]]
      /\ RenderedRecord(f, path)' = [scope \in Scopes(path)' |-> [patch \in BOOLEAN |-> record(scope, patch)']]
  BY DEF RenderedRecord, object, relations, relation
<1> HIDE DEF record
<1>6. Scopes(path)' = Scopes(path)
  BY StillColumns DEF Scopes
<1> QED
  BY <1>4, <1>5, <1>6

\* And so are all.
LEMMA StillRendered ==
    ASSUME Still, db' = db
    PROVE  renderRecordObject' = renderRecordObject
<1>1. renderRecordObject = CHOOSE f : f = [path \in plan.joins |-> RenderedRecord(f, path)]
  BY DEF renderRecordObject, RenderedRecord
<1>2. renderRecordObject' = CHOOSE f : f = [path \in plan.joins' |-> RenderedRecord(f, path)']
  BY DEF renderRecordObject, RenderedRecord
<1>3. \A f : [path \in plan.joins |-> RenderedRecord(f, path)] = [path \in plan.joins' |-> RenderedRecord(f, path)']
  BY StillRecord DEF Still
<1> QED
  BY <1>1, <1>2, <1>3

\* The roots and their groups are the same.
LEMMA StillRoots ==
    ASSUME Still, db' = db
    PROVE  Roots' = Roots /\ buildAggregateSql' = buildAggregateSql
BY DEF Still, Roots, buildAggregateSql, KeyOf, Cell, Exists, Ids

\* While what was fetched stays as it is, so does what it is shaped into.
LEMMA StillReturned ==
    ASSUME Still, data' = data
    PROVE  AsReturned' = AsReturned
BY DEF Still, AsReturned, ObjectsAt, ObjectsIn, JoinAt, EntityAt, ControlAt, Controlled, FromSql, resolver, getEntry

LEMMA StillShaped ==
    ASSUME Still, data' = data
    PROVE  shapeNested' = shapeNested
BY DEF Still, shapeNested, Paths, Refs, SelectedValue, isComputedField, readDep, PolymorphicAt, ObjectsAt, ObjectsIn,
       JoinAt, EntityAt, ControlAt, Controlled, FromSql, resolver, getEntry

\* A read of objects, or a grouping, would fetch the same again.
LEMMA StillFetched ==
    ASSUME Still, db' = db, Stripped, ~ReadFlat, resolver \in ResolverKinds
    PROVE  Fetched' = Fetched
<1>1. resolver = "orm" \/ (FromSql /\ AggregateMode(q)) \/ (FromSql /\ plan.strategy = "nested" /\ ~AggregateMode(q))
  <2>1. plan.strategy \in {"flat", "nested"}
    BY StrippedPlan DEF chooseFetchStrategy
  <2> QED
    BY <2>1 DEF ReadFlat, FromSql, ResolverKinds
<1>2. /\ resolver' = resolver /\ (FromSql' <=> FromSql) /\ plan' = plan
      /\ AggregateMode(q)' <=> AggregateMode(q)
  BY StillResolved DEF Still, AggregateMode, Controlled
<1>3. buildPlanRelationTree' = buildPlanRelationTree
  BY StillRoots, StillNodes DEF buildPlanRelationTree
<1>4. buildNestedSelectSql' = buildNestedSelectSql
  <2> DEFINE relation(ref, r) == renderRelation(<<r>>, <<ref>>, FALSE, renderRecordObject[<<r>>])
             relations(ref) == [r \in childJoins(<<>>) |-> relation(ref, r)]
             row(ref) == Columns(<<>>, ref) ++ relations(ref)
  <2>1. ASSUME NEW ref, NEW r PROVE relation(ref, r)' = relation(ref, r)
    BY StillRelations, StillRendered
  <2> HIDE DEF relation
  <2>2. ASSUME NEW ref PROVE relations(ref)' = relations(ref)
    BY <2>1, StillNamed
  <2> HIDE DEF relations
  <2>3. ASSUME NEW ref PROVE row(ref)' = row(ref)
    BY <2>2, StillColumns
  <2>4. /\ buildNestedSelectSql = [ref \in Roots |-> row(ref)]
        /\ buildNestedSelectSql' = [ref \in Roots' |-> row(ref)']
    BY DEF buildNestedSelectSql, relations, relation
  <2> HIDE DEF row
  <2> QED
    BY <2>3, <2>4, StillRoots
<1>5. buildAggregateSql' = buildAggregateSql
  BY StillRoots
<1> QED
  BY <1>1, <1>2, <1>3, <1>4, <1>5 DEF Fetched, FromSql

\* And shape it into the same answer.
LEMMA StillAnswered ==
    ASSUME Still, data' = data, Stripped, ~ReadFlat, resolver \in ResolverKinds
    PROVE  shapeResponse' = shapeResponse
<1> DEFINE preshaped == [x \in DOMAIN data |-> applyComputedToPreshaped(data[x])]
           nested == [x \in DOMAIN data |-> shapeNested[<<>>][data[x]]]
           none == applyComputedToPreshaped(EmptyRecord)
           one(f, x) == IF DOMAIN f = {} THEN x ELSE f[CHOOSE y \in DOMAIN f : TRUE]
           orm == IF ListRead THEN BagOf(preshaped) ELSE one(preshaped, none)
           sql == IF ListRead THEN BagOf(nested) ELSE one(nested, Null)
<1>1. resolver = "orm" \/ (FromSql /\ AggregateMode(q)) \/ (FromSql /\ plan.strategy = "nested" /\ ~AggregateMode(q))
  <2>1. plan.strategy \in {"flat", "nested"}
    BY StrippedPlan DEF chooseFetchStrategy
  <2> QED
    BY <2>1 DEF ReadFlat, FromSql, ResolverKinds
<1>2. /\ resolver' = resolver /\ (FromSql' <=> FromSql) /\ plan' = plan /\ (ListRead' <=> ListRead)
      /\ AggregateMode(q)' <=> AggregateMode(q)
  BY StillResolved DEF Still, AggregateMode, Controlled, ListRead
<1>3. \A object : applyComputedToPreshaped(object)' = applyComputedToPreshaped(object)
  BY <1>2, StillReturned, StillShaped DEF applyComputedToPreshaped
<1>4. preshaped' = preshaped /\ none' = none /\ nested' = nested
  BY <1>3, StillShaped DEF EmptyRecord
<1> HIDE DEF preshaped, none, nested
<1>5. BagOf(preshaped)' = BagOf(preshaped) /\ BagOf(nested)' = BagOf(nested)
  BY <1>4 DEF BagOf, Range
<1>6. orm' = orm /\ sql' = sql
  BY <1>2, <1>4, <1>5
<1>7. shapeAggregateRows(data)' = shapeAggregateRows(data)
  BY DEF shapeAggregateRows, BagOf, Range
<1> HIDE DEF one, orm, sql
<1>8. /\ resolver = "orm" => shapeResponse = orm
      /\ resolver # "orm" /\ FromSql /\ AggregateMode(q) => shapeResponse = shapeAggregateRows(data)
      /\ resolver # "orm" /\ FromSql /\ plan.strategy = "nested" /\ ~AggregateMode(q) => shapeResponse = sql
  BY DEF shapeResponse, FromSql, orm, sql, one, preshaped, nested, none
<1>9. /\ (resolver = "orm")' => shapeResponse' = orm'
      /\ (resolver # "orm" /\ FromSql /\ AggregateMode(q))' => shapeResponse' = shapeAggregateRows(data)'
      /\ (resolver # "orm" /\ FromSql /\ plan.strategy = "nested" /\ ~AggregateMode(q))' => shapeResponse' = sql'
  BY DEF shapeResponse, FromSql, orm, sql, one, preshaped, nested, none
<1> QED
  BY <1>1, <1>2, <1>6, <1>7, <1>8, <1>9 DEF FromSql

-----------------------------------------------------------------------------
(* From the plan to the answer, by objects.                                  *)

\* An ORM has no relation for a polymorphic join (ReadInit).
RelationsKnown ==
    resolver = "orm" => \A path \in Paths(q) : resolveRefEntity(q, path) => ~PolymorphicAt(q, path)

\* A read of objects, or a grouping: what it fetched and answered is what it would fetch and answer now.
ObjectInv ==
    /\ ReadInv /\ RelationsKnown
    /\ stage \in {"fetched", "answered"} => resolver \in ResolverKinds /\ (~ReadFlat => data = Fetched)
    /\ stage = "answered" /\ ~ReadFlat => answer = shapeResponse

\* No step changes that (Prepare, Resolve, Shape).
LEMMA ObjectStep == ObjectInv /\ [ReadNext]_readVars => ObjectInv'
<1> SUFFICES ASSUME ObjectInv, [ReadNext]_readVars PROVE ObjectInv'
  OBVIOUS
<1>1. ReadInv /\ ReadInv'
  BY ReadStep DEF ObjectInv
<1>2. q' = q /\ registry' = registry /\ db' = db
  BY DEF ReadNext, Prepare, Plan, Strip, Resolve, Shape, readVars, requestVars
<1>3. RelationsKnown'
  <2>1. ASSUME NEW path
        PROVE  /\ PolymorphicAt(q, path)' <=> PolymorphicAt(q, path)
               /\ resolveRefEntity(q, path)' <=> resolveRefEntity(q, path)
    BY <1>2 DEF PolymorphicAt, JoinAt, EntityAt, resolveRefEntity
  <2>2. resolver' = resolver /\ Paths(q)' = Paths(q)
    BY <1>2 DEF resolver, getEntry, Paths
  <2> QED
    BY <2>1, <2>2 DEF ObjectInv, RelationsKnown
<1>4. CASE Prepare
  BY <1>1, <1>3, <1>4 DEF ObjectInv, Prepare, Plan, Strip
<1>5. CASE Resolve /\ ResolverFails
  BY <1>1, <1>3, <1>5 DEF ObjectInv, Resolve
<1>6. CASE Resolve /\ ~ResolverFails
  <2>1. Still /\ Stripped /\ stage' = "fetched" /\ data' = Fetched
    BY <1>1, <1>6 DEF Resolve, Still, Stripped, ReadInv
  <2>2. resolver \in ResolverKinds
    BY <1>1, <1>6 DEF ResolverFails, ReadInv, KindsKnown, resolver, getEntry
  <2>3. ~ReadFlat => Fetched' = Fetched
    BY <1>2, <2>1, <2>2, StillFetched
  <2>4. resolver' \in ResolverKinds /\ (ReadFlat' <=> ReadFlat)
    BY <2>1, <2>2, StillResolved DEF ResolverKinds
  <2> QED
    BY <1>1, <1>3, <2>1, <2>3, <2>4 DEF ObjectInv, ResolverKinds
<1>7. ASSUME Still, stage \in {"fetched", "answered"}, data' = data
      PROVE  /\ resolver' \in ResolverKinds /\ (ReadFlat' <=> ReadFlat)
             /\ ~ReadFlat => data' = Fetched' /\ shapeResponse' = shapeResponse
  <2>1. Stripped /\ resolver \in ResolverKinds /\ (~ReadFlat => data = Fetched)
    BY <1>7 DEF ObjectInv, ReadInv, Stripped
  <2>2. ~ReadFlat => Fetched' = Fetched /\ shapeResponse' = shapeResponse
    BY <1>2, <1>7, <2>1, StillFetched, StillAnswered
  <2> QED
    BY <1>7, <2>1, <2>2, StillResolved
<1>8. CASE Shape
  <2>1. Still /\ stage = "fetched" /\ stage' = "answered" /\ data' = data /\ answer' = shapeResponse
    BY <1>8 DEF Shape, Still
  <2> QED
    BY <1>1, <1>3, <1>7, <2>1 DEF ObjectInv, ResolverKinds
<1>9. CASE UNCHANGED readVars
  <2>1. Still /\ stage' = stage /\ data' = data /\ answer' = answer
    BY <1>9 DEF readVars, requestVars, Still
  <2> QED
    BY <1>1, <1>3, <1>7, <2>1 DEF ObjectInv, ResolverKinds
<1> QED
  BY <1>4, <1>5, <1>6, <1>8, <1>9 DEF ReadNext

\* But for the cases that AsAsked names, a read that fetches objects or groups, nested in SQL or by an ORM,
\* answers with the selected tree: each record once, below its own parent, with its own fields, as the
\* database has it, and null where a point read finds none (AnswerIsTheTree).
\* Null and undefined are no objects.
THEOREM ObjectReadsAreTheTree ==
    ASSUME NoObject(Null), NoObject(Undefined)
    PROVE  ReadSpec => [](~ReadFlat => AnswerIsTheTree)
<1>1. ReadInit => ObjectInv
  BY ReadStart DEF ReadInit, RequestInit, ObjectInv, RelationsKnown
<1>2. ObjectInv => (~ReadFlat => AnswerIsTheTree)
  <2> SUFFICES ASSUME ObjectInv, ~ReadFlat, stage = "answered" PROVE AnswerIsTheTree
    BY DEF AnswerIsTheTree
  <2>1. Stripped /\ resolver \in ResolverKinds /\ data = Fetched /\ answer = shapeResponse
    BY DEF ObjectInv, ReadInv, Stripped
  <2>2. ASSUME resolver = "orm", NEW path \in Paths(q) PROVE ~PolymorphicAt(q, path)
    <3>1. path = <<>> \/ resolveRefEntity(q, path)
      BY <2>1, StrippedPlan DEF normalizeReadTree
    <3> QED
      BY <2>2, <3>1 DEF ObjectInv, RelationsKnown, PolymorphicAt
  <2> QED
    BY <2>1, <2>2, TreeIsAnswered
<1> QED
  BY <1>1, <1>2, ObjectStep, PTL DEF ReadSpec

=================================================================================
