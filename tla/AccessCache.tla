----------------------------- MODULE AccessCache -----------------------------
(***************************************************************************)
(* The rules of withAccess behind the cache of withAccessCache             *)
(* (access/src/index.ts, access-cache/src).                                *)
(*                                                                         *)
(* A request passes the gates of the three access plugins in turn.  Each   *)
(* asks the cache first and the application's rule on a miss; entity and   *)
(* field rules are synchronous, dynamic and row rules are awaited between  *)
(* the read of the cache and the write to it.  Meanwhile the application   *)
(* changes what a principal may do and invalidates what was cached.  The   *)
(* store is a Map in the process, or Redis behind HTTP commands that take  *)
(* effect one by one and may fail.                                         *)
(***************************************************************************)
EXTENDS Naturals, Sequences, FiniteSets

CONSTANTS
  Users, Roles,
  NoUser, NoRole,   \* a context without a userId, without a role
  Principals,       \* who makes requests: a user and a role (tenants are as roles)
  Gates,            \* the gates the options configure, in the order of the plugins
  Requests,         \* as many may be under way at once
  Callers,          \* of the application, who invalidate; their calls may overlap
  TTL,              \* ttlSeconds
  None,             \* no entry
  MaxNow, MaxChanges, MaxInvalidations, MaxMade   \* bounds of a run

GateNames == {"entity", "rule", "dynamic", "row"}
Keys == Principals \X GateNames
Entry == [value : BOOLEAN, expiresAt : Nat, late : BOOLEAN]

ASSUME CacheAssumption ==
  /\ TTL \in Nat \ {0} /\ {MaxNow, MaxChanges, MaxInvalidations, MaxMade} \subseteq Nat
  /\ Principals \subseteq (Users \cup {NoUser}) \X (Roles \cup {NoRole})
  /\ Gates \in Seq(GateNames) /\ Len(Gates) > 0
  /\ NoUser \notin Users /\ NoRole \notin Roles /\ None \notin Entry

VARIABLES
  remote,     \* whether the store answers with promises
  entries,    \* the store
  may,        \* principal -> what the application's rules say of it now
  request,    \* request -> where it is
  invalidation, \* caller -> the invalidation it has under way
  now, changes, invalidations, made,
  \* For the properties:
  changedAt,  \* principal -> when its rules last changed
  covered     \* keys an invalidation was called for, and returned, since the last change

vars == <<remote, entries, may, request, invalidation, now, changes, invalidations, made,
          changedAt, covered>>

Request == [
  phase     : {"idle", "gate", "missed", "evaluated"},
  principal : Principals \cup {None},
  byId      : BOOLEAN,        \* it has an entityId, without which it passes no row gate
  gate      : 0..Len(Gates),  \* the gate it is at
  value     : BOOLEAN,        \* what the rule said
  changed   : BOOLEAN ]       \* whether that has changed since
Idle == [phase |-> "idle", principal |-> None, byId |-> FALSE, gate |-> 0, value |-> FALSE, changed |-> FALSE]

Invalidation == [
  phase : {"idle", "called", "found"},
  scope : SUBSET Keys,        \* what its prefix covers
  found : SUBSET Keys,        \* the answer of KEYS
  valid : SUBSET Keys ]       \* keys of its scope whose rules did not change since
NoInvalidation == [phase |-> "idle", scope |-> {}, found |-> {}, valid |-> {}]

CacheTypeOK ==
  /\ remote \in BOOLEAN
  /\ entries \in [Keys -> Entry \cup {None}]
  /\ may \in [Principals -> BOOLEAN]
  /\ request \in [Requests -> Request]
  /\ invalidation \in [Callers -> Invalidation]
  /\ now \in 0..MaxNow /\ changes \in 0..MaxChanges
  /\ invalidations \in 0..MaxInvalidations /\ made \in 0..MaxMade
  /\ changedAt \in [Principals -> Nat]
  /\ covered \subseteq Keys

Init ==
  /\ remote \in BOOLEAN
  /\ entries = [k \in Keys |-> None]
  /\ may \in [Principals -> {TRUE}]
  /\ request = [r \in Requests |-> Idle]
  /\ invalidation = [c \in Callers |-> NoInvalidation]
  /\ now = 0 /\ changes = 0 /\ invalidations = 0 /\ made = 0
  /\ changedAt = [p \in Principals |-> 0]
  /\ covered = {}

-----------------------------------------------------------------------------
(* The store. *)

LivesOneLonger(k, t) == entries[k] # None /\ entries[k].expiresAt >= t

(* get: an entry that has expired is none. *)
LiveAt(k, t) == entries[k] # None /\ entries[k].expiresAt > t
Live(k) == LiveAt(k, now)
get(k) == IF Live(k) THEN entries[k].value ELSE None

(* set; `late` says that the rule has changed since it was asked. *)
set(k, value, late) ==
  entries' = [entries EXCEPT ![k] = [value |-> value, expiresAt |-> now + TTL, late |-> late]]

(* deleteByPrefix, or the DEL of its Redis form. *)
Drop(keys) == entries' = [k \in Keys |-> IF k \in keys THEN None ELSE entries[k]]

-----------------------------------------------------------------------------
(* Requests. *)

Key(r) == <<request[r].principal, Gates[request[r].gate]>>
Become(r, q) == request' = [request EXCEPT ![r] = q]

EndsOnDenial(r, allowed) == ~allowed /\ Gates[request[r].gate] \in {"entity", "row"}

(* What a gate's verdict does to the request: entity and row end it, a field is only stripped. *)
Ends(r, allowed) ==
  \/ ~allowed /\ Gates[request[r].gate] \in {"entity", "row"}
  \/ request[r].gate = Len(Gates)
  \/ ~request[r].byId /\ Gates[request[r].gate + 1] = "row"
Pass(r, allowed) ==
  Become(r, IF Ends(r, allowed) THEN Idle
            ELSE [request[r] EXCEPT !.phase = "gate", !.gate = @ + 1, !.value = FALSE, !.changed = FALSE])

Begin(r) ==
  /\ request[r].phase = "idle" /\ made < MaxMade
  /\ made' = made + 1
  /\ \E p \in Principals, byId \in BOOLEAN :
       Become(r, [Idle EXCEPT !.phase = "gate", !.principal = p, !.byId = byId, !.gate = 1])
  /\ UNCHANGED <<remote, entries, may, invalidation, now, changes, invalidations, changedAt, covered>>

(* wrapSyncBooleanRule: with a store that answers with promises the rule is asked every time. *)
wrapSyncBooleanRule(r) ==
  /\ request[r].phase = "gate" /\ Gates[request[r].gate] \in {"entity", "rule"}
  /\ LET cached == IF remote THEN None ELSE get(Key(r))
         asked == may[request[r].principal] IN
       \/ cached # None /\ Pass(r, cached) /\ UNCHANGED entries
       \/ cached = None /\ Pass(r, asked)
            /\ IF remote THEN UNCHANGED entries ELSE set(Key(r), asked, FALSE)
  /\ UNCHANGED <<remote, may, invalidation, now, changes, invalidations, made, changedAt, covered>>

(* readBoolean, readStringList: a hit is the answer. *)
ReadCache(r) ==
  /\ request[r].phase = "gate" /\ Gates[request[r].gate] \in {"dynamic", "row"}
  /\ \/ get(Key(r)) # None /\ Pass(r, get(Key(r)))
     \/ get(Key(r)) = None /\ Become(r, [request[r] EXCEPT !.phase = "missed"])
  /\ UNCHANGED <<remote, entries, may, invalidation, now, changes, invalidations, made, changedAt, covered>>

(* The application's rule reads what it decides on. *)
Evaluate(r) ==
  /\ request[r].phase = "missed"
  /\ Become(r, [request[r] EXCEPT !.phase = "evaluated", !.value = may[request[r].principal]])
  /\ UNCHANGED <<remote, entries, may, invalidation, now, changes, invalidations, made, changedAt, covered>>

(* writeBoolean, writeStringList: the rule's answer is cached, and is the answer. *)
WriteCache(r) ==
  /\ request[r].phase = "evaluated"
  /\ set(Key(r), request[r].value, request[r].changed)
  /\ Pass(r, request[r].value)
  /\ UNCHANGED <<remote, may, invalidation, now, changes, invalidations, made, changedAt, covered>>

(* A rule throws, or a Redis command of an awaited gate is not answered: so ends the request. *)
Fail(r) ==
  /\ \/ request[r].phase = "missed"
     \/ remote /\ request[r].phase \in {"gate", "evaluated"}
  /\ Gates[request[r].gate] \in {"dynamic", "row"}
  /\ Become(r, Idle)
  /\ UNCHANGED <<remote, entries, may, invalidation, now, changes, invalidations, made, changedAt, covered>>

-----------------------------------------------------------------------------
(* The application's changes and invalidations. *)

(* The keys under what principalPrefix digests: a principal's parts, the absent ones empty. *)
principalPrefix(p) == {k \in Keys : k[1] = p}

PrefixWithoutUser(u) == principalPrefix(<<NoUser, NoRole>>)
userInvalidationPrefix(u) == principalPrefix(<<u, NoRole>>)
roleInvalidationPrefix(role) == principalPrefix(<<NoUser, role>>)

Call(c, scope, expected) ==
  /\ invalidation[c].phase = "idle" /\ invalidations < MaxInvalidations
  /\ invalidations' = invalidations + 1
  /\ \/ /\ remote
        /\ invalidation' = [invalidation EXCEPT ![c] =
              [phase |-> "called", scope |-> scope, found |-> {}, valid |-> expected]]
        /\ UNCHANGED <<entries, covered>>
     \/ ~remote /\ Drop(scope) /\ covered' = covered \cup expected /\ UNCHANGED invalidation
  /\ UNCHANGED <<remote, may, request, now, changes, made, changedAt>>

(***************************************************************************)
(* What a caller can expect of them is the keys of contexts with nothing   *)
(* but that user, or nothing but that role; of invalidateAll, every key.   *)
(***************************************************************************)
invalidateUser(c) ==
  \E u \in Users : Call(c, userInvalidationPrefix(u), {k \in Keys : k[1] = <<u, NoRole>>})
invalidateRole(c) ==
  \E role \in Roles : Call(c, roleInvalidationPrefix(role), {k \in Keys : k[1] = <<NoUser, role>>})
invalidateAll(c) == Call(c, Keys, Keys)

(* deleteByPrefix of the Redis store: KEYS, then DEL of the keys it found. *)
FindKeys(c) ==
  /\ invalidation[c].phase = "called"
  /\ invalidation' = [invalidation EXCEPT
       ![c].phase = "found", ![c].found = {k \in invalidation[c].scope : Live(k)}]
  /\ UNCHANGED <<remote, entries, may, request, now, changes, invalidations, made, changedAt, covered>>

DeleteFound(c) ==
  /\ invalidation[c].phase = "found"
  /\ Drop(invalidation[c].found)
  /\ covered' = covered \cup invalidation[c].valid
  /\ invalidation' = [invalidation EXCEPT ![c] = NoInvalidation]
  /\ UNCHANGED <<remote, may, request, now, changes, invalidations, made, changedAt>>

(* One of the two is not answered: the caller is told. *)
FailInvalidation(c) ==
  /\ invalidation[c].phase # "idle"
  /\ invalidation' = [invalidation EXCEPT ![c] = NoInvalidation]
  /\ UNCHANGED <<remote, entries, may, request, now, changes, invalidations, made, changedAt, covered>>

(* The application changes what p may do. *)
Change(p) ==
  /\ changes < MaxChanges
  /\ changes' = changes + 1
  /\ may' = [may EXCEPT ![p] = ~@]
  /\ changedAt' = [changedAt EXCEPT ![p] = now]
  /\ covered' = covered \ principalPrefix(p)
  /\ invalidation' = [c \in Callers |-> [invalidation[c] EXCEPT !.valid = @ \ principalPrefix(p)]]
  /\ request' = [r \in Requests |->
       IF request[r].phase = "evaluated" /\ request[r].principal = p
         THEN [request[r] EXCEPT !.changed = TRUE] ELSE request[r]]
  /\ UNCHANGED <<remote, entries, now, invalidations, made>>

(* Redis and the Map alike forget what has expired. *)
Tick ==
  /\ now < MaxNow
  /\ now' = now + 1
  /\ entries' = [k \in Keys |-> IF LiveAt(k, now + 1) THEN entries[k] ELSE None]
  /\ UNCHANGED <<remote, may, request, invalidation, changes, invalidations, made, changedAt, covered>>

Next ==
  \/ \E r \in Requests :
       Begin(r) \/ wrapSyncBooleanRule(r) \/ ReadCache(r) \/ Evaluate(r) \/ WriteCache(r) \/ Fail(r)
  \/ \E c \in Callers :
       invalidateUser(c) \/ invalidateRole(c) \/ invalidateAll(c)
         \/ FindKeys(c) \/ DeleteFound(c) \/ FailInvalidation(c)
  \/ \E p \in Principals : Change(p)
  \/ Tick

Spec == Init /\ [][Next]_vars

-----------------------------------------------------------------------------
(***************************************************************************)
(* A cached answer that has become wrong is gone ttlSeconds after the rule *)
(* changed, unless it was written late: by a request that had asked the    *)
(* rule before the change and wrote the answer after it.                   *)
(***************************************************************************)
StaleAtMostTTL ==
  \A k \in Keys :
    (Live(k) /\ entries[k].value # may[k[1]] /\ ~entries[k].late) => now < changedAt[k[1]] + TTL

(***************************************************************************)
(* Once an invalidation called after the last change of a rule returned,   *)
(* the store holds no answer from before the change, unless it was written *)
(* late: also when the keys were looked up and deleted in two steps, and   *)
(* requests and other invalidations ran in between.                        *)
(***************************************************************************)
InvalidatedIsFresh ==
  \A k \in covered : (Live(k) /\ ~entries[k].late) => entries[k].value = may[k[1]]

-----------------------------------------------------------------------------
(***************************************************************************)
(* Why: the inductive invariant.                                           *)
(***************************************************************************)

(* A request under way has a principal and is at a gate. *)
Placed ==
  \A r \in Requests : request[r].phase # "idle" =>
    request[r].principal \in Principals /\ request[r].gate \in 1..Len(Gates)

(* What a rule said is still so, unless the request was told that it changed. *)
AnsweredFresh ==
  \A r \in Requests : request[r].phase = "evaluated" /\ ~request[r].changed =>
    request[r].value = may[request[r].principal]

EntriesInTime ==
  \A k \in Keys : entries[k] # None => now < entries[k].expiresAt /\ entries[k].expiresAt <= now + TTL

Fresh(k) == entries[k] # None /\ ~entries[k].late => entries[k].value = may[k[1]]

(* An answer that is not fresh was cached before the last change. *)
OutdatedInTime ==
  \A k \in Keys : Fresh(k) \/ entries[k].expiresAt <= changedAt[k[1]] + TTL

CoveredFresh == \A k \in covered : Fresh(k)

(* What an invalidation under way will cover is fresh, or among what it deletes. *)
WillCover(i) ==
  /\ i.valid \subseteq i.scope
  /\ i.phase = "found" => \A k \in i.valid \ i.found : Fresh(k)

InvalidationCovers == \A c \in Callers : WillCover(invalidation[c])

CacheInv ==
  /\ CacheTypeOK /\ Placed /\ AnsweredFresh /\ EntriesInTime
  /\ OutdatedInTime /\ CoveredFresh /\ InvalidationCovers

=============================================================================
