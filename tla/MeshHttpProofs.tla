---------------------------- MODULE MeshHttpProofs ----------------------------
(***************************************************************************)
(* What MeshHttp promises, for any clients, sessions, contents and digests *)
(* and any number of concurrent calls: HttpInv is inductive and implies it.*)
(***************************************************************************)
EXTENDS MeshHttp, SequenceTheorems, WellFoundedInduction, TLAPS

-----------------------------------------------------------------------------
(* Identifiers. *)

(* Every non-empty set of naturals has a least member. *)
LEMMA LeastNatural ==
  ASSUME NEW S, S \subseteq Nat, S # {}
  PROVE  \E n \in S : \A m \in S : n <= m
<1> DEFINE R == OpToRel(<, Nat)
<1>1. IsWellFoundedOn(R, Nat)
  BY NatLessThanWellFounded
<1>2. \A x, y \in Nat : x < y => <<x, y>> \in R
  BY DEF OpToRel
<1> HIDE DEF R
<1>3. PICK n \in S : \A m \in S : ~ (<<m, n>> \in R)
  BY <1>1, WFMin
<1>4. \A m \in S : n <= m
  <2> SUFFICES ASSUME NEW m \in S PROVE n <= m
    OBVIOUS
  <2>1. m \in Nat /\ n \in Nat /\ ~(m < n)
    BY <1>2, <1>3
  <2> QED
    BY <2>1
<1> QED
  BY <1>4

(* A prefix of a digest is as long as it says and begins like it. *)
LEMMA PrefixProperties ==
  ASSUME NEW q \in Contents, NEW n \in 0..DigestBytes
  PROVE  /\ Prefix(q, n) \in Seq(Nat) /\ Len(Prefix(q, n)) = n
         /\ \A j \in 1..n : Prefix(q, n)[j] = Digest[q][j]
<1>1. Digest[q] \in Seq(Nat) /\ Len(Digest[q]) = DigestBytes /\ DigestBytes \in Nat
  BY DigestAssumption
<1>2. n \in Nat /\ n <= Len(Digest[q])
  BY <1>1
<1> QED
  BY <1>1, <1>2, SubSeqProperties DEF Prefix

(* Prefixes of digests are identifiers. *)
LEMMA IdProperties ==
  /\ NoId \notin Ids
  /\ \A q \in Contents, n \in IdBytes..DigestBytes : Prefix(q, n) \in Ids
<1>1. \A n \in IdBytes..DigestBytes : n \in 0..DigestBytes
  BY DigestAssumption
<1>2. \A q \in Contents, n \in IdBytes..DigestBytes : Prefix(q, n) \in Seq(Nat)
  BY <1>1, PrefixProperties
<1> QED
  BY <1>2, NoneAssumption DEF Ids

(* Contents with one and the same identifier have the same first IdBytes bytes ... *)
LEMMA SamePrefix ==
  ASSUME NEW p \in Contents, NEW q \in Contents,
         NEW m \in IdBytes..DigestBytes, NEW n \in IdBytes..DigestBytes,
         Prefix(p, m) = Prefix(q, n)
  PROVE  m = n /\ Prefix(p, IdBytes) = Prefix(q, IdBytes)
<1>1. m \in 0..DigestBytes /\ n \in 0..DigestBytes /\ IdBytes \in 0..DigestBytes /\ IdBytes \in Nat
  BY DigestAssumption
<1>2. m = n
  BY <1>1, PrefixProperties
<1>3. \A j \in 1..IdBytes : Digest[p][j] = Digest[q][j]
  <2> SUFFICES ASSUME NEW j \in 1..IdBytes PROVE Digest[p][j] = Digest[q][j]
    OBVIOUS
  <2>1. j \in 1..m /\ j \in 1..n
    BY <1>1
  <2> QED
    BY <1>1, <2>1, PrefixProperties
<1>4. \A j \in 1..IdBytes : Prefix(p, IdBytes)[j] = Prefix(q, IdBytes)[j]
  BY <1>1, <1>3, PrefixProperties
<1>5. /\ Prefix(p, IdBytes) \in Seq(Nat) /\ Len(Prefix(p, IdBytes)) = IdBytes
      /\ Prefix(q, IdBytes) \in Seq(Nat) /\ Len(Prefix(q, IdBytes)) = IdBytes
  BY <1>1, PrefixProperties
<1> QED
  BY <1>1, <1>2, <1>4, <1>5, SeqEqual

(* ... and with one of all bytes, are the same: its whole digest nobody else can hold. *)
LEMMA WholeDigestAllocatable ==
  ASSUME RegistryInv, NEW q \in Contents
  PROVE  Allocatable(q, DigestBytes)
<1> DEFINE i == Prefix(q, DigestBytes)
<1>1. DigestBytes \in IdBytes..DigestBytes /\ DigestBytes \in 0..DigestBytes
  BY DigestAssumption
<1>2. i \in Ids
  BY <1>1, IdProperties
<1>3. CASE byId[i] # NoContent
  <2>1. byId[i] \in Contents
    BY <1>2, <1>3 DEF RegistryInv, RegistryTypeOK
  <2>2. PICK n \in IdBytes..DigestBytes : i = Prefix(byId[i], n)
    BY <1>2, <1>3 DEF RegistryInv, HeldByItsOwn
  <2>3. n = DigestBytes
    BY <1>1, <2>1, <2>2, SamePrefix
  <2>4. \A j \in 1..DigestBytes : Digest[byId[i]][j] = Digest[q][j]
    <3>1. /\ \A j \in 1..DigestBytes : Prefix(q, DigestBytes)[j] = Digest[q][j]
          /\ \A j \in 1..DigestBytes : Prefix(byId[i], DigestBytes)[j] = Digest[byId[i]][j]
      BY <1>1, <2>1, PrefixProperties
    <3>2. Prefix(q, DigestBytes) = Prefix(byId[i], DigestBytes)
      BY <2>2, <2>3
    <3> HIDE DEF i
    <3> QED
      BY <3>1, <3>2
  <2>5. /\ Digest[byId[i]] \in Seq(Nat) /\ Len(Digest[byId[i]]) = DigestBytes
        /\ Digest[q] \in Seq(Nat) /\ Len(Digest[q]) = DigestBytes
    BY <2>1, DigestAssumption
  <2>6. Digest[byId[i]] = Digest[q]
    BY <2>4, <2>5, SeqEqual
  <2> QED
    BY <2>1, <2>6, DigestAssumption DEF Allocatable
<1> QED
  BY <1>3 DEF Allocatable

(* So the loop of createUniqueId ends, at an identifier that is free or q's own. *)
LEMMA CreatedId ==
  ASSUME RegistryInv, NEW q \in Contents
  PROVE  \E n \in IdBytes..DigestBytes : createUniqueId(q) = Prefix(q, n) /\ Allocatable(q, n)
<1> DEFINE S == {n \in IdBytes..DigestBytes : Allocatable(q, n)}
<1>1. DigestBytes \in S
  BY WholeDigestAllocatable, DigestAssumption
<1>2. S \subseteq Nat
  BY DigestAssumption
<1>3. PICK n \in S : \A m \in S : n <= m
  BY <1>1, <1>2, LeastNatural
<1>4. \A m \in IdBytes..(n - 1) : ~Allocatable(q, m)
  <2> SUFFICES ASSUME NEW m \in IdBytes..(n - 1), Allocatable(q, m) PROVE FALSE
    OBVIOUS
  <2>1. m \in IdBytes..DigestBytes /\ m < n /\ n \in Nat /\ m \in Nat
    BY <1>2, DigestAssumption
  <2> QED
    BY <1>3, <2>1
<1>5. \E k \in IdBytes..DigestBytes : Allocatable(q, k) /\ \A m \in IdBytes..(k - 1) : ~Allocatable(q, m)
  BY <1>4
<1> QED
  BY <1>5 DEF createUniqueId

(* A registration takes no identifier from a content that has it. *)
LEMMA RegisterKeeps ==
  ASSUME RegistryInv, NEW q \in Contents, registerQuery(q)
  PROVE  /\ RegistryInv' /\ registeredId(q) \in Ids /\ byId'[registeredId(q)] = q
         /\ \E n \in IdBytes..DigestBytes : registeredId(q) = Prefix(q, n)
         /\ \A i \in Ids : byId[i] # NoContent => byId'[i] = byId[i]
<1>1. CASE byContent[q] # NoId
  <2>1. byContent[q] \in Ids /\ byId[byContent[q]] = q
    BY <1>1 DEF RegistryInv, RegistryTypeOK, IdsLeadBack
  <2>2. \E n \in IdBytes..DigestBytes : byContent[q] = Prefix(q, n)
    BY <2>1, NoneAssumption DEF RegistryInv, HeldByItsOwn
  <2>3. UNCHANGED <<byId, byContent>> /\ registeredId(q) = byContent[q]
    BY <1>1 DEF registerQuery, registryVars, registeredId
  <2>4. RegistryInv'
    BY <2>3 DEF RegistryInv, RegistryTypeOK, HeldByItsOwn, IdsLeadBack
  <2> QED
    BY <2>1, <2>2, <2>3, <2>4
<1>2. CASE byContent[q] = NoId
  <2> DEFINE i == createUniqueId(q)
  <2>1. PICK n \in IdBytes..DigestBytes : i = Prefix(q, n) /\ Allocatable(q, n)
    BY CreatedId
  <2>2. i \in Ids /\ byId[i] \in {NoContent, q}
    BY <2>1, IdProperties DEF Allocatable
  <2>3. /\ registeredId(q) = i
        /\ byId' = [byId EXCEPT ![i] = q] /\ byContent' = [byContent EXCEPT ![q] = i]
    BY <1>2 DEF registerQuery, registeredId
  <2> HIDE DEF i
  <2>4. /\ byId'[i] = q /\ \A j \in Ids : j # i => byId'[j] = byId[j]
        /\ byContent'[q] = i /\ \A p \in Contents : p # q => byContent'[p] = byContent[p]
    BY <2>2, <2>3 DEF RegistryInv, RegistryTypeOK
  <2>5. RegistryTypeOK'
    BY <2>2, <2>3 DEF RegistryInv, RegistryTypeOK
  <2>6. HeldByItsOwn'
    BY <2>1, <2>4 DEF RegistryInv, HeldByItsOwn
  <2>7. IdsLeadBack'
    <3> SUFFICES ASSUME NEW p \in Contents, byContent'[p] # NoId PROVE byId'[byContent'[p]] = p
      BY DEF IdsLeadBack
    <3>1. CASE p = q
      BY <2>4, <3>1
    <3>2. CASE p # q
      <4>1. byContent'[p] = byContent[p] /\ byContent[p] \in Ids /\ byId[byContent[p]] = p
        BY <2>4, <3>2 DEF RegistryInv, RegistryTypeOK, IdsLeadBack
      <4>2. byContent[p] # i
        BY <2>2, <3>2, <4>1, NoneAssumption
      <4> QED
        BY <2>4, <4>1, <4>2
    <3> QED
      BY <3>1, <3>2
  <2>8. \A j \in Ids : byId[j] # NoContent => byId'[j] = byId[j]
    BY <2>2, <2>4
  <2> QED
    BY <2>1, <2>2, <2>3, <2>4, <2>5, <2>6, <2>7, <2>8 DEF RegistryInv
<1> QED
  BY <1>1, <1>2

-----------------------------------------------------------------------------
(* Tokens. *)

(* A login replaces the session's record; what it issues is not logged out. *)
LEMMA IssueKeeps ==
  ASSUME TokenInv, NEW s \in Sessions, issueToken(s), UNCHANGED now
  PROVE  TokenInv'
<1> DEFINE t == [session |-> s, expiresAt |-> now + TTL]
           record == [expiresAt |-> now + TTL, revoked |-> FALSE]
<1>1. now + TTL \in Nat /\ t \in Token /\ record \in SessionRecord /\ record # None
  <2>1. now + TTL \in Nat
    BY TTLAssumption DEF TokenInv, TokenTypeOK
  <2>2. t \in Token /\ record \in SessionRecord
    BY <2>1 DEF Token, SessionRecord
  <2> HIDE DEF record
  <2>3. record # None
    BY <2>2, NoneIsNoRecord DEF SessionRecord
  <2> QED
    BY <2>1, <2>2, <2>3
<1>2. /\ sessions' = [sessions EXCEPT ![s] = record] /\ newest' = [newest EXCEPT ![s] = now + TTL]
      /\ loggedOut' = loggedOut \ {t}
  BY DEF issueToken
<1>3. TokenTypeOK'
  BY <1>1, <1>2 DEF TokenInv, TokenTypeOK
<1>4. OutOfUse'
  <2> SUFFICES ASSUME NEW u \in loggedOut' PROVE
        sessions'[u.session] # None
        /\ (sessions'[u.session].revoked \/ sessions'[u.session].expiresAt # u.expiresAt)
    BY DEF OutOfUse
  <2>1. u \in Token /\ u \in loggedOut /\ u # t
    BY <1>2 DEF TokenInv, TokenTypeOK
  <2>2. CASE u.session = s
    <3>1. u.expiresAt # now + TTL
      BY <2>1, <2>2 DEF Token
    <3> QED
      BY <1>1, <1>2, <2>2, <3>1 DEF TokenInv, TokenTypeOK
  <2>3. CASE u.session # s
    BY <1>2, <2>1, <2>3 DEF TokenInv, TokenTypeOK, OutOfUse, Token
  <2> QED
    BY <2>2, <2>3
<1>5. InUse'
  <2> SUFFICES ASSUME NEW z \in Sessions, newest'[z] # None
               PROVE  sessions'[z] \in {None, [expiresAt |-> newest'[z], revoked |-> FALSE]}
    BY DEF InUse
  <2>1. CASE z = s
    <3>1. sessions'[s] = record /\ newest'[s] = now + TTL
      BY <1>2 DEF TokenInv, TokenTypeOK
    <3> QED
      BY <2>1, <3>1
  <2>2. CASE z # s
    BY <1>2, <2>2 DEF TokenInv, TokenTypeOK, InUse
  <2> QED
    BY <2>1, <2>2
<1> QED
  BY <1>3, <1>4, <1>5 DEF TokenInv

(* A logout leaves the session's record revoked, and no newest token. *)
LEMMA RevokeKeeps ==
  ASSUME TokenInv, NEW s \in Sessions, revokeSession(s), UNCHANGED now
  PROVE  TokenInv'
<1>1. CASE sessions[s] = None
  BY <1>1 DEF revokeSession, storeVars, TokenInv, TokenTypeOK, OutOfUse, InUse
<1>2. CASE sessions[s] # None
  <2> DEFINE record == [sessions[s] EXCEPT !.revoked = TRUE]
  <2>1. /\ sessions' = [sessions EXCEPT ![s] = record] /\ newest' = [newest EXCEPT ![s] = None]
        /\ loggedOut' = loggedOut \cup IssuedFor(s)
    BY <1>2 DEF revokeSession
  <2>2. sessions[s] \in SessionRecord
    BY <1>2 DEF TokenInv, TokenTypeOK
  <2>3. record \in SessionRecord /\ record.revoked /\ record # None
    BY <2>2, NoneIsNoRecord DEF SessionRecord
  <2>4. IssuedFor(s) \subseteq Token /\ \A u \in IssuedFor(s) : u.session = s
    BY TTLAssumption DEF IssuedFor, Token, TokenInv, TokenTypeOK
  <2> HIDE DEF record
  <2>5. TokenTypeOK'
    BY <2>1, <2>3, <2>4 DEF TokenInv, TokenTypeOK
  <2>6. sessions'[s] = record /\ \A z \in Sessions : z # s => sessions'[z] = sessions[z]
    BY <2>1 DEF TokenInv, TokenTypeOK
  <2>7. OutOfUse'
    <3> SUFFICES ASSUME NEW u \in loggedOut' PROVE
          sessions'[u.session] # None
          /\ (sessions'[u.session].revoked \/ sessions'[u.session].expiresAt # u.expiresAt)
      BY DEF OutOfUse
    <3>1. u \in Token /\ u.session \in Sessions
      BY <2>5 DEF TokenTypeOK, Token
    <3>2. CASE u.session = s
      BY <2>3, <2>6, <3>2
    <3>3. CASE u.session # s
      BY <2>1, <2>4, <2>6, <3>1, <3>3 DEF TokenInv, OutOfUse
    <3> QED
      BY <3>2, <3>3
  <2>8. InUse'
    BY <2>1 DEF TokenInv, TokenTypeOK, InUse
  <2> QED
    BY <2>5, <2>7, <2>8 DEF TokenInv
<1> QED
  BY <1>1, <1>2

(* A server that lost its records has none that contradicts a token. *)
LEMMA ForgetKeeps ==
  ASSUME TokenInv, ForgetSessions, UNCHANGED now
  PROVE  TokenInv'
BY DEF ForgetSessions, TokenInv, TokenTypeOK, OutOfUse, InUse

(* What is said of tokens depends on the records and on what clients were told. *)
LEMMA SameTokens ==
  ASSUME TokenInv, UNCHANGED storeVars, now' \in Nat
  PROVE  TokenInv'
BY DEF storeVars, TokenInv, TokenTypeOK, OutOfUse, InUse

(* What is said of identifiers depends on the registry alone. *)
LEMMA SameRegistry ==
  ASSUME RegistryInv, UNCHANGED registryVars
  PROVE  RegistryInv'
BY DEF registryVars, RegistryInv, RegistryTypeOK, HeldByItsOwn, IdsLeadBack

-----------------------------------------------------------------------------
(* Calls. *)

(* What the invariant says of a single call. *)
LEMMA CallFacts ==
  ASSUME HttpInv, NEW c \in Calls
  PROVE  /\ CallOK(call[c]) /\ call[c] \in Call
         /\ call[c].phase # "idle" =>
              call[c].client \in Clients /\ call[c].asks \in Contents /\ Session(c) \in Sessions
         /\ call[c].phase # "answered" => call[c].runs = 0
         /\ call[c].auth \in Token \cup {None} /\ call[c].answer \in Token \cup {None}
<1>1. CallOK(call[c]) /\ call[c] \in Call
  BY DEF HttpInv, CallInv, CallOK
<1>2. call[c].phase # "idle" => call[c].client \in Clients /\ call[c].asks \in Contents
  BY <1>1 DEF CallOK
<1>3. call[c].phase # "answered" => call[c].runs = 0
  BY <1>1 DEF CallOK
<1> QED
  BY <1>1, <1>2, <1>3, CallsAssumption DEF Session, Call

(* A field of a call may be set to a value of its type. *)
CallPhases == {"idle", "registering", "registered", "sent", "body", "answered", "authing", "authed"}
WithPhase(q, v) == [q EXCEPT !.phase = v]
WithToken(q, v) == [q EXCEPT !.auth = v]
WithId(q, v) == [q EXCEPT !.id = v]
WithStatus(q, v) == [q EXCEPT !.status = v]
WithBody(q, v) == [q EXCEPT !.body = v]
WithFile(q, v) == [q EXCEPT !.file = v]
WithRuns(q, v) == [q EXCEPT !.runs = v]
WithRan(q, v) == [q EXCEPT !.ran = v]
WithAnswer(q, v) == [q EXCEPT !.answer = v]
WithCrossed(q, v) == [q EXCEPT !.crossed = v]
WithClient(q, v) == [q EXCEPT !.client = v]
WithKind(q, v) == [q EXCEPT !.kind = v]
WithAsks(q, v) == [q EXCEPT !.asks = v]

(* A field of a call may be set to any value of its type. *)
LEMMA SetPhase == \A q \in Call, v \in CallPhases : WithPhase(q, v) \in Call
BY DEF Call, WithPhase, CallPhases
LEMMA SetToken == \A q \in Call, v \in Token \cup {None} : WithToken(q, v) \in Call
BY DEF Call, WithToken
LEMMA SetId == \A q \in Call, v \in Ids \cup {NoId} : WithId(q, v) \in Call
BY DEF Call, WithId
LEMMA SetStatus == \A q \in Call, v \in {0, 200, 400, 401, 403, 500} : WithStatus(q, v) \in Call
BY DEF Call, WithStatus
LEMMA SetBody == \A q \in Call, v \in Seq(Parts) : WithBody(q, v) \in Call
BY DEF Call, WithBody
LEMMA SetNoBody == \A q \in Call : WithBody(q, <<>>) \in Call
<1>1. <<>> \in Seq(Parts)
  OBVIOUS
<1> QED
  BY <1>1, SetBody
LEMMA SetFile == \A q \in Call, v \in BOOLEAN : WithFile(q, v) \in Call
BY DEF Call, WithFile
LEMMA SetRuns == \A q \in Call, v \in Nat : WithRuns(q, v) \in Call
BY DEF Call, WithRuns
LEMMA SetRan == \A q \in Call, v \in Contents \cup {NoContent} : WithRan(q, v) \in Call
BY DEF Call, WithRan
LEMMA SetAnswer == \A q \in Call, v \in Token \cup {None} : WithAnswer(q, v) \in Call
BY DEF Call, WithAnswer
LEMMA SetCrossed == \A q \in Call, v \in BOOLEAN : WithCrossed(q, v) \in Call
BY DEF Call, WithCrossed
LEMMA SetClient == \A q \in Call, v \in Clients \cup {None} : WithClient(q, v) \in Call
BY DEF Call, WithClient
LEMMA SetKind == \A q \in Call, v \in CallKinds \cup {"none"} : WithKind(q, v) \in Call
BY DEF Call, WithKind
LEMMA SetAsks == \A q \in Call, v \in Contents \cup {NoContent} : WithAsks(q, v) \in Call
BY DEF Call, WithAsks

(* A call that was not made. *)
LEMMA IdleOK == CallOK(Idle)
<1>1. Idle \in Call
  BY DEF Idle, Call
<1> QED
  BY <1>1 DEF Idle, CallOK, RanAsked

(* A call that was not executed yet may be answered. *)
LEMMA AnsweredOK ==
  ASSUME NEW q \in Call, CallOK(q), q.runs = 0, q.phase # "idle", NEW status \in {200, 400, 401, 403, 500}
  PROVE  CallOK(Answered(q, status))
<1> DEFINE r == Answered(q, status)
<1>2. r \in Call
  <2> DEFINE q1 == WithPhase(q, "answered")
             q2 == WithStatus(q1, status)
             q3 == WithId(q2, NoId)
             q4 == WithBody(q3, <<>>)
             q5 == WithFile(q4, FALSE)
  <2>1. q1 \in Call
    BY SetPhase DEF CallPhases
  <2>2. q2 \in Call
    BY <2>1, SetStatus
  <2>3. q3 \in Call
    BY <2>2, SetId
  <2>4. q4 \in Call
    BY <2>3, SetNoBody
  <2>5. q5 \in Call
    BY <2>4, SetFile
  <2>6. r = q5
    BY DEF Answered, WithPhase, WithStatus, WithId, WithBody, WithFile
  <2> QED
    BY <2>5, <2>6
<1>3. /\ r.phase = "answered" /\ r.client = q.client /\ r.kind = q.kind /\ r.asks = q.asks /\ r.auth = q.auth
      /\ r.runs = q.runs /\ r.ran = q.ran /\ r.id = NoId
  BY DEF Answered, Call
<1> HIDE DEF r
<1>4. RanAsked(r)
  BY <1>3 DEF CallOK, RanAsked
<1>5. r.client \in Clients /\ r.asks \in Contents /\ (r.kind = "logout" => r.auth # None)
  BY <1>3 DEF CallOK
<1> QED
  BY <1>2, <1>3, <1>4, <1>5 DEF CallOK, r

(* What a request is decoded to is what it asks, but for identifiers given anew after a restart. *)
LEMMA DecodedAsked ==
  ASSUME HttpInv, NEW c \in Calls, call[c].phase # "idle"
  PROVE  /\ decodeQuery(c) \in Contents \cup {NoContent}
         /\ \/ decodeQuery(c) \in {NoContent, call[c].asks}
            \/ restarts > 0 /\ Prefix(decodeQuery(c), IdBytes) = Prefix(call[c].asks, IdBytes)
<1> DEFINE r == call[c]
<1>1. r \in Call /\ r.asks \in Contents /\ CallOK(r)
  BY CallFacts
<1>2. CASE r.id = NoId
  BY <1>1, <1>2 DEF decodeQuery
<1>3. CASE r.id # NoId /\ r.kind # "query"
  BY <1>3 DEF decodeQuery
<1>4. CASE r.id # NoId /\ r.kind = "query"
  <2>1. decodeQuery(c) = byId[r.id] /\ r.id \in Ids
    BY <1>1, <1>4 DEF decodeQuery, Call
  <2>2. GivenTo(r.id, r.asks) /\ byId[r.id] \in Contents \cup {NoContent} /\ restarts \in Nat
    BY <1>1, <1>4, <2>1 DEF CallOK, HttpInv, RegistryInv, RegistryTypeOK, ClientInv
  <2>3. CASE byId[r.id] # NoContent /\ restarts > 0
    <3>1. byId[r.id] \in Contents /\ \E n \in IdBytes..DigestBytes : r.id = Prefix(byId[r.id], n)
      BY <2>1, <2>2, <2>3 DEF HttpInv, RegistryInv, HeldByItsOwn
    <3>2. \E n \in IdBytes..DigestBytes : r.id = Prefix(r.asks, n)
      BY <2>2 DEF GivenTo
    <3>3. Prefix(byId[r.id], IdBytes) = Prefix(r.asks, IdBytes)
      BY <1>1, <3>1, <3>2, SamePrefix
    <3> QED
      BY <2>1, <2>2, <2>3, <3>3
  <2>4. CASE restarts = 0
    BY <2>1, <2>2, <2>4 DEF GivenTo
  <2> QED
    BY <2>1, <2>2, <2>3, <2>4
<1> QED
  BY <1>2, <1>3, <1>4

(* Running a request for the first time leaves it answered. *)
LEMMA ExecuteOK ==
  ASSUME HttpInv, NEW c \in Calls, call[c].phase \in {"sent", "body"}
  PROVE  CallOK(Execute(c))
<1> DEFINE a == Answered(call[c], 200)
           r == [a EXCEPT !.runs = @ + 1, !.ran = decodeQuery(c)]
<1>1. CallOK(a)
  BY CallFacts, AnsweredOK
<1>2. a.phase = "answered" /\ a.status = 200 /\ a.asks = call[c].asks /\ a.runs = 0 /\ a.id = NoId /\ a \in Call
  BY <1>1, CallFacts DEF Answered, Call, CallOK
<1> HIDE DEF a
<1>3. decodeQuery(c) \in Contents \cup {NoContent}
  BY DecodedAsked
<1>4. r \in Call
  <2> DEFINE a1 == WithRuns(a, a.runs + 1)
             a2 == WithRan(a1, decodeQuery(c))
  <2>1. a1 \in Call
    BY <1>2, SetRuns
  <2>2. a2 \in Call
    BY <1>3, <2>1, SetRan
  <2>3. r = a2
    BY DEF WithRuns, WithRan
  <2> QED
    BY <2>2, <2>3
<1>5. /\ r.phase = "answered" /\ r.status = 200 /\ r.asks = call[c].asks /\ r.runs = 1 /\ r.id = NoId
      /\ r.ran = decodeQuery(c) /\ r.client = a.client /\ r.kind = a.kind /\ r.auth = a.auth
  BY <1>2 DEF Call
<1>6. r = Execute(c)
  BY DEF Execute, a
<1> HIDE DEF r
<1>7. RanAsked(r)
  BY <1>5, DecodedAsked DEF RanAsked
<1> QED
  BY <1>1, <1>2, <1>4, <1>5, <1>6, <1>7 DEF CallOK

(* A call that takes its credentials, at its beginning or for a retry. *)
LEMMA ResolveOK ==
  ASSUME HttpInv, NEW q \in Call, q.client \in Clients, q.asks \in Contents, q.runs = 0,
         q.id # NoId => GivenTo(q.id, q.asks), RanAsked(q),
         NEW tok \in Token \cup {None}, q.kind = "logout" => tok # None
  PROVE  CallOK(resolveSignedHeaders(q, tok))
<1> DEFINE body == IF q.kind = "upload" THEN BodyOf[q.asks] ELSE <<>>
           signed == [q EXCEPT !.auth = tok, !.body = body, !.status = 0, !.answer = None]
           id == cache[q.client][q.asks]
           sent == [signed EXCEPT !.phase = "sent"]
           sentById == [signed EXCEPT !.phase = "sent", !.id = id]
           registering == [signed EXCEPT !.phase = "registering"]
<1>0. body \in Seq(Parts)
  <2>1. <<>> \in Seq(Parts)
    OBVIOUS
  <2> QED
    BY <2>1, CallsAssumption
<1> HIDE DEF body
<1>1. /\ signed \in Call /\ signed.client = q.client /\ signed.kind = q.kind /\ signed.asks = q.asks
      /\ signed.auth = tok /\ signed.id = q.id /\ signed.runs = 0 /\ signed.ran = q.ran
  <2> DEFINE q1 == WithToken(q, tok)
             q2 == WithBody(q1, body)
             q3 == WithStatus(q2, 0)
             q4 == WithAnswer(q3, None)
  <2>1. /\ signed.client = q.client /\ signed.kind = q.kind /\ signed.asks = q.asks
        /\ signed.auth = tok /\ signed.id = q.id /\ signed.runs = 0 /\ signed.ran = q.ran
    BY DEF Call
  <2>2. q1 \in Call
    BY SetToken
  <2>3. q2 \in Call
    BY <1>0, <2>2, SetBody
  <2>4. q3 \in Call
    BY <2>3, SetStatus
  <2>5. q4 \in Call
    BY <2>4, SetAnswer
  <2>6. signed = q4
    BY DEF WithToken, WithBody, WithStatus, WithAnswer
  <2> QED
    BY <2>1, <2>5, <2>6
<1>2. id \in Ids \cup {NoId} /\ (id # NoId => GivenTo(id, q.asks))
  BY DEF HttpInv, ClientInv
<1> HIDE DEF signed, id
<1>3. ASSUME NEW phase \in {"sent", "registering"}
      PROVE  LET r == [signed EXCEPT !.phase = phase] IN
             /\ r \in Call /\ r.phase = phase /\ r.client = q.client /\ r.kind = q.kind
             /\ r.asks = q.asks /\ r.auth = tok /\ r.id = q.id /\ r.runs = 0 /\ r.ran = q.ran
  <2>1. [signed EXCEPT !.phase = phase] \in Call
    BY <1>1, SetPhase DEF CallPhases, WithPhase
  <2> QED
    BY <1>1, <2>1 DEF Call
<1>4. /\ sentById \in Call /\ sentById.phase = "sent" /\ sentById.client = q.client /\ sentById.kind = q.kind
      /\ sentById.asks = q.asks /\ sentById.auth = tok /\ sentById.id = id /\ sentById.runs = 0
      /\ sentById.ran = q.ran
  <2>1. sentById = [sent EXCEPT !.id = id]
    OBVIOUS
  <2> HIDE DEF sentById
  <2>2. /\ sent \in Call /\ sent.phase = "sent" /\ sent.client = q.client /\ sent.kind = q.kind
        /\ sent.asks = q.asks /\ sent.auth = tok /\ sent.runs = 0 /\ sent.ran = q.ran
    BY <1>3
  <2> HIDE DEF sent
  <2>3. [sent EXCEPT !.id = id] \in Call
    BY <1>2, <2>2, SetId DEF WithId
  <2> QED
    BY <2>1, <2>2, <2>3 DEF Call
<1>5. resolveSignedHeaders(q, tok) \in {sent, sentById, registering}
  BY DEF resolveSignedHeaders, signed, id, body
<1>6. \A r \in {sent, sentById, registering} :
        /\ r \in Call /\ r.phase \in {"sent", "registering"} /\ r.client = q.client /\ r.kind = q.kind
        /\ r.asks = q.asks /\ r.auth = tok /\ r.id \in {q.id, id} /\ r.runs = 0 /\ r.ran = q.ran
  BY <1>3, <1>4
<1> HIDE DEF sent, sentById, registering
<1> QED
  BY <1>2, <1>5, <1>6 DEF CallOK, RanAsked

(* A step of one call keeps the invariant of all, if that call's new state does. *)
LEMMA BecomeKeeps ==
  ASSUME HttpInv, NEW c \in Calls, NEW r, CallOK(r), Become(c, r), UNCHANGED <<restarts, byId>>
  PROVE  CallInv'
<1>1. r \in Call
  BY DEF CallOK
<1>2. call' = [call EXCEPT ![c] = r] /\ call \in [Calls -> Call] /\ \A d \in Calls : CallOK(call[d])
  BY DEF Become, HttpInv, CallInv
<1>3. call' \in [Calls -> Call] /\ \A d \in Calls : call'[d] = r \/ call'[d] = call[d]
  BY <1>1, <1>2
<1>4. \A d \in Calls : CallOK(call'[d])
  BY <1>2, <1>3
<1> QED
  BY <1>3, <1>4 DEF CallInv, CallOK, RanAsked, GivenTo

(* What is said of clients depends on their credentials and caches and on the registry. *)
LEMMA SameClients ==
  ASSUME HttpInv, UNCHANGED <<auth, cache, restarts, byId>>, made' \in 0..MaxMade
  PROVE  ClientInv'
BY DEF HttpInv, ClientInv, GivenTo

(* A step that changes nothing but a call. *)
LEMMA StepKeeps ==
  ASSUME HttpInv, NEW c \in Calls, NEW r, CallOK(r), Become(c, r),
         UNCHANGED <<storeVars, now, registryVars, auth, cache, restarts>>, made' \in 0..MaxMade
  PROVE  HttpInv'
<1>1. UNCHANGED byId
  BY DEF registryVars
<1>2. CallInv'
  BY <1>1, BecomeKeeps
<1>3. ClientInv'
  BY <1>1, SameClients
<1>4. RegistryInv'
  BY SameRegistry DEF HttpInv
<1>5. TokenInv'
  BY SameTokens DEF HttpInv, TokenInv, TokenTypeOK
<1> QED
  BY <1>2, <1>3, <1>4, <1>5 DEF HttpInv

-----------------------------------------------------------------------------
(* The client's steps. *)

(* What a call is when it begins. *)
LEMMA BegunFacts ==
  ASSUME NEW use \in Uses
  PROVE  /\ Begun(use) \in Call /\ Begun(use).client = use.client /\ Begun(use).kind = use.kind
         /\ Begun(use).asks = use.content /\ Begun(use).phase = "idle" /\ Begun(use).runs = 0
         /\ Begun(use).id = NoId /\ Begun(use).ran = NoContent
         /\ use.client \in Clients /\ use.content \in Contents /\ use.kind \in CallKinds
<1>1. use.client \in Clients /\ use.content \in Contents /\ use.kind \in CallKinds
  BY CallsAssumption
<1> DEFINE q1 == WithClient(Idle, use.client)
           q2 == WithKind(q1, use.kind)
           q3 == WithAsks(q2, use.content)
<1>2. Idle \in Call
  BY IdleOK DEF CallOK
<1>3. q1 \in Call
  BY <1>1, <1>2, SetClient
<1>4. q2 \in Call
  BY <1>1, <1>3, SetKind
<1>5. q3 \in Call
  BY <1>1, <1>4, SetAsks
<1>6. Begun(use) = q3
  BY DEF Begun, WithClient, WithKind, WithAsks
<1>7. /\ Begun(use).client = use.client /\ Begun(use).kind = use.kind
      /\ Begun(use).asks = use.content /\ Begun(use).phase = "idle" /\ Begun(use).runs = 0
      /\ Begun(use).id = NoId /\ Begun(use).ran = NoContent
  BY DEF Begun, Idle
<1> QED
  BY <1>1, <1>5, <1>6, <1>7

(* A call that begins has run nothing. *)
LEMMA BeginKeeps ==
  ASSUME HttpInv, NEW c \in Calls, NEW r, CallOK(r), Begin(c, r)
  PROVE  HttpInv'
<1>1. made' \in 0..MaxMade
  BY CallsAssumption DEF Begin, HttpInv, ClientInv
<1> QED
  BY <1>1, StepKeeps DEF Begin

(* executeQuery, executeUpload and executeWrite up to their first await. *)
LEMMA MakeKeeps ==
  ASSUME HttpInv, NEW c \in Calls, NEW kind \in {"query", "upload", "write"}, Make(c, kind)
  PROVE  HttpInv'
<1>1. PICK use \in Uses :
         use.kind = kind /\ Begin(c, resolveSignedHeaders(Begun(use), auth[use.client]))
  BY DEF Make
<1>2. auth[use.client] \in Token \cup {None}
  BY BegunFacts DEF HttpInv, ClientInv
<1>3. RanAsked(Begun(use))
  BY BegunFacts DEF RanAsked
<1>4. CallOK(resolveSignedHeaders(Begun(use), auth[use.client]))
  BY <1>1, <1>2, <1>3, BegunFacts, ResolveOK
<1> QED
  BY <1>1, <1>4, BeginKeeps

(* login and logout up to their first await. *)
LEMMA LoginKeeps ==
  ASSUME HttpInv, NEW c \in Calls, login(c) \/ logout(c)
  PROVE  HttpInv'
<1>1. ASSUME NEW use \in Uses, use.kind = "login", Begin(c, [Begun(use) EXCEPT !.phase = "authing"])
      PROVE  HttpInv'
  <2> DEFINE q == Begun(use)
             r == [q EXCEPT !.phase = "authing"]
  <2>1. /\ q \in Call /\ q.client \in Clients /\ q.asks \in Contents /\ q.kind = "login"
        /\ q.runs = 0 /\ q.id = NoId /\ q.ran = NoContent
    BY <1>1, BegunFacts
  <2> HIDE DEF q
  <2>2. r \in Call
    BY <2>1, SetPhase DEF CallPhases, WithPhase
  <2>3. /\ r.phase = "authing" /\ r.client \in Clients /\ r.asks \in Contents /\ r.kind = "login"
        /\ r.runs = 0 /\ r.id = NoId /\ r.ran = NoContent
    BY <2>1 DEF Call
  <2>4. Begin(c, r)
    BY <1>1 DEF q
  <2> HIDE DEF r
  <2>5. CallOK(r)
    BY <2>2, <2>3 DEF CallOK, RanAsked
  <2> QED
    BY <2>4, <2>5, BeginKeeps
<1>2. ASSUME NEW use \in Uses, use.kind = "logout", auth[use.client] # None,
             Begin(c, [Begun(use) EXCEPT !.auth = auth[use.client], !.phase = "sent"])
      PROVE  HttpInv'
  <2> DEFINE tok == auth[use.client]
             q == Begun(use)
             p == WithToken(q, tok)
             r == WithPhase(p, "sent")
  <2>1. /\ q \in Call /\ q.client \in Clients /\ q.asks \in Contents
        /\ q.runs = 0 /\ q.id = NoId /\ q.ran = NoContent
    BY BegunFacts
  <2>2. tok \in Token \cup {None} /\ tok # None
    BY <1>2, BegunFacts DEF HttpInv, ClientInv
  <2>3. Begin(c, r)
    BY <1>2 DEF WithToken, WithPhase
  <2> HIDE DEF q, tok
  <2>4. p \in Call
    BY <2>1, <2>2, SetToken
  <2>5. /\ p.client \in Clients /\ p.asks \in Contents /\ p.auth = tok
        /\ p.runs = 0 /\ p.id = NoId /\ p.ran = NoContent
    BY <2>1 DEF Call, WithToken
  <2> HIDE DEF p
  <2>6. r \in Call
    BY <2>4, SetPhase DEF CallPhases
  <2>7. /\ r.phase = "sent" /\ r.client \in Clients /\ r.asks \in Contents /\ r.auth = tok
        /\ r.runs = 0 /\ r.id = NoId /\ r.ran = NoContent
    BY <2>4, <2>5 DEF Call, WithPhase
  <2> HIDE DEF r
  <2>8. CallOK(r)
    BY <2>2, <2>6, <2>7 DEF CallOK, RanAsked
  <2> QED
    BY <2>3, <2>8, BeginKeeps
<1> QED
  BY <1>1, <1>2 DEF login, logout

(* A call whose phase becomes one that asks for nothing more. *)
LEMMA PhaseOK ==
  ASSUME HttpInv, NEW c \in Calls, call[c].phase \notin {"idle", "answered"},
         NEW phase \in {"body", "sent", "authing"}
  PROVE  CallOK([call[c] EXCEPT !.phase = phase])
<1> DEFINE q == call[c]
           r == [q EXCEPT !.phase = phase]
<1>1. q \in Call /\ CallOK(q) /\ q.runs = 0
  BY CallFacts
<1> HIDE DEF q
<1>2. r \in Call
  BY <1>1, SetPhase DEF CallPhases, WithPhase
<1>3. /\ r.phase = phase /\ r.client = q.client /\ r.kind = q.kind /\ r.asks = q.asks /\ r.auth = q.auth
      /\ r.id = q.id /\ r.runs = 0 /\ r.ran = q.ran
  BY <1>1 DEF Call
<1>4. q.phase # "idle"
  BY DEF q
<1> HIDE DEF r
<1>5. CallOK(r)
  BY <1>1, <1>2, <1>3, <1>4 DEF CallOK, RanAsked
<1> QED
  BY <1>5 DEF q, r

(* An answer, or its loss, ends a call or sends it to authenticate. *)
LEMMA ReceiveKeeps ==
  ASSUME HttpInv, NEW c \in Calls, Receive(c) \/ Lose(c)
  PROVE  HttpInv'
<1>1. UNCHANGED <<storeVars, now, registryVars, auth, cache, restarts>> /\ made' \in 0..MaxMade
  BY DEF Receive, Lose, HttpInv, ClientInv
<1>2. CASE Become(c, Idle)
  BY <1>1, <1>2, IdleOK, StepKeeps
<1>3. CASE /\ call[c].phase = "answered" /\ RetriesOn(call[c].status)
           /\ Become(c, [call[c] EXCEPT !.phase = "authing", !.crossed = FALSE])
  <2> DEFINE q == call[c]
             p == WithPhase(q, "authing")
             r == WithCrossed(p, FALSE)
  <2>1. q \in Call /\ CallOK(q) /\ q.status = 401 /\ q.runs = 0 /\ q.phase = "answered"
    BY <1>3, CallFacts DEF RetriesOn, CallOK
  <2>2. Become(c, r)
    BY <1>3 DEF WithPhase, WithCrossed
  <2> HIDE DEF q
  <2>3. p \in Call
    BY <2>1, SetPhase DEF CallPhases
  <2>4. /\ p.phase = "authing" /\ p.client = q.client /\ p.kind = q.kind /\ p.asks = q.asks
        /\ p.auth = q.auth /\ p.id = q.id /\ p.runs = 0 /\ p.ran = q.ran
    BY <2>1 DEF Call, WithPhase
  <2> HIDE DEF p
  <2>5. r \in Call
    BY <2>3, SetCrossed
  <2>6. /\ r.phase = "authing" /\ r.client = q.client /\ r.kind = q.kind /\ r.asks = q.asks
        /\ r.auth = q.auth /\ r.id = q.id /\ r.runs = 0 /\ r.ran = q.ran
    BY <2>3, <2>4 DEF Call, WithCrossed
  <2> HIDE DEF r
  <2>7. CallOK(r)
    BY <2>1, <2>5, <2>6 DEF CallOK, RanAsked
  <2> QED
    BY <1>1, <2>2, <2>7, StepKeeps
<1> QED
  BY <1>2, <1>3 DEF Receive, Lose

(* The identifier a registration was answered with is the asked query's; so it is in the cache. *)
LEMMA RegisteredKeeps ==
  ASSUME HttpInv, NEW c \in Calls, Registered(c)
  PROVE  HttpInv'
<1> DEFINE k == call[c].client
           q == call[c].asks
           i == call[c].id
<1>1. k \in Clients /\ q \in Contents /\ i \in Ids \cup {NoId} /\ (i # NoId => GivenTo(i, q))
  BY CallFacts DEF Registered, CallOK, Call
<1>2. cache' = [cache EXCEPT ![k][q] = i] /\ UNCHANGED <<byId, restarts, auth, made>>
  BY DEF Registered, registryVars
<1>3. CallInv'
  BY <1>2, PhaseOK, BecomeKeeps DEF Registered
<1> HIDE DEF k, q, i
<1>4. /\ cache' \in [Clients -> [Contents -> Ids \cup {NoId}]]
      /\ \A l \in Clients, p \in Contents : cache'[l][p] = cache[l][p] \/ (p = q /\ cache'[l][p] = i)
  BY <1>1, <1>2 DEF HttpInv, ClientInv
<1>5. \A l \in Clients, p \in Contents : cache'[l][p] # NoId => GivenTo(cache'[l][p], p)
  BY <1>1, <1>4 DEF HttpInv, ClientInv
<1>6. ClientInv'
  BY <1>2, <1>4, <1>5 DEF HttpInv, ClientInv, GivenTo
<1>7. RegistryInv' /\ TokenInv'
  BY SameRegistry, SameTokens DEF Registered, HttpInv, TokenInv, TokenTypeOK
<1> QED
  BY <1>3, <1>6, <1>7 DEF HttpInv

(* New credentials of a client mark calls of others as crossed, and change nothing else of them. *)
LEMMA CrossedOK ==
  ASSUME HttpInv, NEW c \in Calls
  PROVE  CallOK([call[c] EXCEPT !.crossed = TRUE])
<1> DEFINE q == call[c]
           r == [q EXCEPT !.crossed = TRUE]
<1>1. q \in Call /\ CallOK(q)
  BY CallFacts
<1> HIDE DEF q
<1>2. r \in Call
  BY <1>1, SetCrossed DEF WithCrossed
<1>3. /\ r.phase = q.phase /\ r.client = q.client /\ r.kind = q.kind /\ r.asks = q.asks /\ r.auth = q.auth
      /\ r.id = q.id /\ r.runs = q.runs /\ r.ran = q.ran /\ r.status = q.status /\ r.answer = q.answer
  BY <1>1 DEF Call
<1> HIDE DEF r
<1>4. CallOK(r)
  BY <1>1, <1>2, <1>3 DEF CallOK, RanAsked
<1> QED
  BY <1>4 DEF q, r

(* setAuth replaces a client's credentials. *)
LEMMA SetAuthKeeps ==
  ASSUME HttpInv, NEW c \in Calls, NEW k \in Clients, NEW tok \in Token, NEW r, CallOK(r),
         SetAuth(k, tok, c, r), UNCHANGED <<storeVars, now, registryVars, cache, restarts, made>>
  PROVE  HttpInv'
<1>1. UNCHANGED byId
  BY DEF registryVars
<1>2. auth' \in [Clients -> Token \cup {None}]
  BY DEF SetAuth, HttpInv, ClientInv
<1>3. ClientInv'
  BY <1>1, <1>2 DEF HttpInv, ClientInv, GivenTo
<1>4. \A d \in Calls : call'[d] \in {r, call[d], [call[d] EXCEPT !.crossed = TRUE]}
  BY DEF SetAuth
<1>5. \A d \in Calls : CallOK(call'[d])
  BY <1>4, CallFacts, CrossedOK
<1>6. call' \in [Calls -> Call]
  <2>1. \A d \in Calls : call'[d] \in Call
    BY <1>5 DEF CallOK
  <2> QED
    BY <2>1 DEF SetAuth
<1>7. CallInv'
  BY <1>1, <1>5, <1>6 DEF CallInv, CallOK, RanAsked, GivenTo
<1>8. RegistryInv' /\ TokenInv'
  BY SameRegistry, SameTokens DEF HttpInv, TokenInv, TokenTypeOK
<1> QED
  BY <1>3, <1>7, <1>8 DEF HttpInv

(* New tokens are set, and the call is made again or ends. *)
LEMMA LoggedInKeeps ==
  ASSUME HttpInv, NEW c \in Calls, LoggedIn(c) \/ Retry(c)
  PROVE  HttpInv'
<1> DEFINE q == call[c]
<1>1. /\ q \in Call /\ CallOK(q) /\ q.phase = "authed" /\ q.client \in Clients /\ q.asks \in Contents
      /\ q.runs = 0
  BY CallFacts DEF LoggedIn, Retry
<1>2. q.answer \in Token
  BY <1>1 DEF CallOK, Call
<1>3. CASE LoggedIn(c)
  BY <1>1, <1>2, <1>3, IdleOK, SetAuthKeeps DEF LoggedIn
<1>4. CASE Retry(c)
  <2>1. SetAuth(q.client, q.answer, c, resolveSignedHeaders(q, q.answer))
    BY <1>4 DEF Retry
  <2>2. q.answer # None
    BY <1>2, CallsAssumption
  <2>3. RanAsked(q) /\ (q.id # NoId => GivenTo(q.id, q.asks))
    BY <1>1 DEF CallOK
  <2> HIDE DEF q
  <2>4. CallOK(resolveSignedHeaders(q, q.answer))
    BY <1>1, <1>2, <2>2, <2>3, ResolveOK
  <2> QED
    BY <1>1, <1>2, <1>4, <2>1, <2>4, SetAuthKeeps DEF Retry
<1> QED
  BY <1>3, <1>4

-----------------------------------------------------------------------------
(* The server's steps. *)

(* The server runs a request, rejects it or reads its body. *)
LEMMA ServeKeeps ==
  ASSUME HttpInv, NEW c \in Calls, Serve(c)
  PROVE  HttpInv'
<1>1. UNCHANGED <<storeVars, now, registryVars, auth, cache, restarts>> /\ made' \in 0..MaxMade
  BY DEF Serve, HttpInv, ClientInv
<1>2. call[c].phase = "sent" /\ call[c] \in Call /\ CallOK(call[c]) /\ call[c].runs = 0
  BY CallFacts DEF Serve
<1>3. \A status \in {200, 400, 401, 403, 500} : CallOK(Answered(call[c], status))
  BY <1>2, AnsweredOK
<1>4. CallOK(Execute(c)) /\ CallOK([call[c] EXCEPT !.phase = "body"])
  BY <1>2, ExecuteOK, PhaseOK
<1>5. CallOK(handleGet(c)) /\ CallOK(withAuth(c)) /\ CallOK(handleUpload(c))
  BY <1>3, <1>4 DEF handleGet, withAuth, handleUpload
<1> QED
  BY <1>1, <1>5, StepKeeps DEF Serve

(* An event of a multipart body settles its promise or is stored. *)
LEMMA PartKeeps ==
  ASSUME HttpInv, NEW c \in Calls, Part(c)
  PROVE  HttpInv'
<1> DEFINE q == call[c]
           p == WithBody(q, Tail(q.body))
           r == WithFile(p, q.file \/ Head(q.body) = "file")
<1>1. UNCHANGED <<storeVars, now, registryVars, auth, cache, restarts>> /\ made' \in 0..MaxMade
  BY DEF Part, HttpInv, ClientInv
<1>2. q.phase = "body" /\ q \in Call /\ CallOK(q) /\ q.runs = 0
  BY CallFacts DEF Part
<1>3. \A status \in {200, 400, 401, 403, 500} : CallOK(Answered(q, status))
  BY <1>2, AnsweredOK
<1>4. CallOK(Execute(c))
  BY <1>2, ExecuteOK
<1>5. ASSUME q.body # <<>>
      PROVE  CallOK(r)
  <2>1. q.body \in Seq(Parts)
    BY <1>2 DEF Call
  <2>2. Tail(q.body) \in Seq(Parts)
    BY <1>5, <2>1
  <2> HIDE DEF q
  <2>3. p \in Call
    BY <1>2, <2>2, SetBody
  <2>4. /\ p.phase = "body" /\ p.client = q.client /\ p.kind = q.kind /\ p.asks = q.asks
        /\ p.auth = q.auth /\ p.id = q.id /\ p.runs = 0 /\ p.ran = q.ran
    BY <1>2 DEF Call, WithBody
  <2> HIDE DEF p
  <2>5. r \in Call
    BY <2>3, SetFile
  <2>6. /\ r.phase = "body" /\ r.client = q.client /\ r.kind = q.kind /\ r.asks = q.asks
        /\ r.auth = q.auth /\ r.id = q.id /\ r.runs = 0 /\ r.ran = q.ran
    BY <2>3, <2>4 DEF Call, WithFile
  <2> HIDE DEF r
  <2> QED
    BY <1>2, <2>5, <2>6 DEF CallOK, RanAsked
<1>6. parseMultipart(c) \in {Answered(q, 400), Answered(q, 401), Execute(c)}
      \/ (q.body # <<>> /\ parseMultipart(c) = r)
  BY DEF parseMultipart, WithBody, WithFile
<1>7. CallOK(parseMultipart(c))
  BY <1>3, <1>4, <1>5, <1>6
<1> QED
  BY <1>1, <1>7, StepKeeps DEF Part

(* A registration leaves what other identifiers lead to. *)
LEMMA RegisterStepKeeps ==
  ASSUME HttpInv, NEW c \in Calls, Register(c)
  PROVE  HttpInv'
<1> DEFINE q == call[c]
           i == registeredId(q.asks)
           p == WithPhase(q, "registered")
           r == WithId(p, i)
<1>1. q.phase = "registering" /\ q \in Call /\ CallOK(q) /\ q.runs = 0 /\ q.asks \in Contents
  BY CallFacts DEF Register
<1>2. /\ RegistryInv' /\ i \in Ids /\ byId'[i] = q.asks
      /\ \E n \in IdBytes..DigestBytes : i = Prefix(q.asks, n)
      /\ \A j \in Ids : byId[j] # NoContent => byId'[j] = byId[j]
  BY <1>1, RegisterKeeps DEF Register, HttpInv
<1>3. UNCHANGED <<storeVars, now, auth, cache, restarts, made>> /\ call' = [call EXCEPT ![c] = r]
  BY DEF Register, Become, WithPhase, WithId
<1> HIDE DEF i
<1>4. \A x : \A j \in Ids : GivenTo(j, x) => GivenTo(j, x)'
  BY <1>2, <1>3, NoneAssumption DEF GivenTo
<1>5. ClientInv'
  BY <1>3, <1>4 DEF HttpInv, ClientInv
<1>6. p \in Call /\ r \in Call
  <2>1. p \in Call
    BY <1>1, SetPhase DEF CallPhases
  <2> QED
    BY <1>2, <2>1, SetId
<1>7. /\ r.phase = "registered" /\ r.client = q.client /\ r.kind = q.kind /\ r.asks = q.asks
      /\ r.auth = q.auth /\ r.id = i /\ r.runs = 0 /\ r.ran = q.ran
  <2>1. /\ p.phase = "registered" /\ p.client = q.client /\ p.kind = q.kind /\ p.asks = q.asks
        /\ p.auth = q.auth /\ p.runs = 0 /\ p.ran = q.ran
    BY <1>1 DEF Call, WithPhase
  <2> HIDE DEF p
  <2> QED
    BY <1>6, <2>1 DEF Call, WithId
<1>8. \A d \in Calls : CallOK(call[d]) /\ call[d] \in Call
  BY CallFacts
<1> HIDE DEF p, q, r
<1>9. call' \in [Calls -> Call] /\ \A d \in Calls : IF d = c THEN call'[d] = r ELSE call'[d] = call[d]
  BY <1>3, <1>6 DEF HttpInv, CallInv
<1>10. CallInv'
  <2> SUFFICES ASSUME NEW d \in Calls PROVE CallOK(call[d])'
    BY <1>9 DEF CallInv
  <2>1. CASE d = c
    <3>1. call'[d] = r
      BY <1>9, <2>1
    <3>2. r.client \in Clients /\ (r.kind = "logout" => r.auth # None) /\ RanAsked(r)
      BY <1>1, <1>7 DEF CallOK, RanAsked
    <3> QED
      BY <1>1, <1>2, <1>3, <1>6, <1>7, <3>1, <3>2 DEF CallOK, RanAsked, GivenTo
  <2>2. CASE d # c
    <3>1. call'[d] = call[d] /\ CallOK(call[d]) /\ call[d].id \in Ids \cup {NoId}
      BY <1>8, <1>9, <2>2 DEF Call
    <3> QED
      BY <1>2, <1>3, <3>1, NoneAssumption DEF CallOK, RanAsked, GivenTo
  <2> QED
    BY <2>1, <2>2
<1>11. TokenInv'
  BY <1>3, SameTokens DEF HttpInv, TokenInv, TokenTypeOK
<1> QED
  BY <1>2, <1>5, <1>10, <1>11 DEF HttpInv

(* The server issues a token and replaces the session's record. *)
LEMMA AuthenticateKeeps ==
  ASSUME HttpInv, NEW c \in Calls, Authenticate(c)
  PROVE  HttpInv'
<1> DEFINE q == call[c]
           t == [session |-> Session(c), expiresAt |-> now + TTL]
           p == WithPhase(q, "authed")
           r == WithAnswer(p, t)
<1>1. /\ q.phase = "authing" /\ q \in Call /\ CallOK(q) /\ q.runs = 0 /\ Session(c) \in Sessions
  BY CallFacts DEF Authenticate
<1>2. t \in Token
  <2>1. now + TTL \in Nat
    BY TTLAssumption DEF HttpInv, TokenInv, TokenTypeOK
  <2> QED
    BY <1>1, <2>1 DEF Token
<1>3. /\ issueToken(Session(c)) /\ Become(c, r)
      /\ UNCHANGED <<now, registryVars, auth, cache, restarts, made>>
  BY DEF Authenticate, WithPhase, WithAnswer
<1> HIDE DEF t
<1>4. p \in Call /\ r \in Call
  <2>1. p \in Call
    BY <1>1, SetPhase DEF CallPhases
  <2> QED
    BY <1>2, <2>1, SetAnswer
<1>5. /\ r.phase = "authed" /\ r.client = q.client /\ r.kind = q.kind /\ r.asks = q.asks
      /\ r.auth = q.auth /\ r.answer = t /\ r.id = q.id /\ r.runs = 0 /\ r.ran = q.ran
  <2>1. /\ p.phase = "authed" /\ p.client = q.client /\ p.kind = q.kind /\ p.asks = q.asks
        /\ p.auth = q.auth /\ p.id = q.id /\ p.runs = 0 /\ p.ran = q.ran
    BY <1>1 DEF Call, WithPhase
  <2> HIDE DEF p
  <2> QED
    BY <1>4, <2>1 DEF Call, WithAnswer
<1> HIDE DEF p, q, r
<1>6. t # None
  BY <1>2, CallsAssumption
<1>7. CallOK(r)
  BY <1>1, <1>4, <1>5, <1>6 DEF CallOK, RanAsked
<1>8. UNCHANGED byId
  BY <1>3 DEF registryVars
<1>9. CallInv'
  BY <1>3, <1>7, <1>8, BecomeKeeps
<1>10. ClientInv'
  BY <1>3, <1>8, SameClients DEF HttpInv, ClientInv
<1>11. RegistryInv' /\ TokenInv'
  BY <1>1, <1>3, SameRegistry, IssueKeeps DEF HttpInv
<1> QED
  BY <1>9, <1>10, <1>11 DEF HttpInv

(* The server revokes a session's record. *)
LEMMA LogoutKeeps ==
  ASSUME HttpInv, NEW c \in Calls, handleLogout(c)
  PROVE  HttpInv'
<1>1. /\ call[c].phase = "sent" /\ call[c] \in Call /\ CallOK(call[c]) /\ call[c].runs = 0
      /\ call[c].kind = "logout"
  BY CallFacts DEF handleLogout
<1>2. call[c].auth.session \in Sessions
  BY <1>1 DEF CallOK, Call, Token
<1>3. CallOK(Answered(call[c], 200))
  BY <1>1, AnsweredOK
<1>4. /\ revokeSession(call[c].auth.session) /\ Become(c, Answered(call[c], 200))
      /\ UNCHANGED <<now, registryVars, auth, cache, restarts, made>>
  BY DEF handleLogout
<1>5. UNCHANGED byId
  BY <1>4 DEF registryVars
<1>6. CallInv'
  BY <1>3, <1>4, <1>5, BecomeKeeps
<1>7. ClientInv'
  BY <1>4, <1>5, SameClients DEF HttpInv, ClientInv
<1>8. RegistryInv' /\ TokenInv'
  BY <1>2, <1>4, SameRegistry, RevokeKeeps DEF HttpInv
<1> QED
  BY <1>6, <1>7, <1>8 DEF HttpInv

(* A restart forgets both stores; what identifiers lead to is open from then on. *)
LEMMA RestartKeeps ==
  ASSUME HttpInv, Restart
  PROVE  HttpInv'
<1>1. restarts' = restarts + 1 /\ restarts' \in 1..MaxRestarts /\ restarts \in Nat
  BY CallsAssumption DEF Restart, HttpInv, ClientInv
<1>2. TokenInv'
  BY ForgetKeeps DEF Restart, HttpInv
<1>3. RegistryInv'
  BY NoneAssumption DEF Restart, ForgetQueries, RegistryInv, RegistryTypeOK, HeldByItsOwn, IdsLeadBack
<1>4. ClientInv'
  <2>1. \A j, x : GivenTo(j, x) => GivenTo(j, x)'
    BY <1>1 DEF GivenTo
  <2> QED
    BY <1>1, <2>1 DEF Restart, HttpInv, ClientInv
<1>5. \A d \in Calls : CallOK(call[d]) /\ call[d] \in Call
  BY CallFacts
<1>6. Idle \in Call
  BY IdleOK DEF CallOK
<1>7. call' \in [Calls -> Call] /\ \A d \in Calls : call'[d] \in {Idle, call[d]}
  BY <1>5, <1>6 DEF Restart
<1>8. CallInv'
  <2> SUFFICES ASSUME NEW d \in Calls PROVE CallOK(call[d])'
    BY <1>7 DEF CallInv
  <2>1. CASE call'[d] = Idle
    BY <1>6, <2>1 DEF Idle, CallOK, RanAsked
  <2>2. CASE call'[d] = call[d]
    BY <1>1, <1>5, <2>2 DEF CallOK, RanAsked, GivenTo
  <2> QED
    BY <1>7, <2>1, <2>2
<1> QED
  BY <1>2, <1>3, <1>4, <1>8 DEF HttpInv

(* Time passes, or nothing happens. *)
LEMMA TickKeeps ==
  ASSUME HttpInv, Tick \/ UNCHANGED httpVars
  PROVE  HttpInv'
<1>1. /\ now' \in Nat /\ UNCHANGED <<storeVars, registryVars>>
      /\ UNCHANGED <<auth, cache, call, restarts, made>>
  BY DEF Tick, httpVars, storeVars, registryVars, HttpInv, TokenInv, TokenTypeOK
<1>2. TokenInv' /\ RegistryInv'
  BY <1>1, SameTokens, SameRegistry DEF HttpInv
<1>3. UNCHANGED byId
  BY <1>1 DEF registryVars
<1>4. ClientInv'
  BY <1>1, <1>3, SameClients DEF HttpInv, ClientInv
<1>5. CallInv'
  BY <1>1, <1>3 DEF HttpInv, CallInv, CallOK, RanAsked, GivenTo
<1> QED
  BY <1>2, <1>4, <1>5 DEF HttpInv

-----------------------------------------------------------------------------
(* At first there are no records, identifiers or calls. *)
LEMMA HttpInitInv == HttpInit => HttpInv
<1> SUFFICES ASSUME HttpInit PROVE HttpInv
  OBVIOUS
<1>1. TokenInv
  BY DEF HttpInit, TokenInit, TokenInv, TokenTypeOK, OutOfUse, InUse
<1>2. RegistryInv
  BY NoneAssumption DEF HttpInit, RegistryInit, RegistryInv, RegistryTypeOK, HeldByItsOwn, IdsLeadBack
<1>3. ClientInv
  BY CallsAssumption DEF HttpInit, ClientInv
<1>4. CallInv
  <2>1. Idle \in Call
    BY IdleOK DEF CallOK
  <2> QED
    BY <2>1, IdleOK DEF HttpInit, CallInv
<1> QED
  BY <1>1, <1>2, <1>3, <1>4 DEF HttpInv

(* Each step keeps the invariant. *)
LEMMA HttpStepInv == HttpInv /\ [HttpNext]_httpVars => HttpInv'
<1> SUFFICES ASSUME HttpInv, [HttpNext]_httpVars PROVE HttpInv'
  OBVIOUS
<1>1. ASSUME NEW c \in Calls, ClientStep(c)
      PROVE  HttpInv'
  <2>1. CASE executeQuery(c) \/ executeUpload(c) \/ executeWrite(c)
    BY <2>1, MakeKeeps DEF executeQuery, executeUpload, executeWrite
  <2>2. CASE login(c) \/ logout(c)
    BY <2>2, LoginKeeps
  <2>3. CASE Registered(c) \/ Receive(c) \/ LoggedIn(c) \/ Retry(c)
    BY <2>3, RegisteredKeeps, ReceiveKeeps, LoggedInKeeps
  <2> QED
    BY <1>1, <2>1, <2>2, <2>3 DEF ClientStep
<1>2. ASSUME NEW c \in Calls, ServerStep(c)
      PROVE  HttpInv'
  BY <1>2, ServeKeeps, PartKeeps, RegisterStepKeeps, AuthenticateKeeps, LogoutKeeps DEF ServerStep
<1>3. ASSUME NEW c \in Calls, Lose(c)
      PROVE  HttpInv'
  BY <1>3, ReceiveKeeps
<1>4. CASE Restart
  BY <1>4, RestartKeeps
<1>5. CASE Tick \/ UNCHANGED httpVars
  BY <1>5, TickKeeps
<1> QED
  BY <1>1, <1>2, <1>3, <1>4, <1>5 DEF HttpNext

(* The invariant of clients, server and stores, for any calls, sessions and contents. *)
THEOREM HttpInvariant == HttpSpec => []HttpInv
BY HttpInitInv, HttpStepInv, PTL DEF HttpSpec

(* Every variable keeps its type; so the loop of createUniqueId always finds an identifier. *)
THEOREM HttpTyped == HttpSpec => []HttpTypeOK
<1>1. HttpInv => HttpTypeOK
  BY DEF HttpInv, TokenInv, RegistryInv, ClientInv, CallInv, HttpTypeOK
<1> QED
  BY <1>1, HttpInvariant, PTL

(* A token of a session that was logged out is not accepted until the server restarts. *)
THEOREM HttpLoggedOutStaysOut == HttpSpec => []LoggedOutStaysOut
<1>1. HttpInv => LoggedOutStaysOut
  <2> SUFFICES ASSUME HttpInv, NEW t \in loggedOut, Verified(t) PROVE FALSE
    BY DEF LoggedOutStaysOut
  <2>1. sessions[t.session] # None
        /\ (sessions[t.session].revoked \/ sessions[t.session].expiresAt # t.expiresAt)
    BY DEF HttpInv, TokenInv, OutOfUse
  <2>2. ~sessions[t.session].revoked
    BY <2>1 DEF Verified, isRevoked
  <2>3. <<t.session, sessions[t.session].expiresAt>> = <<t.session, t.expiresAt>>
    BY <2>1 DEF Verified, verifyQuerySignature, signingToken, deriveSigningToken
  <2> QED
    BY <2>1, <2>2, <2>3
<1> QED
  BY <1>1, HttpInvariant, PTL

(* The newest token of a session is accepted until it expires or is logged out. *)
THEOREM HttpNewestTokensAccepted == HttpSpec => []NewestTokensAccepted
<1>1. HttpInv => NewestTokensAccepted
  <2> SUFFICES ASSUME HttpInv, NEW s \in Sessions, newest[s] # None, now <= newest[s]
               PROVE  Verified([session |-> s, expiresAt |-> newest[s]])
    BY DEF NewestTokensAccepted
  <2> DEFINE t == [session |-> s, expiresAt |-> newest[s]]
  <2>1. newest[s] \in Nat /\ now \in Nat
    BY DEF HttpInv, TokenInv, TokenTypeOK
  <2>2. t \in Token /\ t.session = s /\ t.expiresAt = newest[s] /\ t # None
    <3>1. t \in Token
      BY <2>1 DEF Token
    <3> QED
      BY <3>1, CallsAssumption
  <2>3. sessions[s] \in {None, [expiresAt |-> newest[s], revoked |-> FALSE]}
    BY DEF HttpInv, TokenInv, InUse
  <2> HIDE DEF t
  <2>4. ~isTokenExpired(t) /\ ~isRevoked(t.session)
    BY <2>1, <2>2, <2>3 DEF isTokenExpired, isRevoked
  <2>5. signingToken(t) = deriveSigningToken(t)
    BY <2>2, <2>3 DEF signingToken, deriveSigningToken
  <2>6. Verified(t)
    BY <2>2, <2>4, <2>5 DEF Verified, verifyQuerySignature
  <2> QED
    BY <2>6 DEF t
<1> QED
  BY <1>1, HttpInvariant, PTL

(* A server that was not restarted runs no other query than was asked, whatever the digests. *)
THEOREM HttpExecutesTheAskedQuery == HttpSpec => []ExecutesTheAskedQuery
<1>1. HttpInv => ExecutesTheAskedQuery
  BY DEF HttpInv, CallInv, CallOK, RanAsked, ExecutesTheAskedQuery
<1> QED
  BY <1>1, HttpInvariant, PTL

(* No number of retries makes the server execute a call twice. *)
THEOREM HttpRunsOnce == HttpSpec => []RunsOnce
<1>1. HttpInv => RunsOnce
  BY DEF HttpInv, CallInv, CallOK, RunsOnce
<1> QED
  BY <1>1, HttpInvariant, PTL

-----------------------------------------------------------------------------
(***************************************************************************)
(* Credentials: an authentication answers with the latest expiry there can *)
(* be; the client's own may overtake it only by another authentication,    *)
(* and then the call is crossed.                                           *)
(***************************************************************************)

(* What an action makes of a call's phase. *)
LEMMA PhaseOf ==
  ASSUME NEW q \in Call
  PROVE  /\ \A status : Answered(q, status).phase = "answered"
         /\ \A v : [q EXCEPT !.phase = v].phase = v
         /\ \A v, i : [q EXCEPT !.phase = v, !.id = i].phase = v
         /\ \A v, i : [q EXCEPT !.phase = v, !.crossed = i].phase = v
         /\ \A tok : resolveSignedHeaders(q, tok).phase \in {"sent", "registering"}
BY DEF Call, Answered, resolveSignedHeaders

(* A request that was run is answered. *)
LEMMA ExecutePhase ==
  ASSUME NEW c \in Calls, call[c] \in Call
  PROVE  Execute(c).phase = "answered"
<1> DEFINE a == Answered(call[c], 200)
<1>1. a.phase = "answered" /\ "phase" \in DOMAIN a
  BY DEF Answered, Call
<1>2. Execute(c) = [a EXCEPT !.runs = @ + 1, !.ran = decodeQuery(c)]
  BY DEF Execute
<1> HIDE DEF a
<1> QED
  BY <1>1, <1>2

(* A step that changes one call, to one that does not hold tokens. *)
LEMMA OtherCallKeepsCredentials ==
  ASSUME HttpInv, CredentialsInv, NEW c \in Calls, NEW r, Become(c, r), r.phase # "authed",
         UNCHANGED <<now, auth>>
  PROVE  CredentialsInv'
<1>1. \A d \in Calls : call'[d] = r \/ call'[d] = call[d]
  BY DEF Become, HttpInv, CallInv
<1> QED
  BY <1>1 DEF CredentialsInv, NotOlder, LastsByNow

(* The client's other continuations set no credentials. *)
LEMMA ClientKeepsCredentials ==
  ASSUME HttpInv, CredentialsInv, NEW c \in Calls,
         \/ executeQuery(c) \/ executeUpload(c) \/ executeWrite(c) \/ login(c) \/ logout(c)
         \/ Registered(c) \/ Receive(c) \/ Lose(c)
  PROVE  CredentialsInv'
<1>1. UNCHANGED <<now, auth>> /\ call[c] \in Call
  BY CallFacts DEF executeQuery, executeUpload, executeWrite, login, logout, Make, Begin, Registered, Receive, Lose
<1>2. CASE executeQuery(c) \/ executeUpload(c) \/ executeWrite(c)
  <2>1. PICK use \in Uses : Become(c, resolveSignedHeaders(Begun(use), auth[use.client]))
    BY <1>2 DEF executeQuery, executeUpload, executeWrite, Make, Begin
  <2>2. resolveSignedHeaders(Begun(use), auth[use.client]).phase # "authed"
    BY BegunFacts, PhaseOf
  <2> QED
    BY <1>1, <2>1, <2>2, OtherCallKeepsCredentials
<1>3. CASE login(c)
  <2>1. PICK use \in Uses : Become(c, [Begun(use) EXCEPT !.phase = "authing"])
    BY <1>3 DEF login, Begin
  <2>2. [Begun(use) EXCEPT !.phase = "authing"].phase # "authed"
    BY BegunFacts, PhaseOf
  <2> QED
    BY <1>1, <2>1, <2>2, OtherCallKeepsCredentials
<1>4. CASE logout(c)
  <2>1. PICK use \in Uses : Become(c, [Begun(use) EXCEPT !.auth = auth[use.client], !.phase = "sent"])
    BY <1>4 DEF logout, Begin
  <2>2. [Begun(use) EXCEPT !.auth = auth[use.client], !.phase = "sent"].phase # "authed"
    BY BegunFacts DEF Call
  <2> QED
    BY <1>1, <2>1, <2>2, OtherCallKeepsCredentials
<1>5. CASE Registered(c)
  <2>1. [call[c] EXCEPT !.phase = "sent"].phase # "authed"
    BY <1>1, PhaseOf
  <2> QED
    BY <1>1, <1>5, <2>1, OtherCallKeepsCredentials DEF Registered
<1>6. CASE Receive(c) \/ Lose(c)
  <2>1. Idle.phase # "authed"
    BY DEF Idle
  <2>2. [call[c] EXCEPT !.phase = "authing", !.crossed = FALSE].phase # "authed"
    BY <1>1, PhaseOf
  <2> QED
    BY <1>1, <1>6, <2>1, <2>2, OtherCallKeepsCredentials DEF Receive, Lose
<1> QED
  BY <1>2, <1>3, <1>4, <1>5, <1>6

(* The server's other handlers issue no tokens. *)
LEMMA ServerKeepsCredentials ==
  ASSUME HttpInv, CredentialsInv, NEW c \in Calls,
         Serve(c) \/ Part(c) \/ Register(c) \/ handleLogout(c)
  PROVE  CredentialsInv'
<1>1. UNCHANGED <<now, auth>> /\ call[c] \in Call
  BY CallFacts DEF Serve, Part, Register, handleLogout
<1>2. Execute(c).phase # "authed" /\ \A status : Answered(call[c], status).phase # "authed"
  BY <1>1, ExecutePhase, PhaseOf
<1>3. CASE Serve(c)
  <2>1. [call[c] EXCEPT !.phase = "body"].phase # "authed"
    BY <1>1, PhaseOf
  <2>2. handleGet(c).phase # "authed" /\ withAuth(c).phase # "authed" /\ handleUpload(c).phase # "authed"
    BY <1>2, <2>1 DEF handleGet, withAuth, handleUpload
  <2> QED
    BY <1>1, <1>3, <2>2, OtherCallKeepsCredentials DEF Serve
<1>4. CASE Part(c)
  <2>1. [call[c] EXCEPT !.body = Tail(@), !.file = @ \/ Head(call[c].body) = "file"].phase # "authed"
    BY <1>1, <1>4 DEF Part, Call
  <2>2. parseMultipart(c).phase # "authed"
    BY <1>2, <2>1 DEF parseMultipart
  <2> QED
    BY <1>1, <1>4, <2>2, OtherCallKeepsCredentials DEF Part
<1>5. CASE Register(c)
  <2>1. [call[c] EXCEPT !.phase = "registered", !.id = registeredId(call[c].asks)].phase # "authed"
    BY <1>1, PhaseOf
  <2> QED
    BY <1>1, <1>5, <2>1, OtherCallKeepsCredentials DEF Register
<1>6. CASE handleLogout(c)
  BY <1>1, <1>2, <1>6, OtherCallKeepsCredentials DEF handleLogout
<1> QED
  BY <1>3, <1>4, <1>5, <1>6

(* The tokens of an authentication expire no earlier than any that were issued before. *)
LEMMA AuthenticateKeepsCredentials ==
  ASSUME HttpInv, CredentialsInv, NEW c \in Calls, Authenticate(c)
  PROVE  CredentialsInv'
<1> DEFINE t == [session |-> Session(c), expiresAt |-> now + TTL]
           r == [call[c] EXCEPT !.phase = "authed", !.answer = t]
<1>1. call[c] \in Call /\ call[c].client \in Clients /\ Become(c, r) /\ UNCHANGED <<now, auth>>
  BY CallFacts DEF Authenticate
<1>2. r.answer = t /\ r.client = call[c].client
  BY <1>1 DEF Call
<1>3. now \in Nat /\ TTL \in Nat
  BY TTLAssumption DEF HttpInv, TokenInv, TokenTypeOK
<1>4. NotOlder(r)
  <2>1. t.expiresAt = now + TTL
    OBVIOUS
  <2> HIDE DEF t, r
  <2>2. LastsByNow(auth[r.client])
    BY <1>1, <1>2 DEF CredentialsInv
  <2> QED
    BY <1>2, <1>3, <2>1, <2>2 DEF NotOlder, LastsByNow
<1> HIDE DEF r
<1>5. \A d \in Calls : call'[d] = r \/ call'[d] = call[d]
  BY <1>1 DEF Become, HttpInv, CallInv
<1> QED
  BY <1>1, <1>4, <1>5 DEF CredentialsInv, NotOlder, LastsByNow

(* New credentials leave other calls of the client crossed, and calls of other clients alone. *)
LEMMA LoggedInKeepsCredentials ==
  ASSUME HttpInv, CredentialsInv, NEW c \in Calls, LoggedIn(c) \/ Retry(c)
  PROVE  CredentialsInv'
<1> DEFINE k == call[c].client
           tok == call[c].answer
<1>1. /\ call[c] \in Call /\ k \in Clients /\ call[c].phase = "authed" /\ UNCHANGED now
      /\ auth \in [Clients -> Token \cup {None}]
  BY CallFacts DEF LoggedIn, Retry, HttpInv, ClientInv
<1>2. PICK r : r.phase # "authed" /\ SetAuth(k, tok, c, r)
  <2>1. Idle.phase # "authed" /\ resolveSignedHeaders(call[c], tok).phase # "authed"
    BY <1>1, PhaseOf DEF Idle
  <2> QED
    BY <2>1 DEF LoggedIn, Retry
<1>3. LastsByNow(tok)
  BY <1>1 DEF CredentialsInv, NotOlder
<1> HIDE DEF tok, k
<1>4. \A l \in Clients : auth'[l] = IF l = k THEN tok ELSE auth[l]
  BY <1>1, <1>2 DEF SetAuth
<1>5. \A l \in Clients : LastsByNow(auth[l])'
  BY <1>1, <1>3, <1>4 DEF CredentialsInv, LastsByNow
<1>6. ASSUME NEW d \in Calls, call'[d].phase = "authed"
      PROVE  NotOlder(call[d])'
  <2>1. d # c /\ call'[d] = IF call[d].client = k /\ call[d].phase \in {"authing", "authed"}
                              THEN [call[d] EXCEPT !.crossed = TRUE] ELSE call[d]
    BY <1>2, <1>6 DEF SetAuth
  <2>2. call[d] \in Call /\ (call[d].phase # "idle" => call[d].client \in Clients)
    BY CallFacts
  <2>3. CASE call[d].client = k /\ call[d].phase \in {"authing", "authed"}
    <3>1. /\ call'[d].crossed /\ call'[d].answer = call[d].answer /\ call'[d].phase = call[d].phase
      BY <2>1, <2>2, <2>3 DEF Call
    <3>2. LastsByNow(call[d].answer)
      BY <1>6, <3>1 DEF CredentialsInv, NotOlder
    <3> QED
      BY <1>1, <3>1, <3>2 DEF NotOlder, LastsByNow
  <2>4. CASE ~(call[d].client = k /\ call[d].phase \in {"authing", "authed"})
    <3>1. call'[d] = call[d] /\ call[d].phase = "authed" /\ call[d].client # k /\ call[d].client \in Clients
      BY <1>6, <2>1, <2>2, <2>4
    <3>2. auth'[call[d].client] = auth[call[d].client] /\ NotOlder(call[d])
      BY <1>4, <3>1 DEF CredentialsInv
    <3> QED
      BY <1>1, <3>1, <3>2 DEF NotOlder, LastsByNow
  <2> QED
    BY <2>3, <2>4
<1> QED
  BY <1>5, <1>6 DEF CredentialsInv

(* Each step keeps credentials in order. *)
LEMMA CredentialsStep == HttpInv /\ CredentialsInv /\ [HttpNext]_httpVars => CredentialsInv'
<1> SUFFICES ASSUME HttpInv, CredentialsInv, [HttpNext]_httpVars PROVE CredentialsInv'
  OBVIOUS
<1>1. ASSUME NEW c \in Calls, ClientStep(c) \/ ServerStep(c) \/ Lose(c)
      PROVE  CredentialsInv'
  BY <1>1, ClientKeepsCredentials, ServerKeepsCredentials, AuthenticateKeepsCredentials,
     LoggedInKeepsCredentials DEF ClientStep, ServerStep
<1>2. CASE Restart
  <2>1. \A d \in Calls : call'[d] \in {Idle, call[d]}
    BY <1>2 DEF Restart
  <2>2. Idle.phase # "authed" /\ UNCHANGED <<now, auth>>
    BY <1>2 DEF Idle, Restart
  <2> QED
    BY <2>1, <2>2 DEF CredentialsInv, NotOlder, LastsByNow
<1>3. CASE Tick
  <2>1. now \in Nat /\ TTL \in Nat /\ auth \in [Clients -> Token \cup {None}]
    BY TTLAssumption DEF HttpInv, TokenInv, TokenTypeOK, ClientInv
  <2>2. \A t \in Token : t.expiresAt \in Nat
    BY DEF Token
  <2>3. \A t \in Token \cup {None} : LastsByNow(t) => LastsByNow(t)'
    BY <1>3, <2>1, <2>2 DEF Tick, LastsByNow
  <2>4. \A d \in Calls : call[d].answer \in Token \cup {None}
    BY CallFacts
  <2>5. UNCHANGED <<auth, call>>
    BY <1>3 DEF Tick
  <2> QED
    BY <2>1, <2>3, <2>4, <2>5 DEF CredentialsInv, NotOlder, LastsByNow
<1>4. CASE UNCHANGED httpVars
  BY <1>4 DEF httpVars, CredentialsInv, NotOlder, LastsByNow
<1> QED
  BY <1>1, <1>2, <1>3, <1>4 DEF HttpNext

(* One step: only a login or a retry changes credentials, and only those of its own client. *)
LEMMA AuthForwardStep ==
  ASSUME HttpInv, CredentialsInv, [HttpNext]_httpVars, NEW c \in Calls,
         call[c].phase = "authed", ~call[c].crossed, auth[call[c].client] # None
  PROVE  auth'[call[c].client].expiresAt >= auth[call[c].client].expiresAt \/ call'[c].phase = "authed"
<1> DEFINE k == call[c].client
<1>1. /\ k \in Clients /\ call[c] \in Call /\ call[c].answer \in Token
      /\ auth \in [Clients -> Token \cup {None}] /\ auth[k] \in Token
  BY CallFacts DEF HttpInv, ClientInv, CallOK, Call
<1>2. auth[k].expiresAt \in Nat /\ call[c].answer.expiresAt \in Nat
  BY <1>1 DEF Token
<1>3. auth[k].expiresAt <= call[c].answer.expiresAt
  BY DEF CredentialsInv, NotOlder
<1>4. CASE UNCHANGED auth
  BY <1>2, <1>4
<1>5. ASSUME NEW d \in Calls, LoggedIn(d) \/ Retry(d)
      PROVE  auth'[k].expiresAt >= auth[k].expiresAt \/ call'[c].phase = "authed"
  <2>1. PICK r : SetAuth(call[d].client, call[d].answer, d, r)
    BY <1>5 DEF LoggedIn, Retry
  <2>2. CASE d = c
    <3>1. auth'[k] = call[c].answer
      BY <1>1, <2>1, <2>2 DEF SetAuth
    <3> QED
      BY <1>2, <1>3, <3>1
  <2>3. CASE d # c
    <3>1. call'[c] \in {call[c], [call[c] EXCEPT !.crossed = TRUE]}
      BY <2>1, <2>3 DEF SetAuth
    <3>2. call'[c].phase = "authed"
      BY <1>1, <3>1 DEF Call
    <3> QED
      BY <3>2
  <2> QED
    BY <2>2, <2>3
<1>6. UNCHANGED auth \/ \E d \in Calls : LoggedIn(d) \/ Retry(d)
  BY DEF HttpNext, ClientStep, ServerStep, httpVars, executeQuery, executeUpload, executeWrite, login, logout,
         Make, Begin, Registered, Receive, Lose, Serve, Part, Register, Authenticate, handleLogout, Restart, Tick
<1> QED
  BY <1>4, <1>5, <1>6

(* A client's credentials go back to older ones only through authentications of its own that overlap. *)
THEOREM HttpAuthGoesForward ==
  ASSUME OptionAuthLasts
  PROVE  HttpSpec => AuthForwardUnlessCrossed
<1>1. HttpInit => CredentialsInv
  <2> SUFFICES ASSUME HttpInit PROVE CredentialsInv
    OBVIOUS
  <2>1. \A c \in Calls : call[c].phase # "authed"
    BY DEF HttpInit, Idle
  <2>2. \A k \in Clients : LastsByNow(OptionAuth[k])
    BY TTLAssumption DEF OptionAuthLasts, LastsByNow, HttpInit, TokenInit
  <2> QED
    BY <2>1, <2>2 DEF HttpInit, CredentialsInv
<1>2. HttpInv /\ CredentialsInv /\ [HttpNext]_httpVars =>
        [\A c \in Calls : LET k == call[c].client IN
           (call[c].phase = "authed" /\ ~call[c].crossed /\ auth[k] # None)
             => auth'[k].expiresAt >= auth[k].expiresAt \/ call'[c].phase = "authed"]_httpVars
  BY AuthForwardStep
<1> QED
  BY <1>1, <1>2, HttpInvariant, CredentialsStep, PTL DEF HttpSpec, AuthForwardUnlessCrossed

=============================================================================
