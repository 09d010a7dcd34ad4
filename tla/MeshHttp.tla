------------------------------- MODULE MeshHttp -------------------------------
(***************************************************************************)
(* Clients and server of MeshQL over HTTP: createClient and                *)
(* createAuthClient (client/src/client.ts), the handlers of @meshql/http,  *)
(* the session and registration routes, and the showcase's signed writes,  *)
(* over the stores of TokenStore and QueryRegistry.                        *)
(*                                                                         *)
(* A call is one use of client.query, write, upload or login, or a POST to *)
(* /logout.  It takes its credentials when it begins, registers its query  *)
(* if it has to, is served, and on a 401 logs in again and starts over.    *)
(* Calls run concurrently; requests and answers take any time, and may be  *)
(* lost, when fetch() rejects and the call fails.                          *)
(***************************************************************************)
EXTENDS TokenStore, QueryRegistry

CONSTANTS
  Clients,
  Calls,       \* as many calls may be under way at once
  Uses,        \* what the application does: a client, a kind of call and a content
  SessionOf,   \* client -> the session authenticate() puts its user in
  OptionAuth,  \* client -> the credentials it is created with, or None
  Persisted,   \* clients with the option persistedQueries
  BodyOf,      \* content -> the multipart body an upload sends with it
  MaxNow, MaxRestarts, MaxMade   \* bounds of a run

CallKinds == {"query", "write", "upload", "login", "logout"}
Parts == {"file", "big", "meta", "badMeta"}  \* "big": more than maxBytes

ASSUME CallsAssumption ==
  /\ Uses \subseteq [client : Clients, kind : CallKinds, content : Contents]
  /\ SessionOf \in [Clients -> Sessions]
  /\ OptionAuth \in [Clients -> Token \cup {None}]
  /\ Persisted \subseteq Clients
  /\ BodyOf \in [Contents -> Seq(Parts)]
  /\ None \notin Token
  /\ {MaxNow, MaxRestarts, MaxMade} \subseteq Nat

VARIABLES
  auth,     \* client -> its credentials
  cache,    \* client -> content -> the identifier it was told
  call,     \* call -> where it is
  restarts, \* restarts of the server so far
  made      \* calls made so far

httpVars == <<sessions, now, newest, loggedOut, byId, byContent, auth, cache, call, restarts, made>>

Call == [
  phase  : {"idle", "registering", "registered", "sent", "body", "answered",
            "authing", "authed"},    \* "authing": POST /auth is on its way
  client : Clients \cup {None},
  kind   : CallKinds \cup {"none"},
  asks   : Contents \cup {NoContent},  \* the content the server is to run
  auth   : Token \cup {None},     \* signOptions, taken when the call began
  id     : Ids \cup {NoId},       \* X-Mesh-Query-Id; without it the query is in the header
  status : {0, 200, 400, 401, 403, 500},
  answer : Token \cup {None},     \* the tokens of POST /auth
  body   : Seq(Parts),            \* of an upload: what has not arrived
  file   : BOOLEAN,               \* parseMultipart has the file
  runs   : Nat,                   \* times the server executed it
  ran    : Contents \cup {NoContent},  \* and what it executed
  crossed : BOOLEAN ]             \* new credentials came while it authenticated

HttpTypeOK ==
  /\ TokenTypeOK /\ RegistryTypeOK
  /\ auth \in [Clients -> Token \cup {None}]
  /\ cache \in [Clients -> [Contents -> Ids \cup {NoId}]]
  /\ call \in [Calls -> Call]
  /\ restarts \in 0..MaxRestarts /\ made \in 0..MaxMade

(* A promise that settled, or none yet: nothing of it is kept. *)
Idle == [phase |-> "idle", client |-> None, kind |-> "none", asks |-> NoContent, auth |-> None,
         id |-> NoId, status |-> 0, answer |-> None, body |-> <<>>, file |-> FALSE,
         runs |-> 0, ran |-> NoContent, crossed |-> FALSE]

HttpInit ==
  /\ TokenInit /\ RegistryInit
  /\ auth = OptionAuth
  /\ cache = [k \in Clients |-> [q \in Contents |-> NoId]]
  /\ call = [c \in Calls |-> Idle]
  /\ restarts = 0 /\ made = 0

-----------------------------------------------------------------------------
(* Helpers: the record a call becomes. *)

Session(c) == SessionOf[call[c].client]
Become(c, r) == call' = [call EXCEPT ![c] = r]
Answered(r, status) == [r EXCEPT !.phase = "answered", !.status = status,
                                 !.id = NoId, !.body = <<>>, !.file = FALSE]

(* resolveSignedHeaders up to its first await: the credentials of the moment. *)
resolveSignedHeaders(r, tok) ==
  LET id == cache[r.client][r.asks]
      body == IF r.kind = "upload" THEN BodyOf[r.asks] ELSE <<>>
      signed == [r EXCEPT !.auth = tok, !.body = body, !.status = 0, !.answer = None] IN
  IF r.client \notin Persisted THEN [signed EXCEPT !.phase = "sent"]
  ELSE IF id # NoId THEN [signed EXCEPT !.phase = "sent", !.id = id]
  ELSE [signed EXCEPT !.phase = "registering"]

-----------------------------------------------------------------------------
(* The client. *)

Begin(c, r) ==
  /\ call[c].phase = "idle" /\ made < MaxMade
  /\ made' = made + 1
  /\ Become(c, r)
  /\ UNCHANGED <<storeVars, now, registryVars, auth, cache, restarts>>

Begun(use) == [Idle EXCEPT !.client = use.client, !.kind = use.kind, !.asks = use.content]

Make(c, kind) ==
  \E use \in Uses :
    /\ use.kind = kind
    /\ Begin(c, resolveSignedHeaders(Begun(use), auth[use.client]))

executeQuery(c) == Make(c, "query")
executeUpload(c) == Make(c, "upload")
executeWrite(c) == Make(c, "write")

(* AuthMeshClient.login posts to /auth. *)
login(c) ==
  \E use \in Uses :
    /\ use.kind = "login"
    /\ Begin(c, [Begun(use) EXCEPT !.phase = "authing"])

(* The application posts its token to /logout.  A client has no way to forget credentials. *)
logout(c) ==
  \E use \in Uses :
    /\ use.kind = "logout" /\ auth[use.client] # None
    /\ Begin(c, [Begun(use) EXCEPT !.auth = auth[use.client], !.phase = "sent"])

(* The identifier arrives: it is cached, and the request signed as begun. *)
Registered(c) ==
  /\ call[c].phase = "registered"
  /\ cache' = [cache EXCEPT ![call[c].client][call[c].asks] = call[c].id]
  /\ Become(c, [call[c] EXCEPT !.phase = "sent"])
  /\ UNCHANGED <<storeVars, now, registryVars, auth, restarts, made>>

(***************************************************************************)
(* The answer arrives.  A 401 calls onTokenExpired, which is the           *)
(* application's: it logs in again, or throws (as createAuthClient's does) *)
(* and fails the call like any other error.                                *)
(***************************************************************************)
RetriesOn(status) == status = 401

Receive(c) ==
  /\ call[c].phase = "answered"
  /\ \/ Become(c, Idle)
     \/ RetriesOn(call[c].status) /\ Become(c, [call[c] EXCEPT !.phase = "authing", !.crossed = FALSE])
  /\ UNCHANGED <<storeVars, now, registryVars, auth, cache, restarts, made>>

SetAuthOfCall(k, tok, c, r) ==
  /\ auth' = [auth EXCEPT ![k] = IF call[c].auth = None THEN tok ELSE call[c].auth]
  /\ call' = [call EXCEPT ![c] = r]

(* New credentials of client k: authentications under way for it are crossed. *)
SetAuth(k, tok, c, r) ==
  /\ auth' = [auth EXCEPT ![k] = tok]
  /\ call' = [d \in Calls |->
       IF d = c THEN r
       ELSE IF call[d].client = k /\ call[d].phase \in {"authing", "authed"}
         THEN [call[d] EXCEPT !.crossed = TRUE] ELSE call[d]]

(* The tokens arrive: setAuth() by login, or a retry with them. *)
LoggedIn(c) ==
  /\ call[c].phase = "authed" /\ call[c].kind = "login"
  /\ SetAuth(call[c].client, call[c].answer, c, Idle)
  /\ UNCHANGED <<storeVars, now, registryVars, cache, restarts, made>>

Retry(c) ==
  /\ call[c].phase = "authed" /\ call[c].kind # "login"
  /\ SetAuth(call[c].client, call[c].answer, c, resolveSignedHeaders(call[c], call[c].answer))
  /\ UNCHANGED <<storeVars, now, registryVars, cache, restarts, made>>

(* fetch() rejects, or POST /queries or /auth is answered with an error. *)
Lose(c) ==
  /\ call[c].phase # "idle"
  /\ Become(c, Idle)
  /\ UNCHANGED <<storeVars, now, registryVars, auth, cache, restarts, made>>

-----------------------------------------------------------------------------
(* The server. *)

(* decodeQuery: the content a request names; only GETs resolve identifiers. *)
decodeQuery(c) ==
  IF call[c].id = NoId THEN call[c].asks
  ELSE IF call[c].kind = "query" THEN byId[call[c].id] ELSE NoContent

Execute(c) == [Answered(call[c], 200) EXCEPT !.runs = @ + 1, !.ran = decodeQuery(c)]

(* With the hooks run after the resolver, not before. *)
HandleGetRunsFirst(c) ==
  IF decodeQuery(c) = NoContent THEN Answered(call[c], 400)
  ELSE IF Verified(call[c].auth) THEN Execute(c) ELSE [Execute(c) EXCEPT !.status = 401]

(* handleGet, and toErrorResponse for what it throws. *)
handleGet(c) ==
  IF decodeQuery(c) = NoContent THEN Answered(call[c], 400)
  ELSE IF Verified(call[c].auth) THEN Execute(c) ELSE Answered(call[c], 401)

(* The showcase verifies its writes itself, as the plugin would. *)
verifyMeshRequest(t) == Verified(t)

(* withAuth: only an expired token is a 401. *)
withAuth(c) ==
  IF decodeQuery(c) = NoContent THEN Answered(call[c], 500)
  ELSE IF verifyMeshRequest(call[c].auth) THEN Execute(c)
  ELSE IF call[c].auth # None /\ isTokenExpired(call[c].auth) THEN Answered(call[c], 401)
  ELSE Answered(call[c], 403)

(* handleUpload reads the body before it knows who sent it. *)
handleUpload(c) ==
  IF decodeQuery(c) = NoContent THEN Answered(call[c], 400)
  ELSE [call[c] EXCEPT !.phase = "body"]

Serve(c) ==
  /\ call[c].phase = "sent"
  /\ \/ call[c].kind = "query" /\ Become(c, handleGet(c))
     \/ call[c].kind = "write" /\ Become(c, withAuth(c))
     \/ call[c].kind = "upload" /\ Become(c, handleUpload(c))
  /\ UNCHANGED <<storeVars, now, registryVars, auth, cache, restarts, made>>

(* With a failing part that rejects nothing. *)
ParseMultipartMute(c) ==
  LET r == call[c] IN
  IF r.body = <<>>
    THEN IF ~r.file THEN Answered(r, 400)
         ELSE IF Verified(r.auth) THEN Execute(c) ELSE Answered(r, 401)
    ELSE IF Head(r.body) \in {"big", "badMeta"} THEN r
         ELSE [r EXCEPT !.body = Tail(@), !.file = @ \/ Head(r.body) = "file"]

(* parseMultipart: an event of busboy.  What settles the promise ends the matter. *)
parseMultipart(c) ==
  LET r == call[c] IN
  IF r.body = <<>>
    THEN IF ~r.file THEN Answered(r, 400)
         ELSE IF Verified(r.auth) THEN Execute(c) ELSE Answered(r, 401)
    ELSE IF Head(r.body) \in {"big", "badMeta"} THEN Answered(r, 400)
         ELSE [r EXCEPT !.body = Tail(@), !.file = @ \/ Head(r.body) = "file"]

Part(c) ==
  /\ call[c].phase = "body"
  /\ Become(c, parseMultipart(c))
  /\ UNCHANGED <<storeVars, now, registryVars, auth, cache, restarts, made>>

(* handleRegisterQuery *)
Register(c) ==
  /\ call[c].phase = "registering"
  /\ registerQuery(call[c].asks)
  /\ Become(c, [call[c] EXCEPT !.phase = "registered", !.id = registeredId(call[c].asks)])
  /\ UNCHANGED <<storeVars, now, auth, cache, restarts, made>>

(* handleAuth *)
Authenticate(c) ==
  /\ call[c].phase = "authing"
  /\ issueToken(Session(c))
  /\ Become(c, [call[c] EXCEPT !.phase = "authed",
                               !.answer = [session |-> Session(c), expiresAt |-> now + TTL]])
  /\ UNCHANGED <<now, registryVars, auth, cache, restarts, made>>

(* handleLogout *)
handleLogout(c) ==
  /\ call[c].phase = "sent" /\ call[c].kind = "logout"
  /\ revokeSession(call[c].auth.session)
  /\ Become(c, Answered(call[c], 200))
  /\ UNCHANGED <<now, registryVars, auth, cache, restarts, made>>

(* The stores are in memory; an upload under way loses its connection. *)
Restart ==
  /\ restarts < MaxRestarts
  /\ restarts' = restarts + 1
  /\ ForgetSessions /\ ForgetQueries
  /\ call' = [c \in Calls |->
       IF call[c].phase = "body" THEN Idle ELSE call[c]]
  /\ UNCHANGED <<now, auth, cache, made>>

Tick ==
  /\ now < MaxNow
  /\ now' = now + 1
  /\ UNCHANGED <<storeVars, registryVars, auth, cache, call, restarts, made>>

ClientStep(c) ==
  \/ executeQuery(c) \/ executeUpload(c) \/ executeWrite(c) \/ login(c) \/ logout(c)
  \/ Registered(c) \/ Receive(c) \/ LoggedIn(c) \/ Retry(c)
ServerStep(c) == Serve(c) \/ Part(c) \/ Register(c) \/ Authenticate(c) \/ handleLogout(c)

HttpNext ==
  \/ \E c \in Calls : ClientStep(c) \/ ServerStep(c) \/ Lose(c)
  \/ Restart \/ Tick

(* The server serves what it is sent and promises are resumed; clients need not call. *)
HttpFairness ==
  \A c \in Calls : WF_httpVars(ServerStep(c) \/ Registered(c) \/ Receive(c) \/ LoggedIn(c) \/ Retry(c))

HttpSpec == HttpInit /\ [][HttpNext]_httpVars /\ HttpFairness

-----------------------------------------------------------------------------
(***************************************************************************)
(* A request runs the query its caller wrote, also when it is sent as an   *)
(* identifier that may be a prefix of another query's digest.  A client    *)
(* keeps identifiers a restarted server has forgotten: only then may one   *)
(* have been given to another query, of the same first bytes.              *)
(***************************************************************************)
ExecutesTheAskedQuery ==
  \A c \in Calls :
    \/ call[c].ran \in {NoContent, call[c].asks}
    \/ restarts > 0 /\ Prefix(call[c].ran, IdBytes) = Prefix(call[c].asks, IdBytes)

(* However often a call is retried with new tokens, the server runs it once at most. *)
RunsOnce == \A c \in Calls : call[c].runs <= 1

(***************************************************************************)
(* A client's credentials do not go back to older ones, unless two of its  *)
(* authentications overlapped (each request that meets a 401 makes one).   *)
(***************************************************************************)
AuthForwardUnlessCrossed ==
  [][\A c \in Calls : LET k == call[c].client IN
       (call[c].phase = "authed" /\ ~call[c].crossed /\ auth[k] # None)
         => auth'[k].expiresAt >= auth[k].expiresAt \/ call'[c].phase = "authed"]_httpVars

(***************************************************************************)
(* Every call is answered or fails: a retry with new tokens may meet a 401 *)
(* again, but only while sessions are logged out, superseded or expire.    *)
(***************************************************************************)
CallsSettle == \A c \in Calls : call[c].phase # "idle" ~> call[c].phase = "idle"

-----------------------------------------------------------------------------
(***************************************************************************)
(* Why: the inductive invariant, of the stores, the clients and each call. *)
(***************************************************************************)

(* Identifier i was given to q: it is a prefix of its digest, and q's until the server forgets it. *)
GivenTo(i, q) ==
  /\ q \in Contents
  /\ \E n \in IdBytes..DigestBytes : i = Prefix(q, n)
  /\ restarts = 0 => byId[i] = q

RanAsked(r) ==
  \/ r.ran \in {NoContent, r.asks}
  \/ restarts > 0 /\ Prefix(r.ran, IdBytes) = Prefix(r.asks, IdBytes)

CallOK(r) ==
  /\ r \in Call
  /\ r.phase # "idle" => r.client \in Clients /\ r.asks \in Contents
  /\ r.phase = "authed" => r.answer # None
  /\ r.kind = "logout" => r.auth # None
  /\ r.runs = 0 \/ (r.runs = 1 /\ r.phase = "answered" /\ r.status = 200)
  /\ r.id # NoId => GivenTo(r.id, r.asks)
  /\ RanAsked(r)

CallInv == call \in [Calls -> Call] /\ \A c \in Calls : CallOK(call[c])

ClientInv ==
  /\ auth \in [Clients -> Token \cup {None}]
  /\ cache \in [Clients -> [Contents -> Ids \cup {NoId}]]
  /\ restarts \in 0..MaxRestarts /\ made \in 0..MaxMade
  /\ \A k \in Clients, q \in Contents : cache[k][q] # NoId => GivenTo(cache[k][q], q)

HttpInv == TokenInv /\ RegistryInv /\ ClientInv /\ CallInv

(* Credentials were issued by now, and those on their way in an uncrossed call last at least as long as the client's. *)
LastsByNow(t) == t = None \/ t.expiresAt <= now + TTL

NotOlder(r) ==
  /\ LastsByNow(r.answer)
  /\ (~r.crossed /\ auth[r.client] # None) => auth[r.client].expiresAt <= r.answer.expiresAt

CredentialsInv ==
  /\ \A k \in Clients : LastsByNow(auth[k])
  /\ \A c \in Calls : call[c].phase = "authed" => NotOlder(call[c])

(* Clients are created with tokens of this tokenTTL, issued before. *)
OptionAuthLasts == \A k \in Clients : OptionAuth[k] # None => OptionAuth[k].expiresAt <= TTL

=============================================================================
