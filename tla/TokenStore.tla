------------------------------ MODULE TokenStore ------------------------------
(***************************************************************************)
(* Tokens and sessions of @meshql/integrity: issueToken, revokeSession and *)
(* the checks of the plugin's onRequest hook (integrity/src/plugin.ts,     *)
(* token.ts, store.ts).                                                    *)
(*                                                                         *)
(* A wire token says which session it is for and when it expires.  The key *)
(* a client signs with is derived from just that and the server's secret,  *)
(* so a token stands for its key as well.  The store remembers one record  *)
(* per session, in memory: a restart forgets all of them.  One user owns a *)
(* session, and `now` is Date.now().                                       *)
(***************************************************************************)
EXTENDS Naturals

CONSTANTS
  Sessions,
  TTL,      \* IntegrityOptions.tokenTTL
  None      \* no token, no record, no identifier, no query

ASSUME TTLAssumption == TTL \in Nat \ {0}
ASSUME NoneIsNoRecord == None \notin [expiresAt : Nat, revoked : BOOLEAN]

VARIABLES
  sessions,   \* InMemoryTokenStore.sessions
  now,
  \* What was said to clients, for the properties:
  newest,     \* session -> when its newest token expires, unless it was logged out
  loggedOut   \* tokens whose session was revoked after they were issued

storeVars == <<sessions, newest, loggedOut>>

Token == [session : Sessions, expiresAt : Nat]
SessionRecord == [expiresAt : Nat, revoked : BOOLEAN]

TokenTypeOK ==
  /\ sessions \in [Sessions -> SessionRecord \cup {None}]
  /\ now \in Nat
  /\ newest \in [Sessions -> Nat \cup {None}]
  /\ loggedOut \subseteq Token

TokenInit ==
  /\ sessions = [s \in Sessions |-> None]
  /\ now = 0
  /\ newest = [s \in Sessions |-> None]
  /\ loggedOut = {}

-----------------------------------------------------------------------------
isTokenExpired(t) == now > t.expiresAt

isRevoked(s) == sessions[s] # None /\ sessions[s].revoked

(* What the client signed with; what the server compares with when it has no record. *)
deriveSigningToken(t) == <<t.session, t.expiresAt>>

SigningTokenAlwaysDerived(t) == deriveSigningToken(t)

(* `session?.signingToken ?? deriveSigningToken(...)`: the record of the session's newest token. *)
signingToken(t) ==
  IF sessions[t.session] # None
    THEN <<t.session, sessions[t.session].expiresAt>> ELSE deriveSigningToken(t)

(* A signature holds under the key it was made with, and no other. *)
verifyQuerySignature(key, signedWith) == key = signedWith

(* onRequest; a request without a token is refused before. *)
Verified(t) ==
  /\ t # None
  /\ ~isTokenExpired(t)
  /\ ~isRevoked(t.session)
  /\ verifyQuerySignature(signingToken(t), deriveSigningToken(t))

(* Tokens that were issued for s before now. *)
IssuedFor(s) == [session : {s}, expiresAt : 0..(now + TTL)]

IssueTokenKeepsRecord(s) ==
  LET t == [session |-> s, expiresAt |-> now + TTL] IN
  /\ sessions' = [sessions EXCEPT ![s] =
       IF @ = None THEN [expiresAt |-> t.expiresAt, revoked |-> FALSE] ELSE @]
  /\ newest' = [newest EXCEPT ![s] = t.expiresAt]
  /\ loggedOut' = loggedOut \ {t}

(***************************************************************************)
(* issueToken: the new record replaces the session's, revoked or not.  Two *)
(* tokens of one millisecond are the same token.                           *)
(***************************************************************************)
issueToken(s) ==
  LET t == [session |-> s, expiresAt |-> now + TTL] IN
  /\ sessions' = [sessions EXCEPT ![s] = [expiresAt |-> t.expiresAt, revoked |-> FALSE]]
  /\ newest' = [newest EXCEPT ![s] = t.expiresAt]
  /\ loggedOut' = loggedOut \ {t}

(* revokeSession; InMemoryTokenStore.revoke does nothing for a session it does not know. *)
revokeSession(s) ==
  IF sessions[s] # None
    THEN /\ sessions' = [sessions EXCEPT ![s].revoked = TRUE]
         /\ newest' = [newest EXCEPT ![s] = None]
         /\ loggedOut' = loggedOut \cup IssuedFor(s)
    ELSE UNCHANGED storeVars

(* A restart of the server: the Map is gone, and with it every revocation. *)
ForgetSessions ==
  /\ sessions' = [s \in Sessions |-> None]
  /\ loggedOut' = {}
  /\ UNCHANGED newest

-----------------------------------------------------------------------------
(***************************************************************************)
(* "POST /{base}/logout with X-Mesh-Token revokes the session": a token of *)
(* a session that was logged out is not accepted again, not even after the *)
(* session was logged in anew, as long as the server keeps running.        *)
(***************************************************************************)
LoggedOutStaysOut == \A t \in loggedOut : ~Verified(t)

(***************************************************************************)
(* The newest token of a session is accepted until it expires or is logged *)
(* out: no later step of other sessions, no expiry of an older token and   *)
(* no restart takes it away (without a record its key is derived again).   *)
(***************************************************************************)
NewestTokensAccepted ==
  \A s \in Sessions :
    (newest[s] # None /\ now <= newest[s]) => Verified([session |-> s, expiresAt |-> newest[s]])

-----------------------------------------------------------------------------
(***************************************************************************)
(* Why: the record of a session is of its newest token, or revoked; and a  *)
(* session of which a token was logged out keeps a record.                 *)
(***************************************************************************)
OutOfUse ==
  \A t \in loggedOut :
    /\ sessions[t.session] # None
    /\ sessions[t.session].revoked \/ sessions[t.session].expiresAt # t.expiresAt

InUse ==
  \A s \in Sessions : newest[s] # None =>
    sessions[s] \in {None, [expiresAt |-> newest[s], revoked |-> FALSE]}

TokenInv == TokenTypeOK /\ OutOfUse /\ InUse

=============================================================================
