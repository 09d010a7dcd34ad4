---------------------------- MODULE QueryRegistry ----------------------------
(***************************************************************************)
(* The registry of @meshql/persisted-queries: registerQuery and the store  *)
(* behind it (persisted-queries/src/register.ts, store.ts).                *)
(*                                                                         *)
(* A content is a query and its format.  Its identifier is a prefix of its *)
(* digest, of IdBytes bytes (ID_HEX_LENGTH / 2) or, where another content  *)
(* has that one already, of more.                                          *)
(***************************************************************************)
EXTENDS Naturals, Sequences

CONSTANTS
  Contents,
  Digest,       \* content -> its sha256, a sequence of bytes
  DigestBytes,
  IdBytes,
  NoContent, NoId

ASSUME DigestAssumption ==
  /\ IdBytes \in Nat \ {0} /\ DigestBytes \in Nat /\ IdBytes <= DigestBytes
  /\ \A q \in Contents : Digest[q] \in Seq(Nat) /\ Len(Digest[q]) = DigestBytes
  /\ \A p, q \in Contents : Digest[p] = Digest[q] => p = q
ASSUME NoneAssumption == NoContent \notin Contents /\ NoId \notin Seq(Nat)

VARIABLES
  byId,        \* InMemoryQueryStore.byId
  byContent    \* and .byContent

registryVars == <<byId, byContent>>

Prefix(q, n) == SubSeq(Digest[q], 1, n)
Ids == {Prefix(q, n) : q \in Contents, n \in IdBytes..DigestBytes}

RegistryTypeOK ==
  /\ byId \in [Ids -> Contents \cup {NoContent}]
  /\ byContent \in [Contents -> Ids \cup {NoId}]

RegistryInit ==
  /\ byId = [i \in Ids |-> NoContent]
  /\ byContent = [q \in Contents |-> NoId]

-----------------------------------------------------------------------------
(* The loop of createUniqueId stops at a prefix nobody has, or at its own. *)
AllocatableAlways(q, n) == TRUE
Allocatable(q, n) == byId[Prefix(q, n)] \in {NoContent, q}

CreateUniqueIdShort(q) ==
  Prefix(q, (CHOOSE n \in IdBytes..DigestBytes :
               /\ Allocatable(q, n)
               /\ \A m \in IdBytes..(n - 1) : ~Allocatable(q, m)) - 1)

createUniqueId(q) ==
  Prefix(q, CHOOSE n \in IdBytes..DigestBytes :
              /\ Allocatable(q, n)
              /\ \A m \in IdBytes..(n - 1) : ~Allocatable(q, m))

(* The identifier of q, which it keeps from its first registration on. *)
registeredId(q) == IF byContent[q] # NoId THEN byContent[q] ELSE createUniqueId(q)

registerQuery(q) ==
  IF byContent[q] # NoId
    THEN UNCHANGED registryVars
    ELSE /\ byId' = [byId EXCEPT ![createUniqueId(q)] = q]
         /\ byContent' = [byContent EXCEPT ![q] = createUniqueId(q)]

(* A restart of the server, whose store is in memory. *)
ForgetQueries ==
  /\ byId' = [i \in Ids |-> NoContent]
  /\ byContent' = [q \in Contents |-> NoId]

-----------------------------------------------------------------------------
(***************************************************************************)
(* Both maps say the same: the identifier a content was given leads back   *)
(* to it, through any registrations of contents with the same first bytes. *)
(***************************************************************************)
IdsLeadBack == \A q \in Contents : byContent[q] # NoId => byId[byContent[q]] = q

-----------------------------------------------------------------------------
(* Why: an identifier is only ever held by a content it is a prefix of. *)
HeldByItsOwn ==
  \A i \in Ids : byId[i] # NoContent => \E n \in IdBytes..DigestBytes : i = Prefix(byId[i], n)

RegistryInv == RegistryTypeOK /\ HeldByItsOwn /\ IdsLeadBack

=============================================================================
