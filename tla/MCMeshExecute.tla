---------------------------- MODULE MCMeshExecute ----------------------------
(* Instances of MeshExecute for TLC. *)
EXTENDS MeshExecute, TLC

CONSTANTS r1, user, guest

AllKinds == <<"logger", "rateLimit", "limit", "integrity", "entityAccess", "fieldAccess",
              "fieldAccess", "rowAccess", "custom">>
SameUser == [r \in Requests |-> user]

=============================================================================
