------------------------------ MODULE MCMeshSse ------------------------------
(* Instances of MeshSse for TLC. *)
EXTENDS MeshSse, TLC

CONSTANTS e1, f1, h1, a1, a2, c1

OneChannel == [s \in Subs |-> c1]
ExpressAndHono == (e1 :> "express") @@ (h1 :> "hono")
ExpressAndFastify == (e1 :> "express") @@ (f1 :> "fastify")

=============================================================================
