-------------------------- MODULE MCPostgresPubSub --------------------------
(* Instances of PostgresPubSub for TLC. *)
EXTENDS PostgresPubSub, TLC

CONSTANTS s1, s2, s3, c1, c2

OneChannel == [s \in Subs |-> c1]
TwoChannels == (s1 :> c1) @@ (s2 :> c1) @@ (s3 :> c2)

=============================================================================
