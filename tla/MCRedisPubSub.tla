---------------------------- MODULE MCRedisPubSub ----------------------------
(* Instances of RedisPubSub for TLC. *)
EXTENDS RedisPubSub

CONSTANT c1

OneChannel == [s \in Subs |-> c1]

=============================================================================
