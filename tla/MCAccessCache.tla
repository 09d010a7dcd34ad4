---------------------------- MODULE MCAccessCache ----------------------------
(***************************************************************************)
(* Two requests at a time, of a user without a role or a role without one,  *)
(* and two callers who invalidate.  Neither have names the code looks at.   *)
(***************************************************************************)
EXTENDS AccessCache, TLC

CONSTANTS u, admin, r1, r2, c1, c2

MCPrincipals == {<<u, NoRole>>, <<NoUser, admin>>}
MCGates == <<"entity", "dynamic", "row">>
MCSymmetry == Permutations(Requests) \cup Permutations(Callers)

=============================================================================
