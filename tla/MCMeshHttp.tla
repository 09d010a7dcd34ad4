------------------------------ MODULE MCMeshHttp ------------------------------
(***************************************************************************)
(* Two clients in one session, as in two tabs.  `app` has persisted        *)
(* queries, of digests that begin alike, and logs out; `tab` is created    *)
(* with a token of an earlier server, and writes, uploads and logs in.     *)
(***************************************************************************)
EXTENDS MeshHttp, TLC

CONSTANTS app, tab, q1, q2, w, u, v, s

MCUses == {[client |-> k[1], kind |-> k[2], content |-> k[3]] :
             k \in {<<app, "query", q1>>, <<app, "query", q2>>, <<app, "logout", w>>,
                    <<tab, "write", w>>, <<tab, "upload", u>>, <<tab, "upload", v>>, <<tab, "login", w>>}}
MCOptionAuth == (app :> None) @@ (tab :> [session |-> s, expiresAt |-> 0])
MCSessionOf == [k \in Clients |-> s]
MCDigest == (q1 :> <<0, 0>>) @@ (q2 :> <<0, 1>>) @@ (w :> <<1, 0>>) @@ (u :> <<1, 1>>) @@ (v :> <<1, 2>>)
MCBodyOf == [q \in Contents |-> CASE q = u -> <<"file", "meta">> [] q = v -> <<"badMeta">> [] OTHER -> <<>>]

ASSUME MCAuthAssumption == OptionAuthLasts
=============================================================================
