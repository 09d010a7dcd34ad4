----------------------------- MODULE MeshExecute -----------------------------
(***************************************************************************)
(* The execution pipeline of @meshql/core: runMeshExecute                  *)
(* (core/src/execute/run.ts) and executeUpload (core/src/index.ts), driving *)
(* the hooks of the registered plugins (core/src/plugin/runner.ts), with    *)
(* the plugins the repository ships: logger, rateLimit, depthLimit and      *)
(* complexityLimit ("limit"), integrity, and the three of withAccess;       *)
(* withRoleAccess is a "fieldAccess".  "custom" is an application's plugin, *)
(* which has every hook and may do anything a hook may.                     *)
(*                                                                         *)
(* Every hook is awaited, so requests interleave between any two of them.  *)
(* A plan is the set of restrictions plugins put on it; a query is left    *)
(* out; a response is where it comes from.                                 *)
(***************************************************************************)
EXTENDS Naturals, Sequences, FiniteSets

CONSTANTS
  Plugins,    \* the plugins in registration order, by what they do
  Requests,
  Keys,       \* rate-limit keys
  AnonKey,    \* the key of a request nobody has authenticated
  UserKey,    \* request -> the key of the user its token names
  MaxCalls    \* RateLimitOptions.max

Kinds == {"logger", "rateLimit", "limit", "integrity", "entityAccess", "fieldAccess",
          "rowAccess", "custom"}

ASSUME PluginsAssumption == Plugins \in Seq(Kinds)
ASSUME KeysAssumption == AnonKey \in Keys /\ UserKey \in [Requests -> Keys]
ASSUME MaxCallsAssumption == MaxCalls \in Nat

N == Len(Plugins)
Errors == {"mesh", "other"}  \* instances of MeshError; everything else
Hooks == {"onRequest", "onPlan", "onUpload", "onResult", "onResponse", "onError"}
Reversed == {"onResult", "onResponse"}

VARIABLES
  req,       \* request -> where it is in the pipeline
  counts,    \* the memory store of each rateLimit plugin: calls in the current window
  accepted   \* of those, the ones it let through

execVars == <<req, counts, accepted>>

Request == [
  kind     : {"point", "list", "upload"},  \* listMode; executeUpload
  stage    : Hooks \cup {"idle", "done"},
  at       : 0..N+1,                  \* the plugin whose hook is next
  passed   : SUBSET (Hooks \X (1..N)),  \* hooks that have returned
  auth     : BOOLEAN,                 \* the context holds the token's user
  plan     : SUBSET (1..N),           \* restrictions on the current plan
  imposed  : SUBSET (1..N),           \* plugins that asked for one
  called   : BOOLEAN,                 \* the resolver has been called
  value    : {"none", "data", "substitute", "undefined"},
  err      : Errors \cup {"none", "hook"},  \* what was thrown; "hook": by an onError hook
  origin   : Hooks \cup {"none", "resolver", "shape"} ]  \* and where

ExecTypeOK ==
  /\ req \in [Requests -> Request]
  /\ counts \in [(1..N) \X Keys -> Nat]
  /\ accepted \in [(1..N) \X Keys -> Nat]

Fresh == [kind |-> "point", stage |-> "idle", at |-> 1, passed |-> {}, auth |-> FALSE,
          plan |-> {}, imposed |-> {}, called |-> FALSE, value |-> "none",
          err |-> "none", origin |-> "none"]

ExecInit ==
  /\ req = [r \in Requests |-> Fresh]
  /\ counts = [b \in (1..N) \X Keys |-> 0]
  /\ accepted = [b \in (1..N) \X Keys |-> 0]

-----------------------------------------------------------------------------
(* A request's next record. *)

(* The loops of PluginRunner: onResult and onResponse run backwards. *)
Go(q, hook) == [q EXCEPT !.stage = hook, !.at = IF hook \in Reversed THEN N ELSE 1]

Pass(q) == [q EXCEPT !.passed = @ \cup {<<q.stage, q.at>>},
                     !.at = IF q.stage \in Reversed THEN @ - 1 ELSE @ + 1]

(* `throw` inside the try: MeshErrors go to the onError hooks. *)
Caught(q, e, where) ==
  [q EXCEPT !.stage = IF e = "mesh" THEN "onError" ELSE "done", !.at = 1,
            !.err = e, !.origin = where]

(* `return shapeResponse(...)` is not awaited: its rejection does not meet the catch. *)
Uncaught(q, e, where) == [q EXCEPT !.stage = "done", !.err = e, !.origin = where]

ThrownUncaughtAlways(q, e) ==
  IF q.stage = "onResponse" THEN Uncaught(q, e, q.stage) ELSE Caught(q, e, q.stage)

(* A hook throws.  executeUpload awaits its onResponse hooks, runMeshExecute does not. *)
Thrown(q, e) ==
  IF q.stage = "onResponse" /\ q.kind # "upload" THEN Uncaught(q, e, q.stage)
                                                 ELSE Caught(q, e, q.stage)

(* runOnPlan gives each plugin the plan the one before it returned. *)
RestrictFromScratch(q) == Pass([q EXCEPT !.plan = {q.at}, !.imposed = @ \cup {q.at}])
RestrictAndRestart(q) ==
  [Pass([q EXCEPT !.plan = @ \cup {q.at}, !.imposed = @ \cup {q.at}]) EXCEPT !.at = 1]
Restrict(q) == Pass([q EXCEPT !.plan = @ \cup {q.at}, !.imposed = @ \cup {q.at}])

ShortCircuitRunsOnResult(q) == [Go(q, "onResult") EXCEPT !.plan = {}, !.value = "substitute"]

(* A short circuit goes on with the plan no hook has touched, at the end of onResult. *)
ShortCircuit(q) == [q EXCEPT !.stage = "onResult", !.at = 0, !.plan = {}, !.value = "substitute"]

-----------------------------------------------------------------------------
(* What a hook may do; at plugin q.at of the loop. *)

Running(r, hook) == req[r].stage = hook /\ req[r].at \in 1..N
Ended(r, hook) == req[r].stage = hook /\ req[r].at \notin 1..N
Kind(r) == Plugins[req[r].at]
Become(r, q) == req' = [req EXCEPT ![r] = q]
Passes(r) == Become(r, Pass(req[r])) /\ UNCHANGED <<counts, accepted>>
Throws(r, es) ==
  /\ \E e \in es : Become(r, Thrown(req[r], e))
  /\ UNCHANGED <<counts, accepted>>

(***************************************************************************)
(* rateLimit: a rejected call counts too; `userId ?? ip ?? "anonymous"`.   *)
(***************************************************************************)
RateKey(r) == IF req[r].auth THEN UserKey[r] ELSE AnonKey

CountLetsOneMore(r) ==
  LET b == <<req[r].at, RateKey(r)>> IN
  /\ counts' = [counts EXCEPT ![b] = @ + 1]
  /\ IF counts[b] > MaxCalls
       THEN /\ Become(r, Thrown(req[r], "mesh")) /\ UNCHANGED accepted
       ELSE /\ Become(r, Pass(req[r])) /\ accepted' = [accepted EXCEPT ![b] = @ + 1]

Count(r) ==
  LET b == <<req[r].at, RateKey(r)>> IN
  /\ counts' = [counts EXCEPT ![b] = @ + 1]
  /\ IF counts[b] + 1 > MaxCalls
       THEN /\ Become(r, Thrown(req[r], "mesh")) /\ UNCHANGED accepted
       ELSE /\ Become(r, Pass(req[r])) /\ accepted' = [accepted EXCEPT ![b] = @ + 1]

(* The window of a key runs out: the next call finds `now >= resetAt`. *)
WindowEnds(b) ==
  /\ counts[b] > 0
  /\ counts' = [counts EXCEPT ![b] = 0]
  /\ accepted' = [accepted EXCEPT ![b] = 0]
  /\ UNCHANGED req

-----------------------------------------------------------------------------
(* The actions: one per hook call, and the code between the hook loops. *)

Start(r) ==
  /\ req[r].stage = "idle"
  /\ \E k \in {"point", "list", "upload"} :
        Become(r, Go([req[r] EXCEPT !.kind = k], "onRequest"))
  /\ UNCHANGED <<counts, accepted>>

(* integrity lets a request without transport pass, and otherwise verifies it. *)
OnRequest(r) ==
  /\ Running(r, "onRequest")
  /\ \/ /\ Kind(r) = "rateLimit"
        /\ Count(r)
     \/ /\ Kind(r) # "rateLimit"
        /\ Passes(r)
     \/ /\ Kind(r) = "integrity"
        /\ \/ /\ Become(r, Pass([req[r] EXCEPT !.auth = TRUE]))
              /\ UNCHANGED <<counts, accepted>>
           \/ Throws(r, {"mesh"})
     \/ /\ Kind(r) = "custom"
        /\ Throws(r, Errors)

(* Parse, normalize, validate and plan the query; look the upload's entity up. *)
Prepare(r) ==
  /\ Ended(r, "onRequest")
  /\ \/ Become(r, Go(req[r], IF req[r].kind = "upload" THEN "onUpload" ELSE "onPlan"))
     \/ Become(r, Caught(req[r], "mesh", "onRequest"))
  /\ UNCHANGED <<counts, accepted>>

(* The rules of the access plugins are application code, and may throw. *)
OnPlan(r) ==
  /\ Running(r, "onPlan")
  /\ \/ Passes(r)
     \/ /\ Kind(r) = "limit"
        /\ Throws(r, {"mesh"})
     \/ /\ Kind(r) = "fieldAccess"
        /\ Become(r, Restrict(req[r]))
        /\ UNCHANGED <<counts, accepted>>
     \/ /\ \/ Kind(r) \in {"entityAccess", "custom"}
           \/ Kind(r) = "rowAccess" /\ req[r].kind = "point"
        /\ Become(r, ShortCircuit(req[r]))
        /\ UNCHANGED <<counts, accepted>>
     \/ /\ \/ Kind(r) \in {"entityAccess", "fieldAccess", "custom"}
           \/ Kind(r) = "rowAccess" /\ req[r].kind = "point"
        /\ Throws(r, Errors)

OnUpload(r) ==
  /\ Running(r, "onUpload")
  /\ \/ Passes(r)
     \/ /\ Kind(r) = "integrity"
        /\ Throws(r, {"mesh"})
     \/ /\ Kind(r) = "custom"
        /\ Throws(r, Errors)

(* A resolver that is missing or throws becomes a ResolverError. *)
Resolve(r) ==
  /\ Ended(r, "onPlan") \/ Ended(r, "onUpload")
  /\ \/ Become(r, Go([req[r] EXCEPT !.called = TRUE, !.value = "data"], "onResult"))
     \/ \E c \in BOOLEAN :
           Become(r, Caught([req[r] EXCEPT !.called = c], "mesh", "resolver"))
  /\ UNCHANGED <<counts, accepted>>

OnResult(r) ==
  /\ Running(r, "onResult")
  /\ \/ Passes(r)
     \/ /\ Kind(r) = "custom"
        /\ Throws(r, Errors)

(* shapeResponse up to its hooks; an upload's result is not shaped. *)
Shape(r) ==
  /\ Ended(r, "onResult")
  /\ \/ Become(r, Go(req[r], "onResponse"))
     \/ /\ req[r].kind # "upload"
        /\ \E e \in Errors : Become(r, Uncaught(req[r], e, "shape"))
  /\ UNCHANGED <<counts, accepted>>

(* The logger's onResponse returns nothing, and that is the response. *)
OnResponse(r) ==
  /\ Running(r, "onResponse")
  /\ \/ /\ Kind(r) = "logger"
        /\ Become(r, Pass([req[r] EXCEPT !.value = "undefined"]))
        /\ UNCHANGED <<counts, accepted>>
     \/ /\ Kind(r) # "logger"
        /\ Passes(r)
     \/ /\ Kind(r) = "custom"
        /\ Throws(r, Errors)

Finish(r) ==
  /\ Ended(r, "onResponse") \/ Ended(r, "onError")
  /\ Become(r, [req[r] EXCEPT !.stage = "done"])
  /\ UNCHANGED <<counts, accepted>>

(* "failures inside error hooks are not caught here": they replace the error. *)
OnError(r) ==
  /\ Running(r, "onError")
  /\ \/ Passes(r)
     \/ /\ Kind(r) = "custom"
        /\ Become(r, [req[r] EXCEPT !.stage = "done", !.err = "hook"])
        /\ UNCHANGED <<counts, accepted>>

Step(r) ==
  \/ OnRequest(r) \/ Prepare(r) \/ OnPlan(r) \/ OnUpload(r) \/ Resolve(r)
  \/ OnResult(r) \/ Shape(r) \/ OnResponse(r) \/ OnError(r) \/ Finish(r)

ExecNext ==
  \/ \E r \in Requests : Start(r) \/ Step(r)
  \/ \E b \in (1..N) \X Keys : WindowEnds(b)

(***************************************************************************)
(* The event loop runs every callback that is due, and hooks and resolvers *)
(* are taken to settle.                                                    *)
(***************************************************************************)
ExecSpec == ExecInit /\ [][ExecNext]_execVars /\ \A r \in Requests : WF_execVars(Step(r))

-----------------------------------------------------------------------------
(* Properties *)

All(q, hook) == \A i \in 1..N : <<hook, i>> \in q.passed
None(q, hook) == \A i \in 1..N : <<hook, i>> \notin q.passed

(***************************************************************************)
(* The resolver is called only behind every gate: all onRequest hooks have *)
(* returned; for a read all onPlan hooks have, and the plan it is given    *)
(* carries the restriction of EVERY plugin that asked for one, whatever    *)
(* their order; for an upload all onUpload hooks have.                     *)
(***************************************************************************)
ResolverRunsBehindEveryGate ==
  \A r \in Requests : req[r].called =>
    /\ All(req[r], "onRequest")
    /\ All(req[r], IF req[r].kind = "upload" THEN "onUpload" ELSE "onPlan")
    /\ req[r].plan = req[r].imposed

(***************************************************************************)
(* "`onError` notifies all plugins" (runner.ts), as far as the code keeps  *)
(* it: a request that ends in a MeshError has told every plugin, unless    *)
(* the error came from the shaping of a read or its onResponse hooks; then *)
(* it has told none.  Errors that are not MeshErrors are never told.       *)
(***************************************************************************)
ErrorsToldUnlessShaping ==
  \A r \in Requests : req[r].stage = "done" =>
    /\ req[r].err = "mesh" =>
         \/ All(req[r], "onError")
         \/ /\ None(req[r], "onError")
            /\ req[r].kind # "upload" /\ req[r].origin \in {"shape", "onResponse"}
    /\ req[r].err \in {"none", "other"} => None(req[r], "onError")

(***************************************************************************)
(* A request that succeeds has run onRequest and onResponse of every       *)
(* plugin, and either was resolved, with every onResult, or was answered   *)
(* by a plugin, with no onResult and without the resolver.                 *)
(***************************************************************************)
AnswersAreWholeOrSubstituted ==
  \A r \in Requests : req[r].stage = "done" /\ req[r].err = "none" =>
    /\ All(req[r], "onRequest")
    /\ All(req[r], "onResponse")
    /\ IF req[r].called THEN All(req[r], "onResult")
                        ELSE None(req[r], "onResult")

(***************************************************************************)
(* A rateLimit plugin lets exactly the first `max` calls of a key through  *)
(* in each window, however requests interleave with it and each other, and *)
(* although the calls it rejects are counted as well.                      *)
(***************************************************************************)
FirstMaxCallsAccepted ==
  \A b \in (1..N) \X Keys :
    accepted[b] = IF counts[b] < MaxCalls THEN counts[b] ELSE MaxCalls

(* Every request gets an answer or an error. *)
RequestsSettle == \A r \in Requests : req[r].stage # "idle" ~> req[r].stage = "done"

-----------------------------------------------------------------------------

(***************************************************************************)
(* The inductive invariant.  WellPlaced says of one request what the       *)
(* stage it is in implies: which hooks have returned, that restrictions    *)
(* are not lost, and whether the resolver ran and an error is pending.     *)
(***************************************************************************)
LoopProgress(q) ==
  /\ q.stage \in Hooks \ Reversed =>
       q.at >= 1 /\ \A i \in 1..N : i < q.at => <<q.stage, i>> \in q.passed
  /\ q.stage = "onResponse" =>
       q.at <= N /\ \A i \in 1..N : i > q.at => <<q.stage, i>> \in q.passed
  /\ q.stage = "onResult" =>
       q.at <= N /\ (q.called => \A i \in 1..N : i > q.at => <<q.stage, i>> \in q.passed)

BeforeResolver(q) ==
  q.stage \in {"idle", "onRequest", "onPlan", "onUpload"} =>
    /\ ~q.called
    /\ q.plan = q.imposed
    /\ None(q, "onResult")
    /\ q.stage = "onPlan" => q.kind # "upload"
    /\ q.stage = "onUpload" => q.kind = "upload"

BehindGates(q) ==
  /\ q.called => /\ All(q, IF q.kind = "upload" THEN "onUpload" ELSE "onPlan")
                 /\ q.plan = q.imposed
  /\ q.called \/ q.stage \in {"onPlan", "onUpload", "onResult", "onResponse"} =>
       All(q, "onRequest")

Answering(q) ==
  /\ q.stage = "onResult" /\ ~q.called => q.at = 0 /\ None(q, "onResult")
  /\ q.stage = "onResponse" => IF q.called THEN All(q, "onResult") ELSE None(q, "onResult")
  /\ q.stage = "done" /\ q.err = "none" =>
       /\ All(q, "onRequest") /\ All(q, "onResponse")
       /\ IF q.called THEN All(q, "onResult") ELSE None(q, "onResult")

ErrorsPending(q) ==
  /\ q.stage \notin {"onError", "done"} => q.err = "none"
  /\ q.stage = "onError" => q.err = "mesh"
  /\ q.stage # "onError" /\ q.err \in {"none", "other"} => None(q, "onError")
  /\ q.stage = "done" /\ q.err = "mesh" =>
       \/ All(q, "onError")
       \/ None(q, "onError") /\ q.kind # "upload" /\ q.origin \in {"shape", "onResponse"}

WellPlaced(q) ==
  LoopProgress(q) /\ BeforeResolver(q) /\ BehindGates(q) /\ Answering(q) /\ ErrorsPending(q)

ExecInv == ExecTypeOK /\ \A r \in Requests : WellPlaced(req[r])

=============================================================================
