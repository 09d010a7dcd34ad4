-------------------------- MODULE MeshExecuteProofs --------------------------
(***************************************************************************)
(* Proofs about MeshExecute, for every list of plugins, every number of    *)
(* requests and every rate limit.  ExecInv (at the end of MeshExecute) is  *)
(* the inductive invariant.  The first lemmas say that each way the record *)
(* of a request can change keeps it well placed; the step theorem picks    *)
(* the one each action uses.                                               *)
(***************************************************************************)
EXTENDS MeshExecute, TLAPS

(* The number of plugins. *)
LEMMA NType == N \in Nat
BY PluginsAssumption DEF N

(* A hook returns: the loop goes on to the next plugin, in its direction. *)
LEMMA PassKeeps ==
  ASSUME NEW q \in Request, WellPlaced(q), q.stage \in Hooks, q.at \in 1..N
  PROVE  Pass(q) \in Request /\ WellPlaced(Pass(q))
<1> USE NType
<1> DEFINE p == Pass(q)
<1>1. /\ p.stage = q.stage /\ p.kind = q.kind /\ p.plan = q.plan /\ p.imposed = q.imposed
      /\ p.called = q.called /\ p.err = q.err /\ p.origin = q.origin
      /\ p.passed = q.passed \cup {<<q.stage, q.at>>}
      /\ p.at = IF q.stage \in Reversed THEN q.at - 1 ELSE q.at + 1
  BY DEF Pass, Request
<1>2. p \in Request
  <2>1. (IF q.stage \in Reversed THEN q.at - 1 ELSE q.at + 1) \in 0..N+1
    OBVIOUS
  <2>2. q.passed \cup {<<q.stage, q.at>>} \in SUBSET (Hooks \X (1..N))
    BY DEF Request
  <2> QED
    BY <2>1, <2>2 DEF Pass, Request
<1>3. LoopProgress(p)
  BY <1>1 DEF LoopProgress, WellPlaced, Request, Hooks, Reversed
<1>4. BeforeResolver(p)
  BY <1>1 DEF BeforeResolver, WellPlaced, Request, Hooks, None
<1>5. BehindGates(p)
  BY <1>1 DEF BehindGates, WellPlaced, Request, Hooks, All
<1>6. Answering(p)
  BY <1>1 DEF Answering, WellPlaced, LoopProgress, BeforeResolver, Request, Hooks, All, None
<1>7. ErrorsPending(p)
  BY <1>1 DEF ErrorsPending, WellPlaced, LoopProgress, Request, Hooks, All, None
<1> QED
  BY <1>2, <1>3, <1>4, <1>5, <1>6, <1>7 DEF WellPlaced

(* A throw that meets the catch, before the onError hooks. *)
LEMMA CaughtKeeps ==
  ASSUME NEW q \in Request, WellPlaced(q),
         q.stage \in Hooks \ {"onError"},
         NEW e \in Errors, NEW where \in Hooks
  PROVE  LET p == Caught(q, e, where)
         IN p \in Request /\ WellPlaced(p)
<1> USE NType
<1> DEFINE p == Caught(q, e, where)
<1>1. /\ p.kind = q.kind /\ p.plan = q.plan /\ p.imposed = q.imposed
      /\ p.called = q.called /\ p.passed = q.passed
      /\ p.stage = (IF e = "mesh" THEN "onError" ELSE "done") /\ p.at = 1 /\ p.err = e
  BY DEF Request, Caught, Errors, Hooks
<1>2. p \in Request
  <2>1. /\ (IF e = "mesh" THEN "onError" ELSE "done") \in Hooks \cup {"idle", "done"} /\ 1 \in 0..N+1
        /\ e \in Errors \cup {"none", "hook"} /\ where \in Hooks \cup {"none", "resolver", "shape"}
    BY DEF Request, Hooks, Errors, Reversed
  <2> QED
    BY <2>1 DEF Request, Caught
<1>3. LoopProgress(p) /\ BeforeResolver(p) /\ BehindGates(p)
  BY <1>1 DEF WellPlaced, LoopProgress, BeforeResolver, BehindGates, Hooks, Reversed, All,
              None, Request
<1>4. Answering(p) /\ ErrorsPending(p)
  BY <1>1 DEF WellPlaced, LoopProgress, BeforeResolver, BehindGates, Answering, ErrorsPending,
              Errors, Hooks, Reversed, All, None, Request
<1> QED
  BY <1>2, <1>3, <1>4 DEF WellPlaced

(* A throw that does not meet it: shaping a read, or its onResponse hooks. *)
LEMMA UncaughtKeeps ==
  ASSUME NEW q \in Request, WellPlaced(q),
         q.stage \in Reversed, q.kind # "upload",
         NEW e \in Errors, NEW where \in {"shape", "onResponse"}
  PROVE  LET p == Uncaught(q, e, where)
         IN p \in Request /\ WellPlaced(p)
<1> USE NType
<1> DEFINE p == Uncaught(q, e, where)
<1>1. /\ p.kind = q.kind /\ p.plan = q.plan /\ p.imposed = q.imposed
      /\ p.called = q.called /\ p.passed = q.passed
      /\ p.stage = "done" /\ p.at = q.at /\ p.err = e /\ p.origin = where
  BY DEF Request, Uncaught, Errors, Hooks
<1>2. p \in Request
  <2>1. /\ "done" \in Hooks \cup {"idle", "done"}
        /\ e \in Errors \cup {"none", "hook"} /\ where \in Hooks \cup {"none", "resolver", "shape"}
    BY DEF Request, Hooks, Errors, Reversed
  <2> QED
    BY <2>1 DEF Request, Uncaught
<1>3. LoopProgress(p) /\ BeforeResolver(p) /\ BehindGates(p)
  BY <1>1 DEF WellPlaced, LoopProgress, BeforeResolver, BehindGates, Hooks, Reversed, All,
              None, Request
<1>4. Answering(p) /\ ErrorsPending(p)
  BY <1>1 DEF WellPlaced, LoopProgress, BeforeResolver, BehindGates, Answering, ErrorsPending,
              Errors, Hooks, Reversed, All, None, Request
<1> QED
  BY <1>2, <1>3, <1>4 DEF WellPlaced

(* Either of the two, as the stage decides. *)
LEMMA ThrownKeeps ==
  ASSUME NEW q \in Request, WellPlaced(q), q.stage \in Hooks \ {"onError"}, NEW e \in Errors
  PROVE  Thrown(q, e) \in Request /\ WellPlaced(Thrown(q, e))
<1>1. CASE q.stage = "onResponse" /\ q.kind # "upload"
  BY <1>1, UncaughtKeeps DEF Thrown, Reversed
<1>2. CASE ~(q.stage = "onResponse" /\ q.kind # "upload")
  BY <1>2, CaughtKeeps DEF Thrown
<1> QED
  BY <1>1, <1>2

(* integrity injects the token's user. *)
LEMMA AuthKeeps ==
  ASSUME NEW q \in Request, WellPlaced(q)
  PROVE  LET p == [q EXCEPT !.auth = TRUE]
         IN p \in Request /\ WellPlaced(p)
<1> USE NType
<1> DEFINE p == [q EXCEPT !.auth = TRUE]
<1>1. /\ p.kind = q.kind /\ p.plan = q.plan /\ p.imposed = q.imposed
      /\ p.called = q.called /\ p.passed = q.passed
      /\ p.stage = q.stage /\ p.at = q.at /\ p.err = q.err /\ p.origin = q.origin
  BY DEF Request, Errors, Hooks
<1>2. p \in Request
  <2>1. TRUE \in BOOLEAN
    BY DEF Request, Hooks, Errors, Reversed
  <2> QED
    BY <2>1 DEF Request
<1>3. LoopProgress(p) /\ BeforeResolver(p) /\ BehindGates(p)
  BY <1>1 DEF WellPlaced, LoopProgress, BeforeResolver, BehindGates, Hooks, Reversed, All,
              None, Request
<1>4. Answering(p) /\ ErrorsPending(p)
  BY <1>1 DEF WellPlaced, LoopProgress, BeforeResolver, BehindGates, Answering, ErrorsPending,
              Errors, Hooks, Reversed, All, None, Request
<1> QED
  BY <1>2, <1>3, <1>4 DEF WellPlaced

(* The logger drops the response. *)
LEMMA UndefinedKeeps ==
  ASSUME NEW q \in Request, WellPlaced(q)
  PROVE  LET p == [q EXCEPT !.value = "undefined"]
         IN p \in Request /\ WellPlaced(p)
<1> USE NType
<1> DEFINE p == [q EXCEPT !.value = "undefined"]
<1>1. /\ p.kind = q.kind /\ p.plan = q.plan /\ p.imposed = q.imposed
      /\ p.called = q.called /\ p.passed = q.passed
      /\ p.stage = q.stage /\ p.at = q.at /\ p.err = q.err /\ p.origin = q.origin
  BY DEF Request, Errors, Hooks
<1>2. p \in Request
  <2>1. "undefined" \in {"none", "data", "substitute", "undefined"}
    BY DEF Request, Hooks, Errors, Reversed
  <2> QED
    BY <2>1 DEF Request
<1>3. LoopProgress(p) /\ BeforeResolver(p) /\ BehindGates(p)
  BY <1>1 DEF WellPlaced, LoopProgress, BeforeResolver, BehindGates, Hooks, Reversed, All,
              None, Request
<1>4. Answering(p) /\ ErrorsPending(p)
  BY <1>1 DEF WellPlaced, LoopProgress, BeforeResolver, BehindGates, Answering, ErrorsPending,
              Errors, Hooks, Reversed, All, None, Request
<1> QED
  BY <1>2, <1>3, <1>4 DEF WellPlaced

(* A plugin adds its restriction to the plan it was handed. *)
LEMMA RestrictionKeeps ==
  ASSUME NEW q \in Request, WellPlaced(q),
         q.stage = "onPlan", q.at \in 1..N
  PROVE  LET p == [q EXCEPT !.plan = @ \cup {q.at}, !.imposed = @ \cup {q.at}]
         IN p \in Request /\ WellPlaced(p)
<1> USE NType
<1> DEFINE p == [q EXCEPT !.plan = @ \cup {q.at}, !.imposed = @ \cup {q.at}]
<1>1. /\ p.kind = q.kind /\ p.called = q.called /\ p.passed = q.passed
      /\ p.plan = q.plan \cup {q.at} /\ p.imposed = q.imposed \cup {q.at}
      /\ p.stage = q.stage /\ p.at = q.at /\ p.err = q.err /\ p.origin = q.origin
  BY DEF Request, Errors, Hooks
<1>2. p \in Request
  <2>1. q.plan \cup {q.at} \in SUBSET (1..N) /\ q.imposed \cup {q.at} \in SUBSET (1..N)
    BY DEF Request, Hooks, Errors, Reversed
  <2> QED
    BY <2>1 DEF Request
<1>3. LoopProgress(p) /\ BeforeResolver(p) /\ BehindGates(p)
  BY <1>1 DEF WellPlaced, LoopProgress, BeforeResolver, BehindGates, Hooks, Reversed, All,
              None, Request
<1>4. Answering(p) /\ ErrorsPending(p)
  BY <1>1 DEF WellPlaced, LoopProgress, BeforeResolver, BehindGates, Answering, ErrorsPending,
              Errors, Hooks, Reversed, All, None, Request
<1> QED
  BY <1>2, <1>3, <1>4 DEF WellPlaced

(* A plugin answers in place of the resolver. *)
LEMMA ShortCircuitKeeps ==
  ASSUME NEW q \in Request, WellPlaced(q),
         q.stage = "onPlan"
  PROVE  LET p == ShortCircuit(q)
         IN p \in Request /\ WellPlaced(p)
<1> USE NType
<1> DEFINE p == ShortCircuit(q)
<1>1. /\ p.kind = q.kind /\ p.imposed = q.imposed /\ p.called = q.called /\ p.passed = q.passed
      /\ p.plan = {} /\ p.stage = "onResult" /\ p.at = 0 /\ p.err = q.err
  BY DEF Request, ShortCircuit, Errors, Hooks
<1>2. p \in Request
  <2>1. "onResult" \in Hooks \cup {"idle", "done"} /\ 0 \in 0..N+1
    BY DEF Request, Hooks, Errors, Reversed
  <2> QED
    BY <2>1 DEF Request, ShortCircuit
<1>3. LoopProgress(p) /\ BeforeResolver(p) /\ BehindGates(p)
  BY <1>1 DEF WellPlaced, LoopProgress, BeforeResolver, BehindGates, Hooks, Reversed, All,
              None, Request
<1>4. Answering(p) /\ ErrorsPending(p)
  BY <1>1 DEF WellPlaced, LoopProgress, BeforeResolver, BehindGates, Answering, ErrorsPending,
              Errors, Hooks, Reversed, All, None, Request
<1> QED
  BY <1>2, <1>3, <1>4 DEF WellPlaced

(* A request arrives. *)
LEMMA StartKeeps ==
  ASSUME NEW q \in Request, WellPlaced(q),
         q.stage = "idle", NEW k \in {"point", "list", "upload"}
  PROVE  LET p == Go([q EXCEPT !.kind = k], "onRequest")
         IN p \in Request /\ WellPlaced(p)
<1> USE NType
<1> DEFINE p == Go([q EXCEPT !.kind = k], "onRequest")
<1>1. /\ p.imposed = q.imposed /\ p.plan = q.plan /\ p.called = q.called
      /\ p.passed = q.passed /\ p.err = q.err
      /\ p.kind = k /\ p.stage = "onRequest" /\ p.at = 1
  BY DEF Request, Go, Errors, Hooks, Reversed
<1>2. p \in Request
  <2>1. "onRequest" \in Hooks \cup {"idle", "done"} /\ (IF "onRequest" \in Reversed THEN N ELSE 1) \in 0..N+1
    BY DEF Request, Hooks, Errors, Reversed
  <2> QED
    BY <2>1 DEF Request, Go
<1>3. LoopProgress(p) /\ BeforeResolver(p) /\ BehindGates(p)
  BY <1>1 DEF WellPlaced, LoopProgress, BeforeResolver, BehindGates, Hooks, Reversed, All,
              None, Request
<1>4. Answering(p) /\ ErrorsPending(p)
  BY <1>1 DEF WellPlaced, LoopProgress, BeforeResolver, BehindGates, Answering, ErrorsPending,
              Errors, Hooks, Reversed, All, None, Request
<1> QED
  BY <1>2, <1>3, <1>4 DEF WellPlaced

(* All onRequest hooks have returned; the request is prepared for its next hooks. *)
LEMMA PrepareKeeps ==
  ASSUME NEW q \in Request, WellPlaced(q),
         q.stage = "onRequest", q.at \notin 1..N
  PROVE  LET p == Go(q, IF q.kind = "upload" THEN "onUpload" ELSE "onPlan")
         IN p \in Request /\ WellPlaced(p)
<1> USE NType
<1> DEFINE h == IF q.kind = "upload" THEN "onUpload" ELSE "onPlan"
<1> DEFINE p == Go(q, h)
<1>1. /\ p.imposed = q.imposed /\ p.plan = q.plan /\ p.called = q.called
      /\ p.passed = q.passed /\ p.err = q.err /\ p.kind = q.kind
      /\ p.stage = h /\ p.at = 1
  BY DEF Request, Go, Errors, Hooks, Reversed
<1>2. p \in Request
  <2>1. h \in Hooks \cup {"idle", "done"} /\ (IF h \in Reversed THEN N ELSE 1) \in 0..N+1
    BY DEF Request, Hooks, Errors, Reversed
  <2> QED
    BY <2>1 DEF Request, Go
<1>3. LoopProgress(p) /\ BeforeResolver(p) /\ BehindGates(p)
  BY <1>1 DEF WellPlaced, LoopProgress, BeforeResolver, BehindGates, Hooks, Reversed, All,
              None, Request
<1>4. Answering(p) /\ ErrorsPending(p)
  BY <1>1 DEF WellPlaced, LoopProgress, BeforeResolver, BehindGates, Answering, ErrorsPending,
              Errors, Hooks, Reversed, All, None, Request
<1> QED
  BY <1>2, <1>3, <1>4 DEF WellPlaced

(* All gates have let the request pass, and the resolver returns. *)
LEMMA ResolvedKeeps ==
  ASSUME NEW q \in Request, WellPlaced(q),
         q.stage \in {"onPlan", "onUpload"}, q.at \notin 1..N
  PROVE  LET p == Go([q EXCEPT !.called = TRUE, !.value = "data"], "onResult")
         IN p \in Request /\ WellPlaced(p)
<1> USE NType
<1> DEFINE p == Go([q EXCEPT !.called = TRUE, !.value = "data"], "onResult")
<1>1. /\ p.imposed = q.imposed /\ p.plan = q.plan /\ p.passed = q.passed
      /\ p.err = q.err /\ p.kind = q.kind
      /\ p.called = TRUE /\ p.stage = "onResult" /\ p.at = N
  BY DEF Request, Go, Errors, Hooks, Reversed
<1>2. p \in Request
  <2>1. "onResult" \in Hooks \cup {"idle", "done"} /\ (IF "onResult" \in Reversed THEN N ELSE 1) \in 0..N+1
    BY DEF Request, Hooks, Errors, Reversed
  <2> QED
    BY <2>1 DEF Request, Go
<1>3. LoopProgress(p) /\ BeforeResolver(p) /\ BehindGates(p)
  BY <1>1 DEF WellPlaced, LoopProgress, BeforeResolver, BehindGates, Hooks, Reversed, All,
              None, Request
<1>4. Answering(p) /\ ErrorsPending(p)
  BY <1>1 DEF WellPlaced, LoopProgress, BeforeResolver, BehindGates, Answering, ErrorsPending,
              Errors, Hooks, Reversed, All, None, Request
<1> QED
  BY <1>2, <1>3, <1>4 DEF WellPlaced

(* ... or is missing or throws. *)
LEMMA ResolverFailsKeeps ==
  ASSUME NEW q \in Request, WellPlaced(q),
         q.stage \in {"onPlan", "onUpload"}, q.at \notin 1..N, NEW c \in BOOLEAN
  PROVE  LET p == Caught([q EXCEPT !.called = c], "mesh", "resolver")
         IN p \in Request /\ WellPlaced(p)
<1> USE NType
<1> DEFINE p == Caught([q EXCEPT !.called = c], "mesh", "resolver")
<1>1. /\ p.imposed = q.imposed /\ p.plan = q.plan /\ p.passed = q.passed /\ p.kind = q.kind
      /\ p.called = c /\ p.stage = "onError" /\ p.at = 1 /\ p.err = "mesh"
  BY DEF Request, Caught, Errors, Hooks
<1>2. p \in Request
  <2>1. "onError" \in Hooks \cup {"idle", "done"} /\ 1 \in 0..N+1
        /\ "mesh" \in Errors \cup {"none", "hook"}
    BY DEF Request, Hooks, Errors, Reversed
  <2> QED
    BY <2>1 DEF Request, Caught
<1>3. LoopProgress(p) /\ BeforeResolver(p) /\ BehindGates(p)
  BY <1>1 DEF WellPlaced, LoopProgress, BeforeResolver, BehindGates, Hooks, Reversed, All,
              None, Request
<1>4. Answering(p) /\ ErrorsPending(p)
  BY <1>1 DEF WellPlaced, LoopProgress, BeforeResolver, BehindGates, Answering, ErrorsPending,
              Errors, Hooks, Reversed, All, None, Request
<1> QED
  BY <1>2, <1>3, <1>4 DEF WellPlaced

(* All onResult hooks have returned, or none was to run. *)
LEMMA ShapedKeeps ==
  ASSUME NEW q \in Request, WellPlaced(q),
         q.stage = "onResult", q.at \notin 1..N
  PROVE  LET p == Go(q, "onResponse")
         IN p \in Request /\ WellPlaced(p)
<1> USE NType
<1> DEFINE p == Go(q, "onResponse")
<1>1. /\ p.imposed = q.imposed /\ p.plan = q.plan /\ p.passed = q.passed
      /\ p.kind = q.kind /\ p.called = q.called /\ p.err = q.err
      /\ p.stage = "onResponse" /\ p.at = N
  BY DEF Request, Go, Errors, Hooks, Reversed
<1>2. p \in Request
  <2>1. "onResponse" \in Hooks \cup {"idle", "done"} /\ (IF "onResponse" \in Reversed THEN N ELSE 1) \in 0..N+1
    BY DEF Request, Hooks, Errors, Reversed
  <2> QED
    BY <2>1 DEF Request, Go
<1>3. LoopProgress(p) /\ BeforeResolver(p) /\ BehindGates(p)
  BY <1>1 DEF WellPlaced, LoopProgress, BeforeResolver, BehindGates, Hooks, Reversed, All,
              None, Request
<1>4. Answering(p) /\ ErrorsPending(p)
  BY <1>1 DEF WellPlaced, LoopProgress, BeforeResolver, BehindGates, Answering, ErrorsPending,
              Errors, Hooks, Reversed, All, None, Request
<1> QED
  BY <1>2, <1>3, <1>4 DEF WellPlaced

(* The last loop of a request has ended. *)
LEMMA FinishKeeps ==
  ASSUME NEW q \in Request, WellPlaced(q),
         q.stage \in {"onResponse", "onError"}, q.at \notin 1..N
  PROVE  LET p == [q EXCEPT !.stage = "done"]
         IN p \in Request /\ WellPlaced(p)
<1> USE NType
<1> DEFINE p == [q EXCEPT !.stage = "done"]
<1>1. /\ p.imposed = q.imposed /\ p.plan = q.plan /\ p.passed = q.passed
      /\ p.kind = q.kind /\ p.called = q.called /\ p.err = q.err
      /\ p.at = q.at /\ p.origin = q.origin
      /\ p.stage = "done"
  BY DEF Request, Errors, Hooks
<1>2. p \in Request
  <2>1. "done" \in Hooks \cup {"idle", "done"}
    BY DEF Request, Hooks, Errors, Reversed
  <2> QED
    BY <2>1 DEF Request
<1>3. LoopProgress(p) /\ BeforeResolver(p) /\ BehindGates(p)
  BY <1>1 DEF WellPlaced, LoopProgress, BeforeResolver, BehindGates, Hooks, Reversed, All,
              None, Request
<1>4. Answering(p) /\ ErrorsPending(p)
  BY <1>1 DEF WellPlaced, LoopProgress, BeforeResolver, BehindGates, Answering, ErrorsPending,
              Errors, Hooks, Reversed, All, None, Request
<1> QED
  BY <1>2, <1>3, <1>4 DEF WellPlaced

(* An onError hook throws. *)
LEMMA HookErrorKeeps ==
  ASSUME NEW q \in Request, WellPlaced(q),
         q.stage = "onError"
  PROVE  LET p == [q EXCEPT !.stage = "done", !.err = "hook"]
         IN p \in Request /\ WellPlaced(p)
<1> USE NType
<1> DEFINE p == [q EXCEPT !.stage = "done", !.err = "hook"]
<1>1. /\ p.imposed = q.imposed /\ p.plan = q.plan /\ p.passed = q.passed
      /\ p.kind = q.kind /\ p.called = q.called /\ p.at = q.at
      /\ p.stage = "done" /\ p.err = "hook"
  BY DEF Request, Errors, Hooks
<1>2. p \in Request
  <2>1. "done" \in Hooks \cup {"idle", "done"} /\ "hook" \in Errors \cup {"none", "hook"}
    BY DEF Request, Hooks, Errors, Reversed
  <2> QED
    BY <2>1 DEF Request
<1>3. LoopProgress(p) /\ BeforeResolver(p) /\ BehindGates(p)
  BY <1>1 DEF WellPlaced, LoopProgress, BeforeResolver, BehindGates, Hooks, Reversed, All,
              None, Request
<1>4. Answering(p) /\ ErrorsPending(p)
  BY <1>1 DEF WellPlaced, LoopProgress, BeforeResolver, BehindGates, Answering, ErrorsPending,
              Errors, Hooks, Reversed, All, None, Request
<1> QED
  BY <1>2, <1>3, <1>4 DEF WellPlaced


-----------------------------------------------------------------------------

(* One request moves, and to a well placed record. *)
LEMMA BecomeKeeps ==
  ASSUME ExecInv, NEW r \in Requests, NEW q \in Request, WellPlaced(q), Become(r, q),
         counts' \in [(1..N) \X Keys -> Nat], accepted' \in [(1..N) \X Keys -> Nat]
  PROVE  ExecInv'
<1>1. req' \in [Requests -> Request]
  BY DEF ExecInv, ExecTypeOK, Become
<1>2. \A s \in Requests : WellPlaced(req'[s])
  BY DEF ExecInv, ExecTypeOK, Become
<1> QED
  BY <1>1, <1>2 DEF ExecInv, ExecTypeOK

(* A hook that returns its argument, or throws. *)
LEMMA HookKeeps ==
  ASSUME ExecInv, NEW r \in Requests, req[r].stage \in Hooks, req[r].at \in 1..N,
         \/ Passes(r)
         \/ req[r].stage # "onError" /\ Throws(r, Errors)
         \/ req[r].stage # "onError" /\ Throws(r, {"mesh"})
  PROVE  ExecInv'
<1>1. req[r] \in Request /\ WellPlaced(req[r])
  BY DEF ExecInv, ExecTypeOK
<1>2. CASE Passes(r)
  BY <1>1, <1>2, PassKeeps, BecomeKeeps DEF Passes, ExecInv, ExecTypeOK
<1>3. CASE req[r].stage # "onError" /\ (Throws(r, Errors) \/ Throws(r, {"mesh"}))
  <2>1. PICK e \in Errors : Become(r, Thrown(req[r], e)) /\ UNCHANGED <<counts, accepted>>
    BY <1>3 DEF Throws, Errors
  <2> QED
    BY <1>1, <1>3, <2>1, ThrownKeeps, BecomeKeeps DEF ExecInv, ExecTypeOK
<1> QED
  BY <1>2, <1>3

-----------------------------------------------------------------------------

(* Every step of a request, from its arrival to its end, keeps the invariant. *)
LEMMA StepKeeps ==
  ASSUME ExecInv, NEW r \in Requests, Start(r) \/ Step(r)
  PROVE  ExecInv'
<1> DEFINE q == req[r]
<1>1. q \in Request /\ WellPlaced(q)
  BY DEF ExecInv, ExecTypeOK
<1>2. ASSUME UNCHANGED <<counts, accepted>>
      PROVE  counts' \in [(1..N) \X Keys -> Nat] /\ accepted' \in [(1..N) \X Keys -> Nat]
  BY <1>2 DEF ExecInv, ExecTypeOK
<1>3. CASE Start(r)
  <2>1. PICK k \in {"point", "list", "upload"} :
          Become(r, Go([q EXCEPT !.kind = k], "onRequest"))
    BY <1>3 DEF Start
  <2> QED
    BY <1>1, <1>2, <1>3, <2>1, StartKeeps, BecomeKeeps DEF Start
<1>4. CASE OnRequest(r)
  <2> USE <1>4 DEF OnRequest, Running, Hooks
  <2>1. CASE Count(r)
    <3> DEFINE b == <<q.at, RateKey(r)>>
    <3>1. b \in (1..N) \X Keys
      BY KeysAssumption DEF RateKey
    <3>2. counts' \in [(1..N) \X Keys -> Nat] /\ accepted' \in [(1..N) \X Keys -> Nat]
      <4>1. /\ counts' = [counts EXCEPT ![b] = @ + 1]
            /\ accepted' \in {accepted, [accepted EXCEPT ![b] = @ + 1]}
        BY <2>1 DEF Count
      <4> QED
        BY <3>1, <4>1 DEF ExecInv, ExecTypeOK
    <3>3. \E p \in Request : WellPlaced(p) /\ Become(r, p)
      BY <1>1, <2>1, PassKeeps, ThrownKeeps DEF Count, Errors
    <3> QED
      BY <3>2, <3>3, BecomeKeeps
  <2>2. CASE /\ Become(r, Pass([q EXCEPT !.auth = TRUE]))
             /\ UNCHANGED <<counts, accepted>>
    <3>1. LET p == [q EXCEPT !.auth = TRUE]
          IN p \in Request /\ WellPlaced(p) /\ p.stage = q.stage /\ p.at = q.at
      BY <1>1, AuthKeeps DEF Request
    <3> QED
      BY <1>2, <2>2, <3>1, PassKeeps, BecomeKeeps
  <2> QED
    BY <2>1, <2>2, HookKeeps
<1>5. CASE Prepare(r)
  <2>1. q.stage = "onRequest" /\ q.at \notin 1..N /\ "onRequest" \in Hooks /\ "mesh" \in Errors
    BY <1>5 DEF Prepare, Ended, Hooks, Errors
  <2>2. \E p \in Request : WellPlaced(p) /\ Become(r, p)
    BY <1>1, <1>5, <2>1, PrepareKeeps, CaughtKeeps DEF Prepare
  <2> QED
    BY <1>2, <1>5, <2>2, BecomeKeeps DEF Prepare
<1>6. CASE OnPlan(r)
  <2>1. q.stage = "onPlan" /\ q.at \in 1..N /\ "onPlan" \in Hooks
    BY <1>6 DEF OnPlan, Running, Hooks
  <2>2. CASE Become(r, Restrict(q)) /\ UNCHANGED <<counts, accepted>>
    <3>1. LET p == [q EXCEPT !.plan = @ \cup {q.at}, !.imposed = @ \cup {q.at}]
          IN p \in Request /\ WellPlaced(p) /\ p.stage = q.stage /\ p.at = q.at
      BY <1>1, <2>1, RestrictionKeeps DEF Request
    <3> QED
      BY <1>2, <2>1, <2>2, <3>1, PassKeeps, BecomeKeeps DEF Restrict
  <2>3. CASE Become(r, ShortCircuit(q)) /\ UNCHANGED <<counts, accepted>>
    BY <1>1, <1>2, <2>1, <2>3, ShortCircuitKeeps, BecomeKeeps
  <2> QED
    BY <1>6, <2>1, <2>2, <2>3, HookKeeps DEF OnPlan
<1>7. CASE OnUpload(r)
  BY <1>7, HookKeeps DEF OnUpload, Running, Hooks
<1>8. CASE Resolve(r)
  <2>1. q.stage \in {"onPlan", "onUpload"} /\ q.at \notin 1..N
    BY <1>8 DEF Resolve, Ended
  <2>2. \E p \in Request : WellPlaced(p) /\ Become(r, p)
    BY <1>1, <1>8, <2>1, ResolvedKeeps, ResolverFailsKeeps DEF Resolve
  <2> QED
    BY <1>2, <1>8, <2>2, BecomeKeeps DEF Resolve
<1>9. CASE OnResult(r)
  BY <1>9, HookKeeps DEF OnResult, Running, Hooks
<1>10. CASE Shape(r)
  <2>1. q.stage = "onResult" /\ q.at \notin 1..N /\ "onResult" \in Reversed
    BY <1>10 DEF Shape, Ended, Reversed
  <2>2. \E p \in Request : WellPlaced(p) /\ Become(r, p)
    BY <1>1, <1>10, <2>1, ShapedKeeps, UncaughtKeeps DEF Shape
  <2> QED
    BY <1>2, <1>10, <2>2, BecomeKeeps DEF Shape
<1>11. CASE OnResponse(r)
  <2>1. q.stage = "onResponse" /\ q.at \in 1..N /\ "onResponse" \in Hooks
    BY <1>11 DEF OnResponse, Running, Hooks
  <2>2. CASE /\ Become(r, Pass([q EXCEPT !.value = "undefined"]))
             /\ UNCHANGED <<counts, accepted>>
    <3>1. LET p == [q EXCEPT !.value = "undefined"]
          IN p \in Request /\ WellPlaced(p) /\ p.stage = q.stage /\ p.at = q.at
      BY <1>1, UndefinedKeeps DEF Request
    <3> QED
      BY <1>2, <2>1, <2>2, <3>1, PassKeeps, BecomeKeeps
  <2> QED
    BY <1>11, <2>1, <2>2, HookKeeps DEF OnResponse
<1>12. CASE OnError(r)
  <2>1. q.stage = "onError" /\ q.at \in 1..N /\ "onError" \in Hooks
    BY <1>12 DEF OnError, Running, Hooks
  <2>2. CASE /\ Become(r, [q EXCEPT !.stage = "done", !.err = "hook"])
             /\ UNCHANGED <<counts, accepted>>
    BY <1>1, <1>2, <2>1, <2>2, HookErrorKeeps, BecomeKeeps
  <2> QED
    BY <1>12, <2>1, <2>2, HookKeeps DEF OnError
<1>13. CASE Finish(r)
  <2>1. q.stage \in {"onResponse", "onError"} /\ q.at \notin 1..N
    BY <1>13 DEF Finish, Ended
  <2> QED
    BY <1>1, <1>2, <1>13, <2>1, FinishKeeps, BecomeKeeps DEF Finish
<1> QED
  BY <1>3, <1>4, <1>5, <1>6, <1>7, <1>8, <1>9, <1>10, <1>11, <1>12, <1>13 DEF Step

(***************************************************************************)
(* The invariant of the pipeline holds in every reachable state: in        *)
(* particular every variable keeps its type.                               *)
(***************************************************************************)
THEOREM PipelineInvariant == ExecSpec => []ExecInv
<1>1. ExecInit => ExecInv
  <2>1. Fresh \in Request
    BY NType DEF Fresh, Request, Errors, Hooks
  <2>2. WellPlaced(Fresh)
    BY NType DEF Fresh, WellPlaced, LoopProgress, BeforeResolver, BehindGates, Answering,
                 ErrorsPending, Hooks, Reversed, All, None
  <2> QED
    BY <2>1, <2>2 DEF ExecInit, ExecInv, ExecTypeOK
<1>2. ExecInv /\ [ExecNext]_execVars => ExecInv'
  <2> SUFFICES ASSUME ExecInv, [ExecNext]_execVars
               PROVE  ExecInv'
    OBVIOUS
  <2>1. ASSUME NEW b \in (1..N) \X Keys, WindowEnds(b)
        PROVE  ExecInv'
    BY <2>1 DEF WindowEnds, ExecInv, ExecTypeOK
  <2>2. CASE UNCHANGED execVars
    BY <2>2 DEF execVars, ExecInv, ExecTypeOK
  <2> QED
    BY <2>1, <2>2, StepKeeps DEF ExecNext
<1> QED
  BY <1>1, <1>2, PTL DEF ExecSpec

(***************************************************************************)
(* The resolver never runs before every onRequest hook and every onPlan    *)
(* (for an upload: onUpload) hook has returned, and never on a plan that   *)
(* lacks a restriction some plugin asked for.                              *)
(***************************************************************************)
THEOREM ResolverIsGated == ExecSpec => []ResolverRunsBehindEveryGate
<1>1. ExecInv => ResolverRunsBehindEveryGate
  BY DEF ExecInv, WellPlaced, BehindGates, ResolverRunsBehindEveryGate
<1> QED
  BY <1>1, PipelineInvariant, PTL

(***************************************************************************)
(* A request that ends in a MeshError has told every plugin's onError,     *)
(* unless it was thrown while a read was shaped or by its onResponse       *)
(* hooks, and then it has told none.                                       *)
(***************************************************************************)
THEOREM ErrorsAreTold == ExecSpec => []ErrorsToldUnlessShaping
<1>1. ExecInv => ErrorsToldUnlessShaping
  BY DEF ExecInv, WellPlaced, ErrorsPending, ErrorsToldUnlessShaping
<1> QED
  BY <1>1, PipelineInvariant, PTL

(***************************************************************************)
(* A request that succeeds was resolved and went through every onResult,   *)
(* or was answered by a plugin and went through none.                      *)
(***************************************************************************)
THEOREM AnswersAreWhole == ExecSpec => []AnswersAreWholeOrSubstituted
<1>1. ExecInv => AnswersAreWholeOrSubstituted
  BY DEF ExecInv, WellPlaced, Answering, AnswersAreWholeOrSubstituted
<1> QED
  BY <1>1, PipelineInvariant, PTL

(***************************************************************************)
(* In every window each rateLimit plugin lets exactly the first `max`      *)
(* calls of a key through.  Only Count and WindowEnds touch the counters.  *)
(***************************************************************************)
THEOREM FirstCallsAccepted == ExecSpec => []FirstMaxCallsAccepted
<1>1. ExecInit => FirstMaxCallsAccepted
  BY MaxCallsAssumption DEF ExecInit, FirstMaxCallsAccepted
<1>2. ExecInv /\ FirstMaxCallsAccepted /\ [ExecNext]_execVars => FirstMaxCallsAccepted'
  <2> SUFFICES ASSUME ExecInv, FirstMaxCallsAccepted, [ExecNext]_execVars
               PROVE  FirstMaxCallsAccepted'
    OBVIOUS
  <2> USE MaxCallsAssumption
  <2>1. CASE UNCHANGED <<counts, accepted>>
    BY <2>1 DEF FirstMaxCallsAccepted
  <2>2. ASSUME NEW b \in (1..N) \X Keys, WindowEnds(b)
        PROVE  FirstMaxCallsAccepted'
    BY <2>2 DEF WindowEnds, FirstMaxCallsAccepted, ExecInv, ExecTypeOK
  <2>3. ASSUME NEW r \in Requests, req[r].at \in 1..N, Count(r)
        PROVE  FirstMaxCallsAccepted'
    <3> DEFINE b == <<req[r].at, RateKey(r)>>
    <3>1. b \in (1..N) \X Keys
      BY <2>3, KeysAssumption DEF RateKey
    <3>2. /\ counts' = [counts EXCEPT ![b] = @ + 1]
          /\ accepted' = IF counts[b] + 1 > MaxCalls THEN accepted
                                                     ELSE [accepted EXCEPT ![b] = @ + 1]
      BY <2>3 DEF Count
    <3> QED
      BY <3>1, <3>2 DEF FirstMaxCallsAccepted, ExecInv, ExecTypeOK
  <2>4. ASSUME NEW r \in Requests, Start(r) \/ Step(r)
        PROVE  UNCHANGED <<counts, accepted>> \/ (req[r].at \in 1..N /\ Count(r))
    BY <2>4 DEF Start, Step, OnRequest, Prepare, OnPlan, OnUpload, Resolve, OnResult, Shape,
                OnResponse, OnError, Finish, Passes, Throws, Running
  <2> QED
    BY <2>1, <2>2, <2>3, <2>4 DEF ExecNext, execVars
<1> QED
  BY <1>1, <1>2, PipelineInvariant, PTL DEF ExecSpec

=============================================================================
