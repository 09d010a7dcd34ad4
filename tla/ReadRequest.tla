----------------------------- MODULE ReadRequest ------------------------------
(* A read up to its resolver: runMeshExecute of packages/core plans its tree,  *)
(* and the access plugins take from the plan what the rules of the request     *)
(* deny.  What comes after fetches by that plan.                               *)
EXTENDS ReadPlan

CONSTANTS
    Queries,     \* the read trees asked
    RuleSets     \* the sets of field rules that deny

\* The paths of a tree are those of its nodes, and parse.ts takes no name that begins with $ for
\* a field.  A rule names its entity first; names are strings.
ASSUME RequestAssumption ==
    /\ \A query \in Queries :
        /\ query.root = resolveEntityKey(query.name) /\ query.control.kind \in Controls
        /\ query.control.at \in Paths(query) /\ Paths(query) \subseteq Seq(STRING)
        /\ IsFiniteSet(Paths(query)) /\ <<>> \in Paths(query)
        /\ \A path \in Paths(query) :
            /\ path # <<>> => Front(path) \in Paths(query)
            /\ query.fields[path] \subseteq STRING /\ "$entity" \notin query.fields[path]
    /\ \A denied \in RuleSets : \A rule \in denied :
        rule \in Seq(STRING) /\ Len(rule) >= 2 /\ rule[1] \in Entities

VARIABLES
    q,          \* the query
    stage,      \* how far it has come
    plan,       \* its plan
    rules       \* the denied rules of the request

requestVars == <<q, stage, plan, rules>>

NoPlan == [fields |-> {}, joins |-> {}, computed |-> {}, strategy |-> "flat"]

RequestInit ==
    /\ q \in Queries
    /\ stage = "received"
    /\ plan = NoPlan
    /\ rules = {}

\* A ParseError or a ValidationError on the way to a plan, or a plan.
Plan ==
    /\ stage = "received"
    /\ IF parseReadNode(q) /\ normalizeReadTree(q) /\ validateAst(q) /\ Plannable(q)
       THEN stage' = "planned" /\ plan' = buildJoinPlan(q)
       ELSE stage' = "rejected" /\ UNCHANGED plan
    /\ UNCHANGED <<q, rules>>

\* onPlan of the access plugins: with nothing denied the plan is left alone.
Strip ==
    /\ stage = "planned"
    /\ \E denied \in RuleSets :
          /\ rules' = denied
          /\ plan' = IF denied = {} THEN plan ELSE stripFieldsFromPlan(q, plan, denied)
    /\ stage' = "stripped"
    /\ UNCHANGED q

\* The resolver and the shaper take the plan as it is.
Onward ==
    /\ \/ stage = "stripped" /\ stage' \in {"fetched", "failed"}
       \/ stage = "fetched" /\ stage' = "answered"
    /\ UNCHANGED <<q, plan, rules>>

RequestNext == Plan \/ Strip \/ Onward

RequestSpec == RequestInit /\ [][RequestNext]_requestVars

-----------------------------------------------------------------------------
(* What rules deny.                                                          *)

ColumnLocation(path, column) == <<q.root>> \o path \o <<column>>

\* Where a selected field is in the schema: a computed one is its entity's wherever it is.
Location(path, field) ==
    IF isComputedField(q, path, field) THEN <<EntityAt(q, path), field>>
    ELSE ColumnLocation(path, field)

Covers(rule, location) ==
    \/ rule = location
    \/ /\ Last(rule) = "" /\ Len(rule) <= Len(location)
       /\ Front(rule) = SubSeq(location, 1, Len(rule) - 1)
       /\ Len(rule) = 2 => Len(location) = 2

DeniedAt(location) == \E rule \in rules : Covers(rule, location)

Denied(path, field) == DeniedAt(Location(path, field))

\* What the selection and the computed fields left in the plan need, and every record's id.
Needed ==
    planNodeFields(q) \cup {qualifiedField(q, p, "id") : p \in plan.joins \cup {<<>>}}
        \cup UNION {{depToPlanField(q, entry, dep) : dep \in from(entry)} : entry \in plan.computed}

\* A plan's fields are columns, never computed.
Allowed(f) == ~DeniedAt(ColumnLocation(resolvePlanField(plan, f), Last(f)))

\* Nothing is fetched but what is selected, an id, or needed by a computed field that no
\* rule denies: what a denied computed field is made from is not read from the database.
FetchedIsNeeded ==
    stage \in {"stripped", "fetched", "answered"} =>
        /\ plan.fields \subseteq {f \in Needed : Allowed(f)}
        /\ \A entry \in plan.computed : ~DeniedAt(<<entry.entity, entry.name>>)

-----------------------------------------------------------------------------
(* Why: the plan is the query's own, or what stripping left of it.           *)

Legal == normalizeReadTree(q) /\ validateAst(q) /\ Plannable(q)

PlanInv ==
    /\ q \in Queries
    /\ stage \in {"received", "rejected", "planned", "stripped", "fetched", "answered", "failed"}
    /\ stage \in {"received", "rejected", "planned"} => rules = {}
    /\ stage = "planned" => Legal /\ plan = buildJoinPlan(q)
    /\ stage \in {"stripped", "fetched", "answered", "failed"} =>
        /\ Legal /\ rules \in RuleSets
        /\ plan = IF rules = {} THEN buildJoinPlan(q) ELSE stripFieldsFromPlan(q, buildJoinPlan(q), rules)

=============================================================================
