------------------------------ MODULE ReadPlan -------------------------------
(* How a read tree becomes a join plan and what field rules leave of it:       *)
(* normalizeReadTree, validateAst, buildJoinPlan and stripFieldsFromPlan of    *)
(* packages/core.                                                              *)
(*                                                                             *)
(* A path is the sequence of relation names from the root, and <<>> the root.  *)
(* A plan's qualified field is a sequence of words, as the dotted string it    *)
(* stands for: a path and a column, or the root's table and a column.  A rule  *)
(* is such a sequence too, and one that ends in "" is a dotted prefix.         *)
(*                                                                             *)
(* A query is [name, root, fields, control, id]: the name it gives the root,   *)
(* the entity that is or NoEntity, the names selected at each of its paths, at *)
(* most one read control, and the id of a point read or NoId.                  *)
EXTENDS Naturals, Sequences, FiniteSets, SequencesExt

CONSTANTS
    Entities,    \* the schema's entity keys
    TableOf,     \* entity -> SQL table
    FieldsOf,    \* entity -> its physical fields, "id" among them
    ComputedOf,  \* entity -> [computed field -> the set of its dependencies]
    Joins,       \* <<entity, relation>> -> [targets, many, through, polymorphic]
    SingularOf,  \* name that ends in s -> the name without it
    NoEntity, NoId

isPolymorphic(join) == join.polymorphic

\* The first of the declared targets stands for a polymorphic relation.
joinTargetEntity(join) == Head(join.targets)

entityQueryableFields(entity) == FieldsOf[entity] \cup DOMAIN ComputedOf[entity]

validateJoin(join) ==
    /\ join.targets \in Seq(Entities) \ {<<>>}
    /\ IF isPolymorphic(join) THEN ~join.many /\ ~join.through ELSE Len(join.targets) = 1

\* A dependency is a physical field of the entity, or of one relation's target.
validateComputedDep(entity, dep) ==
    \/ Len(dep) = 1 /\ dep[1] \in FieldsOf[entity]
    \/ /\ Len(dep) = 2 /\ <<entity, dep[1]>> \in DOMAIN Joins
       /\ LET join == Joins[<<entity, dep[1]>>]
          IN  ~isPolymorphic(join) /\ dep[2] \in FieldsOf[joinTargetEntity(join)]

validateEntityComputed(entity) ==
    \A name \in DOMAIN ComputedOf[entity] :
        /\ name \notin FieldsOf[entity] /\ ComputedOf[entity][name] # {}
        /\ \A dep \in ComputedOf[entity][name] : dep \in Seq(STRING) /\ validateComputedDep(entity, dep)

\* createMesh takes no other schema.  That every entity has its id, and that no relation is
\* called like its own entity's table, so that no path of a plan reads as the root's
\* table, or like a field beside it, is the application's part.
ASSUME SchemaAssumption ==
    /\ \A j \in DOMAIN Joins :
        /\ j[1] \in Entities /\ validateJoin(Joins[j])
        /\ j[2] # TableOf[j[1]] /\ j[2] \notin entityQueryableFields(j[1])
    /\ \A e \in Entities : validateEntityComputed(e) /\ "id" \in FieldsOf[e] /\ FieldsOf[e] \subseteq STRING
    /\ NoEntity \notin Entities

\* An entity key, else an entity's table, else a key with an s behind it.
resolveEntityKey(name) ==
    LET keys == <<{name} \cap Entities, {e \in Entities : TableOf[e] = name},
                  {SingularOf[n] : n \in {name} \cap DOMAIN SingularOf} \cap Entities, {NoEntity}>>
    IN  CHOOSE e \in SelectSeq(keys, LAMBDA found : found # {})[1] : TRUE

EntityAt(q, path) ==
    LET entity[n \in 0..Len(path)] ==
          IF n = 0 THEN q.root ELSE joinTargetEntity(Joins[<<entity[n - 1], path[n]>>])
    IN  entity[Len(path)]

JoinAt(q, path) == Joins[<<EntityAt(q, Front(path)), Last(path)>>]

PolymorphicAt(q, path) == path # <<>> /\ isPolymorphic(JoinAt(q, path))

Paths(q) == DOMAIN q.fields

Refs(q, path) == {Last(p) : p \in {p \in Paths(q) : p # <<>> /\ Front(p) = path}}

-----------------------------------------------------------------------------
(* Normalization and validation.                                             *)

NoControl == "none"
Controls == {NoControl, "where", "page", "groupBy", "after", "having", "aggregate", "items"}

Controlled(q, path) == q.control.kind # NoControl /\ q.control.at = path

\* "items" stands for a grouping whose key is called `items`.
validateGrouping(q, path) == path # <<>> => q.control.kind # "items"

ControlAllowed(q, path) ==
    path # <<>> =>
        /\ JoinAt(q, path).many
        /\ q.control.kind \notin {"after", "having", "aggregate"}

\* Every node selects something.
parseReadNode(q) == \A path \in Paths(q) : q.fields[path] # {} \/ Refs(q, path) # {}

\* Every relation on the way to a path is one of the entity before it.
resolveRefEntity(q, path) ==
    \A k \in 1..Len(path) : <<EntityAt(q, SubSeq(path, 1, k - 1)), path[k]>> \in DOMAIN Joins

\* Every name leads to an entity.
normalizeReadTree(q) ==
    /\ q.root # NoEntity
    /\ \A path \in Paths(q) :
        /\ resolveRefEntity(q, path) /\ EntityAt(q, path) \in Entities
        /\ q.fields[path] \subseteq entityQueryableFields(EntityAt(q, path))
        /\ Controlled(q, path) => ControlAllowed(q, path) /\ validateGrouping(q, path)

\* Nothing is selected below a polymorphic relation.
validateAst(q) ==
    \A path \in Paths(q) : PolymorphicAt(q, path) => Refs(q, path) = {}

AggregateMode(q) == Controlled(q, <<>>) /\ q.control.kind \in {"groupBy", "items", "aggregate"}

perParent(q, path) ==
    path # <<>> /\ Controlled(q, path) /\ JoinAt(q, path).many

-----------------------------------------------------------------------------
(* The plan.                                                                 *)

qualifiedField(q, path, field) ==
    IF path = <<>> THEN <<TableOf[q.root], field>> ELSE Append(path, field)

isComputedField(q, path, f) ==
    f \in DOMAIN ComputedOf[EntityAt(q, path)] /\ ~PolymorphicAt(q, path)

planComputedFields(q) ==
    {[path |-> p[1], entity |-> EntityAt(q, p[1]), name |-> p[2]] :
        p \in UNION {{path} \X {f \in q.fields[path] : isComputedField(q, path, f)} : path \in Paths(q)}}

from(entry) == ComputedOf[entry.entity][entry.name]

\* The dependencies the query selects by themselves: a dotted one is no name.
requestedDeps(q, entry) == {dep \in from(entry) : Len(dep) = 1 /\ dep[1] \in q.fields[entry.path]}

depToPlanField(q, entry, dep) ==
    IF Len(dep) = 1 THEN qualifiedField(q, entry.path, dep[1]) ELSE entry.path \o dep

expandComputedDeps(q) ==
    UNION {{depToPlanField(q, entry, dep) : dep \in from(entry)} : entry \in planComputedFields(q)}

ensureJoin(q) ==
    (Paths(q) \ {<<>>})
        \cup UNION {{Append(entry.path, dep[1]) : dep \in {d \in from(entry) : Len(d) > 1}}
                      : entry \in planComputedFields(q)}

planNodeFields(q) ==
    UNION {{qualifiedField(q, path, f) : f \in {f \in q.fields[path] : ~isComputedField(q, path, f)}}
             : path \in Paths(q)}

\* A polymorphic relation takes the physical fields of any of its targets.
planPolymorphicFields(q) ==
    \A path \in Paths(q) :
        PolymorphicAt(q, path)
            => q.fields[path] \subseteq UNION {FieldsOf[e] : e \in ToSet(JoinAt(q, path).targets)}

\* The id of every record is fetched, to shape and deduplicate by.
planIds(q) == {qualifiedField(q, path, "id") : path \in ensureJoin(q) \cup {<<>>}}

\* Any per-parent control makes the whole tree nested, which no polymorphic join allows.
chooseFetchStrategy(q) ==
    IF ~AggregateMode(q) /\ \E path \in Paths(q) : perParent(q, path) THEN "nested" ELSE "flat"

Plannable(q) ==
    /\ planPolymorphicFields(q)
    /\ chooseFetchStrategy(q) = "nested" => \A path \in Paths(q) : ~PolymorphicAt(q, path)

buildJoinPlan(q) ==
    [fields   |-> planNodeFields(q) \cup planIds(q) \cup expandComputedDeps(q),
     joins    |-> ensureJoin(q),
     computed |-> planComputedFields(q),
     strategy |-> chooseFetchStrategy(q)]

\* The path that is read from a field's name: a join's, or the root's key where its table is
\* called like it, else none.
parseQualifiedPlanField(q, plan, field) ==
    IF Front(field) \in plan.joins \cup {<<q.root>>} THEN Front(field) ELSE <<>>

\* The path of the row a field is read from: the root's where no join has that path.
resolvePlanField(plan, field) == IF Front(field) \in plan.joins THEN Front(field) ELSE <<>>

-----------------------------------------------------------------------------
(* What denied rules leave of a plan.                                        *)

\* Only the first word is taken for an entity: the rest is a path, whatever that entity is.
normalizeFieldPath(rule) ==
    IF Len(rule) = 2 THEN <<TableOf[rule[1]], rule[2]>> ELSE Tail(rule)

\* The mistake of taking every rule for the name of one field.
MatchesNameOnly(field, denied) == field = denied

fieldMatchesDenied(field, denied) ==
    IF Last(denied) = "" THEN Len(field) >= Len(denied) /\ Front(denied) = SubSeq(field, 1, Len(denied) - 1)
    ELSE field = denied

MatchesAny(field, denied) == \E d \in denied : fieldMatchesDenied(field, d)

isAccessPathDenied(entry, denied) ==
    MatchesAny(<<TableOf[entry.entity], entry.name>>, denied)
        \/ MatchesAny(<<entry.entity, entry.name>>, denied)

remainingComputed(plan, denied) == {entry \in plan.computed : ~isAccessPathDenied(entry, denied)}

\* Needed by a computed field of the same entity at the same path.
stillNeeded(plan, denied, entry, dep) ==
    \E other \in remainingComputed(plan, denied) :
        dep \in from(other) /\ other.entity = entry.entity /\ other.path = entry.path

\* The mistake of leaving in the plan what only a denied computed field needed.
NoDepDenied(q, plan, denied) == {}

depDenied(q, plan, denied) ==
    UNION {{depToPlanField(q, entry, dep) :
              dep \in {d \in from(entry) \ requestedDeps(q, entry) : ~stillNeeded(plan, denied, entry, d)}}
             : entry \in plan.computed \ remainingComputed(plan, denied)}

stripFieldsFromPlan(q, plan, rules) ==
    LET denied == {normalizeFieldPath(r) : r \in rules}
        all    == denied \cup depDenied(q, plan, denied)
    IN  [plan EXCEPT !.fields   = {f \in plan.fields : ~MatchesAny(f, all)},
                     !.computed = remainingComputed(plan, denied)]

=============================================================================
