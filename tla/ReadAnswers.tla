----------------------------- MODULE ReadAnswers -----------------------------
(* What a read of ReadPipeline promises: the tree that was asked for, as the   *)
(* database has it, without the fields that rules deny.                        *)
EXTENDS ReadPipeline

ReadFlat == FromSql /\ plan.strategy = "flat" /\ ~AggregateMode(q)

\* The answer of an ORM is left as it is where nothing is computed, ids included.
LeftAsReturned == resolver = "orm" /\ plan.computed = {}

Shown(path) ==
    IF LeftAsReturned THEN {f \in q.fields[path] \cup {"id"} : ~Denied(path, f)} ELSE q.fields[path]

Value(path, ref, field) ==
    LET dependency(dep) ==
          IF Len(dep) = 1
          THEN IF Denied(path, dep[1]) THEN Undefined ELSE Cell(ref, dep[1])
          ELSE LET to == Linked(ref, dep[1]) IN
               IF Denied(Append(path, dep[1]), dep[2]) \/ (to = {} /\ ~ReadFlat) THEN Undefined
               ELSE IF to = {} THEN Null ELSE Cell(CHOOSE x \in to : TRUE, dep[2])
    IN  IF Denied(path, field) THEN Undefined
        ELSE IF isComputedField(q, path, field)
        THEN [dep \in ComputedOf[EntityAt(q, path)][field] |-> dependency(dep)]
        ELSE Cell(ref, field)

PolymorphicRecord(path, ref) ==
    ("$entity" :> ref[1])
        ++ [f \in {f \in q.fields[path] : ~Missing(Cell(ref, f)) /\ ~Denied(path, f)} |-> Cell(ref, f)]

Relation(path, ref, tree) ==
    LET to      == Window(ControlAt(path), Linked(ref, Last(path)))
        trees   == [x \in to |-> tree[x]]
        key(k)  == {x \in to : KeyOf(x) = k}
    IN  IF ~JoinAt(q, path).many
        THEN IF to = {} THEN Null
             ELSE LET x == CHOOSE x \in to : TRUE
                  IN  IF PolymorphicAt(q, path) THEN PolymorphicRecord(path, x) ELSE trees[x]
        ELSE IF ControlAt(path) = "groupBy"
        THEN BagOf([k \in {KeyOf(x) : x \in to} |->
                      [key |-> k, count |-> Cardinality(key(k)),
                       items |-> BagOf([x \in key(k) |-> trees[x]])]])
        ELSE BagOf(trees)

\* The selection below a path, read from one row.
Tree[path \in Paths(q)] ==
    [ref \in References |->
        [f \in Shown(path) |-> Value(path, ref, f)]
            ++ [r \in Refs(q, path) |-> Relation(Append(path, r), ref, Tree[Append(path, r)])]]

-----------------------------------------------------------------------------
(* Where the code does not keep to it.                                       *)

\* A list below a record of one: shapeRefOne shapes a single joined row.
ManyUnderOne ==
    \E p \in Paths(q) : \E k \in 1..(Len(p) - 1) :
        JoinAt(q, p).many /\ ~JoinAt(q, SubSeq(p, 1, k)).many

\* An ON clause is bound to another row than the parent's: to a shallower ancestor of the same
\* table, or, in a relation of a table to itself, to the joined row.
BoundElsewhere == \E p \in plan.joins : BoundTo(p) # Front(p)

\* Rows are named after the entity, and the shaper looks for them under the name in the query.
NamedByTable == q.name # q.root

\* Nothing is left to group the joined rows by.
IdStripped == \E p \in plan.joins \cup {<<>>} : qualifiedField(q, p, "id") \notin plan.fields

\* The paths whose values a row has under an alias.
PlacesOf(alias) ==
    {resolvePlanField(plan, f) : f \in {f \in plan.fields : rowAliasForPlanField(f) = alias}}
        \cup {entry.path : entry \in {entry \in plan.computed : alias \in computedKeys(entry)}}

\* The first of a field's names that a row knows is the alias of something elsewhere: of another
\* path that ends in the same relation, or of a relation called like the root in the query.
FoundElsewhere(path, field) ==
    LET keys  == RowKeys(path, field)
        known == {k \in DOMAIN keys : PlacesOf(keys[k]) # {}}
    IN  \E k \in known : (\A j \in known : k <= j) /\ PlacesOf(keys[k]) # {path}

\* What another field needs, or the query selects, went with a denied computed field, or a computed
\* field with a rule for another place whose path has the entity's name.
StrippedInPassing ==
    \/ \E f \in Needed \ plan.fields : Allowed(f)
    \/ \E entry \in planComputedFields(q) \ plan.computed : ~DeniedAt(<<entry.entity, entry.name>>)

\* A computed field is made from a list: from any of its records, or from none.
ComputedOfMany ==
    \E entry \in plan.computed : \E dep \in from(entry) :
        Len(dep) > 1 /\ JoinAt(q, Append(entry.path, dep[1])).many

\* Nested shaping computes by the schema, not by the stripped plan.
ComputedRevived ==
    /\ ~ReadFlat /\ ~LeftAsReturned
    /\ planComputedFields(q) # plan.computed

\* The root's columns read like those of a relation, and no relation of that name selects them.
RootDropped == ~ReadFlat /\ ~AggregateMode(q) /\ TableOf[q.root] = q.root

\* A point read without a record: no row, or no object, is shaped into an empty one.
MissingIsEmpty == ~ListRead /\ Roots = {} /\ (ReadFlat \/ resolver = "orm")

\* A null of an object too large for one json_object is lost.
NullDropped == plan.strategy = "nested" /\ \E p \in plan.joins : jsonObject(p) # {}

\* ORM adapters do not look at a relation's controls, nor at a grouping of the root.
ControlIgnored == resolver = "orm" /\ q.control.kind # NoControl

\* It has the relations that only a denied computed field needed, with the ids of their records.
LeftOver == LeftAsReturned /\ plan.joins # Paths(q) \ {<<>>}

AsAsked ==
    ~( \/ FromSql /\ BoundElsewhere
       \/ RootDropped
       \/ MissingIsEmpty
       \/ LeftOver
       \/ ComputedRevived
       \/ NullDropped
       \/ ControlIgnored
       \/ StrippedInPassing
       \/ ComputedOfMany
       \/ ReadFlat /\ (ManyUnderOne \/ NamedByTable \/ IdStripped
                     \/ \E p \in Paths(q) : \E f \in q.fields[p] \cup {"id"} : FoundElsewhere(p, f)))

-----------------------------------------------------------------------------
(* Properties.                                                               *)

Groups(bag) ==
    /\ \A r \in Roots : \E g \in DOMAIN bag : g[KeyField[q.root]] = KeyOf(r)
    /\ \A g \in DOMAIN bag : bag[g] = 1 /\ g.count = Cardinality({r \in Roots : KeyOf(r) = g[KeyField[q.root]]})

\* But for the cases above, the answer of a legal read is the selected tree, read record by record
\* from the database, or null without a record: no child is lost, doubled or given to another parent by
\* the joined rows, the correlated subqueries and the shapers, and each field is its record's.
AnswerIsTheTree ==
    stage = "answered" /\ AsAsked =>
        IF AggregateMode(q) THEN Groups(answer)
        ELSE IF ListRead THEN answer = BagOf([r \in Roots |-> Tree[<<>>][r]])
        ELSE IF Roots # {} THEN \E r \in Roots : answer = Tree[<<>>][r]
        ELSE answer = Null

\* The records in a value of an answer that is at a path: a list has its own in its domain.
RecordsIn(value, path) ==
    LET list  == IF path = <<>> THEN ListRead ELSE JoinAt(q, path).many
        elems == IF Missing(value) THEN {} ELSE IF list THEN DOMAIN value ELSE {value}
    IN  IF ControlAt(path) = "groupBy" /\ FromSql THEN UNION {DOMAIN bucket.items : bucket \in elems} ELSE elems

\* The records of an answer at each path.
RecordsOf(response) ==
    LET records[path \in Paths(q)] ==
          IF path = <<>> THEN RecordsIn(response, path)
          ELSE UNION {RecordsIn(Get(r, Last(path)), path) : r \in records[Front(path)]}
    IN  records

NoRecordHas(p, f) == \A r \in RecordsOf(answer)[p] : Get(r, f) = Undefined

\* No record of an answer that is not a root aggregate has a value for a denied field, with two
\* exceptions: a flat read may find the field under another path's alias, and the shaping of objects
\* computes a denied computed field anew where the plan has lost one.
DeniedIsAbsent ==
    stage = "answered" /\ ~AggregateMode(q) =>
        \A p \in Paths(q) : \A f \in q.fields[p] :
            /\ Denied(p, f)
            /\ ~(ReadFlat /\ FoundElsewhere(p, f))
            /\ ~(ComputedRevived /\ isComputedField(q, p, f))
            => NoRecordHas(p, f)

\* docs/threat-model.md: "Denied fields are stripped", and docs/computed-fields.md: computed ones take
\* part in access rules like others.  Neither excepts a way of reading: a denied field is in no record.
DeniedFieldIsAbsent ==
    stage = "answered" /\ ~AggregateMode(q) =>
        \A p \in Paths(q) : \A f \in q.fields[p] : Denied(p, f) => NoRecordHas(p, f)

=============================================================================
