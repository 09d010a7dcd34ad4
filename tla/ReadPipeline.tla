---------------------------- MODULE ReadPipeline -----------------------------
(* A read through runMeshExecute of packages/core, from its read tree to its   *)
(* answer: planned and stripped as ReadPlan says, fetched by the SQL builders  *)
(* of packages/sqlite and packages/postgres or by an ORM adapter, and shaped.  *)
(*                                                                             *)
(* A row of an entity is referred to as <<entity, id>>.  The order of lists is *)
(* left out: a list is a bag of the records in it, and the first row of        *)
(* several is any of them.                                                     *)
(*                                                                             *)
(* What the code does by recursion over the tree is a function on its paths,   *)
(* each value of which is defined from those of the paths one level below.     *)
EXTENDS ReadRequest, FiniteSetsExt, Functions, TLC

CONSTANTS
    Databases,   \* the contents of the database: [rows, links]
    Registrations,  \* the sequences of calls mesh.resolve(entity or "*", resolver)
    KeyField,    \* entity -> the field that $where, $orderBy and $groupBy name
    WhereValue,  \* the value that $where compares it with
    PageFirst,   \* the $page.first of a per-parent page
    MaxJsonPairs,   \* MAX_JSON_PAIRS
    NoResolver,
    Null, Undefined

\* A function with what another one adds to it.
f ++ g == [x \in DOMAIN f \cup DOMAIN g |-> IF x \in DOMAIN f THEN f[x] ELSE g[x]]

ResolverKinds == {"postgres", "sqlite", "orm"}

\* The kinds of resolver that entities have: the last call for an entity counts, and a
\* second catch-all is refused.
register(calls) ==
    LET last(e) == CHOOSE n \in DOMAIN calls : calls[n][1] = e /\ \A m \in DOMAIN calls : calls[m][1] = e => m <= n
    IN  [e \in {calls[n][1] : n \in DOMAIN calls} |-> calls[last(e)][2]]

ASSUME PipelineAssumption ==
    /\ Null # Undefined /\ PageFirst \in Nat \ {0} /\ MaxJsonPairs \in Nat \ {0}
    \* normalize.ts lets no two results of a grouping have one name
    /\ \A e \in Entities : KeyField[e] # "count"
    /\ \A calls \in Registrations :
          /\ DOMAIN calls = 1..Len(calls) /\ Len(calls) \in Nat
          /\ \A n \in DOMAIN calls : calls[n][2] \in ResolverKinds
          /\ Cardinality({n \in DOMAIN calls : calls[n][1] = "*"}) \leq 1

VARIABLES
    db,         \* the database it reads
    registry,   \* entity or "*" -> the kind of its resolver
    data,       \* what the resolver returned
    answer      \* the data of the response

readVars == <<requestVars, db, registry, data, answer>>

getEntry(entity) ==
    IF entity \in DOMAIN registry THEN registry[entity]
    ELSE IF "*" \in DOMAIN registry THEN registry["*"] ELSE NoResolver

resolver == getEntry(q.root)

FromSql == resolver \in {"postgres", "sqlite"}

-----------------------------------------------------------------------------
(* The database.                                                             *)

Ids(entity) == DOMAIN db.rows[entity]

\* The rows there are, and those that are referred to.
References ==
    UNION {{<<e, id>> : id \in Ids(e)} : e \in Entities}
        \cup UNION {{l[2] : l \in db.links[relation]} : relation \in DOMAIN db.links}

\* The rows a relation leads to from a row; a row that is not there leads nowhere.
Linked(ref, relation) ==
    IF ref = Null THEN {}
    ELSE {to \in References : <<ref[2], to>> \in db.links[<<ref[1], relation>>]}

Exists(ref) == ref # Null /\ ref[1] \in Entities /\ ref[2] \in Ids(ref[1])

Cell(ref, field) ==
    IF Exists(ref) /\ field \in FieldsOf[ref[1]] THEN db.rows[ref[1]][ref[2]][field] ELSE Null

KeyOf(ref) == Cell(ref, KeyField[ref[1]])

Before(a, b) == KeyOf(a) > KeyOf(b) \/ (KeyOf(a) = KeyOf(b) /\ Cell(a, "id") < Cell(b, "id"))

\* A $where, which here is one comparison: that of the key field with WhereValue.
renderWhereSql(ref) == KeyOf(ref) = WhereValue

\* Of some rows those that a per-parent control leaves: $where, or $orderBy and $page.
Window(kind, refs) ==
    CASE kind = "where" -> {r \in refs : renderWhereSql(r)}
      [] kind = "page"  -> {r \in refs : Cardinality({s \in refs : Before(s, r)}) < PageFirst}
      [] OTHER          -> refs

\* A list: how often each record is in it.
BagOf(f) == [r \in Range(f) |-> Cardinality({x \in DOMAIN f : f[x] = r})]

Roots == {<<q.root, id>> : id \in IF q.id = NoId THEN Ids(q.root) ELSE Ids(q.root) \cap {q.id}}

ListRead == q.id = NoId

-----------------------------------------------------------------------------
(* SQL: one statement, flat or nested.                                       *)

TableAt(path) == TableOf[EntityAt(q, path)]

\* What a word of a join's ON clause becomes: the join's own table its alias, which is its path,
\* and then the table of each ancestor, from the root on, the alias of that one.
rewriteJoinOn(path, word) ==
    LET result[n \in 0..(Len(path) - 1)] ==
          IF n = 0 THEN IF word = <<TableAt(path)>> THEN path ELSE word
          ELSE IF result[n - 1] = <<TableAt(SubSeq(path, 1, n))>> THEN SubSeq(path, 1, n) ELSE result[n - 1]
    IN  result[Len(path) - 1]

\* The path whose row the parent's side of the ON clause is read from.  A word that is no alias
\* is the root's table; a relation of a table to itself has its own row on both sides.
BoundTo(path) ==
    LET parent == rewriteJoinOn(path, <<TableAt(Front(path))>>)
    IN  IF JoinAt(q, path).through \/ PolymorphicAt(q, path) THEN Front(path)
        ELSE IF parent = <<TableOf[q.root]>> THEN <<>> ELSE parent

OwnRows(path) == {to \in References : <<to[2], to>> \in db.links[<<EntityAt(q, Front(path)), Last(path)>>]}

\* The rows a join leads to from the one it is bound to.
JoinedFrom(path, ref) == IF BoundTo(path) = path THEN OwnRows(path) ELSE Linked(ref, Last(path))

\* One LEFT JOIN: each row once per row it leads to, or once without one.
emitJoinSql(path, rows) ==
    UNION {LET to == JoinedFrom(path, row[BoundTo(path)])
           IN  IF to = {} THEN {row ++ (path :> Null)} ELSE {row ++ (path :> ref) : ref \in to}
             : row \in rows}

joinsInDependencyOrder ==
    FoldLeft(LAMBDA paths, n : paths \o SetToSeq({p \in plan.joins : Len(p) = n}), <<>>,
             [n \in 1..Max({0} \cup {Len(p) : p \in plan.joins}) |-> n])

JoinedRows == FoldLeft(LAMBDA rows, path : emitJoinSql(path, rows), {<<>> :> r : r \in Roots}, joinsInDependencyOrder)

rowAliasForPlanField(field) ==
    IF parseQualifiedPlanField(q, plan, field) = <<>> THEN <<q.root, Last(field)>> ELSE field

polymorphicEntityColumns == {p \in plan.joins : PolymorphicAt(q, p)}

\* The columns of a joined row under their aliases.
SelectedColumns(row) ==
    LET column == [f \in plan.fields |-> Cell(row[resolvePlanField(plan, f)], Last(f))]
    IN  [a \in {rowAliasForPlanField(f) : f \in plan.fields} |->
            column[CHOOSE f \in plan.fields : rowAliasForPlanField(f) = a]]
        ++ [a \in {Append(p, "$entity") : p \in polymorphicEntityColumns} |->
            IF row[Front(a)] = Null THEN Null ELSE row[Front(a)][1]]

\* Joined row -> columns; nothing to select is a syntax error.
buildSelectSql == [row \in JoinedRows |-> SelectedColumns(row)]

\* One row per group of the root's rows; it has no use for an id or a rule.
buildAggregateSql ==
    [k \in {KeyOf(r) : r \in Roots} |->
        [n \in {KeyField[q.root]} |-> k] ++ [count |-> Cardinality({r \in Roots : KeyOf(r) = k})]]

joinFields(path) == {Last(f) : f \in {f \in plan.fields : parseQualifiedPlanField(q, plan, f) = path}}

childJoins(path) == {Last(p) : p \in {p \in plan.joins : Front(p) = path}}

ControlAt(path) == IF Controlled(q, path) THEN q.control.kind ELSE NoControl

\* renderBuckets: a per-parent group with its key, its count and the records in it.
Buckets(records) ==
    LET key(ref) == KeyOf(ref)
    IN  [k \in {key(ref) : ref \in DOMAIN records} |->
            [key |-> k, count |-> Cardinality({r \in DOMAIN records : key(r) = k}),
             items |-> [r \in {r \in DOMAIN records : key(r) = k} |-> records[r]]]]

\* SQLite puts an object of more than MaxJsonPairs names together with json_patch: these
\* names come in by a patch, and a null of a patch removes its name instead.
jsonObject(path) ==
    LET names == SetToSeq(joinFields(path)) \o SetToSeq(childJoins(path))
    IN  IF resolver = "sqlite" THEN ToSet(SubSeq(names, MaxJsonPairs + 1, Len(names))) ELSE {}

\* An object in which what comes by a patch has no nulls.
mergePatch(object, patched) == Restrict(object, {n \in DOMAIN object : n \in patched => object[n] # Null})

Columns(path, ref) == [f \in joinFields(path) |-> Cell(ref, f)]

\* The row of each enclosing path, from the root on.
Scopes(path) == [1..(Len(path) + 1) -> References]

\* The correlated subquery of a relation; `object` renders one of its records, and the
\* records of a list are not patched.
renderRelation(path, scope, patch, object) ==
    LET join    == JoinAt(q, path)
        to      == JoinedFrom(path, scope[Len(BoundTo(path)) + 1])
        records == [ref \in Window(ControlAt(path), to) |-> object[Append(scope, ref)][patch /\ ~join.many]]
    IN  CASE ~join.many -> IF to = {} THEN Null ELSE records[CHOOSE ref \in DOMAIN records : TRUE]
          [] join.many /\ ControlAt(path) = "groupBy" -> Buckets(records)
          [] OTHER -> records

\* The JSON object of one record: its columns and its relations.
renderRecordObject[path \in plan.joins] ==
    [scope \in Scopes(path) |-> [patch \in BOOLEAN |->
        LET object == Columns(path, scope[Len(path) + 1])
                        ++ [r \in childJoins(path) |->
                              renderRelation(Append(path, r), scope, patch \/ r \in jsonObject(path),
                                             renderRecordObject[Append(path, r)])]
        IN  mergePatch(object, IF patch THEN DOMAIN object ELSE jsonObject(path))]]

\* A root row has a column for each of its fields and relations.
buildNestedSelectSql ==
    [ref \in Roots |->
        Columns(<<>>, ref)
            ++ [r \in childJoins(<<>>) |-> renderRelation(<<r>>, <<ref>>, FALSE, renderRecordObject[<<r>>])]]

-----------------------------------------------------------------------------
(* ORM adapters: the plan as a tree of relations, which knows no controls.   *)

toRelationNode[path \in plan.joins \cup {<<>>}] ==
    [ref \in References |->
        Columns(path, ref)
            ++ [r \in childJoins(path) |->
                  LET to   == Linked(ref, r)
                      node == toRelationNode[Append(path, r)]
                  IN  IF JoinAt(q, Append(path, r)).many THEN [x \in to |-> node[x]]
                      ELSE IF to = {} THEN Null ELSE node[CHOOSE x \in to : TRUE]]]

buildPlanRelationTree == [ref \in Roots |-> toRelationNode[<<>>][ref]]

-----------------------------------------------------------------------------
(* Shaping flat rows.                                                        *)

Get(f, key) == IF key \in DOMAIN f THEN f[key] ELSE Undefined

FirstOf(f, keys) ==
    IF \E k \in 1..Len(keys) : keys[k] \in DOMAIN f
    THEN f[keys[Min({k \in 1..Len(keys) : keys[k] \in DOMAIN f})]] ELSE Undefined

Missing(value) == value \in {Null, Undefined}

\* Where a field may be found in a row: at its path, or under its relation's bare name.
RowKeys(path, field) ==
    IF path = <<>> THEN <<<<q.name, field>>>> ELSE <<Append(path, field), <<Last(path), field>>>>

readField(row, path, field) == FirstOf(row, RowKeys(path, field))

hasField(rows, some, path, field) == \E r \in some : readField(rows[r], path, field) # Undefined

readDepFromFlatRow(row, entry, dep) ==
    IF Len(dep) > 1 THEN Get(row, entry.path \o dep)
    ELSE IF entry.path # <<>> THEN Get(row, entry.path \o dep)
    ELSE FirstOf(row, <<<<TableOf[entry.entity], dep[1]>>, <<entry.entity, dep[1]>>>>)

\* The aliases under which a computed value is put into a row.
computedKeys(entry) ==
    IF entry.path = <<>> THEN {<<TableOf[q.root], entry.name>>, <<q.root, entry.name>>}
    ELSE {Append(entry.path, entry.name)}

\* A computed value is told by what it was computed from.
injectComputedIntoFlatRows(rows) ==
    LET value(row, entry) == [dep \in from(entry) |-> readDepFromFlatRow(row, entry, dep)]
    IN  [r \in DOMAIN rows |->
            [k \in UNION {computedKeys(entry) : entry \in plan.computed} |->
                value(rows[r], CHOOSE entry \in plan.computed : k \in computedKeys(entry))] ++ rows[r]]

\* The mistake of taking every joined row for another record.
ShapeEveryRow(rows, some, path, record) == BagOf([r \in some |-> record[{r}]])

\* Some of the rows, grouped by the id of a relation's records, or each by itself where no id
\* was fetched; `record` shapes one of those records.
shapeRefMany(rows, some, path, record) ==
    LET id(r) == readField(rows[r], path, "id")
        ids   == {id(r) : r \in some} \ {Null, Undefined}
    IN  IF hasField(rows, some, path, "id")
        THEN BagOf([i \in ids |-> record[{r \in some : id(r) = i}]])
        ELSE BagOf([r \in some |-> record[{r}]])

shapePolymorphicOne(rows, some, path) ==
    LET typed == {r \in some : ~Missing(readField(rows[r], path, "$entity"))}
        row   == rows[CHOOSE r \in typed : TRUE]
    IN  IF typed = {} THEN Null
        ELSE [n \in {"$entity"} |-> readField(row, path, n)]
             ++ [f \in {f \in q.fields[path] : ~Missing(readField(row, path, f))} |-> readField(row, path, f)]

\* Only the first row with an id is shaped.
shapeRefOne(rows, some, path, record) ==
    LET there == {r \in some : hasField(rows, some, path, "id") => ~Missing(readField(rows[r], path, "id"))}
    IN  IF PolymorphicAt(q, path) THEN shapePolymorphicOne(rows, some, path)
        ELSE IF there = {} THEN Null ELSE record[{CHOOSE r \in there : TRUE}]

\* The record of a path that some rows make.
shapeRefRecord(rows) ==
    LET record[path \in Paths(q)] ==
          [some \in SUBSET DOMAIN rows |->
              [f \in q.fields[path] |-> readField(rows[CHOOSE r \in some : TRUE], path, f)]
                  ++ [r \in Refs(q, path) |->
                        LET p == Append(path, r)
                        IN  IF JoinAt(q, p).many THEN shapeRefMany(rows, some, p, record[p])
                            ELSE shapeRefOne(rows, some, p, record[p])]]
    IN  record

EmptyRecord == [f \in {} |-> Null]

shape(rows) == IF rows = EmptyRecord THEN EmptyRecord ELSE shapeRefRecord(rows)[<<>>][DOMAIN rows]

shapeMany(rows) == shapeRefMany(rows, DOMAIN rows, <<>>, shapeRefRecord(rows)[<<>>])

shapeAggregateRows(rows) == BagOf(rows)

-----------------------------------------------------------------------------
(* Shaping nested rows and the objects of an ORM.                            *)

\* The objects in the value of a relation.
ObjectsIn(value, path) ==
    IF Missing(value) THEN {}
    ELSE IF ~JoinAt(q, path).many THEN {value}
    ELSE IF FromSql /\ ControlAt(path) = "groupBy" THEN UNION {Range(bucket.items) : bucket \in Range(value)}
    ELSE Range(value)

\* The objects at a path of what the resolver returned, and that of a point read without any.
ObjectsAt[path \in plan.joins \cup {<<>>}] ==
    IF path = <<>> THEN Range(data) \cup {EmptyRecord}
    ELSE UNION {ObjectsIn(Get(obj, Last(path)), path) : obj \in ObjectsAt[Front(path)]}

readDep(obj, path, dep) ==
    LET p == Append(path, dep[1]) IN
    IF Len(dep) = 1 THEN Get(obj, dep[1])
    ELSE IF p \notin plan.joins \/ Missing(Get(obj, dep[1])) \/ JoinAt(q, p).many THEN Undefined
    ELSE Get(obj[dep[1]], dep[2])

\* The schema says which selected names are computed, whatever is left of the plan.
SelectedValue(obj, path, field) ==
    IF isComputedField(q, path, field)
    THEN [dep \in ComputedOf[EntityAt(q, path)][field] |-> readDep(obj, path, dep)]
    ELSE Get(obj, field)

shapeBucket(bucket, record) ==
    [bucket EXCEPT !.items = BagOf([x \in DOMAIN bucket.items |-> record[bucket.items[x]]])]

\* One record of the selection out of a nested object.
shapeNested[path \in Paths(q)] ==
    [obj \in ObjectsAt[path] |->
        [f \in q.fields[path] |-> SelectedValue(obj, path, f)]
            ++ [r \in Refs(q, path) |->
                  LET p      == Append(path, r)
                      value  == Get(obj, r)
                      record == shapeNested[p]
                  IN  IF Missing(value) THEN IF FromSql THEN Null ELSE value
                      ELSE IF ~JoinAt(q, p).many THEN record[value]
                      ELSE IF FromSql /\ ControlAt(p) = "groupBy"
                      THEN BagOf([x \in DOMAIN value |-> shapeBucket(value[x], record)])
                      ELSE BagOf([x \in DOMAIN value |-> record[value[x]]])]]

\* An object of an ORM as it is, with its lists as bags.
AsReturned[path \in plan.joins \cup {<<>>}] ==
    [obj \in ObjectsAt[path] |->
        [n \in DOMAIN obj |->
            LET p == Append(path, n) IN
            IF p \notin plan.joins \/ Missing(obj[n]) THEN obj[n]
            ELSE IF JoinAt(q, p).many THEN BagOf([x \in DOMAIN obj[n] |-> AsReturned[p][obj[n][x]]])
            ELSE AsReturned[p][obj[n]]]]

\* Without computed fields in the plan an answer is left as the resolver gave it.
applyComputedToPreshaped(obj) ==
    IF plan.computed = {} THEN AsReturned[<<>>][obj] ELSE shapeNested[<<>>][obj]

-----------------------------------------------------------------------------
(* The steps of a request.                                                   *)

ReadInit ==
    /\ RequestInit
    /\ db \in Databases
    /\ \E calls \in Registrations : registry = register(calls)
    \* an ORM has no relation for a polymorphic join
    /\ resolver = "orm" => \A path \in Paths(q) : resolveRefEntity(q, path) => ~PolymorphicAt(q, path)
    /\ data = Undefined
    /\ answer = Undefined

Prepare == (Plan \/ Strip) /\ UNCHANGED <<db, registry, data, answer>>

\* No resolver, and a SELECT of no columns or an aggregate without $groupBy, are errors.
ResolverFails ==
    \/ resolver = NoResolver
    \/ /\ FromSql
       /\ IF AggregateMode(q) THEN q.control.kind = "aggregate"
          ELSE plan.fields = {} /\ polymorphicEntityColumns = {} /\ plan.strategy = "flat"

Fetched ==
    CASE resolver = "orm"                                     -> buildPlanRelationTree
      [] FromSql /\ AggregateMode(q)                          -> buildAggregateSql
      [] FromSql /\ plan.strategy = "nested" /\ ~AggregateMode(q) -> buildNestedSelectSql
      [] OTHER                                                -> buildSelectSql

Resolve ==
    /\ stage = "stripped"
    /\ IF ResolverFails THEN stage' = "failed" /\ UNCHANGED data
       ELSE stage' = "fetched" /\ data' = Fetched
    /\ UNCHANGED <<q, plan, rules, db, registry, answer>>

\* Of several records a point read answers with the first, and of none with what its branch makes of it.
shapeResponse ==
    LET one(f, none) == IF DOMAIN f = {} THEN none ELSE f[CHOOSE x \in DOMAIN f : TRUE]
        preshaped    == [x \in DOMAIN data |-> applyComputedToPreshaped(data[x])]
        nested       == [x \in DOMAIN data |-> shapeNested[<<>>][data[x]]]
        flat         == injectComputedIntoFlatRows(data)
    IN  CASE resolver = "orm" ->
               IF ListRead THEN BagOf(preshaped)
               ELSE one(preshaped, applyComputedToPreshaped(EmptyRecord))
          [] FromSql /\ AggregateMode(q) -> shapeAggregateRows(data)
          [] FromSql /\ plan.strategy = "nested" /\ ~AggregateMode(q) ->
               IF ListRead THEN BagOf(nested) ELSE one(nested, Null)
          [] OTHER -> IF ListRead THEN shapeMany(flat) ELSE shape(flat)

Shape ==
    /\ stage = "fetched"
    /\ answer' = shapeResponse
    /\ stage' = "answered"
    /\ UNCHANGED <<q, plan, rules, db, registry, data>>

ReadNext == Prepare \/ Resolve \/ Shape

ReadSpec == ReadInit /\ [][ReadNext]_readVars

=============================================================================
