--------------------------- MODULE CollectionPages ---------------------------
(***************************************************************************)
(* A client walks the pages of a root collection while its rows change.    *)
(*                                                                         *)
(* One page is one run of @meshql/core's read path: normalize.ts completes *)
(* the order with the id, join-plan.ts picks the fetch strategy, the SQL   *)
(* builders (sqlite/src/builder.ts, postgres/src/builder.ts, and           *)
(* planner/sql-nested.ts) render predicate, ORDER BY and LIMIT, the shaper *)
(* groups joined rows into records, and result.ts cuts the page and makes  *)
(* the cursor the next request carries.                                    *)
(*                                                                         *)
(* A table row has an id, the one column a query may order by (its key),   *)
(* and a number of children a `many` relation joins.  Rows that $where     *)
(* rejects are rows that do not exist.  Root aggregates and point reads    *)
(* have no pages and are not modelled here.                                *)
(***************************************************************************)
EXTENDS Integers, FiniteSets, Sequences

CONSTANTS
  Ids,         \* ids a row can have
  Keys,        \* values of the ordering column
  Null,        \* SQL NULL, and what an absent value becomes in a cursor
  Absent,      \* no row has this id
  NoCursor,    \* a request without $page.after
  MaxKids,     \* bound: children of a row
  Queries,     \* the queries a client may walk with
  PageSizes,   \* the values of $page.first it may send (parsed: at least 1)
  MaxChanges   \* bound: changes to the table during a walk

ASSUME DomainAssumption ==
  /\ Ids \subseteq Int /\ Keys \subseteq Int /\ IsFiniteSet(Ids)
  /\ Null \notin Int /\ Absent \notin Int \cup {Null}
  /\ \A n \in {1, 2} : NoCursor \notin [1..n -> Int \cup {Null}]
  /\ PageSizes \subseteq Nat \ {0} /\ MaxKids \in Nat /\ MaxChanges \in Nat

(***************************************************************************)
(* What of a query matters to a walk: the client's $orderBy (nothing, or   *)
(* the key, or the id), which of the two columns $select names, the        *)
(* relation it selects ("none", a "plain" many relation, or one with       *)
(* "controls"), the dialect, and whether the column's values survive the   *)
(* driver and JSON exactly (a timestamp loses what is below a millisecond).*)
(***************************************************************************)
Entry == [field : {"key", "id"}, dir : {"asc", "desc"}, nulls : {"first", "last"}]

Query == [orderBy : {<<>>} \cup {<<e>> : e \in Entry}
                      \cup {<<e, f>> : e \in [field : {"key"}, dir : {"asc", "desc"},
                                              nulls : {"first", "last"}],
                                       f \in [field : {"id"}, dir : {"asc", "desc"},
                                              nulls : {"first", "last"}]},
          select : SUBSET {"key", "id"},
          relation : {"none", "plain", "controls"},
          dialect : {"sqlite", "postgres"},
          exact : BOOLEAN]

ASSUME QueryAssumption == Queries \subseteq Query

VARIABLES
  table,    \* id -> key of the row, Null or Absent
  kids,     \* id -> children the plain relation joins to the row
  query,    \* the query of this walk
  after,    \* values of the last cursor received
  ended,    \* pageInfo.hasNextPage was false
  changes,  \* changes to the table so far
  visited,  \* rows returned so far and not changed since
  again,    \* rows returned although they were already in visited
  stable    \* rows that were there at the start and have not changed

pagesVars == <<table, kids, query, after, ended, changes, visited, again, stable>>

-----------------------------------------------------------------------------
(* The query *)

(* appendIdTiebreaker *)
order ==
  LET given == query.orderBy
  IN IF \E i \in DOMAIN given : given[i].field = "id" THEN given
     ELSE Append(given, [field |-> "id", dir |-> "asc", nulls |-> "last"])

(* chooseFetchStrategy: controls on a many relation fetch it per parent. *)
Nested == query.relation = "controls"

Column(r, i) == IF order[i].field = "id" THEN r ELSE table[r]

(* NULLs come first: PostgreSQL is told, SQLite takes NULL for the least. *)
NullsFirst(i) ==
  IF query.dialect = "postgres" THEN order[i].nulls = "first" ELSE order[i].dir = "asc"

(* ORDER BY puts q's i-th column before r's. *)
Sorted(q, r, i) ==
  LET x == Column(q, i)
      y == Column(r, i)
  IN \/ x # Null /\ y # Null /\ (IF order[i].dir = "asc" THEN x < y ELSE x > y)
     \/ x = Null /\ y # Null /\ NullsFirst(i)
     \/ x # Null /\ y = Null /\ ~NullsFirst(i)

(* renderReadOrderBy *)
Before(q, r) ==
  \E i \in DOMAIN order : /\ Sorted(q, r, i)
                          /\ \A j \in 1..(i - 1) : Column(q, j) = Column(r, j)

(* The one operator of the row comparison, from the first column's direction. *)
AheadOrAt(x, v) == IF order[1].dir = "desc" THEN x <= v ELSE x >= v
AheadAscending(x, v) == x > v
Ahead(x, v) == IF order[1].dir = "desc" THEN x < v ELSE x > v

(***************************************************************************)
(* renderCursorPredicateSql: `(c1, c2) op (v1, v2)`.  SQL compares up to   *)
(* the first pair that is not equal; a NULL met on the way makes the       *)
(* comparison unknown, and WHERE drops the row.                            *)
(***************************************************************************)
Past(r, c) ==
  \E i \in DOMAIN order :
    /\ Column(r, i) # Null /\ c[i] # Null /\ Ahead(Column(r, i), c[i])
    /\ \A j \in 1..(i - 1) : Column(r, j) # Null /\ Column(r, j) = c[j]

(* A pair of keys shares a millisecond. *)
Millisecond(k) == 2 * (k \div 2)

(* buildCursorFromRow reads the SHAPED row: a column that was not selected is
   undefined there, which JSON turns into null. *)
CursorValue(r, i) ==
  LET v == Column(r, i)
  IN IF order[i].field \notin query.select \/ v = Null THEN Null
     ELSE IF order[i].field = "key" /\ ~query.exact THEN Millisecond(v)
     ELSE v

CursorOfGiven(r) == [i \in DOMAIN query.orderBy |-> CursorValue(r, i)]
Cursor(r) == [i \in DOMAIN order |-> CursorValue(r, i)]

-----------------------------------------------------------------------------
(* One page *)

Present == {r \in Ids : table[r] # Absent}
Matching == {r \in Present : after = NoCursor \/ Past(r, after)}

(* Rows of the statement: LEFT JOIN repeats a root for each child, and keeps
   one without; the correlated subqueries of the nested strategy do not. *)
Width(r) == IF query.relation = "plain" /\ kids[r] > 0 THEN kids[r] ELSE 1
Joined == {x \in Matching \X (1..(MaxKids + 1)) : x[2] <= Width(x[1])}

(* The possible results of ORDER BY ... LIMIT n on joined rows: SQL may order
   rows of one root as it likes. *)
Limit(rows, n) ==
  {top \in SUBSET rows :
     /\ Cardinality(top) = IF Cardinality(rows) < n THEN Cardinality(rows) ELSE n
     /\ \A x \in top, y \in rows \ top : ~Before(y[1], x[1])}

(* shapeMany: one record per root id among the rows. *)
Roots(rows) == {x[1] : x \in rows}

(* toCollectionResult keeps the first n of the records. *)
FirstOf(roots, n) ==
  {top \in SUBSET roots :
     /\ Cardinality(top) = IF Cardinality(roots) < n THEN Cardinality(roots) ELSE n
     /\ \A x \in top, y \in roots \ top : ~Before(y, x)}

(* The item the end cursor is built from. *)
IsLast(r, items) == r \in items /\ \A q \in items : ~Before(r, q)

PagesTypeOK ==
  /\ table \in [Ids -> Keys \cup {Null, Absent}]
  /\ kids \in [Ids -> 0..MaxKids]
  /\ query \in Queries
  /\ \/ after = NoCursor
     \/ /\ DOMAIN after = DOMAIN order
        /\ \A i \in DOMAIN order : after[i] \in Int \cup {Null}
  /\ ended \in BOOLEAN
  /\ changes \in 0..MaxChanges
  /\ again \subseteq Ids
  /\ visited \subseteq Present
  /\ stable \subseteq Present

PagesInit ==
  /\ table \in [Ids -> Keys \cup {Null, Absent}]
  /\ query \in Queries
  /\ kids \in IF query.relation = "plain" THEN [Ids -> 0..MaxKids] ELSE {[r \in Ids |-> 0]}
  /\ after = NoCursor
  /\ ended = FALSE
  /\ changes = 0
  /\ visited = {}
  /\ again = {}
  /\ stable = Present

FetchNoSentinel(n) ==
  /\ ~ended
  /\ \E rows \in Limit(Joined, n) : \E items \in FirstOf(Roots(rows), n) :
       /\ ended' = (Cardinality(Roots(rows)) <= n)
       /\ visited' = visited \cup items
       /\ again' = again \cup (items \cap visited)
       /\ IF items = {} THEN UNCHANGED after
          ELSE \E r \in Ids : IsLast(r, items) /\ after' = Cursor(r)
  /\ UNCHANGED <<table, kids, query, changes, stable>>

(***************************************************************************)
(* The client asks for the next page: it sends the last end cursor with a  *)
(* page size, until hasNextPage is false.  The LIMIT is one row more than  *)
(* the page (effectiveLimit), the sentinel that tells whether there is     *)
(* another.                                                                *)
(***************************************************************************)
FetchPage(n) ==
  /\ ~ended
  /\ \E rows \in Limit(Joined, n + 1) : \E items \in FirstOf(Roots(rows), n) :
       /\ ended' = (Cardinality(Roots(rows)) <= n)
       /\ visited' = visited \cup items
       /\ again' = again \cup (items \cap visited)
       /\ IF items = {} THEN UNCHANGED after
          ELSE \E r \in Ids : IsLast(r, items) /\ after' = Cursor(r)
  /\ UNCHANGED <<table, kids, query, changes, stable>>

(* Another client inserts, deletes or changes the key of row r. *)
Change(r) ==
  /\ changes < MaxChanges
  /\ changes' = changes + 1
  /\ \E k \in (Keys \cup {Null, Absent}) \ {table[r]} : table' = [table EXCEPT ![r] = k]
  /\ visited' = visited \ {r}
  /\ stable' = stable \ {r}
  /\ UNCHANGED <<kids, query, after, ended, again>>

PagesNext == (\E n \in PageSizes : FetchPage(n)) \/ (\E r \in Ids : Change(r))

(* The client goes on asking; nobody has to change rows. *)
PagesSpec ==
  PagesInit /\ [][PagesNext]_pagesVars /\ WF_pagesVars(\E n \in PageSizes : FetchPage(n))

-----------------------------------------------------------------------------
(* Properties *)

(* Every column of the order runs the way the comparison does. *)
Uniform == \A i \in DOMAIN order : order[i].dir = order[1].dir

(* No value of the cursor is rounded. *)
Lossless == query.exact \/ "key" \notin query.select \/ order[1].field = "id"

(* Every column of the order is selected and comes back as it was. *)
Faithful == Lossless /\ \A i \in DOMAIN order : order[i].field \in query.select

(* A row of the statement is a root row. *)
CountsRoots == query.relation # "plain"

(***************************************************************************)
(* A walk returns no unchanged row twice, whatever other rows come and go, *)
(* when the order runs one way and its columns come back as they were (a   *)
(* column that is not selected does no harm here).  With the id appended   *)
(* ascending to a descending key, rows of equal keys are returned again.   *)
(***************************************************************************)
NeverTwice == Uniform /\ Lossless => again = {}

(***************************************************************************)
(* When the walk ends, every row that was there all the time was returned, *)
(* if the statement counts root rows, the order runs one way, and its      *)
(* columns come back as they were; except rows whose key is NULL (no       *)
(* comparison selects them), and rows after a page that ended on a NULL    *)
(* when NULLs come first (the next page is empty).                         *)
(***************************************************************************)
HasNull(r) == \E i \in DOMAIN order : Column(r, i) = Null

StrandedByNull(r) ==
  HasNull(r) \/ (NullsFirst(1) /\ after # NoCursor /\ after[1] = Null)

StableRowsReturned ==
  ended /\ Uniform /\ Faithful /\ CountsRoots =>
    \A r \in stable \ visited : StrandedByNull(r)

(***************************************************************************)
(* A client that follows the cursors gets to the end, also over an order   *)
(* of mixed directions: the cursors only move one way.  A timestamp that   *)
(* lost its microseconds can bring the same page back for ever.            *)
(***************************************************************************)
WalkEnds == Lossless ~> ended

(***************************************************************************)
(* Why: what was returned is not ahead of the cursor, and what is still to *)
(* be returned is.                                                         *)
(***************************************************************************)
VisitedBehind ==
  /\ after = NoCursor => visited = {}
  /\ after # NoCursor => \A r \in visited : ~Past(r, after)

RemainingAhead ==
  \A r \in stable \ visited :
    StrandedByNull(r) \/ (~ended /\ (after = NoCursor \/ Past(r, after)))

PagesInv ==
  /\ PagesTypeOK
  /\ Uniform /\ Lossless => VisitedBehind /\ again = {}
  /\ Uniform /\ Faithful /\ CountsRoots => RemainingAhead

(***************************************************************************)
(* What the documentation promises of a walk over a table nobody changes   *)
(* and that holds no NULLs: all its rows, each once.  The root `$page`     *)
(* counts root rows (specs/05-read-controls.md) and `$page.after` goes on  *)
(* behind the cursor in the order of the read (specs/conformance.md).      *)
(***************************************************************************)
WalkIsExact ==
  ended /\ changes = 0 /\ (\A r \in Present : ~HasNull(r)) => visited = Present /\ again = {}

=============================================================================
