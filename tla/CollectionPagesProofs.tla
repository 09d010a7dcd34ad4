------------------------ MODULE CollectionPagesProofs ------------------------
(***************************************************************************)
(* What a walk returns, for any rows, queries, page sizes and number of    *)
(* changes: no row twice, and no row left out, under the conditions that   *)
(* NeverTwice and StableRowsReturned name.  PagesInv is inductive: what    *)
(* was returned is never ahead of the cursor, and what is still missing    *)
(* always is.                                                              *)
(***************************************************************************)
EXTENDS CollectionPages, FiniteSetTheorems, FunctionTheorems, SequenceTheorems, TLAPS

(* A completed order is the id, or the key and then the id. *)
Short == DOMAIN order = {1} /\ order[1].field = "id"
Long == DOMAIN order = {1, 2} /\ order[1].field = "key" /\ order[2].field = "id"

(* A second column behind a first. *)
LEMMA AppendToOne ==
  ASSUME NEW S, NEW x \in S, NEW y \in S
  PROVE  Append(<<x>>, y) = <<x, y>>
<1>1. <<x>> \in Seq(S) /\ Len(<<x>>) = 1 /\ <<x>>[1] = x
  OBVIOUS
<1>2. <<x, y>> \in Seq(S) /\ Len(<<x, y>>) = 2 /\ <<x, y>>[1] = x /\ <<x, y>>[2] = y
  OBVIOUS
<1>3. /\ Append(<<x>>, y) \in Seq(S) /\ Len(Append(<<x>>, y)) = 2
      /\ Append(<<x>>, y)[1] = x /\ Append(<<x>>, y)[2] = y
  BY <1>1, AppendProperties
<1> DEFINE s == Append(<<x>>, y)
           t == <<x, y>>
<1>4. s \in Seq(S) /\ t \in Seq(S) /\ Len(s) = Len(t)
  BY <1>2, <1>3
<1>5. \A i \in 1..Len(s) : s[i] = t[i]
  <2>1. 1..Len(s) = {1, 2}
    BY <1>3
  <2> QED
    BY <1>2, <1>3, <2>1
<1> HIDE DEF s, t
<1>6. s = t
  BY <1>4, <1>5, SeqEqual
<1> QED
  BY <1>6 DEF s, t

(* A completed order has one column, or two with the id as the second. *)
LEMMA OrderShape ==
  ASSUME query \in Queries
  PROVE  /\ Short \/ Long
         /\ \A i \in DOMAIN order : order[i].dir \in {"asc", "desc"}
<1> DEFINE given == query.orderBy
<1>1. query \in Query
  BY QueryAssumption
<1>2. CASE given = <<>>
  <2>1. order = <<[field |-> "id", dir |-> "asc", nulls |-> "last"]>>
    BY <1>2 DEF order
  <2> QED
    BY <2>1 DEF Short
<1>3. ASSUME NEW e \in Entry, given = <<e>>
      PROVE  /\ Short \/ Long
             /\ \A i \in DOMAIN order : order[i].dir \in {"asc", "desc"}
  <2>1. CASE e.field = "id"
    <3>1. order = <<e>>
      BY <1>3, <2>1 DEF order
    <3> QED
      BY <3>1, <2>1 DEF Short, Entry
  <2>2. CASE e.field = "key"
    <3> DEFINE idEntry == [field |-> "id", dir |-> "asc", nulls |-> "last"]
    <3>2. DOMAIN given = {1} /\ given[1].field # "id"
      BY <1>3, <2>2
    <3>3. order = Append(<<e>>, idEntry)
      BY <1>3, <3>2 DEF order
    <3>4. idEntry \in Entry
      BY DEF Entry
    <3> HIDE DEF idEntry
    <3>1. order = <<e, idEntry>>
      BY <3>3, <3>4, AppendToOne
    <3> USE DEF idEntry
    <3> QED
      BY <3>1, <2>2 DEF Long, Entry
  <2> QED
    BY <2>1, <2>2 DEF Entry
<1>4. ASSUME NEW e \in [field : {"key"}, dir : {"asc", "desc"}, nulls : {"first", "last"}],
             NEW f \in [field : {"id"}, dir : {"asc", "desc"}, nulls : {"first", "last"}],
             given = <<e, f>>
      PROVE  /\ Short \/ Long
             /\ \A i \in DOMAIN order : order[i].dir \in {"asc", "desc"}
  <2>1. order = <<e, f>>
    BY <1>4 DEF order
  <2> QED
    BY <2>1, <1>4 DEF Long
<1> QED
  BY <1>1, <1>2, <1>3, <1>4 DEF Query

(* Ordering columns hold numbers or NULL, and the id is never NULL. *)
LEMMA ColumnType ==
  ASSUME PagesTypeOK, NEW r \in Present, NEW i \in DOMAIN order
  PROVE  /\ Column(r, i) \in Int \cup {Null}
         /\ order[i].field = "id" => Column(r, i) = r /\ r \in Int /\ r # Null
BY DomainAssumption DEF PagesTypeOK, Present, Column

(* The two comparisons, column by column. *)
LEMMA PastByColumn ==
  ASSUME PagesTypeOK, NEW r, NEW c
  PROVE  Past(r, c) <=>
           \/ Column(r, 1) # Null /\ c[1] # Null /\ Ahead(Column(r, 1), c[1])
           \/ /\ Long
              /\ Column(r, 1) # Null /\ Column(r, 1) = c[1]
              /\ Column(r, 2) # Null /\ c[2] # Null /\ Ahead(Column(r, 2), c[2])
<1>1. Short \/ Long
  BY OrderShape DEF PagesTypeOK
<1>2. 1..(1 - 1) = {} /\ 1..(2 - 1) = {1}
  OBVIOUS
<1>3. CASE Short
  BY <1>2, <1>3 DEF Past, Short, Long
<1>4. CASE Long
  BY <1>2, <1>4 DEF Past, Long
<1> QED
  BY <1>1, <1>3, <1>4

(* The order compares the first column, and the second where the first is equal. *)
LEMMA BeforeByColumn ==
  ASSUME PagesTypeOK, NEW q, NEW r
  PROVE  Before(q, r) <=>
           \/ Sorted(q, r, 1)
           \/ Long /\ Column(q, 1) = Column(r, 1) /\ Sorted(q, r, 2)
<1>1. Short \/ Long
  BY OrderShape DEF PagesTypeOK
<1>2. 1..(1 - 1) = {} /\ 1..(2 - 1) = {1}
  OBVIOUS
<1>3. CASE Short
  BY <1>2, <1>3 DEF Before, Short, Long
<1>4. CASE Long
  BY <1>2, <1>4 DEF Before, Long
<1> QED
  BY <1>1, <1>3, <1>4

(* A cursor has a value for each ordering column. *)
LEMMA CursorType ==
  ASSUME PagesTypeOK, NEW r \in Present
  PROVE  /\ DOMAIN Cursor(r) = DOMAIN order
         /\ \A i \in DOMAIN order : Cursor(r)[i] \in Int \cup {Null}
         /\ Lossless => \A i \in DOMAIN order : Cursor(r)[i] \in {Null, Column(r, i)}
         /\ Faithful => \A i \in DOMAIN order : Cursor(r)[i] = Column(r, i)
<1>1. \A k \in Int : Millisecond(k) \in Int
  BY DEF Millisecond
<1>2. \A i \in DOMAIN order : CursorValue(r, i) \in Int \cup {Null}
  BY <1>1, ColumnType DEF CursorValue
<1>3. ASSUME Lossless, NEW i \in DOMAIN order
      PROVE  CursorValue(r, i) \in {Null, Column(r, i)}
  <2>1. Short \/ Long
    BY OrderShape DEF PagesTypeOK
  <2> QED
    BY <1>3, <2>1 DEF CursorValue, Lossless, Short, Long
<1>4. ASSUME Faithful, NEW i \in DOMAIN order
      PROVE  CursorValue(r, i) = Column(r, i)
  <2>1. Short \/ Long
    BY OrderShape DEF PagesTypeOK
  <2> QED
    BY <1>4, <2>1 DEF CursorValue, Faithful, Lossless, Short, Long
<1> QED
  BY <1>2, <1>3, <1>4 DEF Cursor

(* Two rows are never at the same place of the order. *)
LEMMA BeforeIsTotal ==
  ASSUME PagesTypeOK, NEW q \in Present, NEW r \in Present, q # r
  PROVE  Before(q, r) \/ Before(r, q)
<1>1. \A i \in DOMAIN order : order[i].dir \in {"asc", "desc"}
  BY OrderShape DEF PagesTypeOK
<1>2. CASE Short
  <2>1. 1 \in DOMAIN order
    BY <1>2 DEF Short
  <2> QED
    BY <1>1, <1>2, <2>1, ColumnType, BeforeByColumn DEF Short, Sorted
<1>3. CASE Long
  <2>1. 1 \in DOMAIN order /\ 2 \in DOMAIN order
    BY <1>3 DEF Long
  <2>2. /\ Column(q, 1) \in Int \cup {Null} /\ Column(r, 1) \in Int \cup {Null}
        /\ Column(q, 2) = q /\ Column(r, 2) = r /\ q \in Int /\ r \in Int
        /\ q # Null /\ r # Null
    BY <1>3, <2>1, ColumnType DEF Long
  <2>3. Sorted(q, r, 2) \/ Sorted(r, q, 2)
    BY <1>1, <2>1, <2>2 DEF Sorted
  <2>4. Column(q, 1) = Column(r, 1) \/ Sorted(q, r, 1) \/ Sorted(r, q, 1)
    BY <1>1, <2>1, <2>2 DEF Sorted
  <2> QED
    BY <1>3, <2>3, <2>4, BeforeByColumn
<1> QED
  BY <1>2, <1>3, OrderShape DEF PagesTypeOK

(* What is past the cursor of e comes after e. *)
LEMMA PastComesAfter ==
  ASSUME PagesTypeOK, Uniform, Lossless, NEW e \in Present, NEW r \in Present,
         Past(r, Cursor(e))
  PROVE  Before(e, r)
<1>1. /\ \A i \in DOMAIN order : order[i].dir = order[1].dir
      /\ \A i \in DOMAIN order : order[i].dir \in {"asc", "desc"}
  BY OrderShape DEF PagesTypeOK, Uniform
<1>2. \A i \in DOMAIN order : Cursor(e)[i] \in {Null, Column(e, i)}
  BY CursorType
<1>3. CASE Short
  <2>1. 1 \in DOMAIN order /\ ~Long
    BY <1>3 DEF Short, Long
  <2> QED
    BY <1>1, <1>2, <2>1, ColumnType, PastByColumn, BeforeByColumn DEF Sorted, Ahead
<1>4. CASE Long
  <2>1. 1 \in DOMAIN order /\ 2 \in DOMAIN order
    BY <1>4 DEF Long
  <2> QED
    BY <1>1, <1>2, <1>4, <2>1, ColumnType, PastByColumn, BeforeByColumn DEF Sorted, Ahead
<1> QED
  BY <1>3, <1>4, OrderShape DEF PagesTypeOK

(* What comes after e is past its cursor, unless a NULL is in the way. *)
LEMMA AfterIsPast ==
  ASSUME PagesTypeOK, Uniform, Faithful, NEW e \in Present, NEW r \in Present,
         Before(e, r), ~HasNull(r)
  PROVE  Past(r, Cursor(e)) \/ (NullsFirst(1) /\ Cursor(e)[1] = Null)
<1>1. /\ \A i \in DOMAIN order : order[i].dir = order[1].dir
      /\ \A i \in DOMAIN order : order[i].dir \in {"asc", "desc"}
  BY OrderShape DEF PagesTypeOK, Uniform
<1>2. \A i \in DOMAIN order : Cursor(e)[i] = Column(e, i)
  BY CursorType
<1>3. \A i \in DOMAIN order : Column(r, i) # Null
  BY DEF HasNull
<1>4. CASE Short
  <2>1. 1 \in DOMAIN order /\ ~Long
    BY <1>4 DEF Short, Long
  <2> QED
    BY <1>1, <1>2, <1>3, <2>1, ColumnType, PastByColumn, BeforeByColumn DEF Sorted, Ahead
<1>5. CASE Long
  <2>1. 1 \in DOMAIN order /\ 2 \in DOMAIN order /\ order[2].field = "id"
    BY <1>5 DEF Long
  <2>2. Column(e, 2) # Null
    BY <2>1, ColumnType
  <2> QED
    BY <1>1, <1>2, <1>3, <1>5, <2>1, <2>2, ColumnType, PastByColumn, BeforeByColumn
       DEF Sorted, Ahead
<1> QED
  BY <1>4, <1>5, OrderShape DEF PagesTypeOK

(* Cursors move one way: what is past a later one is past an earlier one. *)
LEMMA PastIsTransitive ==
  ASSUME PagesTypeOK, Lossless, after # NoCursor, NEW e \in Present, NEW r \in Present,
         Past(e, after), Past(r, Cursor(e))
  PROVE  Past(r, after)
<1>1. \A i \in DOMAIN order : Cursor(e)[i] \in {Null, Column(e, i)}
  BY CursorType
<1>2. \A i \in DOMAIN order : after[i] \in Int \cup {Null}
  BY DEF PagesTypeOK
<1>3. CASE Short
  <2>1. 1 \in DOMAIN order /\ ~Long
    BY <1>3 DEF Short, Long
  <2> QED
    BY <1>1, <1>2, <2>1, ColumnType, PastByColumn DEF Ahead
<1>4. CASE Long
  <2>1. 1 \in DOMAIN order /\ 2 \in DOMAIN order
    BY <1>4 DEF Long
  <2> QED
    BY <1>1, <1>2, <1>4, <2>1, ColumnType, PastByColumn DEF Ahead
<1> QED
  BY <1>3, <1>4, OrderShape DEF PagesTypeOK

-----------------------------------------------------------------------------
(* The invariant *)

(***************************************************************************)
(* What one page does.  Where the statement counts root rows, a matching   *)
(* row outside the page is behind none of its items, and the page is not   *)
(* the last one.                                                           *)
(***************************************************************************)
LEMMA PageFacts ==
  ASSUME PagesTypeOK, NEW n \in PageSizes, FetchPage(n)
  PROVE  \E items \in SUBSET Matching :
           /\ visited' = visited \cup items
           /\ again' = again \cup (items \cap visited)
           /\ \/ items = {} /\ UNCHANGED after
              \/ \E e \in items : IsLast(e, items) /\ after' = Cursor(e)
           /\ CountsRoots => \A r \in Matching \ items :
                ~ended' /\ items # {} /\ \A q \in items : ~Before(r, q)
<1>1. PICK rows \in Limit(Joined, n + 1) : \E items \in FirstOf(Roots(rows), n) :
        /\ ended' = (Cardinality(Roots(rows)) <= n)
        /\ visited' = visited \cup items
        /\ again' = again \cup (items \cap visited)
        /\ IF items = {} THEN UNCHANGED after
           ELSE \E r \in Ids : IsLast(r, items) /\ after' = Cursor(r)
  BY DEF FetchPage
<1>2. PICK items \in FirstOf(Roots(rows), n) :
        /\ ended' = (Cardinality(Roots(rows)) <= n)
        /\ visited' = visited \cup items
        /\ again' = again \cup (items \cap visited)
        /\ IF items = {} THEN UNCHANGED after
           ELSE \E r \in Ids : IsLast(r, items) /\ after' = Cursor(r)
  BY <1>1
<1>3. /\ rows \subseteq Joined /\ items \subseteq Roots(rows)
      /\ Roots(rows) \subseteq Matching
  BY DEF Limit, FirstOf, Roots, Joined
<1>4. n \in Nat /\ n > 0
  BY DomainAssumption
<1>5. ASSUME CountsRoots, NEW r \in Matching \ items
      PROVE  ~ended' /\ items # {} /\ \A q \in items : ~Before(r, q)
  <2>1. \A x \in Joined : x[2] = 1 /\ x = <<x[1], 1>>
    BY <1>5, <1>4 DEF Joined, Width, CountsRoots
  <2>2. <<r, 1>> \in Joined
    BY <1>5, DomainAssumption DEF Joined, Width, CountsRoots
  <2>3. IsFiniteSet(Joined)
    <3>1. Matching \subseteq Ids
      BY DEF Matching, Present
    <3>5. IsFiniteSet(Matching)
      BY <3>1, FS_Subset, DomainAssumption
    <3>6. 1 \in Int /\ MaxKids + 1 \in Int
      BY DomainAssumption
    <3>2. IsFiniteSet(Matching) /\ IsFiniteSet(1..(MaxKids + 1))
      BY <3>5, <3>6, FS_Interval
    <3>3. IsFiniteSet(Matching \X (1..(MaxKids + 1)))
      BY <3>2, FS_Product
    <3>4. Joined \subseteq Matching \X (1..(MaxKids + 1))
      BY DEF Joined
    <3> QED
      BY <3>3, <3>4, FS_Subset
  <2>4. /\ IsFiniteSet(rows) /\ IsFiniteSet(Roots(rows))
        /\ Cardinality(Roots(rows)) = Cardinality(rows)
    <3>1. IsFiniteSet(rows)
      BY <1>3, <2>3, FS_Subset
    <3> DEFINE root == [x \in rows |-> x[1]]
    <3>2. root \in Bijection(rows, Roots(rows))
      <4>1. root \in [rows -> Roots(rows)]
        BY DEF Roots
      <4>2. \A x, y \in rows : root[x] = root[y] => x = y
        BY <1>3, <2>1
      <4>3. \A q \in Roots(rows) : \E x \in rows : root[x] = q
        BY DEF Roots
      <4> QED
        BY <4>1, <4>2, <4>3, Fun_IsBij
    <3>3. ExistsBijection(rows, Roots(rows))
      BY <3>2 DEF ExistsBijection
    <3> QED
      BY <3>1, <3>3, FS_Bijection
  <2>5. /\ Cardinality(Joined) \in Nat /\ Cardinality(rows) \in Nat
        /\ Cardinality(rows) = IF Cardinality(Joined) < n + 1 THEN Cardinality(Joined)
                                                              ELSE n + 1
        /\ Cardinality(items) = IF Cardinality(rows) < n THEN Cardinality(rows) ELSE n
    BY <2>3, <2>4, FS_CardinalityType DEF Limit, FirstOf
  <2>6. ~ended'
    <3>1. SUFFICES ASSUME Cardinality(rows) <= n PROVE FALSE
      BY <1>2, <2>4
    <3>2. rows = Joined
      BY <1>3, <1>4, <2>3, <2>5, <3>1, FS_Subset
    <3>3. items = Roots(rows)
      BY <1>3, <1>4, <2>4, <2>5, <3>1, FS_Subset
    <3> QED
      BY <2>2, <3>2, <3>3, <1>5 DEF Roots
  <2>7. items # {}
    <3>1. SUFFICES ASSUME items = {} PROVE FALSE
      OBVIOUS
    <3>2. Cardinality(rows) = 0
      BY <3>1, <1>4, <2>5, FS_EmptySet
    <3>3. Joined = {}
      BY <3>2, <1>4, <2>3, <2>5, FS_EmptySet
    <3> QED
      BY <3>3, <2>2
  <2>8. ASSUME NEW q \in items
        PROVE  ~Before(r, q)
    <3>1. <<q, 1>> \in rows
      BY <1>3, <2>1 DEF Roots
    <3>2. CASE <<r, 1>> \in rows
      BY <3>2, <1>5 DEF FirstOf, Roots
    <3>3. CASE <<r, 1>> \notin rows
      <4>1. ~Before(<<r, 1>>[1], <<q, 1>>[1])
        BY <3>1, <3>3, <2>2 DEF Limit
      <4> QED
        BY <4>1
    <3> QED
      BY <3>2, <3>3
  <2> QED
    BY <2>6, <2>7, <2>8
<1>6. \/ items = {} /\ UNCHANGED after
      \/ \E e \in items : IsLast(e, items) /\ after' = Cursor(e)
  BY <1>2 DEF IsLast
<1> QED
  BY <1>2, <1>3, <1>5, <1>6

(* A cursor is not mistaken for none. *)
LEMMA CursorIsOne ==
  ASSUME PagesTypeOK, NEW r \in Present
  PROVE  Cursor(r) # NoCursor
<1>1. Cursor(r) \in [DOMAIN order -> Int \cup {Null}]
  BY CursorType DEF Cursor
<1>2. DOMAIN order = 1..1 \/ DOMAIN order = 1..2
  BY OrderShape DEF PagesTypeOK, Short, Long
<1> QED
  BY <1>1, <1>2, DomainAssumption

(* Fetching a page moves the cursor past what was returned, and past nothing else. *)
LEMMA FetchKeeps ==
  ASSUME PagesInv, NEW n \in PageSizes, FetchPage(n)
  PROVE  PagesInv'
<1> USE DEF PagesInv
<1>1. PICK items \in SUBSET Matching :
        /\ visited' = visited \cup items
        /\ again' = again \cup (items \cap visited)
        /\ \/ items = {} /\ UNCHANGED after
           \/ \E e \in items : IsLast(e, items) /\ after' = Cursor(e)
        /\ CountsRoots => \A r \in Matching \ items :
             ~ended' /\ items # {} /\ \A q \in items : ~Before(r, q)
  BY PageFacts
<1>2. UNCHANGED <<table, kids, query, changes, stable>> /\ ended' \in BOOLEAN
  BY DEF FetchPage
<1>3. /\ order' = order /\ Present' = Present
      /\ Uniform' = Uniform /\ Lossless' = Lossless /\ Faithful' = Faithful
      /\ CountsRoots' = CountsRoots /\ NullsFirst(1)' = NullsFirst(1)
      /\ \A r : HasNull(r)' = HasNull(r)
      /\ \A r, c : Past(r, c)' = Past(r, c)
  BY <1>2 DEF order, Present, Uniform, Lossless, Faithful, CountsRoots, NullsFirst, HasNull,
              Past, Ahead, Column
<1>4. Matching \subseteq Present /\ visited \subseteq Present /\ stable \subseteq Present
  BY DEF Matching, PagesTypeOK
<1>5. PagesTypeOK'
  <2>1. \/ UNCHANGED after
        \/ DOMAIN after' = DOMAIN order /\ \A i \in DOMAIN order : after'[i] \in Int \cup {Null}
    BY <1>1, <1>4, CursorType
  <2> QED
    BY <1>1, <1>2, <1>3, <1>4, <2>1 DEF PagesTypeOK, Present
<1>6. ASSUME Uniform, Lossless
      PROVE  VisitedBehind' /\ again' = {}
  <2>1. VisitedBehind /\ again = {}
    BY <1>6
  <2>2. items \cap visited = {}
    BY <2>1 DEF VisitedBehind, Matching
  <2>3. CASE items = {} /\ UNCHANGED after
    BY <1>1, <1>3, <2>1, <2>3 DEF VisitedBehind
  <2>4. ASSUME NEW e \in items, IsLast(e, items), after' = Cursor(e)
        PROVE  VisitedBehind'
    <3>1. e \in Present /\ after' # NoCursor
      BY <1>4, <2>4, CursorIsOne
    <3>2. ASSUME NEW r \in items
          PROVE  ~Past(r, Cursor(e))
      BY <1>4, <1>6, <2>4, <3>1, <3>2, PastComesAfter DEF IsLast
    <3>3. ASSUME NEW r \in visited
          PROVE  ~Past(r, Cursor(e))
      <4>1. after # NoCursor /\ ~Past(r, after) /\ Past(e, after)
        BY <2>1, <2>4, <3>3 DEF VisitedBehind, Matching
      <4> QED
        BY <1>4, <1>6, <3>1, <4>1, PastIsTransitive
    <3> QED
      BY <1>1, <1>3, <2>4, <3>1, <3>2, <3>3 DEF VisitedBehind
  <2> QED
    BY <1>1, <2>1, <2>2, <2>3, <2>4
<1>7. ASSUME Uniform, Faithful, CountsRoots
      PROVE  RemainingAhead'
  <2> SUFFICES ASSUME NEW r \in stable, r \notin visited, r \notin items, ~HasNull(r)
               PROVE  \/ NullsFirst(1) /\ after' # NoCursor /\ after'[1] = Null
                      \/ ~ended' /\ (after' = NoCursor \/ Past(r, after'))
    BY <1>1, <1>2, <1>3 DEF RemainingAhead, StrandedByNull
  <2>1. \/ NullsFirst(1) /\ after # NoCursor /\ after[1] = Null
        \/ r \in Matching
    BY <1>4, <1>7 DEF RemainingAhead, StrandedByNull, Matching
  <2>2. CASE NullsFirst(1) /\ after # NoCursor /\ after[1] = Null
    <3>1. \A q : ~Past(q, after)
      BY <2>2, PastByColumn
    <3>2. Matching = {}
      BY <2>2, <3>1 DEF Matching
    <3> QED
      BY <1>1, <2>2, <3>2
  <2>3. CASE r \in Matching
    <3>1. ~ended' /\ items # {} /\ \A q \in items : ~Before(r, q)
      BY <1>1, <1>7, <2>3
    <3>2. PICK e \in items : after' = Cursor(e)
      BY <1>1, <3>1
    <3>3. e \in Present /\ r \in Present /\ e # r /\ after' # NoCursor
      BY <1>4, <3>2, CursorIsOne
    <3>4. Before(e, r)
      BY <3>1, <3>3, BeforeIsTotal
    <3> QED
      BY <1>7, <3>1, <3>2, <3>3, <3>4, AfterIsPast
  <2> QED
    BY <2>1, <2>2, <2>3
<1> QED
  BY <1>3, <1>5, <1>6, <1>7

(* A row that another client changes no longer counts as one that stayed. *)
LEMMA ChangeKeeps ==
  ASSUME PagesInv, NEW r \in Ids, Change(r)
  PROVE  PagesInv'
<1> USE DEF PagesInv
<1>1. PICK k \in Keys \cup {Null, Absent} : table' = [table EXCEPT ![r] = k]
  BY DEF Change
<1>2. /\ UNCHANGED <<kids, query, after, ended, again>>
      /\ visited' = visited \ {r} /\ stable' = stable \ {r}
      /\ changes' \in 0..MaxChanges
  BY DomainAssumption DEF Change, PagesTypeOK
<1>3. /\ order' = order /\ Uniform' = Uniform /\ Lossless' = Lossless
      /\ Faithful' = Faithful /\ CountsRoots' = CountsRoots
      /\ NullsFirst(1)' = NullsFirst(1)
  BY <1>2 DEF order, Uniform, Lossless, Faithful, CountsRoots, NullsFirst
<1>4. \A q \in Ids \ {r} : table'[q] = table[q] /\ (q \in Present' <=> q \in Present)
  BY <1>1 DEF Present, PagesTypeOK
<1>5. /\ visited \subseteq Ids /\ stable \subseteq Ids
      /\ visited \subseteq Present /\ stable \subseteq Present
  BY DEF PagesTypeOK, Present
<1>6. \A q \in Ids \ {r} : \A i : Column(q, i)' = Column(q, i)
  BY <1>3, <1>4 DEF Column
<1>7. \A q \in Ids \ {r} : Past(q, after)' = Past(q, after) /\ HasNull(q)' = HasNull(q)
  BY <1>2, <1>3, <1>6 DEF Past, HasNull, Ahead
<1>8. PagesTypeOK'
  <2>1. table' \in [Ids -> Keys \cup {Null, Absent}]
    BY <1>1 DEF PagesTypeOK
  <2>2. visited' \subseteq Present' /\ stable' \subseteq Present'
    BY <1>2, <1>4, <1>5
  <2> QED
    BY <1>2, <1>3, <2>1, <2>2 DEF PagesTypeOK
<1>9. ASSUME Uniform, Lossless
      PROVE  VisitedBehind' /\ again' = {}
  BY <1>2, <1>5, <1>7, <1>9 DEF VisitedBehind
<1>10. ASSUME Uniform, Faithful, CountsRoots
       PROVE  RemainingAhead'
  BY <1>2, <1>3, <1>5, <1>7, <1>10 DEF RemainingAhead, StrandedByNull
<1> QED
  BY <1>3, <1>8, <1>9, <1>10

(* A walk begins with nothing returned and everything ahead. *)
LEMMA InitEstablishes == PagesInit => PagesInv
<1> SUFFICES ASSUME PagesInit PROVE PagesInv
  OBVIOUS
<1>1. PagesTypeOK
  <2>1. kids \in [Ids -> 0..MaxKids]
    BY DomainAssumption DEF PagesInit
  <2>2. 0 \in 0..MaxChanges
    BY DomainAssumption
  <2>3. /\ table \in [Ids -> Keys \cup {Null, Absent}]
        /\ query \in Queries /\ after = NoCursor /\ ended = FALSE /\ changes = 0
        /\ visited = {} /\ again = {} /\ stable = Present
    BY DEF PagesInit
  <2> QED
    BY <2>1, <2>2, <2>3 DEF PagesTypeOK
<1>2. VisitedBehind /\ again = {} /\ RemainingAhead
  BY DEF PagesInit, VisitedBehind, RemainingAhead
<1> QED
  BY <1>1, <1>2 DEF PagesInv

(***************************************************************************)
(* The invariant of a walk: rows returned are not ahead of the cursor, and *)
(* the rows still missing are.                                             *)
(***************************************************************************)
THEOREM WalkInvariant == PagesSpec => []PagesInv
<1>1. PagesInv /\ [PagesNext]_pagesVars => PagesInv'
  <2> SUFFICES ASSUME PagesInv, [PagesNext]_pagesVars PROVE PagesInv'
    OBVIOUS
  <2>1. ASSUME NEW n \in PageSizes, FetchPage(n)
        PROVE  PagesInv'
    BY <2>1, FetchKeeps
  <2>2. ASSUME NEW r \in Ids, Change(r)
        PROVE  PagesInv'
    BY <2>2, ChangeKeeps
  <2>3. CASE UNCHANGED pagesVars
    <3>1. /\ UNCHANGED <<table, kids, query, after, ended, changes, visited, again, stable>>
          /\ order' = order /\ Present' = Present
      BY <2>3 DEF pagesVars, order, Present
    <3>2. /\ Uniform' = Uniform /\ Lossless' = Lossless /\ Faithful' = Faithful
          /\ CountsRoots' = CountsRoots /\ NullsFirst(1)' = NullsFirst(1)
          /\ \A r : HasNull(r)' = HasNull(r)
          /\ \A r : Past(r, after)' = Past(r, after)
      BY <3>1 DEF Uniform, Lossless, Faithful, CountsRoots, NullsFirst, HasNull, Past, Ahead,
                  Column
    <3>3. PagesTypeOK'
      BY <3>1 DEF PagesInv, PagesTypeOK
    <3> QED
      BY <3>1, <3>2, <3>3 DEF PagesInv, VisitedBehind, RemainingAhead, StrandedByNull
  <2> QED
    BY <2>1, <2>2, <2>3 DEF PagesNext
<1> QED
  BY <1>1, InitEstablishes, PTL DEF PagesSpec

(***************************************************************************)
(* No unchanged row is returned twice in a walk whose order runs one way   *)
(* and whose cursors carry the columns' values as they are.                *)
(***************************************************************************)
THEOREM RowsAtMostOnce == PagesSpec => []NeverTwice
<1>1. PagesInv => NeverTwice
  BY DEF PagesInv, NeverTwice
<1> QED
  BY <1>1, WalkInvariant, PTL

(***************************************************************************)
(* A walk that has ended returned every row that was there throughout, if  *)
(* the statement counts root rows and the order runs one way over selected *)
(* columns, but for rows a NULL kept out.                                  *)
(***************************************************************************)
THEOREM RowsAtLeastOnce == PagesSpec => []StableRowsReturned
<1>1. PagesInv => StableRowsReturned
  BY DEF PagesInv, StableRowsReturned, RemainingAhead
<1> QED
  BY <1>1, WalkInvariant, PTL

=============================================================================
