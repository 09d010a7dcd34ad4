-------------------------- MODULE MCCollectionPages --------------------------
(* Instances of CollectionPages for TLC. *)
EXTENDS CollectionPages

By(f, d, n) == [field |-> f, dir |-> d, nulls |-> n]

Walk(o, s, rel, dia, ex) ==
  [orderBy |-> o, select |-> s, relation |-> rel, dialect |-> dia, exact |-> ex]

(* Every order a client can ask for, with every treatment of NULLs. *)
Orders ==
  {<<>>, <<By("id", "desc", "last")>>}
    \cup {<<By("key", d, n)>> : d \in {"asc", "desc"}, n \in {"first", "last"}}
    \cup {<<By("key", d, n), By("id", "desc", "last")>> : d \in {"asc", "desc"},
                                                          n \in {"first", "last"}}

NullsLastOrders == {o \in Orders : \A i \in DOMAIN o : o[i].nulls = "last"}

AllQueries ==
  {Walk(o, {"key", "id"}, "none", "postgres", TRUE) : o \in Orders}
    \cup {Walk(o, {"key", "id"}, "none", "sqlite", TRUE) : o \in NullsLastOrders}
    \cup {Walk(o, s, "none", "postgres", TRUE) : o \in NullsLastOrders, s \in {{"key"}, {"id"}}}
    \cup {Walk(o, {"key", "id"}, "controls", "sqlite", FALSE) : o \in NullsLastOrders}
    \cup {Walk(<<By("key", "asc", "last")>>, {"key", "id"}, "plain", "postgres", TRUE)}

(* docs/client.md: ordered by a column the selection leaves out. *)
DocumentedQuery ==
  {Walk(<<By("key", "desc", "last")>>, {"id"}, "none", "postgres", TRUE)}

=============================================================================
