---------------------------- MODULE MCReadAnswers ----------------------------
(* A blog for ReadAnswers: posts, users, comments, and series of posts.        *)
EXTENDS ReadAnswers

SomeEntities == {"post", "user", "comment", "series"}
SomeTables   == [e \in SomeEntities |->
    CASE e = "post" -> "posts" [] e = "user" -> "users" [] e = "comment" -> "remarks" [] OTHER -> "series"]
SomeFields   == [e \in SomeEntities |->
    CASE e \in {"post", "series"} -> {"id", "title"} [] e = "user" -> {"id", "name"} [] OTHER -> {"id", "body", "note"}]
SomeComputed == [e \in SomeEntities |->
    CASE e = "post" -> [label |-> {<<"title">>, <<"author", "name">>}]
      [] e = "user" -> [shout |-> {<<"name">>}, latest |-> {<<"posts", "title">>}]
      [] OTHER -> <<>>]

SomeSingulars == [s \in {"posts", "comments", "news"} |->
    CASE s = "posts" -> "post" [] s = "comments" -> "comment" [] OTHER -> "new"]

One(e)  == [targets |-> <<e>>, many |-> FALSE, through |-> FALSE, polymorphic |-> FALSE]
Many(e) == [One(e) EXCEPT !.many = TRUE]
SomeJoins ==
    (<<"post", "author">> :> One("user")) @@ (<<"post", "comments">> :> Many("comment"))
    @@ (<<"comment", "author">> :> One("user")) @@ (<<"comment", "post">> :> One("post"))
    @@ (<<"user", "posts">> :> Many("post")) @@ (<<"series", "posts">> :> Many("post"))
    @@ (<<"user", "friends">> :> [Many("user") EXCEPT !.through = TRUE])
    @@ (<<"comment", "comments">> :> Many("comment"))
    @@ (<<"comment", "about">> :> [One("post") EXCEPT !.targets = <<"post", "user">>, !.polymorphic = TRUE])

Q(name, root, fields) ==
    [name |-> name, root |-> root, fields |-> fields, control |-> [at |-> <<>>, kind |-> NoControl], id |-> NoId]

Plain == {
    Q("post", "post", <<>> :> {"title", "label"}),
    Q("posts", "post", (<<>> :> {"title", "label"}) @@ (<<"author">> :> {"name"})),
    Q("post", "post", (<<>> :> {"id", "label"}) @@ (<<"author">> :> {"name", "shout"})),
    Q("post", "post", (<<>> :> {"title"}) @@ (<<"author">> :> {"name"})
        @@ (<<"comments">> :> {"body"}) @@ (<<"comments", "author">> :> {"name", "shout"})),
    Q("post", "post", (<<>> :> {"title"}) @@ (<<"author">> :> {"name"}) @@ (<<"author", "friends">> :> {"name"})
        @@ (<<"author", "friends", "posts">> :> {"title"})),
    Q("user", "user", (<<>> :> {"name"}) @@ (<<"posts">> :> {"title", "label"})
        @@ (<<"posts", "comments">> :> {"body"}) @@ (<<"friends">> :> {"shout"})),
    Q("user", "user", (<<>> :> {"shout"}) @@ (<<"friends">> :> {"name"}) @@ (<<"friends", "posts">> :> {"title"})),
    Q("comment", "comment", (<<>> :> {"body"}) @@ (<<"about">> :> {"title"}) @@ (<<"author">> :> {"id", "name"})),
    Q("comment", "comment", (<<>> :> {"body"}) @@ (<<"about">> :> {"title"}) @@ (<<"about", "author">> :> {"name"})),
    Q("post", "post", (<<>> :> {"title"}) @@ (<<"comments">> :> {"body"}) @@ (<<"comments", "post">> :> {"title"})),
    Q("post", "post", (<<>> :> {"title"}) @@ (<<"author">> :> {"name"}) @@ (<<"author", "friends">> :> {"name"})),
    Q("post", "post", (<<>> :> {"title"}) @@ (<<"comments">> :> {"body"}) @@ (<<"comments", "about">> :> {"title"})),
    Q("post", "post", <<>> :> {"title"}),
    Q("comment", "comment", (<<>> :> {"note"}) @@ (<<"post">> :> {"id"}) @@ (<<"post", "comments">> :> {"body", "note"})),
    Q("user", "user", <<>> :> {"title"}),
    Q("user", "user", <<>> :> {"latest"}),
    Q("comments", "comment", <<>> :> {"body"}),
    Q("comments", "comment", (<<>> :> {"body"}) @@ (<<"comments">> :> {"body"})),
    Q("series", "series", (<<>> :> {"title"}) @@ (<<"posts">> :> {"title"})),
    Q("news", NoEntity, <<>> :> {"title"}),
    Q("post", "post", (<<>> :> {"title"}) @@ (<<"editor">> :> {"name"})) }

SomeQueries ==
    Plain \cup {[x EXCEPT !.id = id] : x \in Plain, id \in {1, 9}}
      \cup UNION {{[x EXCEPT !.control = [at |-> p, kind |-> k]] :
                     k \in IF p = <<>> THEN {"groupBy", "aggregate"} ELSE Controls} :
                   <<x, p>> \in {<<x, p>> \in Plain \X UNION {DOMAIN y.fields : y \in Plain} : p \in DOMAIN x.fields}}

To(e, pairs) == {<<x[1], <<e, x[2]>>>> : x \in pairs}
Rows(field, values) == [i \in DOMAIN values |-> [f \in {"id", field} |-> IF f = "id" THEN i ELSE values[i]]]

Blog(author, comments, parents, writers, friends, about) ==
    [rows |-> [e \in SomeEntities |->
        CASE e = "post" -> Rows("title", <<1, 1>>) [] e = "series" -> Rows("title", <<1>>) [] e = "user" -> Rows("name", <<1, 2>>)
          [] OTHER -> [i \in 1..Len(comments) |->
                         [id |-> i, body |-> IF i = 3 THEN 2 ELSE 1, note |-> IF i = 1 THEN Null ELSE i]]],
     links |->
        (<<"post", "author">> :> To("user", {<<i, author[i]>> : i \in {i \in 1..2 : author[i] # 0}}))
        @@ (<<"user", "posts">> :> To("post", {<<author[i], i>> : i \in {i \in 1..2 : author[i] # 0}}))
        @@ (<<"post", "comments">> :> To("comment", {<<comments[i], i>> : i \in 1..Len(comments)}))
        @@ (<<"comment", "post">> :> To("post", {<<i, comments[i]>> : i \in 1..Len(comments)}))
        @@ (<<"comment", "author">> :> To("user", {<<i, writers[i]>> : i \in {i \in 1..Len(comments) : writers[i] # 0}}))
        @@ (<<"user", "friends">> :> To("user", friends))
        @@ (<<"comment", "comments">> :> To("comment", {<<parents[i], i>> : i \in {i \in 1..Len(comments) : parents[i] # 0}}))
        @@ (<<"series", "posts">> :> To("post", {<<1, i>> : i \in {i \in 1..2 : author[i] # 0}}))
        @@ (<<"comment", "about">> :> {<<i, about[i]>> : i \in {i \in 1..Len(comments) : about[i] # Null}})]

SomeDatabases == {
    Blog(<<1, 1>>, <<1, 1, 1>>, <<0, 1, 1>>, <<1, 1, 2>>, {<<1, 2>>, <<2, 1>>}, <<<<"post", 1>>, <<"user", 2>>, <<"post", 7>>>>),
    Blog(<<1, 2>>, <<1, 2, 2>>, <<0, 2, 1>>, <<2, 2, 1>>, {<<1, 1>>, <<1, 2>>}, <<Null, <<"post", 2>>, <<"user", 1>>>>),
    Blog(<<0, 2>>, <<2>>, <<0>>, <<0>>, {<<2, 1>>}, <<<<"user", 9>>>>) }

SomeRules == {
    <<"post", "title">>, <<"post", "author", "name">>, <<"post", "author", "">>, <<"post", "">>,
    <<"post", "label">>, <<"user", "shout">>, <<"post", "comments", "author", "name">>,
    <<"user", "posts", "id">>, <<"post", "comments", "post", "title">>, <<"comment", "about", "title">>,
    <<"comment", "body">>, <<"post", "user", "shout">> }

SomeRuleSets == {{}} \cup {{r} : r \in SomeRules} \cup {{<<"post", "label">>, <<"user", "shout">>}}
SomeKeys == [e \in SomeEntities |->
    CASE e \in {"post", "series"} -> "title" [] e = "user" -> "name" [] OTHER -> "body"]

\* Adapters register a catch-all; other resolvers are registered for one entity each.
SomeRegistrations == {
    <<<<"*", "orm">>>>,
    <<<<"*", "orm">>, <<"post", "sqlite">>, <<"user", "orm">>, <<"user", "postgres">>>>,
    <<<<"post", "postgres">>, <<"comment", "sqlite">>, <<"series", "postgres">>>> }

\* A read of computed fields, for the documentation's sentence on denied ones.
LabelAndShout == {Q("post", "post", (<<>> :> {"title", "label"}) @@ (<<"author">> :> {"shout"}))}

=============================================================================
