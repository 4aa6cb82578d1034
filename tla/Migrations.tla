------------------------------ MODULE Migrations ------------------------------
(***************************************************************************)
(* The revisions of src/migration/versions, from the empty database to the *)
(* head, over data that an older release may have stored.  An edit says    *)
(* what a revision adds to the schema and drops from it, which columns of  *)
(* existing rows it fills (a server default or an UPDATE), and which       *)
(* duplicates it renames.  To drop the nullable part of a column makes it   *)
(* required.  All revisions of one upgrade run in one transaction.         *)
(***************************************************************************)
EXTENDS Models, Naturals, Sequences, FiniteSets

CONSTANTS MaxWrites,   \* facts that releases store, at most
          Watched      \* the tables they store them in

VARIABLES version,     \* revisions applied: 0 is the empty database
          schema,      \* the tables as the database has them
          data,        \* facts about the stored rows that a revision can meet
          writes,      \* facts stored so far
          last         \* what the last alembic command did

vars == <<version, schema, data, writes, last>>

Edit(add, drop) == [add |-> add, drop |-> drop, tables |-> {}, fill |-> {}, renames |-> {}]

DropTables(ts) == [Edit(Empty, Empty) EXCEPT !.tables = ts]

NullableIn(t, cols) == Part(t, {}, cols, {}, {}, {})

Columns(t, cols, optional) == Part(t, cols \cup optional, optional, {}, {}, {})

\* Rows of the first release: an id and timestamps.
Stamped(t, cols, optional) ==
    Table(t, {"id", "created_at"} \cup cols, {"updated_at"} \cup optional)

\* The tables of the first revision.
FirstCatalogue ==
    Joined({
        Stamped("breeds", {"name"}, {"description", "page_data"}),
        Plain("breeds", {{"name"}}),
        Stamped("coat_color", {"name"}, {"description", "page_data"}),
        Plain("coat_color", {{"name"}}),
        Stamped("horse_owner", {"name", "type", "phone_numbers"}, {"description", "address"}),
        Plain("horse_owner", {{"name"}}),
        Stamped("horse_service", {"name", "price", "price_formatter"},
                {"description", "page_data"}),
        Plain("horse_service", {{"name"}})})

FirstPrices ==
    Joined({
        Stamped("photos", {"name", "path"}, {"description"}),
        Plain("photos", {{"name"}}),
        Stamped("price_groups", {"name"}, {"description"}),
        Plain("price_groups", {{"name"}}),
        Stamped("prices", {"name", "slug", "price_tables"}, {"description", "page_data"}),
        Plain("prices", {{"name"}, {"slug"}})})

FirstUsers ==
    Joined({
        Table("user_scopes", {"id", "scope_name"}, {"scope_description"}),
        Unique("user_scopes", {{"scope_name"}}),
        Stamped("users", {"username", "password"}, {"first_name", "last_name", "middle_name"}),
        Unique("users", {{"username"}})})

FirstHorses ==
    Joined({
        Stamped("horse", {"name", "slug", "kind", "sex", "bdate_mode", "ddate_mode"},
                {"description", "breed_id", "coat_color_id", "height", "bdate", "ddate",
                 "horse_owner_id"}),
        Refs("horse", {<<"breed_id", "breeds", "CASCADE">>,
                       <<"coat_color_id", "coat_color", "CASCADE">>,
                       <<"horse_owner_id", "horse_owner", "CASCADE">>}),
        Plain("horse", {{"name"}, {"slug"}})})

\* A table of pairs, with the tables its two columns refer to.
Pairs(t, left, right, optional) ==
    Joined({Table(t, {"id", left[1], right[1]}, optional),
            Refs(t, {<<left[1], left[2], "CASCADE">>, <<right[1], right[2], "CASCADE">>})})

FirstRelations ==
    LET horseRow == <<"horse_id", "horse">>
        photo == <<"photo_id", "photos">>
        price == <<"price_id", "prices">>
    IN  Joined({
            Pairs("price_groups_relations", price, <<"group_id", "price_groups">>, {}),
            Pairs("price_photos", price, photo, {}),
            Columns("price_photos", {"is_main"}, {}),
            Stamped("tokens", {"value", "user_id"}, {}),
            Refs("tokens", {<<"user_id", "users", "CASCADE">>}),
            Pairs("user_scopes_relations", <<"user_id", "users">>,
                  <<"scope_id", "user_scopes">>, {}),
            Pairs("horse_children", horseRow, <<"child_id", "horse">>, {"updated_at"}),
            Columns("horse_children", {"created_at"}, {}),
            Pairs("horse_photos", horseRow, photo, {"updated_at"}),
            Columns("horse_photos", {"created_at", "is_main"}, {}),
            Pairs("horse_service_relations", horseRow, <<"service_id", "horse_service">>,
                  {"description_override", "price_override", "price_formatter_override"})})

Up_4ec9b0c636d5 ==
    Edit(Joined({FirstCatalogue, FirstPrices, FirstUsers, FirstHorses, FirstRelations}), Empty)

\* Slugs come without a default and pages become required: only empty tables
\* of these three, and prices that have pages, pass.
Up_8215ddc78865 ==
    Edit(Joined({Joined({Columns(t, {"slug"}, {}), Plain(t, {{"slug"}})}) :
                     t \in {"breeds", "coat_color", "horse_service"}}),
         Joined({NullableIn(t, {"page_data"}) :
                     t \in {"breeds", "coat_color", "horse_service", "prices"}}))

Up_da3ea601e50f ==
    LET names(Index(_, _)) ==
            Joined({Index(t, {{"name"}}) : t \in {"breeds", "coat_color", "horse_service"}})
    IN  Edit(names(Unique), names(Plain))

\* Revisions a0dc059f3794 and 1564690d218b are empty.
Up_a0dc059f3794 == Edit(Empty, Empty)

Up_1564690d218b == Edit(Empty, Empty)

Up_f66b6991fb39 ==
    Edit(Joined({Stamped("site_settings", {"key", "value", "name", "type"}, {"description"}),
                 Unique("site_settings", {{"key"}, {"name"}})}),
         Empty)

Up_47d6367ed482 ==
    [Edit(Joined({Columns("breeds", {}, {"short_name"}), Columns("coat_color", {}, {"short_name"}),
                  Columns("horse", {"this_stable"}, {})}),
          Empty)
     EXCEPT !.fill = {<<"horse", "this_stable">>}]

TENANT_TABLES ==
    {"users", "breeds", "coat_color", "horse_owner", "horse_service", "horse", "photos",
     "prices", "price_groups", "site_settings"}

TENANT_SCOPED_SLUG_TABLES == {"breeds", "coat_color", "horse_service", "horse", "prices"}

\* The names that were unique in the database become unique for a tenant.
FormerlyUnique ==
    {<<"breeds", "name">>, <<"coat_color", "name">>, <<"horse_service", "name">>,
     <<"site_settings", "key">>, <<"site_settings", "name">>}

Up_9f0f2c5c7b11 ==
    [Edit(Joined(
            {Stamped("equestrians", {"name", "service_key"}, {}),
             Unique("equestrians", {{"service_key"}})}
            \cup {Joined({Columns(t, {"equestrian_id"}, {}),
                          Refs(t, {<<"equestrian_id", "equestrians",
                                     IF t = "users" THEN "RESTRICT" ELSE "CASCADE">>}),
                          Plain(t, {{"equestrian_id"}})}) : t \in TENANT_TABLES}
            \cup {Plain(n[1], {{n[2]}}) : n \in FormerlyUnique}
            \cup {Unique(n[1], {PerTenant(n[2])}) : n \in FormerlyUnique}
            \cup {Unique(t, {PerTenant("slug")}) : t \in TENANT_SCOPED_SLUG_TABLES}
            \cup {Plain("horse_owner", {PerTenant("name"), PerTenant("type")}),
                  Plain("horse", {PerTenant("name"), PerTenant("kind"), PerTenant("sex")}),
                  Plain("photos", {PerTenant("name")}),
                  Plain("prices", {PerTenant("name")}),
                  Plain("price_groups", {PerTenant("name")})}),
          Joined({Unique(n[1], {{n[2]}}) : n \in FormerlyUnique}))
     EXCEPT !.fill = TENANT_TABLES \X {"equestrian_id"},
            !.renames = TENANT_SCOPED_SLUG_TABLES \X {"slug"}]

Up_b3e7a2f91c04 ==
    [Edit(Joined({Columns("price_groups_relations", {}, {"display_order"}),
                  Unique("price_groups_relations", {{"group_id", "display_order"}})}),
          Empty)
     EXCEPT !.fill = {<<"price_groups_relations", "display_order">>}]

Up_e1a5f2b8c319 ==
    Edit(Joined({
        Owned("news", {"name", "content", "published_at", "is_deleted"},
              {"snippet", "deleted_at"}),
        Plain("news", {{"equestrian_id"}, {"published_at"}, {"is_deleted"}}),
        Table("news_photos", {"id", "news_id", "photo_id", "is_main"}, {}),
        Refs("news_photos", {<<"news_id", "news", "CASCADE">>,
                             <<"photo_id", "photos", "CASCADE">>}),
        Plain("news_photos", {{"news_id"}, {"photo_id"}})}),
         Empty)

\* A missing short name is taken from the name before the column is required.
Up_c1e4d2a3b5f7 ==
    [Edit(Empty, Joined({NullableIn(t, {"short_name"}) : t \in {"breeds", "coat_color"}}))
     EXCEPT !.fill = {"breeds", "coat_color"} \X {"short_name"}]

Up_7a9d3e2f1c4b ==
    [Edit(Joined({Columns("breeds", {"kind"}, {}), Plain("breeds", {PerTenant("kind")})}),
          Joined({Columns("horse", {"kind"}, {}), Plain("horse", {PerTenant("kind")})}))
     EXCEPT !.fill = {<<"breeds", "kind">>}]

Up_4c8f9a2d6e10 == Edit(Columns("horse", {}, {"code"}), Empty)

Up_8d7c2a4e1f90 ==
    [Edit(Columns("horse_service_relations", {"created_at"}, {}), Empty)
     EXCEPT !.fill = {<<"horse_service_relations", "created_at">>}]

Up_a1b2c3d4e5f6 ==
    [Edit(Joined({Columns("users", {"is_deleted", "is_blocked"}, {"deleted_at"}),
                  Plain("users", {{"is_deleted"}, {"is_blocked"}})}),
          Empty)
     EXCEPT !.fill = {"users"} \X {"is_deleted", "is_blocked"}]

Up_d4c6e8f0a246 ==
    Edit(Columns("horse", {}, {"pedigree_name"}), Columns("horse", {}, {"code"}))

Up_b6d4f8a21c03 ==
    Edit(Joined({Owned("breed_groups", {"name", "slug", "page_data"}, {}),
                 Unique("breed_groups", {PerTenant("name"), PerTenant("slug")}),
                 Plain("breed_groups", {{"equestrian_id"}}),
                 Columns("breeds", {}, {"breed_group_id"}),
                 Refs("breeds", {<<"breed_group_id", "breed_groups", "SET NULL">>}),
                 Plain("breeds", {{"breed_group_id"}})}),
         Empty)

\* Later photos of a name get a counter before the name is unique.
Up_f3a1c7d9e245 ==
    [Edit(Unique("photos", {PerTenant("name")}), Plain("photos", {PerTenant("name")}))
     EXCEPT !.renames = {<<"photos", "name">>}]

Up_c055bacc0001 ==
    Edit(Joined({
        Table("callback_request_statuses", {"id", "name", "color"}, {}),
        Unique("callback_request_statuses", {{"name"}}),
        Owned("callback_requests", {"phone", "status", "is_spam", "notifications_delivered"},
              {"name", "comment"}),
        Refs("callback_requests", {<<"status", "callback_request_statuses", "RESTRICT">>}),
        Plain("callback_requests", {{"equestrian_id", "status", "created_at", "id"},
                                    {"equestrian_id", "is_spam"}})}),
         Empty)

\* The slug of a news item ends with its id, so no two are equal.
Up_7d28fbc9a631 ==
    [Edit(Joined({Columns("news", {"slug"}, {}), Unique("news", {PerTenant("slug")})}), Empty)
     EXCEPT !.fill = {<<"news", "slug">>}]

Up_c8fda9794a60 == Edit(Empty, Columns("site_settings", {}, {"description"}))

Ups == <<Up_4ec9b0c636d5, Up_8215ddc78865, Up_da3ea601e50f, Up_a0dc059f3794, Up_1564690d218b,
         Up_f66b6991fb39, Up_47d6367ed482, Up_9f0f2c5c7b11, Up_b3e7a2f91c04, Up_e1a5f2b8c319,
         Up_c1e4d2a3b5f7, Up_7a9d3e2f1c4b, Up_4c8f9a2d6e10, Up_8d7c2a4e1f90, Up_a1b2c3d4e5f6,
         Up_d4c6e8f0a246, Up_b6d4f8a21c03, Up_f3a1c7d9e245, Up_c055bacc0001, Up_7d28fbc9a631,
         Up_c8fda9794a60>>

Latest == Len(Ups)

(***************************************************************************)
(* Downgrades                                                              *)
(***************************************************************************)

Down_4ec9b0c636d5 ==
    DropTables({"horse_service_relations", "horse_photos", "horse_children",
                "user_scopes_relations", "tokens", "price_photos", "price_groups_relations",
                "horse", "users", "user_scopes", "prices", "price_groups", "photos",
                "horse_service", "horse_owner", "coat_color", "breeds"})

Down_8215ddc78865 ==
    Edit(Joined({NullableIn(t, {"page_data"}) :
                     t \in {"breeds", "coat_color", "horse_service", "prices"}}),
         Joined({Joined({Columns(t, {"slug"}, {}), Plain(t, {{"slug"}})}) :
                     t \in {"breeds", "coat_color", "horse_service"}}))

Down_da3ea601e50f ==
    LET names(Index(_, _)) ==
            Joined({Index(t, {{"name"}}) : t \in {"breeds", "coat_color", "horse_service"}})
    IN  Edit(names(Plain), names(Unique))

Down_a0dc059f3794 == Edit(Empty, Empty)

Down_1564690d218b == Edit(Empty, Empty)

Down_f66b6991fb39 == DropTables({"site_settings"})

Down_47d6367ed482 ==
    Edit(Empty, Joined({Columns("horse", {"this_stable"}, {}),
                        Columns("coat_color", {}, {"short_name"}),
                        Columns("breeds", {}, {"short_name"})}))

\* The names become unique in the whole database again, tenants or not.
Down_9f0f2c5c7b11 ==
    [Edit(Joined({Unique(n[1], {{n[2]}}) : n \in FormerlyUnique}),
          Joined(
            {Unique(n[1], {PerTenant(n[2])}) : n \in FormerlyUnique}
            \cup {Plain(n[1], {{n[2]}}) : n \in FormerlyUnique}
            \cup {Unique(t, {PerTenant("slug")}) : t \in TENANT_SCOPED_SLUG_TABLES}
            \cup {Plain("price_groups", {PerTenant("name")}),
                  Plain("prices", {PerTenant("name")}),
                  Plain("photos", {PerTenant("name")}),
                  Plain("horse", {PerTenant("name"), PerTenant("kind"), PerTenant("sex")}),
                  Plain("horse_owner", {PerTenant("name"), PerTenant("type")})}
            \cup {Joined({Plain(t, {{"equestrian_id"}}), Columns(t, {"equestrian_id"}, {}),
                          Refs(t, {<<"equestrian_id", "equestrians",
                                     IF t = "users" THEN "RESTRICT" ELSE "CASCADE">>})}) :
                      t \in TENANT_TABLES}))
     EXCEPT !.tables = {"equestrians"}]

Down_b3e7a2f91c04 ==
    Edit(Empty, Joined({Unique("price_groups_relations", {{"group_id", "display_order"}}),
                        Columns("price_groups_relations", {}, {"display_order"})}))

Down_e1a5f2b8c319 == DropTables({"news_photos", "news"})

Down_c1e4d2a3b5f7 ==
    Edit(Joined({NullableIn(t, {"short_name"}) : t \in {"breeds", "coat_color"}}), Empty)

Down_7a9d3e2f1c4b ==
    [Edit(Joined({Columns("horse", {"kind"}, {}), Plain("horse", {PerTenant("kind")})}),
          Joined({Columns("breeds", {"kind"}, {}), Plain("breeds", {PerTenant("kind")})}))
     EXCEPT !.fill = {<<"horse", "kind">>}]

Down_4c8f9a2d6e10 == Edit(Empty, Columns("horse", {}, {"code"}))

Down_8d7c2a4e1f90 == Edit(Empty, Columns("horse_service_relations", {"created_at"}, {}))

Down_a1b2c3d4e5f6 ==
    Edit(Empty, Joined({Plain("users", {{"is_blocked"}, {"is_deleted"}}),
                        Columns("users", {"is_blocked", "is_deleted"}, {"deleted_at"})}))

Down_d4c6e8f0a246 ==
    Edit(Columns("horse", {}, {"code"}), Columns("horse", {}, {"pedigree_name"}))

Down_b6d4f8a21c03 ==
    [Edit(Empty, Joined({Plain("breeds", {{"breed_group_id"}}),
                         Refs("breeds", {<<"breed_group_id", "breed_groups", "SET NULL">>}),
                         Columns("breeds", {}, {"breed_group_id"})}))
     EXCEPT !.tables = {"breed_groups"}]

Down_f3a1c7d9e245 ==
    Edit(Plain("photos", {PerTenant("name")}), Unique("photos", {PerTenant("name")}))

Down_c055bacc0001 == DropTables({"callback_requests", "callback_request_statuses"})

Down_7d28fbc9a631 ==
    Edit(Empty, Joined({Unique("news", {PerTenant("slug")}), Columns("news", {"slug"}, {})}))

Down_c8fda9794a60 == Edit(Columns("site_settings", {}, {"description"}), Empty)

Downs == <<Down_4ec9b0c636d5, Down_8215ddc78865, Down_da3ea601e50f, Down_a0dc059f3794,
           Down_1564690d218b, Down_f66b6991fb39, Down_47d6367ed482, Down_9f0f2c5c7b11,
           Down_b3e7a2f91c04, Down_e1a5f2b8c319, Down_c1e4d2a3b5f7, Down_7a9d3e2f1c4b,
           Down_4c8f9a2d6e10, Down_8d7c2a4e1f90, Down_a1b2c3d4e5f6, Down_d4c6e8f0a246,
           Down_b6d4f8a21c03, Down_f3a1c7d9e245, Down_c055bacc0001, Down_7d28fbc9a631,
           Down_c8fda9794a60>>

(***************************************************************************)
(* What PostgreSQL does with an edit                                       *)
(***************************************************************************)

\* A column takes its indexes and keys with it, a table its columns.
Remaining(s, e) ==
    LET stays(t, cols) == t \notin e.tables /\ ({t} \X cols) \cap e.drop.cols = {}
    IN  [cols |-> {c \in s.cols : stays(c[1], {c[2]})},
         nullable |-> {c \in s.nullable : stays(c[1], {c[2]})} \ e.drop.nullable,
         unique |-> {k \in s.unique : stays(k[1], k[2])} \ e.drop.unique,
         plain |-> {k \in s.plain : stays(k[1], k[2])} \ e.drop.plain,
         refs |-> {r \in s.refs : stays(r[1], {r[2]})} \ e.drop.refs]

\* The schema after an edit.
Edited(s, e) == Joined({Remaining(s, e), e.add})

\* What is dropped exists, what is added does not, and no foreign key is left
\* to a dropped table.
Applicable(s, e) ==
    LET rest == Remaining(s, e)
    IN  /\ \A part \in DOMAIN s : e.drop[part] \subseteq s[part]
        /\ e.tables \subseteq {c[1] : c \in s.cols}
        /\ \A part \in DOMAIN s : e.add[part] \cap rest[part] = {}
        /\ \A r \in rest.refs : r[3] \notin e.tables

\* Rows there before have NULL in a new column that is not filled; without
\* tenants, names of different tenants are simply equal.
Carried(d, e) ==
    LET new == {c \in e.add.cols : c[1] \in d.rows}
        merged == {x[1] : x \in {c \in e.drop.cols : c[2] = "equestrian_id"}}
        kept(c) == c[1] \notin e.tables /\ c \notin e.drop.cols
    IN  [rows |-> d.rows \ e.tables,
         nulls |-> {c \in (d.nulls \cup new) \ e.fill : kept(c)},
         dups |-> {x \in {IF y[1] \in merged /\ y[3] = "across"
                          THEN <<y[1], y[2], "same">> ELSE y : y \in d.dups} :
                       kept(<<x[1], x[2]>>) /\ (x[3] = "same" => <<x[1], x[2]>> \notin e.renames)}]

\* The constraints hold for the rows.
Lawful(s, d) ==
    /\ d.nulls \subseteq s.nullable
    /\ \A x \in d.dups :
         /\ <<x[1], {x[2]}>> \notin s.unique
         /\ x[3] # "across" => <<x[1], PerTenant(x[2])>> \notin s.unique

\* The state after an edit, or the one before it and ok = FALSE.
Step(db, e) ==
    LET s == Edited(db.schema, e)
        d == Carried(db.data, e)
    IN  IF db.ok /\ Applicable(db.schema, e) /\ Lawful(s, d)
        THEN [schema |-> s, data |-> d, ok |-> TRUE]
        ELSE [db EXCEPT !.ok = FALSE]

\* The state after the revisions up to a version.
UpTo(from, db, to) ==
    LET edits == Ups
        run[v \in from .. to] == IF v = from THEN db ELSE Step(run[v - 1], edits[v])
    IN  run[to]

(***************************************************************************)
(* Actions                                                                 *)
(***************************************************************************)

NoRows == [rows |-> {}, nulls |-> {}, dups |-> {}]

Init ==
    /\ version = 0
    /\ schema = Empty
    /\ data = NoRows
    /\ writes = 0
    /\ last = [cmd |-> "none", to |-> 0, ok |-> TRUE]

Current == [schema |-> schema, data |-> data, ok |-> TRUE]

\* A failed command leaves what it had done.
BugTransaction(cmd, to, db) ==
    /\ last' = [cmd |-> cmd, to |-> to, ok |-> db.ok]
    /\ version' = IF db.ok THEN to ELSE version
    /\ schema' = db.schema /\ data' = db.data
    /\ UNCHANGED writes

\* A transaction of the migrations: all of it, or nothing.
Transaction(cmd, to, db) ==
    /\ last' = [cmd |-> cmd, to |-> to, ok |-> db.ok]
    /\ IF db.ok
       THEN version' = to /\ schema' = db.schema /\ data' = db.data
       ELSE UNCHANGED <<version, schema, data>>
    /\ UNCHANGED writes

\* The next release brings one revision, or a late one all that are left.
Upgrade(to) ==
    /\ version < to
    /\ Transaction("upgrade", to, UpTo(version, Current, to))

Downgrade ==
    /\ version > 0
    /\ Transaction("downgrade", version - 1, Step(Current, Downs[version]))

Store(d) ==
    /\ writes < MaxWrites
    /\ d # data
    /\ Lawful(schema, d)
    /\ data' = d
    /\ writes' = writes + 1
    /\ last' = [cmd |-> "none", to |-> version, ok |-> TRUE]
    /\ UNCHANGED <<version, schema>>

\* The columns that are unique in some revision, and two rows that agree in
\* one: rows of one tenant, of two, or photos of one tenant whose names have an
\* extension that leaves no room for a counter.
Named == {"name", "slug", "key"}

Kinds(s, c) ==
    {"same"}
    \cup (IF <<c[1], "equestrian_id">> \in s.cols THEN {"across"} ELSE {})
    \cup (IF c = <<"photos", "name">> THEN {"long"} ELSE {})

StoreRow == \E t \in Watched \cap {c[1] : c \in schema.cols} :
    Store([data EXCEPT !.rows = @ \cup {t},
                       !.nulls = @ \cup {c \in schema.nullable : c[1] = t}])

StoreNull == \E c \in {x \in schema.nullable : x[1] \in Watched} :
    Store([data EXCEPT !.rows = @ \cup {c[1]}, !.nulls = @ \cup {c}])

StoreEqual == \E c \in {x \in schema.cols : x[1] \in Watched /\ x[2] \in Named} :
    \E kind \in Kinds(schema, c) :
        Store([data EXCEPT !.rows = @ \cup {c[1]},
                           !.dups = @ \cup {<<c[1], c[2], kind>>}])

Next ==
    \/ \E to \in {version + 1, Latest} : to <= Latest /\ Upgrade(to)
    \/ Downgrade
    \/ StoreRow
    \/ StoreNull
    \/ StoreEqual

Spec == Init /\ [][Next]_vars

(***************************************************************************)
(* Properties                                                              *)
(***************************************************************************)

SchemaAt ==
    LET created == [schema |-> Empty, data |-> NoRows, ok |-> TRUE]
    IN  [v \in 0 .. Latest |-> UpTo(0, created, v).schema]

\* However a version is reached, by upgrades or back by downgrades, its schema
\* is the same; and at the head the database has the columns, keys and unique
\* indexes the models declare, and every index they ask for.
AsModels(s) ==
    /\ \A part \in {"cols", "nullable", "unique", "refs"} : s[part] = metadata[part]
    /\ metadata.plain \subseteq s.plain

SchemaIsOfVersion ==
    /\ schema = SchemaAt[version]
    /\ version = Latest => AsModels(schema)

\* The rows that no revision can bring to the head: there before the slugs and
\* the unique names, or photo names that cannot be told apart.
NoWay(v, d) ==
    \/ v < 2 /\ (d.rows \cap {"breeds", "coat_color", "horse_service"} # {}
                 \/ <<"prices", "page_data">> \in d.nulls)
    \/ v < 3 /\ d.dups \cap ({"breeds", "coat_color", "horse_service"} \X {"name"} \X {"same"}) # {}
    \/ <<"photos", "name", "long">> \in d.dups

\* Whatever a release since the unique names has stored, the revisions after it
\* apply; downgrades do, except where tenants share a name.
NoWayBack(v, d) ==
    v = 8 /\ \E n \in FormerlyUnique : <<n[1], n[2], "across">> \in d.dups

LegalDataMigrates ==
    [][~last'.ok =>
          \/ last'.cmd = "upgrade" /\ NoWay(version, data)
          \/ last'.cmd = "downgrade" /\ NoWayBack(version, data)]_vars

(***************************************************************************)
(* What the revisions are, for the proofs: nothing here depends on a       *)
(* constant or on stored data, and TLC evaluates it.                       *)
(***************************************************************************)

\* A revision brings the schema of one version to the next, and its downgrade
\* back; the last one is that of the models.
VersionsFit ==
    LET at == SchemaAt
    IN  /\ at[0] = Empty
        /\ \A v \in 0 .. Latest : at[v].nullable \subseteq at[v].cols
        /\ \A v \in 1 .. Latest :
             /\ Edited(at[v - 1], Ups[v]) = at[v] /\ Applicable(at[v - 1], Ups[v])
             /\ Edited(at[v], Downs[v]) = at[v - 1] /\ Applicable(at[v], Downs[v])
        /\ AsModels(at[Latest])

TablesOf(s) == {c[1] : c \in s.cols}

Equals(s) ==
    UNION {{c[1]} \X {c[2]} \X Kinds(s, c) : c \in {x \in s.cols : x[2] \in Named}}

\* One fact about stored rows.
OneRow(t) == [NoRows EXCEPT !.rows = {t}]
OneNull(c) == [NoRows EXCEPT !.rows = {c[1]}, !.nulls = {c}]
OneEqual(x) == [NoRows EXCEPT !.dups = {x}]

\* The facts that rows under a schema can be.
Facts(s) ==
    {OneRow(t) : t \in TablesOf(s)} \cup {OneNull(c) : c \in s.nullable}
    \cup {OneEqual(x) : x \in Equals(s)}

\* Rows that a schema has room for, and rows that it also allows.
Placed(s, d) ==
    /\ d.rows \subseteq TablesOf(s) /\ d.dups \subseteq Equals(s)
    /\ \A c \in d.nulls : c[1] \in d.rows

Held(s, d) == Placed(s, d) /\ Lawful(s, d)

\* Each fact alone passes every revision, up and down, unless it is one of
\* those that cannot.
FactsFit ==
    LET at == SchemaAt
    IN  \A v \in 1 .. Latest :
            /\ \A f \in Facts(at[v - 1]) :
                 Held(at[v - 1], f) =>
                     LET up == Carried(f, Ups[v])
                     IN  /\ Placed(at[v], up)
                         /\ ~NoWay(v - 1, f) => Lawful(at[v], up) /\ ~NoWay(v, up)
            /\ \A f \in Facts(at[v]) :
                 Held(at[v], f) =>
                     LET down == Carried(f, Downs[v])
                     IN  /\ Placed(at[v - 1], down)
                         /\ ~NoWayBack(v, f) => Lawful(at[v - 1], down)
================================================================================
