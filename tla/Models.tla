-------------------------------- MODULE Models --------------------------------
(***************************************************************************)
(* The tables the program works with: one definition for each file of      *)
(* src/models.  A part of a schema has columns, the columns that may be    *)
(* NULL, unique and other indexes (each as the set of its columns), and    *)
(* foreign keys (column, referred table, what its deletion does).          *)
(* Types, lengths, defaults and index names are left out.                  *)
(***************************************************************************)

Part(t, cols, optional, unique, plain, refs) ==
    [cols |-> {t} \X cols,
     nullable |-> {t} \X optional,
     unique |-> {t} \X unique,
     plain |-> {t} \X plain,
     refs |-> {<<t, r[1], r[2], r[3]>> : r \in refs}]

Joined(parts) ==
    [cols |-> UNION {p.cols : p \in parts},
     nullable |-> UNION {p.nullable : p \in parts},
     unique |-> UNION {p.unique : p \in parts},
     plain |-> UNION {p.plain : p \in parts},
     refs |-> UNION {p.refs : p \in parts}]

Empty == Joined({})

\* A table of its own; fields that are not named have nothing optional.
Table(t, cols, optional) == Part(t, cols \cup optional, optional, {}, {}, {})

Unique(t, keys) == Part(t, {}, {}, keys, {}, {})

Plain(t, keys) == Part(t, {}, {}, {}, keys, {})

Refs(t, refs) == Part(t, {}, {}, {}, {}, refs)

uuid_pk == {"id"}

\* Most tables have an id, timestamps and the tenant their rows belong to.
Owned(t, cols, optional) ==
    Joined({Table(t, uuid_pk \cup {"created_at", "equestrian_id"} \cup cols,
                     {"updated_at"} \cup optional),
            Refs(t, {<<"equestrian_id", "equestrians", "CASCADE">>})})

PerTenant(col) == {"equestrian_id", col}

equestrians ==
    Joined({Table("equestrians", uuid_pk \cup {"created_at", "name", "service_key"},
                  {"updated_at"}),
            Unique("equestrians", {{"service_key"}})})

users ==
    Joined({Table("users",
                  uuid_pk \cup {"created_at", "equestrian_id", "username", "password",
                                "is_deleted", "is_blocked"},
                  {"updated_at", "first_name", "last_name", "middle_name", "deleted_at"}),
            Unique("users", {{"username"}}),
            Refs("users", {<<"equestrian_id", "equestrians", "RESTRICT">>})})

user_scopes ==
    Joined({Table("user_scopes", uuid_pk \cup {"scope_name"}, {"scope_description"}),
            Unique("user_scopes", {{"scope_name"}})})

user_scopes_relations ==
    Joined({Table("user_scopes_relations", uuid_pk \cup {"user_id", "scope_id"}, {}),
            Refs("user_scopes_relations", {<<"user_id", "users", "CASCADE">>,
                                           <<"scope_id", "user_scopes", "CASCADE">>})})

tokens ==
    Joined({Table("tokens", uuid_pk \cup {"created_at", "value", "user_id"}, {"updated_at"}),
            Refs("tokens", {<<"user_id", "users", "CASCADE">>})})

breed_groups ==
    Joined({Owned("breed_groups", {"name", "slug", "page_data"}, {}),
            Unique("breed_groups", {PerTenant("name"), PerTenant("slug")}),
            Plain("breed_groups", {{"equestrian_id"}})})

breeds ==
    Joined({Owned("breeds", {"name", "short_name", "slug", "page_data", "kind"},
                  {"description", "breed_group_id"}),
            Refs("breeds", {<<"breed_group_id", "breed_groups", "SET NULL">>}),
            Unique("breeds", {PerTenant("name"), PerTenant("slug")}),
            Plain("breeds", {{"equestrian_id"}, {"name"}, {"slug"}, {"breed_group_id"},
                             PerTenant("kind")})})

coat_color ==
    Joined({Owned("coat_color", {"name", "short_name", "slug", "page_data"}, {"description"}),
            Unique("coat_color", {PerTenant("name"), PerTenant("slug")}),
            Plain("coat_color", {{"equestrian_id"}, {"name"}, {"slug"}})})

horse_owner ==
    Joined({Owned("horse_owner", {"name", "type", "phone_numbers"}, {"description", "address"}),
            Plain("horse_owner", {{"equestrian_id"}, {"name"}, PerTenant("name"),
                                  PerTenant("type")})})

horse_service ==
    Joined({Owned("horse_service", {"name", "slug", "price", "price_formatter", "page_data"},
                  {"description"}),
            Unique("horse_service", {PerTenant("name"), PerTenant("slug")}),
            Plain("horse_service", {{"equestrian_id"}, {"name"}, {"slug"}})})

horse_service_relations ==
    Joined({Table("horse_service_relations",
                  uuid_pk \cup {"created_at", "horse_id", "service_id"},
                  {"description_override", "price_override", "price_formatter_override"}),
            Refs("horse_service_relations", {<<"horse_id", "horse", "CASCADE">>,
                                             <<"service_id", "horse_service", "CASCADE">>})})

horse ==
    Joined({Owned("horse", {"name", "slug", "sex", "bdate_mode", "ddate_mode", "this_stable"},
                  {"pedigree_name", "description", "breed_id", "coat_color_id", "height",
                   "bdate", "ddate", "horse_owner_id"}),
            Refs("horse", {<<"breed_id", "breeds", "CASCADE">>,
                           <<"coat_color_id", "coat_color", "CASCADE">>,
                           <<"horse_owner_id", "horse_owner", "CASCADE">>}),
            Unique("horse", {PerTenant("slug")}),
            Plain("horse", {{"equestrian_id"}, {"name"}, {"slug"}, PerTenant("name"),
                            PerTenant("sex")})})

horse_children ==
    Joined({Table("horse_children", uuid_pk \cup {"created_at", "horse_id", "child_id"},
                  {"updated_at"}),
            Refs("horse_children", {<<"horse_id", "horse", "CASCADE">>,
                                    <<"child_id", "horse", "CASCADE">>})})

horse_photos ==
    Joined({Table("horse_photos", uuid_pk \cup {"created_at", "horse_id", "photo_id", "is_main"},
                  {"updated_at"}),
            Refs("horse_photos", {<<"horse_id", "horse", "CASCADE">>,
                                  <<"photo_id", "photos", "CASCADE">>})})

photos ==
    Joined({Owned("photos", {"name", "path"}, {"description"}),
            Unique("photos", {PerTenant("name")}),
            Plain("photos", {{"equestrian_id"}, {"name"}})})

prices ==
    Joined({Owned("prices", {"name", "page_data", "slug", "price_tables"}, {"description"}),
            Unique("prices", {PerTenant("slug")}),
            Plain("prices", {{"equestrian_id"}, {"name"}, {"slug"}, PerTenant("name")})})

price_groups ==
    Joined({Owned("price_groups", {"name"}, {"description"}),
            Plain("price_groups", {{"equestrian_id"}, {"name"}, PerTenant("name")})})

\* The order is unique among the numbered relations of a group.
price_groups_relations ==
    Joined({Table("price_groups_relations", uuid_pk \cup {"price_id", "group_id"},
                  {"display_order"}),
            Refs("price_groups_relations", {<<"price_id", "prices", "CASCADE">>,
                                            <<"group_id", "price_groups", "CASCADE">>}),
            Unique("price_groups_relations", {{"group_id", "display_order"}})})

price_photos ==
    Joined({Table("price_photos", uuid_pk \cup {"price_id", "photo_id", "is_main"}, {}),
            Refs("price_photos", {<<"price_id", "prices", "CASCADE">>,
                                  <<"photo_id", "photos", "CASCADE">>})})

news ==
    Joined({Owned("news", {"name", "slug", "content", "published_at", "is_deleted"},
                  {"snippet", "deleted_at"}),
            Unique("news", {PerTenant("slug")}),
            Plain("news", {{"equestrian_id"}, {"published_at"}, {"is_deleted"}})})

news_photos ==
    Joined({Table("news_photos", uuid_pk \cup {"news_id", "photo_id", "is_main"}, {}),
            Refs("news_photos", {<<"news_id", "news", "CASCADE">>,
                                 <<"photo_id", "photos", "CASCADE">>}),
            Plain("news_photos", {{"news_id"}, {"photo_id"}})})

site_settings ==
    Joined({Owned("site_settings", {"key", "value", "name", "type"}, {}),
            Unique("site_settings", {PerTenant("key"), PerTenant("name")}),
            Plain("site_settings", {{"equestrian_id"}, {"key"}, {"name"}})})

callback_request_statuses ==
    Joined({Table("callback_request_statuses", {"id", "name", "color"}, {}),
            Unique("callback_request_statuses", {{"name"}})})

callback_requests ==
    Joined({Owned("callback_requests", {"phone", "status", "is_spam", "notifications_delivered"},
                  {"name", "comment"}),
            Refs("callback_requests", {<<"status", "callback_request_statuses", "RESTRICT">>}),
            Plain("callback_requests", {{"equestrian_id", "status", "created_at", "id"},
                                        {"equestrian_id", "is_spam"}})})

\* All tables known to the program.
metadata ==
    Joined({equestrians, users, user_scopes, user_scopes_relations, tokens, breed_groups,
            breeds, coat_color, horse_owner, horse_service, horse_service_relations, horse,
            horse_children, horse_photos, photos, prices, price_groups,
            price_groups_relations, price_photos, news, news_photos, site_settings,
            callback_request_statuses, callback_requests})
================================================================================
