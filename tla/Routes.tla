--------------------------------- MODULE Routes ---------------------------------
(***************************************************************************)
(* The routes of the application in the order they are registered, which   *)
(* is the order they are tried in.  A route names what its dependencies    *)
(* ask of the caller:                                                      *)
(*   open      nothing                                                     *)
(*   read      a session, or else the key of a tenant                      *)
(*   key       the key of a tenant, session or not                         *)
(*   user      a session                                                   *)
(*   manager, settings, seo      a session with one of the scopes          *)
(*   refresh   the refresh cookie                                          *)
(*   service   the key of the microservices                                *)
(* Left out: parameters and bodies, and the scopes that services check.    *)
(***************************************************************************)
EXTENDS Naturals, Sequences, SequencesExt

\* A segment that any value fits.
Param == "{}"

R(method, path, needs, ok) ==
    [method |-> method, path |-> path, needs |-> needs, ok |-> ok]

\* The five routes of a kind of entity.
Crud(path, write, created) ==
    <<R("GET", path, "read", 200), R("GET", path \o <<Param>>, "read", 200),
      R("POST", path, write, created), R("PATCH", path \o <<Param>>, write, 200),
      R("DELETE", path \o <<Param>>, write, 204)>>

Under(prefix, routes) == [i \in DOMAIN routes |-> [routes[i] EXCEPT !.path = prefix \o @]]

\* Registration is switched off and answers 400.
Auth == <<R("POST", <<"register">>, "open", 400), R("POST", <<"login">>, "open", 200),
          R("POST", <<"refresh">>, "refresh", 200), R("GET", <<"me">>, "user", 200),
          R("POST", <<"logout">>, "open", 204)>>

Breeds == Crud(<<"horses", "breeds">>, "user", 200)

BreedGroups == Crud(<<"horses", "breed-groups">>, "user", 200)

CoatColors == Crud(<<"horses", "coat_colors">>, "user", 200)

Emails ==
    Under(<<"emails">>,
          <<R("GET", <<"me">>, "user", 200), R("POST", <<>>, "user", 201),
            R("PATCH", <<>>, "user", 200), R("DELETE", <<Param>>, "user", 204),
            R("PATCH", <<"confirm">>, "open", 200),
            R("POST", <<"send-confirmation">>, "open", 202)>>)

HorseOwners == Crud(<<"horses", "owners">>, "user", 200)

HorseServices == Crud(<<"horses", "services">>, "user", 200)

HorseServiceRelations ==
    Under(<<"horses", Param>>,
          <<R("POST", <<"services">>, "user", 201), R("PATCH", <<"services", Param>>, "user", 200),
            R("DELETE", <<"services", Param>>, "user", 204), R("GET", <<"services">>, "read", 200),
            R("GET", <<"available-services">>, "user", 200)>>)

Horses == Crud(<<>>, "user", 200)

HorseDetails ==
    Under(<<Param>>,
          <<R("POST", <<"pedigree">>, "user", 204), R("POST", <<"photos">>, "user", 200),
            R("POST", <<"photos", "upload">>, "user", 200),
            R("GET", <<"pedigree", Param>>, "read", 200)>>)

\* The public news, but for whoever has a session too.
BugNewsReads ==
    <<R("GET", <<"news-cms">>, "user", 200), R("GET", <<"news">>, "read", 200),
      R("GET", <<"news", "by-slug", Param>>, "read", 200), R("GET", <<"news", Param>>, "read", 200)>>

NewsReads ==
    <<R("GET", <<"news-cms">>, "user", 200), R("GET", <<"news">>, "key", 200),
      R("GET", <<"news", "by-slug", Param>>, "key", 200), R("GET", <<"news", Param>>, "key", 200)>>

NewsWrites ==
    Under(<<"news">>,
          <<R("POST", <<>>, "user", 201), R("PATCH", <<Param>>, "user", 200),
            R("DELETE", <<Param>>, "user", 204), R("POST", <<Param, "photos">>, "user", 204),
            R("POST", <<Param, "photos", "upload">>, "user", 200)>>)

NotificationSettings ==
    Under(<<"notification-settings">>,
          <<R("GET", <<>>, "user", 200), R("PATCH", <<Param, Param>>, "user", 200)>>)

Photos ==
    Crud(<<"photos">>, "user", 200) \o <<R("POST", <<"photos", "batch-delete">>, "user", 204)>>

PriceGroups ==
    Crud(<<"prices", "groups">>, "user", 200)
    \o <<R("POST", <<"prices", "groups", Param, "reorder">>, "user", 204)>>

Prices == Crud(<<"prices">>, "user", 200)

PricePhotos ==
    Under(<<"prices", Param, "photos">>,
          <<R("POST", <<>>, "user", 204), R("POST", <<"upload">>, "user", 200)>>)

SiteSettingsRoutes == Crud(<<"site_settings">>, "settings", 200)

Profile ==
    <<R("GET", <<"me">>, "user", 200), R("PATCH", <<"me">>, "user", 200),
      R("PATCH", <<"me", "password">>, "user", 204)>>

Vk == Under(<<"vks">>,
            <<R("GET", <<"me">>, "user", 200), R("GET", <<"bot-info">>, "open", 200),
              R("POST", <<"issue-confirmation">>, "user", 201), R("DELETE", <<Param>>, "user", 204)>>)

Yandex ==
    Under(<<"yandex">>,
          <<R("GET", <<"auth", "link">>, "seo", 200), R("POST", <<"auth", "code">>, "seo", 200),
            R("GET", <<"accounts">>, "seo", 200), R("DELETE", <<"accounts", Param>>, "seo", 204),
            R("GET", <<"metrica", "counters">>, "seo", 200),
            R("GET", <<"metrica", "connection">>, "seo", 200),
            R("POST", <<"metrica", "connection">>, "seo", 200),
            R("DELETE", <<"metrica", "connection">>, "seo", 204)>>)

SeoLists ==
    <<R("GET", <<"search-queries">>, "seo", 200), R("GET", <<"pages">>, "seo", 200)>>

SeoBlacklist(list) ==
    Under(<<"page-normalization", list>>,
          <<R("GET", <<>>, "seo", 200), R("POST", <<>>, "seo", 201),
            R("PATCH", <<Param>>, "seo", 200), R("DELETE", <<Param>>, "seo", 204)>>)

SeoParseJobs == <<R("POST", <<"parse-jobs">>, "seo", 202)>>

CallbackRoutes ==
    <<R("POST", <<>>, "read", 201), R("GET", <<"statuses">>, "open", 200),
      R("GET", <<>>, "user", 200), R("GET", <<Param>>, "user", 200),
      R("PATCH", <<Param, "status">>, "user", 200), R("PATCH", <<Param, "spam">>, "user", 200)>>

ServiceCallbacks ==
    <<R("PATCH", <<Param, "status">>, "service", 200), R("PATCH", <<Param, "spam">>, "service", 200),
      R("PATCH", <<Param, "notifications-delivered">>, "service", 200)>>

ServiceUsers == <<R("GET", <<"">>, "service", 200)>>

ManagedUsers ==
    <<R("GET", <<"users">>, "manager", 200), R("GET", <<"users", Param>>, "manager", 200),
      R("POST", <<"users">>, "manager", 201), R("PATCH", <<"users", Param>>, "manager", 200),
      R("DELETE", <<"users", Param>>, "manager", 204)>>

ManagedAccounts ==
    <<R("PATCH", <<"users", Param, "block">>, "manager", 200),
      R("PATCH", <<"users", Param, "unblock">>, "manager", 200),
      R("PATCH", <<"users", Param, "password">>, "manager", 204),
      R("GET", <<"roles">>, "manager", 200)>>

\* The horses come last of those that share their prefix: the routes of one
\* horse fit the addresses of the others.
HorseCatalogue == Breeds \o BreedGroups \o CoatColors \o Emails \o HorseOwners \o HorseServices
             \o HorseServiceRelations \o Under(<<"horses">>, Horses \o HorseDetails)

BugRouters ==
    Under(<<"auth">>, Auth) \o HorseCatalogue \o NewsReads \o NewsWrites \o NotificationSettings
    \o Photos \o Prices \o PricePhotos \o PriceGroups \o SiteSettingsRoutes
    \o Under(<<"users">>, Profile) \o Vk \o Yandex
    \o Under(<<"seo">>, SeoLists \o SeoBlacklist("blacklisted-query-params")
                        \o SeoBlacklist("blacklisted-hashes") \o SeoParseJobs)
    \o Under(<<"callback_requests">>, CallbackRoutes)

Routers ==
    Under(<<"auth">>, Auth) \o HorseCatalogue \o NewsReads \o NewsWrites \o NotificationSettings
    \o Photos \o PriceGroups \o Prices \o PricePhotos \o SiteSettingsRoutes
    \o Under(<<"users">>, Profile) \o Vk \o Yandex
    \o Under(<<"seo">>, SeoLists \o SeoBlacklist("blacklisted-query-params")
                        \o SeoBlacklist("blacklisted-hashes") \o SeoParseJobs)
    \o Under(<<"callback_requests">>, CallbackRoutes)

Routes ==
    Under(<<"api">>, Routers)
    \o Under(<<"api", "service">>,
             Under(<<"users">>, ServiceUsers) \o Under(<<"callback_requests">>, ServiceCallbacks))
    \o Under(<<"api", "user-management">>, ManagedUsers \o ManagedAccounts)
    \o <<R("GET", <<"health">>, "open", 200)>>

\* A path fits a route segment by segment.
FitsRoute(path, route) ==
    /\ Len(path) = Len(route.path)
    /\ \A k \in DOMAIN path : route.path[k] \in {Param, path[k]}

\* The first route that fits, and 0 if none does.
RouteFor(method, path) ==
    SelectInSeq(Routes, LAMBDA r : r.method = method /\ FitsRoute(path, r))
================================================================================
