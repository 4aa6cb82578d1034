------------------------------- MODULE Inventory -------------------------------
(***************************************************************************)
(* The classification of routes from which docs/backend-route-inventory.md *)
(* is generated.  A rule is read as who is answered with success, and with *)
(* which statuses:                                                         *)
(*   all            anyone                                                 *)
(*   selector       a session, or else a valid key of a tenant             *)
(*   key            a valid key, session or not                            *)
(*   session        a session, perhaps with a scope                        *)
(*   refresh        the refresh cookie                                     *)
(*   microservice   the key of the microservices                           *)
(* Left out: the columns about owners, foreign rows, validation and tests. *)
(***************************************************************************)
EXTENDS Routes

Rule(who, statuses) == [who |-> who, statuses |-> statuses]

\* "success/domain status".
AnyStatus == {200, 201, 202, 204, 400}

Key(method, path) == <<method, <<"api">> \o path>>

PUBLIC_POSTS ==
    {Key("POST", <<"auth", x>>) : x \in {"register", "login", "refresh"}}
    \cup {Key("POST", <<"callback_requests">>), Key("POST", <<"emails", "send-confirmation">>),
          Key("PATCH", <<"emails", "confirm">>)}

PROTECTED_GET_PREFIXES ==
    {<<"api">> \o p : p \in {<<"auth", "me">>, <<"news-cms">>, <<"users", "me">>,
                             <<"user-management">>, <<"emails", "me">>, <<"notification-settings">>}}

SERVICE_ROUTES ==
    {Key("GET", <<"service", "users", "">>)}
    \cup {Key("PATCH", <<"service", "callback_requests", Param, x>>) :
              x \in {"status", "spam", "notifications-delivered"}}

EMAIL_OWNER ==
    {Key("POST", <<"emails">>), Key("PATCH", <<"emails">>), Key("DELETE", <<"emails", Param>>)}

NOTIFICATION_SETTINGS_WRITE == {Key("PATCH", <<"notification-settings", Param, Param>>)}

VK_OWNER_WRITE ==
    {Key("POST", <<"vks", "issue-confirmation">>), Key("DELETE", <<"vks", Param>>)}

SuccessOf(method, post, patch) ==
    CASE method = "GET" -> {200} [] method = "POST" -> {post} [] method = "PATCH" -> {patch}
      [] method = "DELETE" -> {204}

ClassifySeo(method, path) ==
    Rule("session", IF path[3] = "parse-jobs" THEN {202} ELSE SuccessOf(method, 201, 200))

ClassifyYandex(method) == Rule("session", SuccessOf(method, 200, 200))

ClassifyCallback(method, path) ==
    CASE method = "GET" /\ path[Len(path)] = "statuses" -> Rule("all", {200})
      [] method = "GET" /\ path[Len(path)] # "statuses" -> Rule("session", {200})
      [] method = "POST" -> Rule("selector", {201})
      [] method = "PATCH" -> Rule("session", {200, 201, 204})

NewsKinds == {<<"news">>, <<"news", "by-slug", Param>>, <<"news", Param>>}

\* The rules of single routes, whoever comes first.
Exceptional(method, path) ==
    LET key == <<method, path>> IN
    CASE key \in SERVICE_ROUTES -> Rule("microservice", {200})
      [] key \in EMAIL_OWNER -> Rule("session", SuccessOf(method, 201, 200))
      [] key \in NOTIFICATION_SETTINGS_WRITE -> Rule("session", {200})
      [] key \in VK_OWNER_WRITE -> Rule("session", SuccessOf(method, 201, 200))
      [] key = Key("GET", <<"vks", "bot-info">>) -> Rule("all", {200})
      [] key = Key("GET", <<"vks", "me">>) -> Rule("session", {200})
      [] key = Key("POST", <<"auth", "refresh">>) -> Rule("refresh", {200})
      [] key \in PUBLIC_POSTS \ {Key("POST", <<"auth", "refresh">>),
                                 Key("POST", <<"callback_requests">>)} -> Rule("all", AnyStatus)
      [] key = Key("POST", <<"auth", "logout">>) -> Rule("session", {200})
      [] OTHER -> Rule("none", {})

\* What no exception is about is read by tenant and written by session.
General(method, path) ==
    CASE method = "GET" /\ path = <<"health">> -> Rule("all", {200})
      [] method = "GET" /\ Tail(path) \in NewsKinds -> Rule("key", {200})
      [] method = "GET" /\ \E p \in PROTECTED_GET_PREFIXES : IsPrefix(p, path) -> Rule("session", {200})
      [] method # "GET" /\ Tail(path) \in {<<"news">>, <<"news", Param>>} ->
           Rule("session", SuccessOf(method, 201, 200))
      [] method # "GET" /\ Tail(path) \notin {<<"news">>, <<"news", Param>>} ->
           Rule("session", {200, 201, 204})
      [] OTHER -> Rule("selector", {200})

classify(method, path) ==
    CASE path[1] = "api" /\ path[2] = "seo" -> ClassifySeo(method, path)
      [] path[1] = "api" /\ path[2] = "yandex" -> ClassifyYandex(method)
      [] path[1] = "api" /\ path[2] = "callback_requests" -> ClassifyCallback(method, path)
      [] OTHER -> IF Exceptional(method, path).who # "none" THEN Exceptional(method, path)
                  ELSE General(method, path)
================================================================================
