-------------------------------- MODULE Gateway --------------------------------
(***************************************************************************)
(* How a request from a browser reaches a route and its tenant: the CORS   *)
(* middleware, the routes, the dependencies that ask for a session, a      *)
(* scope or a key, and the inventory of access rules generated from the    *)
(* routes.  A page of the CMS sends cookies, a page of a tenant's site     *)
(* sends the tenant's key.  Left out: parameters, bodies and what services *)
(* refuse later.                                                           *)
(***************************************************************************)
EXTENDS Inventory, FiniteSets

CONSTANTS UserTenant,     \* the tenant of the user
          KeyTenant,      \* the tenant whose key a site sends
          Nobody          \* no tenant

VARIABLES caller,         \* the page, its credentials and the account behind them
          call,           \* the request it wants to make
          stage,          \* "preflight", "send" or "done"
          permission,     \* the answer to its preflight
          answer

vars == <<caller, call, stage, permission, answer>>

(***************************************************************************)
(* CORS                                                                    *)
(***************************************************************************)

BugPROTECTED_GET_PATH_PREFIXES == {<<"api", "auth", "me">>, <<"api", "users">>, <<"api", "news">>}

PROTECTED_GET_PATH_PREFIXES ==
    {<<"api", "auth", "me">>, <<"api", "users">>, <<"api", "news-cms">>}

MUTATING_METHODS == {"POST", "PATCH", "DELETE", "PUT"}

PUBLIC_CORS_ROUTES == {<<"POST", <<"api", "callback_requests">>>>}

is_protected_request(method, path) ==
    /\ <<method, path>> \notin PUBLIC_CORS_ROUTES
    /\ \/ method \in MUTATING_METHODS
       \/ method = "GET" /\ \E p \in PROTECTED_GET_PATH_PREFIXES : IsPrefix(p, path)

Strict(page, method, path) == is_protected_request(method, path) \/ page = "cms"

Forbidden == [ok |-> FALSE, origin |-> "none", credentials |-> FALSE, methods |-> {}, headers |-> {}]

\* The answer to OPTIONS.  Headers that are not listed one by one are granted
\* as requested.
Preflight(page, method, path, headers) ==
    LET public == <<method, path>> \in PUBLIC_CORS_ROUTES
        granted == [Forbidden EXCEPT !.ok = TRUE, !.headers = headers]
    IN  IF Strict(page, method, path)
        THEN IF page # "cms" THEN Forbidden
             ELSE [granted EXCEPT !.origin = page, !.credentials = TRUE,
                                  !.methods = {"GET", "POST", "PATCH", "DELETE", "PUT"}]
        ELSE IF public /\ ~headers \subseteq {"content-type", "x-equestrian-service-key"}
             THEN Forbidden
             ELSE [granted EXCEPT !.origin = "*", !.methods = IF public THEN {"POST"} ELSE {"GET"}]

\* The origin that may read the answer, and whether it may have sent cookies.
SendWithCors(page, method, path) ==
    IF Strict(page, method, path)
    THEN [origin |-> IF page = "cms" THEN page ELSE "none", credentials |-> page = "cms"]
    ELSE [origin |-> "*", credentials |-> FALSE]

(***************************************************************************)
(* Dependencies                                                            *)
(***************************************************************************)

\* A session is a token that has not expired, of a user who exists.
get_current_user == caller.access = "valid" /\ caller.account # "gone"

HasScope(scopes) == caller.scope \in scopes

Denied(status) == [status |-> status, tenant |-> Nobody]

Granted(status, tenant) == [status |-> status, tenant |-> tenant]

ByKey(ok) ==
    IF caller.key = "valid" THEN Granted(ok, KeyTenant) ELSE Denied(401)

\* A session that has ended is not replaced by the key.
get_read_equestrian_context(ok) ==
    IF caller.access # "none"
    THEN IF get_current_user THEN Granted(ok, UserTenant) ELSE Denied(401)
    ELSE ByKey(ok)

require_user_management(ok) ==
    CASE ~get_current_user -> Denied(401)
      [] get_current_user /\ caller.account = "blocked" -> Denied(403)
      [] OTHER -> IF HasScope({"USER_MANAGER", "SUPERUSER"}) THEN Granted(ok, UserTenant)
                  ELSE Denied(403)

WithScope(scopes, ok) ==
    CASE ~get_current_user -> Denied(401)
      [] OTHER -> IF HasScope(scopes) THEN Granted(ok, UserTenant) ELSE Denied(403)

SITE_SETTINGS_WRITE_SCOPES == {"SUPERUSER", "ADMIN", "DEVELOPER"}

Resolve(needs, ok) ==
    CASE needs = "open" -> Granted(ok, Nobody)
      [] needs = "refresh" ->
           IF caller.refresh = "valid" /\ caller.account # "gone" THEN Granted(ok, Nobody)
           ELSE Denied(401)
      [] needs = "service" ->
           IF caller.service THEN Granted(ok, Nobody) ELSE Denied(401)
      [] needs = "key" -> ByKey(ok)
      [] needs = "read" -> get_read_equestrian_context(ok)
      [] needs = "user" -> IF get_current_user THEN Granted(ok, UserTenant) ELSE Denied(401)
      [] needs = "manager" -> require_user_management(ok)
      [] needs = "settings" -> WithScope(SITE_SETTINGS_WRITE_SCOPES, ok)
      [] needs = "seo" -> WithScope({"SEO"}, ok)

\* A path that fits only routes of other methods is 405.
Dispatch(method, path) ==
    LET i == RouteFor(method, path) IN
    IF i # 0 THEN Resolve(Routes[i].needs, Routes[i].ok)
    ELSE Denied(IF \E r \in ToSet(Routes) : FitsRoute(path, r) THEN 405 ELSE 404)

(***************************************************************************)
(* Requests                                                                *)
(***************************************************************************)

\* The segments that a route has where another takes any value.
Words ==
    LET Instead(x) == {n \in DOMAIN x.path :
            \E q \in ToSet(Routes) :
                /\ Len(q.path) = Len(x.path)
                /\ q.path[n] = Param /\ x.path[n] # Param
                /\ SubSeq(q.path, 1, n - 1) = SubSeq(x.path, 1, n - 1)}
    IN  UNION {{x.path[n] : n \in Instead(x)} : x \in ToSet(Routes)}

\* A path that a client builds for a route, with a word for each parameter.
Address(route, word) == [k \in DOMAIN route.path |-> IF route.path[k] = Param THEN word ELSE route.path[k]]

Plain == "plain"

Calls == {[route |-> r, path |-> Address(r, w)] : r \in ToSet(Routes), w \in Words \cup {Plain}}

\* A browser with or without a session, a site, and a microservice.
Callers ==
    LET any == [page |-> "cms", access |-> "none", refresh |-> "none", key |-> "none",
                service |-> FALSE, account |-> "active", scope |-> "none"]
    IN  {[any EXCEPT !.access = a, !.refresh = a, !.account = s, !.scope = c] :
             a \in {"valid", "expired"}, s \in {"active", "blocked", "gone"},
             c \in {"none", "ADMIN", "SEO", "USER_MANAGER"}}
        \cup {[any EXCEPT !.refresh = "valid", !.key = k] : k \in {"none", "valid"}}
        \cup {[any EXCEPT !.page = "site", !.key = k] : k \in {"none", "valid", "unknown"}}
        \cup {[any EXCEPT !.page = "none", !.service = b] : b \in BOOLEAN}

NoReply == [ok |-> TRUE]

Init ==
    /\ caller \in Callers
    /\ call \in Calls
    /\ stage = "preflight"
    /\ permission = NoReply
    /\ answer = NoReply

\* What makes a browser ask first.
RequestHeaders ==
    (IF call.route.method # "GET" THEN {"content-type"} ELSE {})
    \cup (IF caller.key # "none" THEN {"x-equestrian-service-key"} ELSE {})

Ask ==
    /\ stage = "preflight"
    /\ caller.page # "none"
    /\ RequestHeaders # {}
    /\ LET p == Preflight(caller.page, call.route.method, call.path, RequestHeaders) IN
         /\ permission' = p
         /\ stage' = IF /\ p.ok /\ p.origin \in {"*", caller.page}
                        /\ call.route.method \in p.methods /\ RequestHeaders \subseteq p.headers
                        /\ caller.page = "cms" => p.credentials
                     THEN "send" ELSE "done"
    /\ UNCHANGED <<caller, call, answer>>

Send ==
    /\ \/ stage = "send"
       \/ stage = "preflight" /\ (caller.page = "none" \/ RequestHeaders = {})
    /\ stage' = "done"
    /\ answer' = [reply |-> Dispatch(call.route.method, call.path),
                  cors |-> SendWithCors(caller.page, call.route.method, call.path),
                  route |-> RouteFor(call.route.method, call.path)]
    /\ UNCHANGED <<caller, call, permission>>

Next == Ask \/ Send

Spec == Init /\ [][Next]_vars

(***************************************************************************)
(* Properties                                                              *)
(***************************************************************************)

Sent == answer # NoReply

Success == answer.reply.status \notin {401, 403, 404, 405}

\* q names a segment where r takes any, and differs in nothing else.
Narrower(q, r) ==
    /\ q # r
    /\ Len(q.path) = Len(r.path)
    /\ \A k \in DOMAIN r.path : r.path[k] \in {Param, q.path[k]}

\* A request is answered by the route it was built for, unless the word it has
\* for a parameter is the name of something else; then by the route of that
\* name, and never by one that takes any word in its place.
NamesBeforeWords ==
    Sent => /\ answer.route # 0
            /\ LET route == Routes[answer.route] IN
               /\ call.path = Address(call.route, Plain) => route = call.route
               /\ \A q \in ToSet(Routes) :
                    q.method = route.method /\ FitsRoute(call.path, q) => ~Narrower(q, route)

\* Whoever may call a route can call it from a browser: a site reads what is
\* public and leaves callback requests, with or without a preflight, and the
\* CMS does everything with its cookies; the script sees the answer.
BrowserMayCall ==
    LET route == call.route
        forSites == \/ route.method = "GET" /\ route.needs \in {"open", "read", "key"}
                    \/ route = R("POST", <<"api", "callback_requests">>, "read", 201)
    IN  stage = "done" /\ (caller.page = "cms" \/ (caller.page = "site" /\ forSites)) =>
            /\ Sent
            /\ answer.cors.origin \in {"*", caller.page}
            /\ caller.page = "cms" => answer.cors.credentials

Admits(who) ==
    CASE who = "all" -> TRUE
      [] who = "selector" -> IF caller.access # "none" THEN get_current_user ELSE caller.key = "valid"
      [] who = "key" -> caller.key = "valid"
      [] who = "session" -> get_current_user
      [] who = "refresh" -> caller.refresh = "valid" /\ caller.account # "gone"
      [] who = "microservice" -> caller.service

Inventoried(route) ==
    LET rule == classify(route.method, route.path) IN
    IF Admits(rule.who)
    THEN answer.reply.status \in rule.statuses \cup {403}
    ELSE answer.reply.status = 401

\* Two routes that the classification does not tell from their neighbours.
Misclassified ==
    {R("POST", <<"api", "auth", "logout">>, "open", 204),
     R("GET", <<"api", "horses", Param, "available-services">>, "user", 200)}

\* The inventory of access rules says who is let in, and with which status.
AsInventoried ==
    Sent /\ answer.route # 0 /\ Routes[answer.route] \notin Misclassified =>
        Inventoried(Routes[answer.route])
================================================================================
