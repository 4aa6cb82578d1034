-------------------------------- MODULE Proxies --------------------------------
(***************************************************************************)
(* Requests that another service answers: e-mail, VK, notification, SEO    *)
(* and Yandex services.  A proxy refuses a request, makes one HTTP call    *)
(* for it, or several (pages of accounts before an account is used, the    *)
(* connection before it is deleted), and turns what comes back into a      *)
(* status.  The peer may do what it is asked and its reply may still be    *)
(* lost, and its accounts change under the pages.  Left out: what the      *)
(* calls and replies contain.  Each tenant has one user here.              *)
(***************************************************************************)
EXTENDS Naturals, FiniteSets, SequencesExt

CONSTANTS Tenants,     \* tenants, each with its user
          Accounts,    \* Yandex accounts
          NoTarget,    \* a request that names nothing
          PageSize,    \* accounts in a page (100 in the code)
          MaxChanges   \* changes of the accounts by others, at most

VARIABLES tenantOf,    \* the tenant that has connected an account
          accounts,    \* the accounts at the peer, in the order of its list
          connected,   \* tenants with a counter
          changes,     \* changes of the accounts by others
          request,     \* the request in progress
          stage,       \* what it does next
          offset,      \* accounts it has passed over
          answer,      \* the status of its response
          done,        \* history: the peer has done what was asked
          absent       \* history: the account was not on the list, or the list moved

vars == <<tenantOf, accounts, connected, changes, request, stage, offset, answer, done, absent>>

Unanswered == 0

Reads == {"email_read", "vk_read", "vk_info", "settings", "seo_list", "seo_pages",
          "auth_link", "list_accounts", "list_counters", "get_connection"}

EmailCalls == {"email_read", "email_write", "email_delete", "email_confirm", "email_send"}
VkCalls == {"vk_read", "vk_info", "vk_issue", "vk_delete"}
SettingCalls == {"settings", "setting"}
SeoCalls == {"seo_list", "seo_pages", "seo_write", "seo_delete", "parse_job"}
YandexCalls == {"auth_link", "exchange_code", "list_accounts", "delete_account", "list_counters",
                "get_connection", "set_connection", "delete_connection"}

Calls == EmailCalls \cup VkCalls \cup SettingCalls \cup SeoCalls \cup YandexCalls

\* Requests that name a user, that bring the code of one, that name an account.
ForUser == {"email_write", "email_delete", "email_send", "vk_delete"}
ByCode == {"email_confirm", "exchange_code"}
ForAccount == {"delete_account", "list_counters", "set_connection"}

\* Routes without a session: whoever calls them acts for the user named.
Sessionless == {"email_confirm", "email_send"}

Requests ==
    [call : ForUser \cup ByCode, actor : Tenants, target : Tenants, fit : BOOLEAN]
    \cup [call : ForAccount, actor : Tenants, target : Accounts, fit : BOOLEAN]
    \cup [call : Calls \ (ForUser \cup ByCode \cup ForAccount), actor : Tenants,
          target : {NoTarget}, fit : BOOLEAN]

(***************************************************************************)
(* What the proxies refuse without a call                                  *)
(***************************************************************************)

\* An e-mail or a VK binding belongs to its user; a confirmation is sent to anyone.
NotOwner(r) == r.call \in ForUser \ Sessionless /\ r.target # r.actor

\* The state of an authorization names the tenant it was started for.
ForeignState(r) == r.call = "exchange_code" /\ r.target # r.actor

\* Ids, codes, counters, dates or a body that do not parse.
WithInput == ForUser \cup ByCode \cup ForAccount \cup SeoCalls \cup {"setting"}

Malformed(r) == ~r.fit /\ r.call \in WithInput

\* A setting of an unknown event or channel, or beyond the user's scopes.
NotEligible(r) == ~r.fit /\ r.call = "setting"

Refusals(r) ==
    {s \in {400, 403, 404} :
        \/ s = 400 /\ Malformed(r)
        \/ s = 403 /\ ~Malformed(r) /\ (NotOwner(r) \/ ForeignState(r))
        \/ s \in {403, 404} /\ NotEligible(r)}

(***************************************************************************)
(* What comes back from a call, and the status it is turned into           *)
(***************************************************************************)

Errors == {400, 404, 409, 500, 503}
Good == 200
Unreadable == 2        \* a success whose body cannot be parsed
Lost == 1              \* no reply in time

\* Every error of the e-mail service is passed on; only reads expect a body
\* they cannot parse, and a deletion expects none.
EmailStatus(c, reply) ==
    CASE reply = Lost -> 502
      [] reply = Unreadable /\ c = "email_read" -> 502
      [] reply = Unreadable /\ c = "email_delete" -> 200
      [] reply = Unreadable /\ c \in {"email_write", "email_confirm", "email_send"} -> 500
      [] OTHER -> reply

VkStatus(c, reply) ==
    CASE reply \in {200, 404, 409, 503} -> reply
      [] reply = Unreadable /\ c = "vk_delete" -> 200
      [] OTHER -> 502

SettingStatus(c, reply) == IF reply \in {200, 404} THEN reply ELSE 502

SeoStatus(c, reply) ==
    CASE reply \in {200, 400} -> reply
      [] reply = 503 /\ c = "parse_job" -> 503
      [] reply \in {404, 409} /\ c \in {"seo_pages", "seo_write", "seo_delete"} -> reply
      [] reply = Unreadable /\ c = "seo_delete" -> 200
      [] OTHER -> 502

YandexStatus(c, reply) ==
    CASE reply \in {200, 400} -> reply
      [] reply = Unreadable /\ c \in {"delete_account", "delete_connection"} -> 200
      [] OTHER -> 502

Status(c, reply) ==
    CASE c \in EmailCalls -> EmailStatus(c, reply)
      [] c \in VkCalls -> VkStatus(c, reply)
      [] c \in SettingCalls -> SettingStatus(c, reply)
      [] c \in SeoCalls -> SeoStatus(c, reply)
      [] c \in YandexCalls -> YandexStatus(c, reply)

(***************************************************************************)
(* A request and the peer                                                  *)
(***************************************************************************)

Init ==
    /\ tenantOf \in [Accounts -> Tenants]
    /\ accounts \in {SetToSeq(S) : S \in SUBSET Accounts}
    /\ connected \in SUBSET Tenants
    /\ request \in Requests
    /\ request.call \in WithInput \cup {"settings"} \/ request.fit
    /\ stage = "asked"
    /\ changes = 0 /\ offset = 0 /\ answer = Unanswered
    /\ done = FALSE /\ absent = FALSE

actor == request.actor

\* The places of the tenant's accounts among the first n of the list.
OwnUpTo(n) == {i \in 1..n : tenantOf[accounts[i]] = actor}

Total == Cardinality(OwnUpTo(Len(accounts)))

\* The accounts the peer lists for a tenant after those of the pages before.
Page ==
    {i \in OwnUpTo(Len(accounts)) :
        Cardinality(OwnUpTo(i)) \in offset + 1 .. offset + PageSize}

Listed(places) == \E i \in places : accounts[i] = request.target

Respond(s) == stage' = "answered" /\ answer' = s

Refuse ==
    /\ stage = "asked"
    /\ \E s \in Refusals(request) : Respond(s)
    /\ UNCHANGED <<tenantOf, accounts, connected, changes, request, offset, done, absent>>

\* A user without a scope for notifications has an empty list of settings.
NoSettings ==
    /\ stage = "asked" /\ request.call = "settings" /\ ~request.fit
    /\ Respond(200)
    /\ UNCHANGED <<tenantOf, accounts, connected, changes, request, offset, done, absent>>

\* What a request calls first.
Start ==
    /\ stage = "asked" /\ Refusals(request) = {}
    /\ request.call = "settings" => request.fit
    /\ stage' = CASE request.call \in ForAccount -> "check"
                  [] request.call = "delete_connection" -> "find"
                  [] OTHER -> "call"
    /\ absent' = (request.call \in ForAccount /\ ~Listed(OwnUpTo(Len(accounts))))
    /\ UNCHANGED <<tenantOf, accounts, connected, changes, request, offset, answer, done>>

\* The pages end with the first one.
BugCheckPage ==
    /\ stage = "check"
    /\ IF Listed({i \in OwnUpTo(Len(accounts)) : Cardinality(OwnUpTo(i)) <= PageSize})
       THEN stage' = "call" /\ UNCHANGED <<offset, answer>>
       ELSE Respond(404) /\ UNCHANGED offset
    /\ UNCHANGED <<tenantOf, accounts, connected, changes, request, done, absent>>

\* A page of the tenant's accounts, after the accounts of the pages before.
CheckPage ==
    /\ stage = "check"
    /\ \/ Listed(Page) /\ stage' = "call" /\ UNCHANGED <<offset, answer>>
       \/ /\ ~Listed(Page)
          /\ offset' = offset + Cardinality(Page)
          /\ IF Page = {} \/ offset' >= Total
             THEN Respond(404)
             ELSE UNCHANGED <<stage, answer>>
    /\ UNCHANGED <<tenantOf, accounts, connected, changes, request, done, absent>>

\* The connection that is to be deleted; without one there is nothing to do.
FindConnection ==
    /\ stage = "find"
    /\ IF actor \in connected
       THEN stage' = "call" /\ UNCHANGED <<answer, done>>
       ELSE Respond(200) /\ done' = TRUE
    /\ UNCHANGED <<tenantOf, accounts, connected, changes, request, offset, absent>>

\* A page or the connection cannot be read.
ReadFails ==
    /\ stage \in {"check", "find"}
    /\ \E reply \in Errors \cup {Lost, Unreadable} : Respond(YandexStatus("list_accounts", reply))
    /\ UNCHANGED <<tenantOf, accounts, connected, changes, request, offset, done, absent>>

\* The peer knows what it is to change.
Known ==
    /\ request.call \in ForAccount => request.target \in ToSet(accounts)
    /\ request.call = "delete_connection" => actor \in connected

\* What the peer does at its own data.
Effect ==
    /\ accounts' = CASE request.call = "delete_account" -> Remove(accounts, request.target)
                     [] OTHER -> accounts
    /\ connected' = CASE request.call = "set_connection" -> connected \cup {actor}
                      [] request.call = "delete_connection" -> connected \ {actor}
                      [] OTHER -> connected

\* The peer does what it is asked; its reply arrives, or does not.
CallDone ==
    /\ stage = "call" /\ Known
    /\ Effect /\ done' = TRUE
    /\ \E reply \in {Good, Unreadable, Lost} : Respond(Status(request.call, reply))
    /\ UNCHANGED <<tenantOf, changes, request, offset, absent>>

\* The peer refuses, fails, or cannot be reached.
CallFails ==
    /\ stage = "call"
    /\ \E reply \in Errors \cup {Lost} : Respond(Status(request.call, reply))
    /\ UNCHANGED <<tenantOf, accounts, connected, changes, request, offset, done, absent>>

\* Others change the accounts and the connections of the tenant meanwhile.
Disturb ==
    /\ changes < MaxChanges /\ stage \in {"check", "find", "call"}
    /\ changes' = changes + 1
    /\ \/ \E a \in Accounts \ ToSet(accounts), i \in 1..(Len(accounts) + 1) :
              /\ accounts' = InsertAt(accounts, i, a)
              /\ UNCHANGED <<connected, absent>>
       \/ \E i \in DOMAIN accounts :
              /\ accounts' = RemoveAt(accounts, i)
              /\ absent' = \/ absent \/ request.target = accounts[i]
                           \/ tenantOf[accounts[i]] = actor /\ offset > 0
              /\ UNCHANGED connected
       \/ /\ \/ connected' = connected \cup {actor}
             \/ connected' = connected \ {actor}
          /\ UNCHANGED <<accounts, absent>>
    /\ UNCHANGED <<tenantOf, request, stage, offset, answer, done>>

Next ==
    \/ Refuse \/ NoSettings \/ Start
    \/ CheckPage \/ FindConnection \/ ReadFails
    \/ CallDone \/ CallFails
    \/ Disturb

Spec == Init /\ [][Next]_vars

(***************************************************************************)
(* Property                                                                *)
(***************************************************************************)

\* What is changed at a peer belongs to the user of the session; two routes have
\* no session, and act for the user they are given (email_proxy.py:37-41).
OwnTarget ==
    /\ request.call \in ForAccount => tenantOf[request.target] = actor
    /\ request.call \in (ForUser \cup ByCode) \ Sessionless => request.target = actor

\* The status tells the truth about the peer: nothing is done for another tenant
\* or user than the session's, where there is one; a success is done; what is
\* answered with a 4xx is not done; and an account is reported missing only if
\* it was, or if an account of the tenant vanished while its pages were read
\* (yandex_proxy.py:24-35).
AnswerMatchesPeer ==
    /\ done => OwnTarget
    /\ answer = 200 /\ request.call \notin Reads => done
    /\ answer \in 400..499 => ~done
    /\ answer = 404 /\ request.call \in ForAccount => absent
================================================================================
