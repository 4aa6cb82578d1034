----------------------------- MODULE UserRecords -----------------------------
(***************************************************************************)
(* User accounts of one tenant: UserManagementService with its repository, *)
(* the own profile and password of UserService with AbstractRepository,    *)
(* and the guard require_user_management.  Three kinds of write meet on a  *)
(* row of users: targeted updates (delete, block, unblock, password), the  *)
(* whole row with a filter on is_deleted (update_user) and the whole row   *)
(* without one (profile, own password); update_user and create_user also   *)
(* replace the rows of user_scopes_relations, which has no unique          *)
(* constraint.                                                             *)
(*                                                                         *)
(* A session is one HTTP request at a time with its transaction.  Personal *)
(* names and the password hash are left out: a request that sets only      *)
(* these still writes its row.  Definitions named Bug... are mutated forms *)
(* of the one that follows them; no specification uses them.               *)
(***************************************************************************)
EXTENDS Naturals

CONSTANTS
    Sessions,    \* concurrent requests
    Users,       \* user ids
    Usernames,
    Founder,     \* the user put into the database by hand
    NoUser,
    KeepName, KeepScopes   \* fields a request leaves out

VARIABLES
    rows,        \* committed table users
    scopes,      \* committed table user_scopes_relations: the scopes of a user
    pc,          \* next step of the request
    req,         \* the request: operation, user, scopes to set
    ent,         \* the User entity the handler works on
    pend,        \* uncommitted version of the user's row
    cut, grant,  \* scopes the transaction has deleted and inserted
    overlap      \* may requests run at the same time? fixed by Init

vars == <<rows, scopes, pc, req, ent, pend, cut, grant, overlap>>

\* SUPERUSER and USER_MANAGER; other scopes do not matter here.
Scopes == {"SU", "UM"}

User == [name: Usernames, blocked: BOOLEAN, deleted: BOOLEAN]

Marks == {"delete", "block", "unblock", "password"}

Request == [op     : {"none", "create", "update", "profile"} \cup Marks,
            user   : Users \cup {NoUser},
            scopes : (SUBSET Scopes) \cup {KeepScopes}]

NoRequest == [op |-> "none", user |-> NoUser, scopes |-> KeepScopes]

Goto(s, step) == pc' = [pc EXCEPT ![s] = step]

Finish(s) ==
    /\ Goto(s, "idle")
    /\ req' = [req EXCEPT ![s] = NoRequest]
    /\ ent' = [ent EXCEPT ![s] = NoUser]
    /\ pend' = [pend EXCEPT ![s] = NoUser]
    /\ cut' = [cut EXCEPT ![s] = {}]
    /\ grant' = [grant EXCEPT ![s] = {}]
    /\ UNCHANGED overlap

Init ==
    /\ \E n \in Usernames :
        rows = [u \in Users |-> IF u = Founder
                                THEN [name |-> n, blocked |-> FALSE, deleted |-> FALSE]
                                ELSE NoUser]
    /\ scopes = [u \in Users |-> IF u = Founder THEN {"SU"} ELSE {}]
    /\ pc = [s \in Sessions |-> "idle"]
    /\ req = [s \in Sessions |-> NoRequest]
    /\ ent = [s \in Sessions |-> NoUser]
    /\ pend = [s \in Sessions |-> NoUser]
    /\ cut = [s \in Sessions |-> {}]
    /\ grant = [s \in Sessions |-> {}]
    /\ overlap \in BOOLEAN

(***************************************************************************)
(* From the entry of a handler to its first write                          *)
(***************************************************************************)

Present(u) == rows[u] # NoUser
Live(u) == Present(u) /\ ~rows[u].deleted

\* require_user_management.
Manager(a) == Present(a) /\ ~rows[a].blocked /\ scopes[a] # {}

BugOutranked(a, u) == FALSE

\* A manager who is not a superuser does not touch a superuser.
Outranked(a, u) ==
    /\ "UM" \in scopes[a] /\ "SU" \notin scopes[a]
    /\ "SU" \in scopes[u]

\* The scopes a may set for u: no USER_MANAGER hands out SUPERUSER, nobody
\* takes the scope that makes him a manager from himself.
MaySet(a, u, q) ==
    q # KeepScopes => /\ "UM" \in scopes[a] => "SU" \notin q
                      /\ a = u => scopes[a] \subseteq q

\* get_by_username: deleted users do not count.
NameKnown(n, u) == \E v \in Users \ {u} : Live(v) /\ rows[v].name = n

Ready(s) ==
    /\ pc[s] = "idle"
    /\ ~overlap => \A t \in Sessions : pc[t] = "idle"

Start(s, r, e, step) ==
    /\ req' = [req EXCEPT ![s] = r]
    /\ ent' = [ent EXCEPT ![s] = e]
    /\ Goto(s, step)
    /\ UNCHANGED <<rows, scopes, pend, cut, grant, overlap>>

Fresh(u) == ~Present(u) /\ \A t \in Sessions : req[t].user # u

AskCreate(s) ==
    /\ Ready(s)
    /\ \E a \in Users, u \in Users, n \in Usernames, q \in SUBSET Scopes :
        /\ Manager(a)
        /\ "UM" \in scopes[a] => "SU" \notin q
        /\ Fresh(u)
        /\ ~NameKnown(n, u)
        /\ Start(s, [op |-> "create", user |-> u, scopes |-> q],
                    [name |-> n, blocked |-> FALSE, deleted |-> FALSE], "insert")

AskUpdate(s) ==
    /\ Ready(s)
    /\ \E a \in Users, u \in Users, n \in Usernames \cup {KeepName},
          q \in (SUBSET Scopes) \cup {KeepScopes} :
        /\ Manager(a)
        /\ Live(u)
        /\ ~Outranked(a, u)
        /\ MaySet(a, u, q)
        /\ n \notin {KeepName, rows[u].name} => ~NameKnown(n, u)
        /\ Start(s, [op |-> "update", user |-> u, scopes |-> q],
                    [rows[u] EXCEPT !.name = IF n = KeepName THEN @ ELSE n], "update")

\* soft_delete_user, block_user, unblock_user, change_password.
AskMark(s) ==
    /\ Ready(s)
    /\ \E a \in Users, u \in Users, op \in Marks :
        /\ Manager(a)
        /\ op \in {"delete", "block"} => u # a
        /\ Live(u)
        /\ ~Outranked(a, u)
        /\ Start(s, [op |-> op, user |-> u, scopes |-> KeepScopes], NoUser, "mark")

\* update_my_profile, change_my_password: get_by_id looks at no flag.
AskProfile(s) ==
    /\ Ready(s)
    /\ \E u \in Users :
        /\ Present(u)
        /\ Start(s, [op |-> "profile", user |-> u, scopes |-> KeepScopes],
                    rows[u], "overwrite")

(***************************************************************************)
(* The writes                                                              *)
(***************************************************************************)

\* A statement waits for the row while another transaction has written it.
RowFree(s) ==
    \A t \in Sessions \ {s} : pend[t] # NoUser => req[t].user # req[s].user

\* No index, only the look-up of get_by_username.
BugNameFree(s, n) == TRUE

\* Index users_username: no other row has the name, none is about to have it
\* or to lose it.  A taken name ends the request (Abort).
NameFree(s, n) ==
    /\ \A u \in Users \ {req[s].user} : Present(u) => rows[u].name # n
    /\ \A t \in Sessions \ {s} : pend[t] # NoUser => pend[t].name # n

Stage(s, row, step) ==
    /\ pend' = [pend EXCEPT ![s] = row]
    /\ Goto(s, step)
    /\ UNCHANGED <<rows, scopes, req, ent, cut, grant, overlap>>

InsertUser(s) ==
    /\ pc[s] = "insert"
    /\ NameFree(s, ent[s].name)
    /\ Stage(s, ent[s], IF req[s].scopes = {} THEN "commit" ELSE "scopes")

AfterUpdate(s) == IF req[s].scopes = KeepScopes THEN "commit" ELSE "scopes"

\* The row is written only when one of its fields is to change.
BugUpdateUser(s) ==
    /\ pc[s] = "update"
    /\ \/ ent[s] = rows[req[s].user] /\ Stage(s, NoUser, AfterUpdate(s))
       \/ /\ ent[s] # rows[req[s].user]
          /\ RowFree(s) /\ Live(req[s].user) /\ NameFree(s, ent[s].name)
          /\ Stage(s, ent[s], AfterUpdate(s))

\* The row is updated by its id alone.
BugFilterUpdateUser(s) ==
    /\ pc[s] = "update"
    /\ RowFree(s)
    /\ NameFree(s, ent[s].name)
    /\ Stage(s, ent[s], AfterUpdate(s))

\* update_user: every column as it was read, if the row is still not deleted
\* when the statement gets it.
UpdateUser(s) ==
    /\ pc[s] = "update"
    /\ RowFree(s)
    /\ Live(req[s].user)
    /\ NameFree(s, ent[s].name)
    /\ Stage(s, ent[s], AfterUpdate(s))

Marked(row, op) ==
    [row EXCEPT !.deleted = @ \/ op = "delete",
                !.blocked = (@ \/ op = "block") /\ op # "unblock"]

\* The targeted updates: one column of the row as it is now.
MarkUser(s) ==
    /\ pc[s] = "mark"
    /\ RowFree(s)
    /\ Live(req[s].user)
    /\ Stage(s, Marked(rows[req[s].user], req[s].op), "commit")

\* rowcount 0: the user has been deleted meanwhile, NotFoundError.
NotFound(s) ==
    /\ pc[s] \in {"update", "mark"}
    /\ RowFree(s)
    /\ ~Live(req[s].user)
    /\ Finish(s)
    /\ UNCHANGED <<rows, scopes>>

\* AbstractRepository.update: every column as it was read.
OverwriteUser(s) ==
    /\ pc[s] = "overwrite"
    /\ RowFree(s)
    /\ NameFree(s, ent[s].name)
    /\ Stage(s, ent[s], "commit")

\* _set_user_scopes: DELETE of what it sees, INSERT of what is asked.
SetScopes(s) ==
    /\ pc[s] = "scopes"
    /\ cut' = [cut EXCEPT ![s] = scopes[req[s].user]]
    /\ grant' = [grant EXCEPT ![s] = req[s].scopes]
    /\ Goto(s, "commit")
    /\ UNCHANGED <<rows, scopes, req, ent, pend, overlap>>

Commit(s) ==
    /\ pc[s] = "commit"
    /\ rows' = [rows EXCEPT ![req[s].user] = IF pend[s] = NoUser THEN @ ELSE pend[s]]
    /\ scopes' = [scopes EXCEPT ![req[s].user] = (@ \ cut[s]) \cup grant[s]]
    /\ Finish(s)

\* A failed statement or commit, a dead worker, a client that went away.
Abort(s) ==
    /\ pc[s] # "idle"
    /\ Finish(s)
    /\ UNCHANGED <<rows, scopes>>

Next ==
    \E s \in Sessions :
        \/ AskCreate(s) \/ AskUpdate(s) \/ AskMark(s) \/ AskProfile(s)
        \/ InsertUser(s) \/ UpdateUser(s) \/ MarkUser(s) \/ NotFound(s)
        \/ OverwriteUser(s) \/ SetScopes(s) \/ Commit(s) \/ Abort(s)

Spec == Init /\ [][Next]_vars

(***************************************************************************)
(* Properties                                                              *)
(***************************************************************************)

\* The variables keep their types and usernames are unique, deleted users
\* included (the index; get_by_username alone would not do).
TypeOK ==
    /\ rows \in [Users -> User \cup {NoUser}]
    /\ scopes \in [Users -> SUBSET Scopes]
    /\ pc \in [Sessions -> {"idle", "insert", "update", "mark", "overwrite",
                            "scopes", "commit"}]
    /\ req \in [Sessions -> Request]
    /\ ent \in [Sessions -> User \cup {NoUser}]
    /\ pend \in [Sessions -> User \cup {NoUser}]
    /\ cut \in [Sessions -> SUBSET Scopes]
    /\ grant \in [Sessions -> SUBSET Scopes]
    /\ overlap \in BOOLEAN
    /\ \A u, v \in Users :
        Present(u) /\ Present(v) /\ rows[u].name = rows[v].name => u = v

Ends(s) == pc[s] = "commit" /\ pc'[s] = "idle"

\* A committed update_user or create_user leaves the user with the scopes it
\* was asked to set, although two of them may replace the scopes of one user at
\* the same time and no constraint covers the relation (_set_user_scopes).
ScopesAsRequested ==
    [][\A s \in Sessions :
         Ends(s) /\ (rows' # rows \/ scopes' # scopes) /\ req[s].scopes # KeepScopes
         => scopes'[req[s].user] = req[s].scopes]_vars

\* A deleted account is not changed by any administrative request that was
\* still on its way when it was deleted: a row comes back or changes after its
\* deletion only by a commit of the account's own profile or password request
\* (the filters on is_deleted in UserManagementRepository).
DeletedIsFinal ==
    [][\A u \in Users :
         Present(u) /\ rows[u].deleted /\ rows'[u] # rows[u]
         => \E s \in Sessions : Ends(s) /\ req[s].op = "profile" /\ req[s].user = u]_vars

\* As long as requests do not overlap, a SUPERUSER who is not blocked remains:
\* the rules on oneself and on USER_MANAGER leave no sequence of requests that
\* ends without one.
SuperuserRemains ==
    overlap \/ \E u \in Users : Present(u) /\ ~rows[u].blocked /\ "SU" \in scopes[u]
==============================================================================
