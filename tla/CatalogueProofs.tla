---------------------------- MODULE CatalogueProofs ----------------------------
(***************************************************************************)
(* Theorems about the parts that MCCatalogue puts side by side, for every  *)
(* value of their constants: accounts, values of site settings, the broker *)
(* connection, news, names and slugs, the pages of lists, and migrations.  *)
(***************************************************************************)
EXTENDS MCCatalogue, FiniteSetTheorems, SequenceTheorems, WellFoundedInduction, TLAPS

LEMMA LeastNumber ==
    ASSUME NEW S \in SUBSET Nat, S # {}
    PROVE  \E c \in S : \A d \in S : c <= d
<1> DEFINE Less == {ss \in Nat \X Nat : ss[1] < ss[2]}
<1>1. IsWellFoundedOn(Less, Nat)
  BY NatLessThanWellFounded DEF OpToRel
<1>2. PICK c \in S : \A d \in S : ~(<<d, c>> \in Less)
  BY <1>1, WFMin
<1>3. \A d \in S : ~(d < c)
  BY <1>2
<1> QED
  BY <1>2, <1>3

(***************************************************************************)
(* User accounts: for any number of requests, users and names, usernames are *)
(* unique, a committed request leaves the scopes it was asked to set, and  *)
(* only the account's own requests change a deleted account.               *)
(***************************************************************************)

\* What stands for no user is no user, and no scopes are not a set of scopes.
Apart ==
    /\ NoUser \notin User
    /\ NoUser \notin Users
    /\ KeepScopes \notin SUBSET Scopes

Steps == {"idle", "insert", "update", "mark", "overwrite", "scopes", "commit"}

Types ==
    /\ rows \in [Users -> User \cup {NoUser}]
    /\ scopes \in [Users -> SUBSET Scopes]
    /\ pc \in [Sessions -> Steps]
    /\ req \in [Sessions -> Request]
    /\ ent \in [Sessions -> User \cup {NoUser}]
    /\ pend \in [Sessions -> User \cup {NoUser}]
    /\ cut \in [Sessions -> SUBSET Scopes]
    /\ grant \in [Sessions -> SUBSET Scopes]
    /\ overlap \in BOOLEAN

NamesUnique ==
    \A u, v \in Users : Present(u) /\ Present(v) /\ rows[u].name = rows[v].name => u = v

\* What a request is about in each of its steps.
Asked(s) ==
    /\ pc[s] = "idle" => req[s].op = "none" /\ req[s].user = NoUser
    /\ pc[s] # "idle" => req[s].op # "none" /\ req[s].user \in Users
    /\ pc[s] = "insert" => req[s].op = "create" /\ req[s].scopes \in SUBSET Scopes
    /\ pc[s] = "update" => req[s].op = "update"
    /\ pc[s] = "mark" => req[s].op \in Marks /\ req[s].scopes = KeepScopes
    /\ pc[s] = "overwrite" => req[s].op = "profile" /\ req[s].scopes = KeepScopes
    /\ pc[s] = "scopes" => req[s].op \in {"create", "update"} /\ req[s].scopes # KeepScopes
    /\ pc[s] \in {"insert", "update", "overwrite"} => ent[s] \in User
    /\ pend[s] # NoUser <=> pc[s] \in {"scopes", "commit"}
    /\ pc[s] # "commit" \/ req[s].scopes = KeepScopes => cut[s] = {} /\ grant[s] = {}

\* A user who is being created is nobody else's: no row, no scopes, no request.
Unborn(s) ==
    req[s].op = "create" =>
        /\ rows[req[s].user] = NoUser
        /\ \A t \in Sessions \ {s} : req[t].user # req[s].user

\* What the locks keep until the transaction that has written the row ends.
Locked(s) ==
    pend[s] # NoUser =>
        /\ req[s].op \in Marks \cup {"update"} => Live(req[s].user)
        /\ \A t \in Sessions \ {s} : pend[t] # NoUser => req[t].user # req[s].user
        /\ \A t \in Sessions \ {s} : pend[t] # NoUser => pend[t].name # pend[s].name
        /\ \A u \in Users \ {req[s].user} : Present(u) => rows[u].name # pend[s].name

\* The scopes a commit will leave.
Promised(s) ==
    pc[s] = "commit" /\ req[s].scopes # KeepScopes =>
        (scopes[req[s].user] \ cut[s]) \cup grant[s] = req[s].scopes

ScopesHaveUser == \A u \in Users : rows[u] = NoUser => scopes[u] = {}

UInv ==
    /\ Types
    /\ NamesUnique
    /\ ScopesHaveUser
    /\ \A s \in Sessions : Asked(s) /\ Unborn(s) /\ Locked(s) /\ Promised(s)

\* A step of s leaves the other requests alone.
Others(s) ==
    \A t \in Sessions \ {s} :
        /\ pc'[t] = pc[t] /\ req'[t] = req[t] /\ ent'[t] = ent[t]
        /\ pend'[t] = pend[t] /\ cut'[t] = cut[t] /\ grant'[t] = grant[t]

LEMMA StartUsers ==
    ASSUME Apart, UInv, NEW s \in Sessions, Ready(s),
           NEW r \in Request, NEW e \in User \cup {NoUser}, NEW step \in Steps \ {"idle"},
           Start(s, r, e, step),
           r.op # "none", r.user \in Users,
           r.op = "create" => Fresh(r.user),
           r.op # "create" => Present(r.user),
           step = "insert" => r.op = "create" /\ r.scopes \in SUBSET Scopes,
           step = "update" => r.op = "update",
           step = "mark" => r.op \in Marks /\ r.scopes = KeepScopes,
           step = "overwrite" => r.op = "profile" /\ r.scopes = KeepScopes,
           step \in {"insert", "update", "overwrite"} => e \in User,
           step \notin {"scopes", "commit"}
    PROVE  UInv'
<1>1. Types'
  BY DEF UInv, Types, Start, Goto
<1>2. Others(s) /\ rows' = rows /\ scopes' = scopes /\ pend' = pend /\ cut' = cut /\ grant' = grant
  BY DEF UInv, Types, Start, Goto, Others
<1>3. pc'[s] = step /\ req'[s] = r /\ ent'[s] = e
  BY DEF UInv, Types, Start, Goto
<1>4. NamesUnique' /\ ScopesHaveUser'
  BY <1>2 DEF UInv, NamesUnique, ScopesHaveUser, Present
<1>5. pend[s] = NoUser /\ cut[s] = {} /\ grant[s] = {}
  BY DEF UInv, Asked, Ready
<1>6. Asked(s)' /\ Unborn(s)' /\ Locked(s)' /\ Promised(s)'
  <2>1. Asked(s)'
    BY <1>2, <1>3, <1>5 DEF Asked
  <2>2. Unborn(s)'
    BY <1>2, <1>3 DEF Unborn, Fresh, Present, Others
  <2>3. Locked(s)' /\ Promised(s)'
    BY <1>2, <1>3, <1>5 DEF Locked, Promised
  <2> QED
    BY <2>1, <2>2, <2>3
<1>7. ASSUME NEW t \in Sessions \ {s}
      PROVE  Asked(t)' /\ Unborn(t)' /\ Locked(t)' /\ Promised(t)'
  <2>1. Asked(t) /\ Unborn(t) /\ Locked(t) /\ Promised(t)
    BY <1>7 DEF UInv
  <2>2. Asked(t)' /\ Promised(t)'
    BY <1>2, <1>7, <2>1 DEF Asked, Promised, Others
  <2>3. Unborn(t)'
    <3>1. req[t].op = "create" => req[t].user # r.user
      BY <1>7, <2>1 DEF Unborn, Fresh, Present
    <3> QED
      BY <1>2, <1>3, <1>7, <2>1, <3>1 DEF Unborn, Others
  <2>4. Locked(t)'
    BY <1>2, <1>5, <1>7, <2>1 DEF Locked, Others, Live, Present
  <2> QED
    BY <2>2, <2>3, <2>4
<1> QED
  BY <1>1, <1>4, <1>6, <1>7 DEF UInv

\* A request that ends without a commit takes nothing with it.
LEMMA FinishUsers ==
    ASSUME Apart, UInv, NEW s \in Sessions, Finish(s), UNCHANGED <<rows, scopes>>
    PROVE  UInv'
<1>1. NoRequest \in Request
  BY DEF NoRequest, Request
<1>2. Types'
  BY <1>1 DEF UInv, Types, Finish, Goto, Steps
<1>3. Others(s) /\ rows' = rows /\ scopes' = scopes
  BY DEF UInv, Types, Finish, Goto, Others
<1>4. /\ pc'[s] = "idle" /\ req'[s] = NoRequest /\ pend'[s] = NoUser
      /\ cut'[s] = {} /\ grant'[s] = {}
  BY DEF UInv, Types, Finish, Goto
<1>5. NamesUnique' /\ ScopesHaveUser'
  BY <1>3 DEF UInv, NamesUnique, ScopesHaveUser, Present
<1>6. Asked(s)' /\ Unborn(s)' /\ Locked(s)' /\ Promised(s)'
  BY <1>4 DEF Asked, Unborn, Locked, Promised, NoRequest
<1>7. ASSUME NEW t \in Sessions \ {s}
      PROVE  Asked(t)' /\ Unborn(t)' /\ Locked(t)' /\ Promised(t)'
  <2>1. Asked(t) /\ Unborn(t) /\ Locked(t) /\ Promised(t)
    BY <1>7 DEF UInv
  <2>2. Asked(t)' /\ Promised(t)'
    BY <1>3, <1>7, <2>1 DEF Asked, Promised, Others
  <2>3. Unborn(t)'
    <3>1. req[t].op = "create" => req[t].user # NoUser
      BY <1>7, <2>1 DEF Asked, Apart
    <3> QED
      BY <1>3, <1>4, <1>7, <2>1, <3>1 DEF Unborn, Others, NoRequest
  <2>4. Locked(t)'
    BY <1>3, <1>4, <1>7, <2>1 DEF Locked, Others, Live, Present
  <2> QED
    BY <2>2, <2>3, <2>4
<1> QED
  BY <1>2, <1>5, <1>6, <1>7 DEF UInv

\* A statement that has the row and its name holds both until the end.
LEMMA StageUsers ==
    ASSUME Apart, UInv, NEW s \in Sessions, NEW row \in User, NEW step \in {"scopes", "commit"},
           Stage(s, row, step),
           pc[s] \in {"insert", "update", "mark", "overwrite"},
           step = "scopes" => req[s].op \in {"create", "update"} /\ req[s].scopes # KeepScopes,
           step = "commit" /\ req[s].scopes # KeepScopes =>
               scopes[req[s].user] = req[s].scopes,
           req[s].op \in Marks \cup {"update"} => Live(req[s].user),
           RowFree(s), NameFree(s, row.name)
    PROVE  UInv'
<1>1. Types'
  BY DEF UInv, Types, Stage, Goto, Steps
<1>2. /\ Others(s) /\ rows' = rows /\ scopes' = scopes
      /\ req' = req /\ ent' = ent /\ cut' = cut /\ grant' = grant
  BY DEF UInv, Types, Stage, Goto, Others
<1>3. pc'[s] = step /\ pend'[s] = row /\ row # NoUser
  BY DEF UInv, Types, Stage, Goto, Apart
<1>4. NamesUnique' /\ ScopesHaveUser'
  BY <1>2 DEF UInv, NamesUnique, ScopesHaveUser, Present
<1>5. Asked(s) /\ Unborn(s) /\ Locked(s) /\ Promised(s) /\ cut[s] = {} /\ grant[s] = {}
  BY DEF UInv, Asked
<1>6. Asked(s)' /\ Promised(s)'
  BY <1>2, <1>3, <1>5 DEF Asked, Promised
<1>7. Unborn(s)'
  BY <1>2, <1>5 DEF Unborn
<1>8. Locked(s)'
  BY <1>2, <1>3 DEF Locked, RowFree, NameFree, Others, Live, Present
<1>9. ASSUME NEW t \in Sessions \ {s}
      PROVE  Asked(t)' /\ Unborn(t)' /\ Locked(t)' /\ Promised(t)'
  <2>1. Asked(t) /\ Unborn(t) /\ Locked(t) /\ Promised(t)
    BY <1>9 DEF UInv
  <2>2. Asked(t)' /\ Promised(t)' /\ Unborn(t)'
    BY <1>2, <1>9, <2>1 DEF Asked, Promised, Unborn, Others
  <2>3. pend[t] # NoUser => req[t].user # req[s].user /\ pend[t].name # row.name
    BY <1>9 DEF RowFree, NameFree
  <2>4. Locked(t)'
    BY <1>2, <1>3, <1>9, <2>1, <2>3 DEF Locked, Others, Live, Present
  <2> QED
    BY <2>2, <2>4
<1> QED
  BY <1>1, <1>4, <1>6, <1>7, <1>8, <1>9 DEF UInv

LEMMA SetScopesUsers ==
    ASSUME Apart, UInv, NEW s \in Sessions, SetScopes(s)
    PROVE  UInv'
<1>1. Asked(s) /\ Unborn(s) /\ Locked(s) /\ Promised(s) /\ pc[s] = "scopes"
  BY DEF UInv, SetScopes
<1>2. req[s].user \in Users /\ req[s].scopes \in SUBSET Scopes
  BY <1>1 DEF Asked, UInv, Types, Request
<1>3. Types'
  BY <1>2 DEF UInv, Types, SetScopes, Goto, Steps
<1>4. /\ Others(s) /\ rows' = rows /\ scopes' = scopes
      /\ req' = req /\ ent' = ent /\ pend' = pend
  BY DEF UInv, Types, SetScopes, Goto, Others
<1>5. pc'[s] = "commit" /\ cut'[s] = scopes[req[s].user] /\ grant'[s] = req[s].scopes
  BY DEF UInv, Types, SetScopes, Goto
<1>6. NamesUnique' /\ ScopesHaveUser'
  BY <1>4 DEF UInv, NamesUnique, ScopesHaveUser, Present
<1>7. Asked(s)' /\ Promised(s)' /\ Unborn(s)' /\ Locked(s)'
  BY <1>1, <1>2, <1>4, <1>5 DEF Asked, Promised, Unborn, Locked, Live, Present
<1>8. ASSUME NEW t \in Sessions \ {s}
      PROVE  Asked(t)' /\ Unborn(t)' /\ Locked(t)' /\ Promised(t)'
  <2>1. Asked(t) /\ Unborn(t) /\ Locked(t) /\ Promised(t)
    BY <1>8 DEF UInv
  <2> QED
    BY <1>4, <1>8, <2>1 DEF Asked, Promised, Unborn, Locked, Others, Live, Present
<1> QED
  BY <1>3, <1>6, <1>7, <1>8 DEF UInv

LEMMA CommitUsers ==
    ASSUME Apart, UInv, NEW s \in Sessions, Commit(s)
    PROVE  UInv'
<1> DEFINE u == req[s].user
<1>1. Asked(s) /\ Unborn(s) /\ Locked(s) /\ Promised(s) /\ pc[s] = "commit"
  BY DEF UInv, Commit
<1>2. u \in Users /\ pend[s] \in User /\ pend[s] # NoUser
  BY <1>1 DEF Asked, UInv, Types
<1>3. NoRequest \in Request
  BY DEF NoRequest, Request
<1>4. /\ rows' = [rows EXCEPT ![u] = pend[s]]
      /\ scopes' = [scopes EXCEPT ![u] = (scopes[u] \ cut[s]) \cup grant[s]]
      /\ rows'[u] = pend[s] /\ \A v \in Users \ {u} : rows'[v] = rows[v] /\ scopes'[v] = scopes[v]
  BY <1>2 DEF Commit, UInv, Types
<1>5. Types'
  <2>1. rows' \in [Users -> User \cup {NoUser}] /\ scopes' \in [Users -> SUBSET Scopes]
    BY <1>2, <1>4 DEF UInv, Types
  <2> QED
    BY <1>3, <2>1 DEF UInv, Types, Commit, Finish, Goto, Steps
<1>6. Others(s)
  BY DEF UInv, Types, Commit, Finish, Goto, Others
<1>7. /\ pc'[s] = "idle" /\ req'[s] = NoRequest /\ pend'[s] = NoUser
      /\ cut'[s] = {} /\ grant'[s] = {}
  BY DEF UInv, Types, Commit, Finish, Goto
<1> HIDE DEF u
<1>8. NamesUnique'
  <2> SUFFICES ASSUME NEW v \in Users, NEW w \in Users, v # w, Present(v)', Present(w)'
               PROVE  rows'[v].name # rows'[w].name
    BY DEF NamesUnique
  <2>1. CASE v # u /\ w # u
    BY <1>4, <2>1 DEF UInv, NamesUnique, Present
  <2>2. CASE v = u \/ w = u
    BY <1>1, <1>2, <1>4, <2>2 DEF Locked, Present, u
  <2> QED
    BY <2>1, <2>2
<1>9. ScopesHaveUser'
  BY <1>2, <1>4 DEF UInv, ScopesHaveUser
<1>10. Asked(s)' /\ Unborn(s)' /\ Locked(s)' /\ Promised(s)'
  BY <1>7 DEF Asked, Unborn, Locked, Promised, NoRequest
<1>11. ASSUME NEW t \in Sessions \ {s}
       PROVE  Asked(t)' /\ Unborn(t)' /\ Locked(t)' /\ Promised(t)'
  <2>1. Asked(t) /\ Unborn(t) /\ Locked(t) /\ Promised(t)
    BY <1>11 DEF UInv
  <2>2. pend[t] # NoUser =>
          req[t].user \in Users \ {u} /\ pend[t].name # pend[s].name
    BY <1>1, <1>2, <1>11, <2>1 DEF Locked, Asked, u
  <2>3. Asked(t)'
    BY <1>6, <1>11, <2>1 DEF Asked, Others
  <2>4. Unborn(t)'
    <3>1. req[t].op = "create" => req[t].user \in Users \ {u}
      BY <1>11, <2>1 DEF Unborn, Asked, u
    <3>2. req[t].op = "create" => req[t].user # NoUser
      BY <3>1 DEF Apart
    <3> QED
      BY <1>4, <1>6, <1>7, <1>11, <2>1, <3>1, <3>2 DEF Unborn, Others, NoRequest
  <2>5. Locked(t)'
    BY <1>4, <1>6, <1>7, <1>11, <2>1, <2>2 DEF Locked, Others, Live, Present
  <2>6. Promised(t)'
    BY <1>4, <1>6, <1>11, <2>1, <2>2 DEF Promised, Asked, Others
  <2> QED
    BY <2>3, <2>4, <2>5, <2>6
<1> QED
  BY <1>5, <1>8, <1>9, <1>10, <1>11 DEF UInv

\* What each action is, by the step of the request it takes.
LEMMA UsersStep ==
    ASSUME Apart, UInv, NEW s \in Sessions,
           \/ AskCreate(s) \/ AskUpdate(s) \/ AskMark(s) \/ AskProfile(s)
           \/ InsertUser(s) \/ UpdateUser(s) \/ MarkUser(s) \/ NotFound(s)
           \/ OverwriteUser(s) \/ SetScopes(s) \/ Commit(s) \/ Abort(s)
    PROVE  UInv'
<1>1. Types /\ NamesUnique /\ ScopesHaveUser /\ Asked(s) /\ Unborn(s) /\ Locked(s)
  BY DEF UInv
<1>2. \A u \in Users : Present(u) => rows[u] \in User
  BY <1>1 DEF Types, Present
<1>3. CASE AskCreate(s)
  <2>1. PICK u \in Users, n \in Usernames, q \in SUBSET Scopes :
          /\ Ready(s) /\ Fresh(u)
          /\ Start(s, [op |-> "create", user |-> u, scopes |-> q],
                      [name |-> n, blocked |-> FALSE, deleted |-> FALSE], "insert")
    BY <1>3 DEF AskCreate
  <2>2. [op |-> "create", user |-> u, scopes |-> q] \in Request
    BY DEF Request
  <2>3. [name |-> n, blocked |-> FALSE, deleted |-> FALSE] \in User
    BY DEF User
  <2> QED
    BY <2>1, <2>2, <2>3, StartUsers DEF Steps
<1>4. CASE AskUpdate(s)
  <2>1. PICK u \in Users, n \in Usernames \cup {KeepName}, q \in (SUBSET Scopes) \cup {KeepScopes} :
          /\ Ready(s) /\ Present(u)
          /\ Start(s, [op |-> "update", user |-> u, scopes |-> q],
                      [rows[u] EXCEPT !.name = IF n = KeepName THEN @ ELSE n], "update")
    BY <1>4 DEF AskUpdate, Live
  <2>2. [op |-> "update", user |-> u, scopes |-> q] \in Request
    BY DEF Request
  <2>3. [rows[u] EXCEPT !.name = IF n = KeepName THEN @ ELSE n] \in User
    BY <1>2, <2>1 DEF User
  <2> QED
    BY <2>1, <2>2, <2>3, StartUsers DEF Steps
<1>5. CASE AskMark(s)
  <2>1. PICK u \in Users, op \in Marks :
          /\ Ready(s) /\ Present(u)
          /\ Start(s, [op |-> op, user |-> u, scopes |-> KeepScopes], NoUser, "mark")
    BY <1>5 DEF AskMark, Live
  <2>2. [op |-> op, user |-> u, scopes |-> KeepScopes] \in Request /\ op \notin {"none", "create"}
    BY DEF Request, Marks
  <2> QED
    BY <2>1, <2>2, StartUsers DEF Steps
<1>6. CASE AskProfile(s)
  <2>1. PICK u \in Users :
          /\ Ready(s) /\ Present(u)
          /\ Start(s, [op |-> "profile", user |-> u, scopes |-> KeepScopes], rows[u], "overwrite")
    BY <1>6 DEF AskProfile
  <2>2. [op |-> "profile", user |-> u, scopes |-> KeepScopes] \in Request
    BY DEF Request
  <2> QED
    BY <1>2, <2>1, <2>2, StartUsers DEF Steps
<1>7. CASE InsertUser(s)
  <2>1. ent[s] \in User /\ req[s].op = "create" /\ req[s].scopes \in SUBSET Scopes
    BY <1>1, <1>7 DEF InsertUser, Asked
  <2>2. scopes[req[s].user] = {} /\ RowFree(s) /\ req[s].scopes # KeepScopes
    <3>1. req[s].user \in Users /\ rows[req[s].user] = NoUser
      BY <1>1, <1>7, <2>1 DEF InsertUser, Asked, Unborn
    <3> QED
      BY <1>1, <2>1, <3>1 DEF ScopesHaveUser, RowFree, Unborn, Apart
  <2>3. req[s].op \notin Marks \cup {"update"}
    BY <2>1 DEF Marks
  <2> QED
    BY <1>7, <2>1, <2>2, <2>3, StageUsers DEF InsertUser
<1>8. CASE UpdateUser(s)
  <2>1. ent[s] \in User /\ req[s].op = "update"
    BY <1>1, <1>8 DEF UpdateUser, Asked
  <2> QED
    BY <1>8, <2>1, StageUsers DEF UpdateUser, AfterUpdate
<1>9. CASE MarkUser(s)
  <2> DEFINE u == req[s].user
             row == Marked(rows[u], req[s].op)
  <2>1. u \in Users /\ Present(u) /\ req[s].scopes = KeepScopes
    BY <1>1, <1>9 DEF MarkUser, Asked, Live
  <2>2. row \in User /\ row.name = rows[u].name
    BY <1>2, <2>1 DEF Marked, User
  <2>3. NameFree(s, rows[u].name)
    <3>1. \A v \in Users \ {u} : Present(v) => rows[v].name # rows[u].name
      BY <1>1, <2>1 DEF NamesUnique
    <3>2. ASSUME NEW t \in Sessions \ {s}, pend[t] # NoUser
          PROVE  pend[t].name # rows[u].name
      <4>1. Locked(t) /\ req[t].user # u
        BY <1>9, <3>2 DEF UInv, MarkUser, RowFree
      <4> QED
        BY <2>1, <3>2, <4>1 DEF Locked
    <3> QED
      BY <3>1, <3>2 DEF NameFree
  <2>4. Stage(s, row, "commit") /\ pc[s] = "mark" /\ RowFree(s) /\ Live(u)
    BY <1>9 DEF MarkUser
  <2> HIDE DEF row
  <2> QED
    BY <2>1, <2>2, <2>3, <2>4, StageUsers
<1>10. CASE NotFound(s)
  BY <1>10, FinishUsers DEF NotFound
<1>11. CASE OverwriteUser(s)
  <2>1. ent[s] \in User /\ req[s].op = "profile" /\ req[s].scopes = KeepScopes
    BY <1>1, <1>11 DEF OverwriteUser, Asked
  <2>2. req[s].op \notin Marks \cup {"update"}
    BY <2>1 DEF Marks
  <2> QED
    BY <1>11, <2>1, <2>2, StageUsers DEF OverwriteUser
<1>12. CASE SetScopes(s)
  BY <1>12, SetScopesUsers
<1>13. CASE Commit(s)
  BY <1>13, CommitUsers
<1>14. CASE Abort(s)
  BY <1>14, FinishUsers DEF Abort
<1> QED
  BY <1>3, <1>4, <1>5, <1>6, <1>7, <1>8, <1>9, <1>10, <1>11, <1>12, <1>13, <1>14

LEMMA UsersInit == Apart /\ Init => UInv
<1> SUFFICES ASSUME Apart, Init PROVE UInv
  OBVIOUS
<1>1. NoRequest \in Request
  BY DEF NoRequest, Request
<1>2. PICK n \in Usernames :
        rows = [u \in Users |-> IF u = Founder
                                THEN [name |-> n, blocked |-> FALSE, deleted |-> FALSE]
                                ELSE NoUser]
  BY DEF Init
<1>3. Types
  <2>1. rows \in [Users -> User \cup {NoUser}]
    BY <1>2 DEF User
  <2>2. scopes \in [Users -> SUBSET Scopes]
    BY DEF Init, Scopes
  <2> QED
    BY <1>1, <2>1, <2>2 DEF Init, Types, Steps
<1>4. NamesUnique
  BY <1>2 DEF NamesUnique, Present
<1>5. ScopesHaveUser
  <2>1. [name |-> n, blocked |-> FALSE, deleted |-> FALSE] \in User
    BY DEF User
  <2> QED
    BY <1>2, <2>1 DEF Init, ScopesHaveUser, Apart
<1>6. ASSUME NEW s \in Sessions
      PROVE  Asked(s) /\ Unborn(s) /\ Locked(s) /\ Promised(s)
  BY <1>6 DEF Init, Asked, Unborn, Locked, Promised, NoRequest
<1> QED
  BY <1>3, <1>4, <1>5, <1>6 DEF UInv

LEMMA UsersNext == Apart /\ UInv /\ [Next]_vars => UInv'
<1> SUFFICES ASSUME Apart, UInv, [Next]_vars PROVE UInv'
  OBVIOUS
<1>1. CASE Next
  BY <1>1, UsersStep DEF Next
<1>2. CASE UNCHANGED vars
  BY <1>2 DEF vars, UInv, Types, NamesUnique, ScopesHaveUser, Asked, Unborn, Locked, Promised,
              Present, Live
<1> QED
  BY <1>1, <1>2

LEMMA UsersInvariant == ASSUME Apart PROVE Spec => []UInv
<1>1. Init => UInv
  BY UsersInit
<1>2. UInv /\ [Next]_vars => UInv'
  BY UsersNext
<1> QED
  BY <1>1, <1>2, PTL DEF Spec

\* Usernames are unique, deleted users included, and every variable keeps its
\* type (users_username and the look-ups of UserManagementService).
THEOREM UsernamesUnique == ASSUME Apart PROVE Spec => []TypeOK
<1>1. UInv => TypeOK
  BY DEF UInv, Types, NamesUnique, TypeOK, Steps
<1> QED
  BY <1>1, UsersInvariant, PTL

\* A request that ends by something else than its own commit changes nothing.
LEMMA OnlyCommits ==
    ASSUME UInv, Next, rows' # rows \/ scopes' # scopes
    PROVE  \E s \in Sessions :
               /\ Commit(s)
               /\ pc[s] = "commit" /\ pc'[s] = "idle"
               /\ \A t \in Sessions \ {s} : pc'[t] = pc[t]
<1>1. PICK s \in Sessions :
        \/ AskCreate(s) \/ AskUpdate(s) \/ AskMark(s) \/ AskProfile(s)
        \/ InsertUser(s) \/ UpdateUser(s) \/ MarkUser(s) \/ NotFound(s)
        \/ OverwriteUser(s) \/ SetScopes(s) \/ Commit(s) \/ Abort(s)
  BY DEF Next
<1>2. Commit(s)
  BY <1>1 DEF AskCreate, AskUpdate, AskMark, AskProfile, Start, InsertUser, UpdateUser, MarkUser,
              NotFound, OverwriteUser, Stage, SetScopes, Abort
<1>3. pc' = [pc EXCEPT ![s] = "idle"] /\ pc \in [Sessions -> Steps] /\ pc[s] = "commit"
  BY <1>2 DEF Commit, Finish, Goto, UInv, Types
<1> QED
  BY <1>2, <1>3

\* However many requests set the scopes of a user at once, each that commits
\* leaves the scopes it was asked to set (_set_user_scopes).
THEOREM ScopesLast == ASSUME Apart PROVE Spec => ScopesAsRequested
<1>1. ASSUME UInv, [Next]_vars, NEW s \in Sessions, Ends(s), rows' # rows \/ scopes' # scopes,
             req[s].scopes # KeepScopes
      PROVE  scopes'[req[s].user] = req[s].scopes
  <2>1. Next
    BY <1>1 DEF vars
  <2>2. Commit(s)
    BY <1>1, <2>1, OnlyCommits DEF Ends
  <2>3. pc[s] = "commit" /\ Asked(s) /\ Promised(s)
    BY <1>1, <2>2 DEF UInv, Commit
  <2>4. req[s].user \in Users
    BY <2>3 DEF Asked
  <2>5. scopes'[req[s].user] = (scopes[req[s].user] \ cut[s]) \cup grant[s]
    BY <1>1, <2>2, <2>4 DEF Commit, UInv, Types
  <2> QED
    BY <1>1, <2>3, <2>5 DEF Promised
<1>2. UInv /\ [Next]_vars =>
        [\A s \in Sessions :
           Ends(s) /\ (rows' # rows \/ scopes' # scopes) /\ req[s].scopes # KeepScopes
           => scopes'[req[s].user] = req[s].scopes]_vars
  BY <1>1
<1> QED
  BY <1>2, UsersInvariant, PTL DEF Spec, ScopesAsRequested

\* No administrative request, however late, changes an account that has been
\* deleted meanwhile: every one of them holds the lock on a row it has found
\* not to be deleted (the filters of UserManagementRepository).
THEOREM DeletionLasts == ASSUME Apart PROVE Spec => DeletedIsFinal
<1>1. ASSUME UInv, [Next]_vars, NEW u \in Users, Present(u), rows[u].deleted, rows'[u] # rows[u]
      PROVE  \E s \in Sessions : Ends(s) /\ req[s].op = "profile" /\ req[s].user = u
  <2>1. Next
    BY <1>1 DEF vars
  <2>2. PICK s \in Sessions : Commit(s) /\ pc[s] = "commit" /\ pc'[s] = "idle"
    BY <1>1, <2>1, OnlyCommits
  <2>3. Asked(s) /\ Unborn(s) /\ Locked(s) /\ req[s] \in Request
    BY <1>1 DEF UInv, Types
  <2>4. req[s].user = u
    BY <1>1, <2>2 DEF Commit, UInv, Types
  <2>5. pend[s] # NoUser
    BY <2>2, <2>3 DEF Asked
  <2>6. req[s].op \notin {"none", "create", "update"} \cup Marks
    <3>1. req[s].op \notin Marks \cup {"update"}
      BY <1>1, <2>3, <2>4, <2>5 DEF Locked, Live
    <3>2. req[s].op \notin {"none", "create"}
      BY <1>1, <2>2, <2>3, <2>4 DEF Asked, Unborn, Present
    <3> QED
      BY <3>1, <3>2
  <2>7. req[s].op = "profile"
    BY <2>3, <2>6 DEF Request
  <2> QED
    BY <2>2, <2>4, <2>7 DEF Ends
<1>2. UInv /\ [Next]_vars =>
        [\A u \in Users :
           Present(u) /\ rows[u].deleted /\ rows'[u] # rows[u]
           => \E s \in Sessions : Ends(s) /\ req[s].op = "profile" /\ req[s].user = u]_vars
  BY <1>1
<1> QED
  BY <1>2, UsersInvariant, PTL DEF Spec, DeletedIsFinal

(***************************************************************************)
(* Requests that do not overlap                                            *)
(***************************************************************************)

Super(u) == Present(u) /\ ~rows[u].blocked /\ "SU" \in scopes[u]

OneAtATime ==
    ~overlap => \A s, t \in Sessions : pc[s] # "idle" /\ pc[t] # "idle" => s = t

\* A request that is let in leaves a superuser: another one, or its own user.
Spared(s) ==
    ~overlap /\ pc[s] # "idle" =>
        \/ \E v \in Users \ {req[s].user} : Super(v)
        \/ /\ Super(req[s].user)
           /\ req[s].op # "block"
           /\ req[s].scopes # KeepScopes => "SU" \in req[s].scopes
           /\ pc[s] \in {"update", "overwrite"} => ~ent[s].blocked
           /\ pend[s] # NoUser => ~pend[s].blocked

SInv == UInv /\ OneAtATime /\ SuperuserRemains /\ \A s \in Sessions : Spared(s)

\* Who may change a superuser is one.
LEMMA EqualsOnly ==
    ASSUME UInv, NEW a \in Users, NEW u \in Users, Manager(a), ~Outranked(a, u), Super(u)
    PROVE  Super(a)
<1>1. scopes[a] \in SUBSET {"SU", "UM"} /\ scopes[a] # {}
  BY DEF UInv, Types, Scopes, Manager
<1>2. "SU" \in scopes[a]
  BY <1>1 DEF Outranked, Super
<1> QED
  BY <1>2 DEF Manager, Super

LEMMA StartSpares ==
    ASSUME SInv, UInv', NEW s \in Sessions, Ready(s), NEW r, NEW e, NEW step \in Steps,
           Start(s, r, e, step), r.user \in Users,
           Super(r.user) =>
               \/ \E v \in Users \ {r.user} : Super(v)
               \/ /\ r.op # "block"
                  /\ r.scopes # KeepScopes => "SU" \in r.scopes
                  /\ step \in {"update", "overwrite"} => ~e.blocked
    PROVE  SInv'
<1>1. /\ pc'[s] = step /\ req'[s] = r /\ ent'[s] = e /\ pend'[s] = pend[s]
      /\ rows' = rows /\ scopes' = scopes /\ overlap' = overlap
      /\ \A t \in Sessions \ {s} : pc'[t] = pc[t]
  BY DEF SInv, UInv, Types, Start, Goto
<1>2. SuperuserRemains'
  BY <1>1 DEF SInv, SuperuserRemains, Present
<1>3. ~overlap => \A t \in Sessions \ {s} : pc'[t] = "idle"
  BY <1>1 DEF Ready
<1>4. OneAtATime'
  BY <1>1, <1>3 DEF OneAtATime
<1>5. pend[s] = NoUser
  BY DEF SInv, UInv, Asked, Ready
<1>6. ~overlap => \E v \in Users : Super(v)
  BY DEF SInv, SuperuserRemains, Super
<1>7. Spared(s)'
  BY <1>1, <1>5, <1>6 DEF Spared, Super, Present
<1>8. ASSUME NEW t \in Sessions \ {s} PROVE Spared(t)'
  BY <1>1, <1>3 DEF Spared
<1> QED
  BY <1>2, <1>4, <1>7, <1>8 DEF SInv

\* A step between the first and the last of a request.
LEMMA MiddleSpares ==
    ASSUME SInv, UInv', NEW s \in Sessions, UNCHANGED <<rows, scopes, overlap>>, Others(s),
           pc'[s] # "idle" => Spared(s)' /\ pc[s] # "idle"
    PROVE  SInv'
<1>1. SuperuserRemains'
  BY DEF SInv, SuperuserRemains, Present
<1>2. OneAtATime'
  BY DEF SInv, OneAtATime, Others
<1>3. ASSUME NEW t \in Sessions \ {s} PROVE Spared(t)'
  <2>1. Spared(t)
    BY <1>3 DEF SInv
  <2> QED
    BY <1>3, <2>1 DEF Spared, Others, Super, Present
<1>4. Spared(s)'
  BY DEF Spared
<1> QED
  BY <1>1, <1>2, <1>3, <1>4 DEF SInv

LEMMA CommitSpares ==
    ASSUME Apart, SInv, UInv', NEW s \in Sessions, Commit(s)
    PROVE  SInv'
<1> DEFINE u == req[s].user
<1>1. UInv /\ Asked(s) /\ Unborn(s) /\ Promised(s) /\ Spared(s) /\ pc[s] = "commit"
  BY DEF SInv, UInv, Commit
<1>2. u \in Users /\ pend[s] # NoUser
  BY <1>1 DEF Asked
<1>3. /\ rows'[u] = pend[s] /\ scopes'[u] = (scopes[u] \ cut[s]) \cup grant[s]
      /\ \A v \in Users \ {u} : rows'[v] = rows[v] /\ scopes'[v] = scopes[v]
  BY <1>1, <1>2 DEF Commit, UInv, Types
<1>4. overlap' = overlap /\ pc'[s] = "idle" /\ \A t \in Sessions \ {s} : pc'[t] = pc[t]
  BY <1>1 DEF Commit, Finish, Goto, UInv, Types
<1>5. ~overlap => \A t \in Sessions : pc'[t] = "idle"
  BY <1>1, <1>4 DEF SInv, OneAtATime
<1>6. scopes'[u] = IF req[s].scopes = KeepScopes THEN scopes[u] ELSE req[s].scopes
  BY <1>1, <1>3 DEF Asked, Promised
<1> HIDE DEF u
<1>7. SuperuserRemains'
  <2>1. CASE \E v \in Users \ {u} : Super(v)
    BY <1>3, <2>1 DEF SuperuserRemains, Super, Present
  <2>2. CASE ~overlap /\ ~\E v \in Users \ {u} : Super(v)
    <3>1. /\ "SU" \in scopes'[u]
          /\ ~pend[s].blocked
      BY <1>1, <1>2, <1>6, <2>2 DEF Spared, Super, u
    <3> QED
      BY <1>2, <1>3, <3>1 DEF SuperuserRemains, Present
  <2> QED
    BY <1>4, <2>1, <2>2 DEF SuperuserRemains
<1> QED
  BY <1>4, <1>5, <1>7 DEF SInv, OneAtATime, Spared

LEMMA SparesStep ==
    ASSUME Apart, SInv, NEW s \in Sessions,
           \/ AskCreate(s) \/ AskUpdate(s) \/ AskMark(s) \/ AskProfile(s)
           \/ InsertUser(s) \/ UpdateUser(s) \/ MarkUser(s) \/ NotFound(s)
           \/ OverwriteUser(s) \/ SetScopes(s) \/ Commit(s) \/ Abort(s)
    PROVE  SInv'
<1>1. UInv /\ Asked(s) /\ Unborn(s) /\ Spared(s)
  BY DEF SInv, UInv
<1>2. UInv'
  BY <1>1, UsersStep
<1>3. CASE AskCreate(s)
  <2>1. PICK u \in Users, n \in Usernames, q \in SUBSET Scopes :
          /\ Ready(s) /\ ~Present(u)
          /\ Start(s, [op |-> "create", user |-> u, scopes |-> q],
                      [name |-> n, blocked |-> FALSE, deleted |-> FALSE], "insert")
    BY <1>3 DEF AskCreate, Fresh
  <2> QED
    BY <1>2, <2>1, StartSpares DEF Steps, Super
<1>4. CASE AskUpdate(s)
  <2>1. PICK a \in Users, u \in Users, n \in Usernames \cup {KeepName},
             q \in (SUBSET Scopes) \cup {KeepScopes} :
          /\ Ready(s) /\ Manager(a) /\ ~Outranked(a, u) /\ MaySet(a, u, q) /\ Present(u)
          /\ Start(s, [op |-> "update", user |-> u, scopes |-> q],
                      [rows[u] EXCEPT !.name = IF n = KeepName THEN @ ELSE n], "update")
    BY <1>4 DEF AskUpdate, Live
  <2>2. Super(u) /\ a # u => \E v \in Users \ {u} : Super(v)
    BY <1>1, <2>1, EqualsOnly
  <2>3. Super(u) /\ a = u => (q # KeepScopes => "SU" \in q)
    BY <2>1 DEF MaySet, Super
  <2>4. rows[u] \in User
    BY <1>1, <2>1 DEF UInv, Types, Present
  <2>5. Super(u) => ~[rows[u] EXCEPT !.name = IF n = KeepName THEN @ ELSE n].blocked
    BY <2>4 DEF Super, User
  <2> DEFINE r == [op |-> "update", user |-> u, scopes |-> q]
             e == [rows[u] EXCEPT !.name = IF n = KeepName THEN @ ELSE n]
  <2>6. Start(s, r, e, "update") /\ (Super(u) => ~e.blocked)
    BY <2>1, <2>5
  <2>7. r.op = "update" /\ r.user = u /\ r.scopes = q
    OBVIOUS
  <2> HIDE DEF r, e
  <2> QED
    BY <1>2, <2>1, <2>2, <2>3, <2>6, <2>7, StartSpares DEF Steps
<1>5. CASE AskMark(s)
  <2>1. PICK a \in Users, u \in Users, op \in Marks :
          /\ Ready(s) /\ Manager(a) /\ (op \in {"delete", "block"} => u # a) /\ ~Outranked(a, u)
          /\ Start(s, [op |-> op, user |-> u, scopes |-> KeepScopes], NoUser, "mark")
    BY <1>5 DEF AskMark
  <2>2. Super(u) /\ op = "block" => \E v \in Users \ {u} : Super(v)
    BY <1>1, <2>1, EqualsOnly
  <2> QED
    BY <1>2, <2>1, <2>2, StartSpares DEF Steps
<1>6. CASE AskProfile(s)
  <2>1. PICK u \in Users :
          /\ Ready(s)
          /\ Start(s, [op |-> "profile", user |-> u, scopes |-> KeepScopes], rows[u], "overwrite")
    BY <1>6 DEF AskProfile
  <2> QED
    BY <1>2, <2>1, StartSpares DEF Steps, Super
<1>7. CASE InsertUser(s) \/ UpdateUser(s) \/ OverwriteUser(s)
  <2>1. PICK step \in {"scopes", "commit"} : Stage(s, ent[s], step)
    BY <1>7 DEF InsertUser, UpdateUser, OverwriteUser, AfterUpdate
  <2>2. /\ pend'[s] = ent[s] /\ pc'[s] = step /\ req' = req /\ ent' = ent /\ Others(s)
        /\ UNCHANGED <<rows, scopes, overlap>>
    BY <1>1, <2>1 DEF Stage, Goto, UInv, Types, Others
  <2>3. /\ pc[s] \in {"insert", "update", "overwrite"}
        /\ pc[s] = "insert" => ~Super(req[s].user)
    BY <1>1, <1>7 DEF InsertUser, UpdateUser, OverwriteUser, Asked, Unborn, Super, Present
  <2>4. Spared(s)'
    BY <1>1, <2>2, <2>3 DEF Spared, Super, Present
  <2> QED
    BY <1>2, <2>2, <2>3, <2>4, MiddleSpares
<1>8. CASE MarkUser(s)
  <2> DEFINE row == Marked(rows[req[s].user], req[s].op)
  <2>1. /\ pend'[s] = row /\ pc'[s] = "commit" /\ req' = req /\ Others(s)
        /\ UNCHANGED <<rows, scopes, overlap>> /\ pc[s] = "mark"
    BY <1>1, <1>8 DEF MarkUser, Stage, Goto, UInv, Types, Others
  <2>2. rows[req[s].user] \in User
    BY <1>1, <1>8 DEF MarkUser, Asked, Live, Present, UInv, Types
  <2>3. ~rows[req[s].user].blocked /\ req[s].op # "block" => ~row.blocked
    BY <2>2 DEF Marked, User
  <2> HIDE DEF row
  <2>4. Spared(s)'
    BY <1>1, <2>1, <2>3 DEF Spared, Super, Present
  <2> QED
    BY <1>2, <2>1, <2>4, MiddleSpares
<1>9. CASE SetScopes(s)
  <2>1. /\ pend' = pend /\ pc'[s] = "commit" /\ req' = req /\ Others(s)
        /\ UNCHANGED <<rows, scopes, overlap>> /\ pc[s] = "scopes"
    BY <1>1, <1>9 DEF SetScopes, Goto, UInv, Types, Others
  <2>2. Spared(s)'
    BY <1>1, <2>1 DEF Spared, Super, Present
  <2> QED
    BY <1>2, <2>1, <2>2, MiddleSpares
<1>10. CASE NotFound(s) \/ Abort(s)
  <2>1. pc'[s] = "idle" /\ Others(s) /\ UNCHANGED <<rows, scopes, overlap>>
    BY <1>1, <1>10 DEF NotFound, Abort, Finish, Goto, UInv, Types, Others
  <2> QED
    BY <1>2, <2>1, MiddleSpares
<1>11. CASE Commit(s)
  BY <1>2, <1>11, CommitSpares
<1> QED
  BY <1>3, <1>4, <1>5, <1>6, <1>7, <1>8, <1>9, <1>10, <1>11

\* As long as requests come one after the other, no sequence of them leaves the
\* club without a superuser who is not blocked: the rules on oneself and on
\* USER_MANAGER suffice.
THEOREM SuperuserStays == ASSUME Apart, Founder \in Users PROVE Spec => []SuperuserRemains
<1>1. ASSUME Init PROVE SInv
  <2>1. UInv
    BY <1>1, UsersInit
  <2>2. Super(Founder)
    <3>1. PICK n \in Usernames :
            rows[Founder] = [name |-> n, blocked |-> FALSE, deleted |-> FALSE]
      BY <1>1 DEF Init
    <3>2. rows[Founder] \in User /\ ~rows[Founder].blocked
      BY <3>1 DEF User
    <3>3. scopes[Founder] = {"SU"}
      BY <1>1 DEF Init
    <3> QED
      BY <3>2, <3>3 DEF Super, Present, Apart
  <2>3. \A s \in Sessions : pc[s] = "idle"
    BY <1>1 DEF Init
  <2> QED
    BY <2>1, <2>2, <2>3 DEF SInv, OneAtATime, SuperuserRemains, Super, Spared
<1>2. ASSUME SInv, [Next]_vars PROVE SInv'
  <2>1. CASE Next
    BY <1>2, <2>1, SparesStep DEF Next
  <2>2. CASE UNCHANGED vars
    <3>1. UInv'
      BY <1>2, <2>2, UsersNext DEF SInv
    <3> QED
      BY <1>2, <2>2, <3>1 DEF vars, SInv, OneAtATime, SuperuserRemains, Spared, Super, Present
  <2> QED
    BY <1>2, <2>1, <2>2
<1>3. SInv => SuperuserRemains
  BY DEF SInv
<1> QED
  BY <1>1, <1>2, <1>3, PTL DEF Spec

(***************************************************************************)
(* Site settings: the value of a setting is one of its type, in normal     *)
(* form, although requests validate it against rows that others may have   *)
(* changed when they write.                                                *)
(***************************************************************************)

Fitting == {row \in [type : Values!Types, value : Values!Texts] : row.value \in Values!Valid(row.value, row.type)}

SettingSteps == {"idle", "write", "end"}

\* What is stored, and what requests are about to store, fits: a request takes
\* the type and the value of the row it writes from one row it has read.
SettingsInv ==
    /\ settings \in [Settings -> Fitting \cup {NoSetting}]
    /\ editor \in [Sessions -> [pc : SettingSteps, id : Settings \cup {Unset}, found : BOOLEAN,
                                row : Fitting \cup {NoSetting}]]
    /\ \A s \in Sessions : editor[s].pc # "idle" => editor[s].id \in Settings

\* A value that was normalised is its own normal form.
LEMMA NormalForm ==
    ASSUME NEW text \in Values!Texts, NEW type \in Values!Types, NEW v \in Values!Valid(text, type)
    PROVE  [type |-> type, value |-> v] \in Fitting
<1>1. v \in Values!Texts /\ v \in Values!Valid(v, type)
  <2>1. CASE type = "string"
    BY <2>1 DEF Values!Valid, Values!Texts
  <2>2. CASE type = "number"
    BY <2>2 DEF Values!Valid, Values!Texts
  <2>3. CASE type = "boolean"
    BY <2>3 DEF Values!Valid, Values!Texts
  <2>4. CASE type = "object"
    <3>1. text \in {" 5", "5", "{ }", "{}", "1", "true"}
      BY <2>4 DEF Values!Valid
    <3> QED
      BY <2>4, <3>1 DEF Values!Valid, Values!Texts
  <2> QED
    BY <2>1, <2>2, <2>3, <2>4 DEF Values!Types
<1> QED
  BY <1>1 DEF Fitting

\* What an update writes fits, whichever of type and value it is given.
LEMMA ChangedFits ==
    ASSUME NEW row \in Fitting, NEW text \in Values!Texts \cup {Unset}, NEW type \in Values!Types \cup {Unset},
           NEW new \in Values!Changed(row, text, type)
    PROVE  new \in Fitting
<1>1. row.type \in Values!Types /\ row.value \in Values!Texts
  BY DEF Fitting
<1>2. CASE text = Unset /\ type = Unset
  BY <1>2 DEF Values!Changed
<1>3. CASE ~(text = Unset /\ type = Unset)
  <2> DEFINE kind == IF type = Unset THEN row.type ELSE type
             said == IF text = Unset THEN row.value ELSE text
  <2>1. kind \in Values!Types /\ said \in Values!Texts
    BY <1>1
  <2>2. PICK v \in Values!Valid(said, kind) : new = [type |-> kind, value |-> v]
    BY <1>3 DEF Values!Changed
  <2> HIDE DEF kind, said
  <2> QED
    BY <2>1, <2>2, NormalForm
<1> QED
  BY <1>2, <1>3

LEMMA ResumeFits ==
    ASSUME SettingsInv, NEW s \in Sessions, NEW id \in Settings, NEW row \in Fitting \cup {NoSetting},
           Values!Resume(s, id, row)
    PROVE  SettingsInv'
BY DEF SettingsInv, Values!Resume, SettingSteps

\* No step of a request stores a value that does not fit.
LEMMA StepFits == ASSUME SettingsInv, [Values!Next]_(Values!vars) PROVE SettingsInv'
<1>1. ASSUME NEW s \in Sessions, Values!Create(s)
      PROVE  SettingsInv'
  <2>1. PICK id \in Values!Unused, text \in Values!Texts, type \in Values!Types :
            \E v \in Values!Valid(text, type) : Values!Resume(s, id, [type |-> type, value |-> v])
    BY <1>1 DEF Values!Create
  <2>2. PICK v \in Values!Valid(text, type) : Values!Resume(s, id, [type |-> type, value |-> v])
    BY <2>1
  <2>3. id \in Settings
    BY DEF Values!Unused
  <2> QED
    BY <2>2, <2>3, NormalForm, ResumeFits
<1>2. ASSUME NEW s \in Sessions, Values!Update(s)
      PROVE  SettingsInv'
  <2>1. PICK id \in Values!Stored, text \in Values!Texts \cup {Unset}, type \in Values!Types \cup {Unset} :
            \E row \in Values!Changed(settings[id], text, type) : Values!Resume(s, id, row)
    BY <1>2 DEF Values!Update
  <2>2. PICK row \in Values!Changed(settings[id], text, type) : Values!Resume(s, id, row)
    BY <2>1
  <2>3. id \in Settings /\ settings[id] \in Fitting
    BY DEF Values!Stored, SettingsInv
  <2> QED
    BY <2>2, <2>3, ChangedFits, ResumeFits
<1>3. ASSUME NEW s \in Sessions, Values!Delete(s)
      PROVE  SettingsInv'
  BY <1>3, ResumeFits DEF Values!Delete, Values!Stored
<1>4. ASSUME NEW s \in Sessions, Values!Write(s)
      PROVE  SettingsInv'
  <2> DEFINE Kept == IF editor[s].found /\ settings[editor[s].id] = NoSetting
                     THEN NoSetting ELSE editor[s].row
             New == [editor[s] EXCEPT !.pc = "end", !.row = Kept]
  <2>1. Kept \in Fitting \cup {NoSetting}
    BY DEF SettingsInv
  <2>2. New \in [pc : SettingSteps, id : Settings \cup {Unset}, found : BOOLEAN,
                 row : Fitting \cup {NoSetting}]
    BY <2>1 DEF SettingsInv, SettingSteps
  <2>3. New.id \in Settings
    BY <1>4 DEF Values!Write, SettingsInv
  <2>4. editor' = [editor EXCEPT ![s] = New] /\ settings' = settings
    BY <1>4 DEF Values!Write
  <2> HIDE DEF New
  <2> QED
    BY <2>2, <2>3, <2>4 DEF SettingsInv
<1>5. ASSUME NEW s \in Sessions, Values!Commit(s)
      PROVE  SettingsInv'
  BY <1>5 DEF Values!Commit, SettingsInv, Values!Resting, SettingSteps
<1>6. CASE UNCHANGED Values!vars
  BY <1>6 DEF Values!vars, SettingsInv
<1> QED
  BY <1>1, <1>2, <1>3, <1>4, <1>5, <1>6 DEF Values!Next

\* Updates that validate against the same row and commit one after the other
\* leave a value of the setting's type: ValueFitsType always holds.
THEOREM ValueStaysFit == Values!Spec => []ValueFitsType
<1>1. Values!Init => SettingsInv
  BY DEF Values!Init, SettingsInv, Values!Resting, SettingSteps
<1>2. SettingsInv => ValueFitsType
  BY DEF SettingsInv, ValueFitsType, Values!ValueFitsType, Values!Stored, Fitting
<1> QED
  BY <1>1, <1>2, StepFits, PTL DEF Values!Spec

(***************************************************************************)
(* The broker: an outage is reported at most once, and exactly when it has *)
(* gone on for longer than the threshold allows.                           *)
(***************************************************************************)

Links == {"none", "connecting", "up", "lost", "closed"}

\* The flag says no more than the counter: what was counted is over the
\* threshold.  So the report falls in the outage that crosses the threshold.
BrokerInv ==
    /\ link \in Links
    /\ _consecutive_failures \in Nat /\ attempts \in Nat /\ noise \in Nat
    /\ _escalated \in BOOLEAN
    /\ _escalated <=> _consecutive_failures > ReportAfter
    /\ link = "up" => noise = _consecutive_failures
    /\ link = "lost" =>
           /\ _consecutive_failures = noise + attempts
           /\ reports = IF noise <= ReportAfter /\ noise + attempts > ReportAfter THEN 1 ELSE 0

\* What error_cb does to the counter, the flag and the reports.
LEMMA Counting ==
    ASSUME ReportAfter \in Nat, BrokerInv, Nats!OnError
    PROVE  /\ _consecutive_failures' = _consecutive_failures + 1
           /\ _escalated' \in BOOLEAN
           /\ _escalated' <=> _consecutive_failures' > ReportAfter
           /\ reports' = IF _consecutive_failures = ReportAfter THEN reports + 1 ELSE reports
<1>1. _consecutive_failures \in Nat /\ _consecutive_failures' = _consecutive_failures + 1
  BY DEF BrokerInv, Nats!OnError
<1>2. CASE _consecutive_failures = ReportAfter
  <2>1. ~_escalated /\ _consecutive_failures' > ReportAfter
    BY <1>1, <1>2 DEF BrokerInv
  <2>2. _escalated' = TRUE /\ reports' = reports + 1
    BY <2>1 DEF Nats!OnError
  <2> QED
    BY <1>1, <1>2, <2>1, <2>2
<1>3. CASE _consecutive_failures # ReportAfter
  <2>1. _consecutive_failures' > ReportAfter => _escalated
    BY <1>1, <1>3 DEF BrokerInv
  <2>2. UNCHANGED <<_escalated, reports>>
    BY <2>1 DEF Nats!OnError
  <2>3. _consecutive_failures' > ReportAfter <=> _consecutive_failures > ReportAfter
    BY <1>1, <1>3
  <2> QED
    BY <1>1, <1>3, <2>2, <2>3 DEF BrokerInv
<1> QED
  BY <1>2, <1>3

\* A reset leaves nothing counted and nothing escalated.
LEMMA Clearing ==
    ASSUME ReportAfter \in Nat, Nats!reset
    PROVE  /\ _consecutive_failures' = 0
           /\ _escalated' \in BOOLEAN
           /\ _escalated' <=> _consecutive_failures' > ReportAfter
<1>1. _consecutive_failures' = 0 /\ _escalated' = FALSE
  BY DEF Nats!reset
<1>2. ~(_consecutive_failures' > ReportAfter)
  BY <1>1
<1> QED
  BY <1>1, <1>2

LEMMA BrokerStep == ASSUME ReportAfter \in Nat, BrokerInv, [Nats!Next]_(Nats!vars) PROVE BrokerInv'
<1>1. CASE Nats!Connect
  BY <1>1, Clearing DEF Nats!Connect, BrokerInv, Links
<1>2. CASE Nats!ConnectFails
  BY <1>2, Counting DEF Nats!ConnectFails, BrokerInv, Links
<1>3. CASE Nats!Connected
  BY <1>3 DEF Nats!Connected, BrokerInv, Links
<1>4. CASE Nats!AsyncError
  BY <1>4, Counting DEF Nats!AsyncError, BrokerInv, Links
<1>5. CASE Nats!Outage
  BY <1>5 DEF Nats!Outage, BrokerInv, Links
<1>6. CASE Nats!ReconnectFails
  BY <1>6, Counting DEF Nats!ReconnectFails, BrokerInv, Links
<1>7. CASE Nats!Reconnected
  BY <1>7, Clearing DEF Nats!Reconnected, Nats!OnReconnected, BrokerInv, Links
<1>8. CASE Nats!Close
  BY <1>8 DEF Nats!Close, BrokerInv, Links
<1>9. CASE UNCHANGED Nats!vars
  BY <1>9 DEF Nats!vars, BrokerInv
<1> QED
  BY <1>1, <1>2, <1>3, <1>4, <1>5, <1>6, <1>7, <1>8, <1>9 DEF Nats!Next

\* Callbacks in any order report no outage twice, and one that follows no
\* error since the last reset when, and only when, it has outlived the
\* threshold: OutageReportedOnce always holds.
THEOREM OutagesReported == ASSUME ReportAfter \in Nat PROVE Nats!Spec => []OutageReportedOnce
<1>1. ASSUME Nats!Init
      PROVE  BrokerInv
  <2>1. ~(_consecutive_failures > ReportAfter)
    BY <1>1 DEF Nats!Init
  <2>2. _escalated = FALSE /\ _escalated \in BOOLEAN
    BY <1>1 DEF Nats!Init
  <2>3. _escalated <=> _consecutive_failures > ReportAfter
    BY <2>1, <2>2
  <2> QED
    BY <1>1, <2>2, <2>3 DEF Nats!Init, BrokerInv, Links
<1>2. BrokerInv => OutageReportedOnce
  BY DEF BrokerInv, OutageReportedOnce, Nats!OutageReportedOnce
<1> QED
  BY <1>1, <1>2, BrokerStep, PTL DEF Nats!Spec

(***************************************************************************)
(* News: an item appears on the site, or disappears, only when its date    *)
(* comes, by a request about that, or by one that undoes what another has  *)
(* committed since it read the row.                                        *)
(***************************************************************************)

NewsRow == [title : Titles, date : Story!Dates, deleted : BOOLEAN, slug : Titles \X Items]

EditSteps == {"idle", "write", "end"}
EditKinds == {"none", "create", "change", "date", "delete"}

StoryTypes ==
    /\ stories \in [Items -> NewsRow \cup {NoItem}]
    /\ now \in Nat
    /\ editing \in [Sessions -> [pc : EditSteps, kind : EditKinds, id : Items \cup {Nothing},
                                 row : NewsRow \cup {NoItem}, stale : BOOLEAN]]

\* What a request is about to write: a row of its item, new or stored, with the
\* stored slug; and with the stored date and mark, when it is about neither and
\* nobody has committed since it read them.
Edits(e) ==
    /\ editing[e].id \in Items
    /\ editing[e].row \in NewsRow
    /\ editing[e].row.slug[2] = editing[e].id
    /\ editing[e].kind = "create" =>
           /\ stories[editing[e].id] = NoItem
           /\ \A d \in Sessions \ {e} : editing[d].pc # "idle" => editing[d].id # editing[e].id
    /\ editing[e].kind # "create" =>
           /\ stories[editing[e].id] # NoItem
           /\ editing[e].row.slug = stories[editing[e].id].slug
    /\ editing[e].kind = "change" /\ ~editing[e].stale =>
           /\ editing[e].row.date = stories[editing[e].id].date
           /\ editing[e].row.deleted = stories[editing[e].id].deleted

StoryInv ==
    /\ StoryTypes
    /\ \A i \in Items : stories[i] # NoItem => stories[i].slug[2] = i
    /\ \A e \in Sessions : editing[e].pc # "idle" => Edits(e)

LEMMA BeginEdits ==
    ASSUME NoItem \notin NewsRow, StoryInv, NEW e \in Sessions, editing[e].pc = "idle",
           NEW kind \in EditKinds, NEW i \in Items, NEW new \in NewsRow,
           new.slug[2] = i,
           kind = "create" => stories[i] = NoItem /\ \A d \in Sessions : editing[d].id # i,
           kind # "create" => stories[i] # NoItem /\ new.slug = stories[i].slug,
           kind = "change" => new.date = stories[i].date /\ new.deleted = stories[i].deleted,
           Story!Begin(e, kind, i, new)
    PROVE  StoryInv'
<1> DEFINE began == [pc |-> "write", kind |-> kind, id |-> i, row |-> new, stale |-> FALSE]
<1>1. stories' = stories /\ now' = now /\ editing' = [editing EXCEPT ![e] = began]
  BY DEF Story!Begin
<1>2. editing'[e] = began /\ \A d \in Sessions \ {e} : editing'[d] = editing[d]
  BY <1>1 DEF StoryInv, StoryTypes
<1>3. StoryTypes'
  BY <1>1 DEF StoryInv, StoryTypes, EditSteps, EditKinds
<1>4. Edits(e)'
  BY <1>1, <1>2 DEF Edits
<1>5. ASSUME NEW d \in Sessions \ {e}, editing[d].pc # "idle"
      PROVE  Edits(d)'
  <2>1. Edits(d)
    BY <1>5 DEF StoryInv
  <2>2. editing[d].kind = "create" => i # editing[d].id
    BY <2>1 DEF Edits
  <2> QED
    BY <1>1, <1>2, <2>1, <2>2 DEF Edits
<1> QED
  BY <1>1, <1>2, <1>3, <1>4, <1>5 DEF StoryInv

LEMMA CommitEdits ==
    ASSUME NoItem \notin NewsRow, StoryInv, NEW e \in Sessions, Story!Commit(e)
    PROVE  StoryInv'
<1> DEFINE i == editing[e].id
<1>1. editing[e].pc = "end" /\ Edits(e)
  BY DEF Story!Commit, StoryInv
<1>2. i \in Items /\ editing[e].row \in NewsRow /\ editing[e].row.slug[2] = i
  BY <1>1 DEF Edits
<1>3. stories' = [stories EXCEPT ![i] = editing[e].row] /\ now' = now
  BY DEF Story!Commit
<1>4. /\ editing'[e] = Story!Resting
      /\ \A d \in Sessions \ {e} :
            editing'[d] = [editing[d] EXCEPT !.stale = @ \/ editing[d].id = i]
  BY DEF Story!Commit
<1>5. stories'[i] = editing[e].row /\ \A j \in Items \ {i} : stories'[j] = stories[j]
  BY <1>2, <1>3 DEF StoryInv, StoryTypes
<1> HIDE DEF i
<1>6. StoryTypes'
  <2>1. stories' \in [Items -> NewsRow \cup {NoItem}]
    BY <1>2, <1>3 DEF StoryInv, StoryTypes
  <2> DEFINE Edit == [pc : EditSteps, kind : EditKinds, id : Items \cup {Nothing},
                      row : NewsRow \cup {NoItem}, stale : BOOLEAN]
  <2>2. Story!Resting \in Edit
    BY DEF Story!Resting, EditSteps, EditKinds
  <2>3. ASSUME NEW d \in Sessions \ {e}
        PROVE  [editing[d] EXCEPT !.stale = @ \/ editing[d].id = i] \in Edit
    BY DEF StoryInv, StoryTypes
  <2>4. editing' = [d \in Sessions |->
            IF d = e THEN Story!Resting
            ELSE [editing[d] EXCEPT !.stale = @ \/ editing[d].id = i]]
    BY DEF Story!Commit, i
  <2> HIDE DEF Edit
  <2>5. editing' \in [Sessions -> Edit]
    BY <2>2, <2>3, <2>4
  <2> QED
    BY <1>3, <2>1, <2>5 DEF StoryTypes, StoryInv, Edit
<1>7. \A j \in Items : stories'[j] # NoItem => stories'[j].slug[2] = j
  BY <1>2, <1>5 DEF StoryInv
<1>8. ASSUME NEW d \in Sessions, editing'[d].pc # "idle"
      PROVE  Edits(d)'
  <2>1. d # e
    BY <1>4, <1>8 DEF Story!Resting
  <2>2. /\ editing'[d].pc = editing[d].pc /\ editing'[d].kind = editing[d].kind
        /\ editing'[d].id = editing[d].id /\ editing'[d].row = editing[d].row
        /\ editing'[d].stale = (editing[d].stale \/ editing[d].id = i)
    <3>1. editing[d] \in [pc : EditSteps, kind : EditKinds, id : Items \cup {Nothing},
                          row : NewsRow \cup {NoItem}, stale : BOOLEAN]
      BY DEF StoryInv, StoryTypes
    <3>2. editing'[d] = [editing[d] EXCEPT !.stale = editing[d].stale \/ editing[d].id = i]
      BY <1>4, <2>1
    <3> QED
      BY <3>1, <3>2
  <2>3. Edits(d)
    BY <1>8, <2>2 DEF StoryInv
  <2>4. editing[d].kind = "create" => editing[d].id # i
    BY <1>1, <2>1, <2>3 DEF Edits, i
  <2>5. editing[d].kind = "create" =>
            \A f \in Sessions \ {d} : editing'[f].pc # "idle" => editing'[f].id # editing[d].id
    <3> SUFFICES ASSUME editing[d].kind = "create", NEW f \in Sessions \ {d}, editing'[f].pc # "idle"
                 PROVE  editing'[f].id # editing[d].id
      OBVIOUS
    <3>1. f # e
      BY <1>4 DEF Story!Resting
    <3>2. editing'[f].pc = editing[f].pc /\ editing'[f].id = editing[f].id
      BY <1>4, <3>1 DEF StoryInv, StoryTypes
    <3> QED
      BY <2>3, <3>2 DEF Edits
  <2>6. CASE editing[d].id # i
    BY <1>5, <2>2, <2>3, <2>5, <2>6 DEF Edits
  <2>7. CASE editing[d].id = i
    <3>1. stories'[i] # NoItem /\ editing[d].kind # "create"
      BY <1>2, <1>5, <2>4, <2>7
    <3>2. editing[e].kind # "create"
      BY <1>1, <1>8, <2>1, <2>2, <2>7 DEF Edits, i
    <3>3. editing[e].row.slug = stories[i].slug
      BY <1>1, <3>2 DEF Edits, i
    <3> QED
      BY <1>5, <2>2, <2>3, <2>7, <3>1, <3>3 DEF Edits
  <2> QED
    BY <2>6, <2>7
<1> QED
  BY <1>6, <1>7, <1>8 DEF StoryInv

LEMMA StoryStep ==
    ASSUME NoItem \notin NewsRow, StoryInv, [Story!Next]_(Story!vars)
    PROVE  StoryInv'
<1>1. ASSUME NEW e \in Sessions, Story!Create(e)
      PROVE  StoryInv'
  <2>1. PICK i \in {j \in Items \ Story!Stored : \A d \in Sessions : editing[d].id # j},
             title \in Titles, date \in Story!Dates :
            Story!Begin(e, "create", i, [title |-> title, date |-> date, deleted |-> FALSE,
                                         slug |-> Story!generate_news_slug(title, i)])
    BY <1>1 DEF Story!Create
  <2> DEFINE new == [title |-> title, date |-> date, deleted |-> FALSE,
                     slug |-> Story!generate_news_slug(title, i)]
  <2>2. new \in NewsRow /\ new.slug[2] = i
    BY DEF NewsRow, Story!generate_news_slug
  <2>3. stories[i] = NoItem
    BY DEF Story!Stored
  <2>4. editing[e].pc = "idle" /\ Story!Begin(e, "create", i, new)
    BY <1>1, <2>1 DEF Story!Create
  <2> HIDE DEF new
  <2> QED
    BY <2>2, <2>3, <2>4, BeginEdits DEF EditKinds
<1>2. ASSUME NEW e \in Sessions, Story!Update(e)
      PROVE  StoryInv'
  <2>1. PICK i \in Story!Stored, title \in Titles \cup {Nothing}, date \in Story!Dates \cup {Nothing} :
            Story!Begin(e, IF date = Nothing THEN "change" ELSE "date", i,
                        Story!Changed(stories[i], title, date))
    BY <1>2 DEF Story!Update
  <2> DEFINE new == Story!Changed(stories[i], title, date)
  <2>2. i \in Items /\ stories[i] # NoItem /\ stories[i] \in NewsRow
    BY DEF Story!Stored, StoryInv, StoryTypes
  <2>3. /\ new \in NewsRow /\ new.slug = stories[i].slug /\ new.deleted = stories[i].deleted
        /\ date = Nothing => new.date = stories[i].date
    BY <2>2 DEF Story!Changed, NewsRow
  <2>4. new.slug[2] = i
    BY <2>2, <2>3 DEF StoryInv
  <2>5. editing[e].pc = "idle"
    BY <1>2 DEF Story!Update
  <2> HIDE DEF new
  <2> QED
    BY <2>1, <2>2, <2>3, <2>4, <2>5, BeginEdits DEF EditKinds, new
<1>3. ASSUME NEW e \in Sessions, Story!SoftDelete(e)
      PROVE  StoryInv'
  <2>1. PICK i \in Story!Stored : Story!Begin(e, "delete", i, [stories[i] EXCEPT !.deleted = TRUE])
    BY <1>3 DEF Story!SoftDelete
  <2> DEFINE new == [stories[i] EXCEPT !.deleted = TRUE]
  <2>2. i \in Items /\ stories[i] # NoItem /\ stories[i] \in NewsRow
    BY DEF Story!Stored, StoryInv, StoryTypes
  <2>3. new \in NewsRow /\ new.slug = stories[i].slug
    BY <2>2 DEF NewsRow
  <2>4. new.slug[2] = i
    BY <2>2, <2>3 DEF StoryInv
  <2>5. editing[e].pc = "idle" /\ Story!Begin(e, "delete", i, new)
    BY <1>3, <2>1 DEF Story!SoftDelete
  <2> HIDE DEF new
  <2> QED
    BY <2>2, <2>3, <2>4, <2>5, BeginEdits DEF EditKinds
<1>4. ASSUME NEW e \in Sessions, Story!Write(e)
      PROVE  StoryInv'
  <2>1. stories' = stories /\ now' = now /\ editing' = [editing EXCEPT ![e].pc = "end"]
        /\ editing[e].pc = "write"
    BY <1>4 DEF Story!Write
  <2>2. \A d \in Sessions :
            /\ editing'[d].pc = "idle" <=> editing[d].pc = "idle"
            /\ editing'[d].kind = editing[d].kind /\ editing'[d].id = editing[d].id
            /\ editing'[d].row = editing[d].row /\ editing'[d].stale = editing[d].stale
    BY <2>1 DEF StoryInv, StoryTypes
  <2>3. StoryTypes'
    BY <2>1 DEF StoryInv, StoryTypes, EditSteps
  <2>4. \A d \in Sessions : editing'[d].pc # "idle" => Edits(d)'
    BY <2>1, <2>2 DEF StoryInv, Edits
  <2> QED
    BY <2>1, <2>3, <2>4 DEF StoryInv
<1>5. ASSUME NEW e \in Sessions, Story!Abort(e)
      PROVE  StoryInv'
  <2>1. stories' = stories /\ now' = now /\ editing' = [editing EXCEPT ![e] = Story!Resting]
    BY <1>5 DEF Story!Abort
  <2>2. editing'[e].pc = "idle" /\ \A d \in Sessions \ {e} : editing'[d] = editing[d]
    BY <2>1 DEF StoryInv, StoryTypes, Story!Resting
  <2>3. StoryTypes'
    BY <2>1 DEF StoryInv, StoryTypes, EditSteps, EditKinds, Story!Resting
  <2>4. \A d \in Sessions : editing'[d].pc # "idle" => Edits(d)'
    BY <2>1, <2>2 DEF StoryInv, Edits
  <2> QED
    BY <2>1, <2>3, <2>4 DEF StoryInv
<1>6. CASE Story!Tick
  BY <1>6 DEF Story!Tick, StoryInv, StoryTypes, Edits
<1>7. CASE UNCHANGED Story!vars
  BY <1>7 DEF Story!vars, StoryInv, StoryTypes, Edits
<1> QED
  BY <1>1, <1>2, <1>3, <1>4, <1>5, <1>6, <1>7, CommitEdits DEF Story!Next

\* An item is listed under one status, by which the CMS sorts it.
LEMMA OneStatus ==
    ASSUME StoryInv
    PROVE  Story!StatusesAgree
<1> DEFINE at(i) == <<"published", "scheduled", "deleted">>[Story!StatusRank(i)]
<1>1. ASSUME NEW i \in Story!Stored
      PROVE  \A s \in Story!Statuses : i \in Story!OfStatus(s) <=> s = at(i)
  <2>1. stories[i].deleted \in BOOLEAN /\ stories[i].date \in Nat /\ now \in Nat
    BY DEF Story!Stored, StoryInv, StoryTypes, NewsRow, Story!Dates
  <2>2. /\ i \in Story!OfStatus("published") <=> ~stories[i].deleted /\ stories[i].date <= now
        /\ i \in Story!OfStatus("scheduled") <=> ~stories[i].deleted /\ stories[i].date > now
        /\ i \in Story!OfStatus("deleted") <=> stories[i].deleted
    BY DEF Story!OfStatus
  <2>3. at(i) = IF stories[i].deleted THEN "deleted"
                ELSE IF stories[i].date > now THEN "scheduled" ELSE "published"
    BY DEF Story!StatusRank
  <2> HIDE DEF at
  <2> QED
    BY <2>1, <2>2, <2>3 DEF Story!Statuses
<1>2. \A i \in Story!Stored : at(i) \in Story!Statuses
  BY DEF Story!StatusRank, Story!Statuses
<1>3. \A s \in Story!Statuses : Story!OfStatus(s) \subseteq Story!Stored
  BY DEF Story!OfStatus
<1>4. Story!OfStatus("published") = Story!Public
  BY DEF Story!OfStatus, Story!Public
<1> HIDE DEF at
<1>5. \A s, t \in Story!Statuses : s # t => Story!OfStatus(s) \cap Story!OfStatus(t) = {}
  BY <1>1, <1>3
<1>6. \A i \in Story!Stored : i \in Story!OfStatus(at(i))
  BY <1>1, <1>2
<1> QED
  BY <1>4, <1>5, <1>6 DEF Story!StatusesAgree, at

\* The addresses of the items differ, and an item keeps its address.
LEMMA AddressesLast ==
    ASSUME NoItem \notin NewsRow, StoryInv, StoryInv', [Story!Next]_(Story!vars),
           NEW i \in Story!Stored, i \in Story!Public'
    PROVE  \A slug \in {stories[i].slug} : Story!PublicBySlug(slug)' = {i}
<1>1. i \in Items /\ stories[i] # NoItem /\ stories'[i] # NoItem
  BY DEF Story!Stored, Story!Public
<1>2. stories'[i].slug = stories[i].slug
  <2>1. ASSUME NEW e \in Sessions, Story!Commit(e)
        PROVE  stories'[i].slug = stories[i].slug
    <3>1. editing[e].id \in Items /\ Edits(e)
      BY <2>1 DEF Story!Commit, StoryInv, Edits
    <3>2. stories' = [stories EXCEPT ![editing[e].id] = editing[e].row]
      BY <2>1 DEF Story!Commit
    <3>3. CASE editing[e].id = i
      <4>1. editing[e].row.slug = stories[i].slug
        BY <1>1, <3>1, <3>3 DEF Edits
      <4> QED
        BY <1>1, <3>2, <3>3, <4>1 DEF StoryInv, StoryTypes
    <3>4. CASE editing[e].id # i
      BY <1>1, <3>1, <3>2, <3>4 DEF StoryInv, StoryTypes
    <3> QED
      BY <3>3, <3>4
  <2>2. CASE stories' = stories
    BY <2>2
  <2> QED
    BY <2>1, <2>2 DEF Story!Next, Story!vars, Story!Create, Story!Update, Story!SoftDelete,
                      Story!Begin, Story!Write, Story!Abort, Story!Tick
<1>3. \A j \in Story!Public' : stories'[j].slug = stories'[i].slug => j = i
  BY <1>1 DEF Story!Public, Story!Stored, StoryInv
<1> QED
  BY <1>2, <1>3 DEF Story!PublicBySlug

\* A commit that changes whether an item is shown is about that, or undoes what
\* another has committed since it read the row.
LEMMA CommitShows ==
    ASSUME NoItem \notin NewsRow, StoryInv, NEW e \in Sessions, Story!Commit(e),
           NEW i \in Items, (i \in Story!Public) # (i \in Story!Public')
    PROVE  /\ editing[e].id = i /\ editing[e].pc = "end" /\ editing'[e].pc = "idle"
           /\ editing[e].kind # "change" \/ editing[e].stale
<1>1. editing[e].pc = "end" /\ editing'[e].pc = "idle" /\ Edits(e)
  BY DEF Story!Commit, StoryInv, Story!Resting
<1>2. stories' = [stories EXCEPT ![editing[e].id] = editing[e].row] /\ now' = now
  BY DEF Story!Commit
<1>3. editing[e].id = i
  <2> SUFFICES ASSUME editing[e].id # i PROVE FALSE
    OBVIOUS
  <2>1. stories'[i] = stories[i]
    BY <1>2 DEF StoryInv, StoryTypes
  <2> QED
    BY <1>2, <2>1 DEF Story!Public, Story!Stored
<1>4. CASE editing[e].kind = "change" /\ ~editing[e].stale
  <2>1. stories'[i] = editing[e].row /\ stories'[i] # NoItem /\ stories[i] # NoItem
    BY <1>1, <1>2, <1>3, <1>4 DEF Edits, StoryInv, StoryTypes
  <2>2. stories'[i].date = stories[i].date /\ stories'[i].deleted = stories[i].deleted
    BY <1>1, <1>3, <1>4, <2>1 DEF Edits
  <2> QED
    BY <1>2, <2>1, <2>2 DEF Story!Public, Story!Stored
<1> QED
  BY <1>1, <1>3, <1>4

\* However requests for one item interleave: VisibilityOnPurpose always holds.
THEOREM ShownOnPurpose == ASSUME NoItem \notin NewsRow PROVE Story!Spec => VisibilityOnPurpose
<1> DEFINE
    Appears(i) ==
        (i \in Story!Public) # (i \in Story!Public') =>
            \/ now' # now /\ i \in Story!Public'
            \/ \E e \in Sessions :
                 /\ editing[e].id = i /\ editing[e].pc = "end" /\ editing'[e].pc = "idle"
                 /\ editing[e].kind # "change" \/ editing[e].stale
    Shows ==
        /\ \A i \in Items : Appears(i)
        /\ \A i \in Story!Stored : \A slug \in {stories[i].slug} :
              i \in Story!Public' => Story!PublicBySlug(slug)' = {i}
        /\ Story!StatusesAgree'
<1>1. ASSUME Story!Init
      PROVE  StoryInv
  BY <1>1 DEF Story!Init, StoryInv, StoryTypes, Story!Resting, EditSteps, EditKinds
<1>2. ASSUME StoryInv, [Story!Next]_(Story!vars)
      PROVE  StoryInv' /\ Shows
  <2>1. StoryInv'
    BY <1>2, StoryStep
  <2>2. Story!StatusesAgree'
    BY <2>1, OneStatus, PTL
  <2>3. ASSUME NEW i \in Items
        PROVE  Appears(i)
    <3>1. CASE stories' = stories /\ now' = now
      BY <3>1 DEF Story!Public, Story!Stored
    <3>2. ASSUME NEW e \in Sessions, Story!Commit(e)
          PROVE  Appears(i)
      BY <1>2, <3>2, CommitShows
    <3>3. CASE Story!Tick
      <4>1. stories' = stories /\ now' = now + 1 /\ now \in Nat
        BY <1>2, <3>3 DEF Story!Tick, StoryInv, StoryTypes
      <4>2. i \in Story!Stored => stories[i].date \in Nat
        BY <1>2 DEF Story!Stored, StoryInv, StoryTypes, NewsRow, Story!Dates
      <4> QED
        BY <4>1, <4>2 DEF Story!Public, Story!Stored
    <3> QED
      BY <1>2, <3>1, <3>2, <3>3 DEF Story!Next, Story!vars, Story!Create, Story!Update,
         Story!SoftDelete, Story!Begin, Story!Write, Story!Abort
  <2>4. ASSUME NEW i \in Story!Stored, NEW slug \in {stories[i].slug}, i \in Story!Public'
        PROVE  Story!PublicBySlug(slug)' = {i}
    BY <1>2, <2>1, <2>4, AddressesLast
  <2> QED
    BY <2>1, <2>2, <2>3, <2>4
<1>3. ASSUME StoryInv, [Story!Next]_(Story!vars)
      PROVE  [Shows]_(Story!vars)
  BY <1>2, <1>3
<1> QED
  BY <1>1, <1>2, <1>3, PTL DEF Story!Spec, VisibilityOnPurpose, Story!VisibilityOnPurpose

(***************************************************************************)
(* Names of accounts and of the rows of the catalogue, in every behaviour  *)
(* that MCCatalogue puts together.                                         *)
(***************************************************************************)

AloneProofs == INSTANCE NameProofs
    WITH rows <- records, Sessions <- Single, Names <- AloneNames, Slugs <- AloneSlugs,
         MaxLength <- 3, Overlap <- FALSE

RaceProofs == INSTANCE NameProofs
    WITH rows <- records, Ids <- PairIds, Names <- RaceNames, Slugs <- RaceSlugs,
         MaxLength <- 3, Overlap <- TRUE

\* The part that goes on keeps the invariant of its own proof.
NamesInv ==
    /\ which = "accounts" => UInv
    /\ which = "names" => AloneProofs!NameInv
    /\ which = "race" => RaceProofs!NameInv

\* The operators of both instances are the same: what a service makes of a
\* request, and with it each step.
LEMMA AloneMaking ==
    /\ \A text : Alone!GenerateSlug(text) = AloneProofs!GenerateSlug(text)
    /\ \A base, id : Alone!Suffixed(base, id) = AloneProofs!Suffixed(base, id)
    /\ \A base, id : Alone!Fitted(base, id) = AloneProofs!Fitted(base, id)
    /\ \A slug, id : Alone!SlugTaken(slug, id) = AloneProofs!SlugTaken(slug, id)
    /\ \A name, id : Alone!NameTaken(name, id) = AloneProofs!NameTaken(name, id)
<1>1. \A text : Alone!GenerateSlug(text) = AloneProofs!GenerateSlug(text)
  <2> SUFFICES ASSUME NEW text PROVE Alone!GenerateSlug(text) = AloneProofs!GenerateSlug(text)
    OBVIOUS
  <2> DEFINE latin == [i \in DOMAIN text |-> Alone!Latin(text[i])]
             Latins == [i \in DOMAIN text |-> AloneProofs!Latin(text[i])]
             Kept(t) ==
                 LET letters == {i \in DOMAIN t : t[i] \notin {" ", "-"}}
                     hyphens == {i \in DOMAIN t \ letters : i - 1 \in letters /\ \E j \in letters : i < j}
                 IN  [i \in DOMAIN t |->
                         IF i \in letters THEN <<t[i]>> ELSE IF i \in hyphens THEN <<"-">> ELSE <<>>]
  <2>1. latin = Latins
    BY DEF Alone!Latin, AloneProofs!Latin
  <2>2. \A s : Alone!FlattenSeq(s) = AloneProofs!FlattenSeq(s)
    BY DEF Alone!FlattenSeq, AloneProofs!FlattenSeq
  <2>3. Alone!GenerateSlug(text) = Alone!FlattenSeq(Kept(Alone!FlattenSeq(latin)))
    BY DEF Alone!GenerateSlug
  <2>4. AloneProofs!GenerateSlug(text) = AloneProofs!FlattenSeq(Kept(AloneProofs!FlattenSeq(Latins)))
    BY DEF AloneProofs!GenerateSlug
  <2> HIDE DEF latin, Latins, Kept
  <2> QED
    BY <2>1, <2>2, <2>3, <2>4
<1>2. \A base, id : Alone!Suffixed(base, id) = AloneProofs!Suffixed(base, id)
  BY DEF Alone!Suffixed, AloneProofs!Suffixed, Alone!FirstFree, AloneProofs!FirstFree, Alone!Min,
         AloneProofs!Min, Alone!SlugTaken, AloneProofs!SlugTaken, Alone!Attempts,
         AloneProofs!Attempts, Alone!Cardinality, AloneProofs!Cardinality, Alone!Suffix,
         AloneProofs!Suffix
<1>3. \A base, id : Alone!Fitted(base, id) = AloneProofs!Fitted(base, id)
  BY DEF Alone!Fitted, AloneProofs!Fitted, Alone!FirstFree, AloneProofs!FirstFree, Alone!Min,
         AloneProofs!Min, Alone!SlugTaken, AloneProofs!SlugTaken, Alone!Attempts,
         AloneProofs!Attempts, Alone!Cardinality, AloneProofs!Cardinality, Alone!Suffix,
         AloneProofs!Suffix
<1>4. \A slug, id : Alone!SlugTaken(slug, id) = AloneProofs!SlugTaken(slug, id)
  BY DEF Alone!SlugTaken, AloneProofs!SlugTaken
<1>5. \A name, id : Alone!NameTaken(name, id) = AloneProofs!NameTaken(name, id)
  BY DEF Alone!NameTaken, AloneProofs!NameTaken
<1> QED
  BY <1>1, <1>2, <1>3, <1>4, <1>5

LEMMA AloneCreated ==
    ASSUME NEW id, NEW name, NEW slug, table \in Alone!Tables
    PROVE  Alone!Created(id, name, slug) = AloneProofs!Created(id, name, slug)
<1>1. CASE table = "breeds"
  BY AloneMaking, <1>1 DEF Alone!Created, AloneProofs!Created, Alone!CreateBreed,
         AloneProofs!CreateBreed, Alone!Row, AloneProofs!Row
<1>2. CASE table = "coat_color"
  BY AloneMaking, <1>2 DEF Alone!Created, AloneProofs!Created, Alone!CreateCoatColor,
         AloneProofs!CreateCoatColor, Alone!Occupied, AloneProofs!Occupied, Alone!Row,
         AloneProofs!Row
<1>3. CASE table = "breed_groups"
  BY AloneMaking, <1>3 DEF Alone!Created, AloneProofs!Created, Alone!CreateBreedGroup,
         AloneProofs!CreateBreedGroup, Alone!Unfit, AloneProofs!Unfit, Alone!Row, AloneProofs!Row
<1>4. CASE table = "horse_service"
  BY AloneMaking, <1>4 DEF Alone!Created, AloneProofs!Created, Alone!CreateHorseService,
         AloneProofs!CreateHorseService, Alone!CreateBreed, AloneProofs!CreateBreed, Alone!Row,
         AloneProofs!Row
<1>5. CASE table = "horse"
  BY AloneMaking, <1>5 DEF Alone!Created, AloneProofs!Created, Alone!CreateHorse,
         AloneProofs!CreateHorse, Alone!GivenHorseSlug, AloneProofs!GivenHorseSlug, Alone!Row,
         AloneProofs!Row, Alone!AvailableHorseSlug, AloneProofs!AvailableHorseSlug
<1>6. CASE table = "prices"
  BY AloneMaking, <1>6 DEF Alone!Created, AloneProofs!Created, Alone!CreatePrice,
         AloneProofs!CreatePrice, Alone!PriceSlug, AloneProofs!PriceSlug, Alone!Unfit,
         AloneProofs!Unfit, Alone!Row, AloneProofs!Row
<1>7. CASE table = "price_groups"
  BY AloneMaking, <1>7 DEF Alone!Created, AloneProofs!Created, Alone!CreatePriceGroup,
         AloneProofs!CreatePriceGroup, Alone!Row, AloneProofs!Row
<1>8. CASE table = "site_settings"
  BY AloneMaking, <1>8 DEF Alone!Created, AloneProofs!Created, Alone!CreateSiteSetting,
         AloneProofs!CreateSiteSetting, Alone!Key, AloneProofs!Key, Alone!Row, AloneProofs!Row
<1>9. CASE table = "horse_owner"
  BY AloneMaking, <1>9 DEF Alone!Created, AloneProofs!Created, Alone!CreateHorseOwner,
         AloneProofs!CreateHorseOwner, Alone!Row, AloneProofs!Row
<1>10. CASE table = "horse_service_relations"
  BY AloneMaking, <1>10 DEF Alone!Created, AloneProofs!Created, Alone!AttachService,
         AloneProofs!AttachService, Alone!Row, AloneProofs!Row
<1> QED
  BY <1>1, <1>2, <1>3, <1>4, <1>5, <1>6, <1>7, <1>8, <1>9, <1>10 DEF Alone!Tables, Alone!Slugged, Alone!Homonymous

LEMMA AloneUpdated ==
    ASSUME NEW id, NEW name, NEW slug, table \in Alone!Tables
    PROVE  Alone!Updated(id, name, slug) = AloneProofs!Updated(id, name, slug)
<1>1. CASE table = "breeds"
  BY AloneMaking, <1>1 DEF Alone!Updated, AloneProofs!Updated, Alone!UpdateBreed,
         AloneProofs!UpdateBreed, Alone!NewNameTaken, AloneProofs!NewNameTaken, Alone!Row,
         AloneProofs!Row, Alone!NewName, AloneProofs!NewName
<1>2. CASE table = "coat_color"
  BY AloneMaking, <1>2 DEF Alone!Updated, AloneProofs!Updated, Alone!UpdateCoatColor,
         AloneProofs!UpdateCoatColor, Alone!Occupied, AloneProofs!Occupied, Alone!UpdateBreed,
         AloneProofs!UpdateBreed, Alone!NewNameTaken, AloneProofs!NewNameTaken, Alone!Row,
         AloneProofs!Row, Alone!NewName, AloneProofs!NewName
<1>3. CASE table = "breed_groups"
  BY AloneMaking, <1>3 DEF Alone!Updated, AloneProofs!Updated, Alone!UpdateBreedGroup,
         AloneProofs!UpdateBreedGroup, Alone!UpdateBreed, AloneProofs!UpdateBreed,
         Alone!NewNameTaken, AloneProofs!NewNameTaken, Alone!Row, AloneProofs!Row, Alone!NewName,
         AloneProofs!NewName
<1>4. CASE table = "horse_service"
  BY AloneMaking, <1>4 DEF Alone!Updated, AloneProofs!Updated, Alone!UpdateHorseService,
         AloneProofs!UpdateHorseService, Alone!UpdateBreed, AloneProofs!UpdateBreed,
         Alone!NewNameTaken, AloneProofs!NewNameTaken, Alone!Row, AloneProofs!Row, Alone!NewName,
         AloneProofs!NewName
<1>5. CASE table = "horse"
  BY AloneMaking, <1>5 DEF Alone!Updated, AloneProofs!Updated, Alone!UpdateHorse,
         AloneProofs!UpdateHorse, Alone!Row, AloneProofs!Row, Alone!NewName, AloneProofs!NewName,
         Alone!AvailableHorseSlug, AloneProofs!AvailableHorseSlug, Alone!GivenHorseSlug,
         AloneProofs!GivenHorseSlug
<1>6. CASE table = "prices"
  BY AloneMaking, <1>6 DEF Alone!Updated, AloneProofs!Updated, Alone!UpdatePrice,
         AloneProofs!UpdatePrice, Alone!NewNameTaken, AloneProofs!NewNameTaken, Alone!PriceSlug,
         AloneProofs!PriceSlug, Alone!Unfit, AloneProofs!Unfit, Alone!Row, AloneProofs!Row,
         Alone!NewName, AloneProofs!NewName
<1>7. CASE table = "price_groups"
  BY AloneMaking, <1>7 DEF Alone!Updated, AloneProofs!Updated, Alone!UpdatePriceGroup,
         AloneProofs!UpdatePriceGroup, Alone!NewNameTaken, AloneProofs!NewNameTaken, Alone!Row,
         AloneProofs!Row, Alone!NewName, AloneProofs!NewName
<1>8. CASE table = "site_settings"
  BY AloneMaking, <1>8 DEF Alone!Updated, AloneProofs!Updated, Alone!UpdateSiteSetting,
         AloneProofs!UpdateSiteSetting, Alone!Key, AloneProofs!Key, Alone!NewNameTaken,
         AloneProofs!NewNameTaken, Alone!Row, AloneProofs!Row, Alone!NewName, AloneProofs!NewName
<1>9. CASE table = "horse_owner"
  BY AloneMaking, <1>9 DEF Alone!Updated, AloneProofs!Updated, Alone!UpdateHorseOwner,
         AloneProofs!UpdateHorseOwner, Alone!Row, AloneProofs!Row, Alone!NewName,
         AloneProofs!NewName
<1>10. CASE table = "horse_service_relations"
  BY AloneMaking, <1>10 DEF Alone!Updated, AloneProofs!Updated, Alone!UpdateAttached,
         AloneProofs!UpdateAttached
<1> QED
  BY <1>1, <1>2, <1>3, <1>4, <1>5, <1>6, <1>7, <1>8, <1>9, <1>10 DEF Alone!Tables, Alone!Slugged, Alone!Homonymous

LEMMA AloneNext == ASSUME table \in Alone!Tables, Alone!Next PROVE AloneProofs!Next
<1>1. ASSUME NEW s \in Single, Alone!Create(s)
      PROVE  AloneProofs!Create(s)
  <2>1. \A id, name, slug : Alone!Created(id, name, slug) = AloneProofs!Created(id, name, slug)
    BY AloneCreated
  <2>2. \A id, slug, new : Alone!Ask(s, id, slug, new) => AloneProofs!Ask(s, id, slug, new)
    BY DEF Alone!Ask, AloneProofs!Ask, Alone!Idle, AloneProofs!Idle, Alone!Ended, AloneProofs!Ended
  <2> QED
    BY <1>1, <2>1, <2>2 DEF Alone!Create, AloneProofs!Create, Alone!Free, AloneProofs!Free,
           Alone!Given, AloneProofs!Given, Alone!Slugged, AloneProofs!Slugged
<1>2. ASSUME NEW s \in Single, Alone!Update(s)
      PROVE  AloneProofs!Update(s)
  <2>1. \A id, name, slug : Alone!Updated(id, name, slug) = AloneProofs!Updated(id, name, slug)
    BY AloneUpdated
  <2>2. \A id, slug, new : Alone!Ask(s, id, slug, new) => AloneProofs!Ask(s, id, slug, new)
    BY DEF Alone!Ask, AloneProofs!Ask, Alone!Idle, AloneProofs!Idle, Alone!Ended, AloneProofs!Ended
  <2> QED
    BY <1>2, <2>1, <2>2 DEF Alone!Update, AloneProofs!Update, Alone!Free, AloneProofs!Free,
           Alone!Given, AloneProofs!Given, Alone!Slugged, AloneProofs!Slugged
<1>3. ASSUME NEW s \in Single, Alone!Delete(s)
      PROVE  AloneProofs!Delete(s)
  BY <1>3 DEF Alone!Delete, AloneProofs!Delete, Alone!Free, AloneProofs!Free, Alone!Ask,
         AloneProofs!Ask, Alone!Idle, AloneProofs!Idle, Alone!Ended, AloneProofs!Ended
<1>4. ASSUME NEW s \in Single, Alone!Write(s)
      PROVE  AloneProofs!Write(s)
  BY <1>4 DEF Alone!Write, AloneProofs!Write, Alone!Waits, AloneProofs!Waits, Alone!Clash,
         AloneProofs!Clash, Alone!NameKeys, AloneProofs!NameKeys, Alone!SlugKeys,
         AloneProofs!SlugKeys, Alone!Slugged, AloneProofs!Slugged, Alone!Written,
         AloneProofs!Written, Alone!TooLong, AloneProofs!TooLong, Alone!Answered,
         AloneProofs!Answered, Alone!Ended, AloneProofs!Ended, Alone!Refusal, AloneProofs!Refusal,
         Alone!Translated, AloneProofs!Translated
<1>5. ASSUME NEW s \in Single, Alone!Commit(s)
      PROVE  AloneProofs!Commit(s)
  BY <1>5 DEF Alone!Commit, AloneProofs!Commit, Alone!Idle, AloneProofs!Idle, Alone!Ended,
         AloneProofs!Ended
<1> QED
  BY <1>1, <1>2, <1>3, <1>4, <1>5 DEF Alone!Next, AloneProofs!Next

LEMMA AloneStep ==
    ASSUME AloneProofs!NameInv, Alone!Next
    PROVE  AloneProofs!NameInv' /\ (AloneProofs!SlugConstants /\ AloneProofs!KeysInv => AloneProofs!KeysInv')
<1>1. table \in Alone!Tables
  BY DEF AloneProofs!NameInv, Alone!Tables, AloneProofs!Tables, Alone!Slugged, AloneProofs!Slugged, Alone!Homonymous,
         AloneProofs!Homonymous
<1> QED
  BY <1>1, AloneNext, AloneProofs!NamesStep, AloneProofs!KeysStep

LEMMA AloneInit == Alone!Init => AloneProofs!NameInv /\ AloneProofs!KeysInv
<1>1. Alone!Init => AloneProofs!Init
  BY DEF Alone!Init, AloneProofs!Init, Alone!Idle, AloneProofs!Idle, Alone!Ended,
         AloneProofs!Ended, Alone!Tables, AloneProofs!Tables, Alone!Slugged, AloneProofs!Slugged,
         Alone!Homonymous, AloneProofs!Homonymous
<1> QED
  BY <1>1, AloneProofs!NamesInit, AloneProofs!KeysInit

\* The same for requests that overlap.
LEMMA RaceMaking ==
    /\ \A text : Race!GenerateSlug(text) = RaceProofs!GenerateSlug(text)
    /\ \A base, id : Race!Suffixed(base, id) = RaceProofs!Suffixed(base, id)
    /\ \A base, id : Race!Fitted(base, id) = RaceProofs!Fitted(base, id)
    /\ \A slug, id : Race!SlugTaken(slug, id) = RaceProofs!SlugTaken(slug, id)
    /\ \A name, id : Race!NameTaken(name, id) = RaceProofs!NameTaken(name, id)
<1>1. \A text : Race!GenerateSlug(text) = RaceProofs!GenerateSlug(text)
  <2> SUFFICES ASSUME NEW text PROVE Race!GenerateSlug(text) = RaceProofs!GenerateSlug(text)
    OBVIOUS
  <2> DEFINE latin == [i \in DOMAIN text |-> Race!Latin(text[i])]
             Latins == [i \in DOMAIN text |-> RaceProofs!Latin(text[i])]
             Kept(t) ==
                 LET letters == {i \in DOMAIN t : t[i] \notin {" ", "-"}}
                     hyphens == {i \in DOMAIN t \ letters : i - 1 \in letters /\ \E j \in letters : i < j}
                 IN  [i \in DOMAIN t |->
                         IF i \in letters THEN <<t[i]>> ELSE IF i \in hyphens THEN <<"-">> ELSE <<>>]
  <2>1. latin = Latins
    BY DEF Race!Latin, RaceProofs!Latin
  <2>2. \A s : Race!FlattenSeq(s) = RaceProofs!FlattenSeq(s)
    BY DEF Race!FlattenSeq, RaceProofs!FlattenSeq
  <2>3. Race!GenerateSlug(text) = Race!FlattenSeq(Kept(Race!FlattenSeq(latin)))
    BY DEF Race!GenerateSlug
  <2>4. RaceProofs!GenerateSlug(text) = RaceProofs!FlattenSeq(Kept(RaceProofs!FlattenSeq(Latins)))
    BY DEF RaceProofs!GenerateSlug
  <2> HIDE DEF latin, Latins, Kept
  <2> QED
    BY <2>1, <2>2, <2>3, <2>4
<1>2. \A base, id : Race!Suffixed(base, id) = RaceProofs!Suffixed(base, id)
  BY DEF Race!Suffixed, RaceProofs!Suffixed, Race!FirstFree, RaceProofs!FirstFree, Race!Min,
         RaceProofs!Min, Race!SlugTaken, RaceProofs!SlugTaken, Race!Attempts, RaceProofs!Attempts,
         Race!Cardinality, RaceProofs!Cardinality, Race!Suffix, RaceProofs!Suffix
<1>3. \A base, id : Race!Fitted(base, id) = RaceProofs!Fitted(base, id)
  BY DEF Race!Fitted, RaceProofs!Fitted, Race!FirstFree, RaceProofs!FirstFree, Race!Min,
         RaceProofs!Min, Race!SlugTaken, RaceProofs!SlugTaken, Race!Attempts, RaceProofs!Attempts,
         Race!Cardinality, RaceProofs!Cardinality, Race!Suffix, RaceProofs!Suffix
<1>4. \A slug, id : Race!SlugTaken(slug, id) = RaceProofs!SlugTaken(slug, id)
  BY DEF Race!SlugTaken, RaceProofs!SlugTaken
<1>5. \A name, id : Race!NameTaken(name, id) = RaceProofs!NameTaken(name, id)
  BY DEF Race!NameTaken, RaceProofs!NameTaken
<1> QED
  BY <1>1, <1>2, <1>3, <1>4, <1>5

LEMMA RaceCreated ==
    ASSUME NEW id, NEW name, NEW slug, table \in Race!Tables
    PROVE  Race!Created(id, name, slug) = RaceProofs!Created(id, name, slug)
<1>1. CASE table = "breeds"
  BY RaceMaking, <1>1 DEF Race!Created, RaceProofs!Created, Race!CreateBreed,
         RaceProofs!CreateBreed, Race!Row, RaceProofs!Row
<1>2. CASE table = "coat_color"
  BY RaceMaking, <1>2 DEF Race!Created, RaceProofs!Created, Race!CreateCoatColor,
         RaceProofs!CreateCoatColor, Race!Occupied, RaceProofs!Occupied, Race!Row, RaceProofs!Row
<1>3. CASE table = "breed_groups"
  BY RaceMaking, <1>3 DEF Race!Created, RaceProofs!Created, Race!CreateBreedGroup,
         RaceProofs!CreateBreedGroup, Race!Unfit, RaceProofs!Unfit, Race!Row, RaceProofs!Row
<1>4. CASE table = "horse_service"
  BY RaceMaking, <1>4 DEF Race!Created, RaceProofs!Created, Race!CreateHorseService,
         RaceProofs!CreateHorseService, Race!CreateBreed, RaceProofs!CreateBreed, Race!Row,
         RaceProofs!Row
<1>5. CASE table = "horse"
  BY RaceMaking, <1>5 DEF Race!Created, RaceProofs!Created, Race!CreateHorse,
         RaceProofs!CreateHorse, Race!GivenHorseSlug, RaceProofs!GivenHorseSlug, Race!Row,
         RaceProofs!Row, Race!AvailableHorseSlug, RaceProofs!AvailableHorseSlug
<1>6. CASE table = "prices"
  BY RaceMaking, <1>6 DEF Race!Created, RaceProofs!Created, Race!CreatePrice,
         RaceProofs!CreatePrice, Race!PriceSlug, RaceProofs!PriceSlug, Race!Unfit,
         RaceProofs!Unfit, Race!Row, RaceProofs!Row
<1>7. CASE table = "price_groups"
  BY RaceMaking, <1>7 DEF Race!Created, RaceProofs!Created, Race!CreatePriceGroup,
         RaceProofs!CreatePriceGroup, Race!Row, RaceProofs!Row
<1>8. CASE table = "site_settings"
  BY RaceMaking, <1>8 DEF Race!Created, RaceProofs!Created, Race!CreateSiteSetting,
         RaceProofs!CreateSiteSetting, Race!Key, RaceProofs!Key, Race!Row, RaceProofs!Row
<1>9. CASE table = "horse_owner"
  BY RaceMaking, <1>9 DEF Race!Created, RaceProofs!Created, Race!CreateHorseOwner,
         RaceProofs!CreateHorseOwner, Race!Row, RaceProofs!Row
<1>10. CASE table = "horse_service_relations"
  BY RaceMaking, <1>10 DEF Race!Created, RaceProofs!Created, Race!AttachService,
         RaceProofs!AttachService, Race!Row, RaceProofs!Row
<1> QED
  BY <1>1, <1>2, <1>3, <1>4, <1>5, <1>6, <1>7, <1>8, <1>9, <1>10 DEF Race!Tables, Race!Slugged, Race!Homonymous

LEMMA RaceUpdated ==
    ASSUME NEW id, NEW name, NEW slug, table \in Race!Tables
    PROVE  Race!Updated(id, name, slug) = RaceProofs!Updated(id, name, slug)
<1>1. CASE table = "breeds"
  BY RaceMaking, <1>1 DEF Race!Updated, RaceProofs!Updated, Race!UpdateBreed,
         RaceProofs!UpdateBreed, Race!NewNameTaken, RaceProofs!NewNameTaken, Race!Row,
         RaceProofs!Row, Race!NewName, RaceProofs!NewName
<1>2. CASE table = "coat_color"
  BY RaceMaking, <1>2 DEF Race!Updated, RaceProofs!Updated, Race!UpdateCoatColor,
         RaceProofs!UpdateCoatColor, Race!Occupied, RaceProofs!Occupied, Race!UpdateBreed,
         RaceProofs!UpdateBreed, Race!NewNameTaken, RaceProofs!NewNameTaken, Race!Row,
         RaceProofs!Row, Race!NewName, RaceProofs!NewName
<1>3. CASE table = "breed_groups"
  BY RaceMaking, <1>3 DEF Race!Updated, RaceProofs!Updated, Race!UpdateBreedGroup,
         RaceProofs!UpdateBreedGroup, Race!UpdateBreed, RaceProofs!UpdateBreed, Race!NewNameTaken,
         RaceProofs!NewNameTaken, Race!Row, RaceProofs!Row, Race!NewName, RaceProofs!NewName
<1>4. CASE table = "horse_service"
  BY RaceMaking, <1>4 DEF Race!Updated, RaceProofs!Updated, Race!UpdateHorseService,
         RaceProofs!UpdateHorseService, Race!UpdateBreed, RaceProofs!UpdateBreed,
         Race!NewNameTaken, RaceProofs!NewNameTaken, Race!Row, RaceProofs!Row, Race!NewName,
         RaceProofs!NewName
<1>5. CASE table = "horse"
  BY RaceMaking, <1>5 DEF Race!Updated, RaceProofs!Updated, Race!UpdateHorse,
         RaceProofs!UpdateHorse, Race!Row, RaceProofs!Row, Race!NewName, RaceProofs!NewName,
         Race!AvailableHorseSlug, RaceProofs!AvailableHorseSlug, Race!GivenHorseSlug,
         RaceProofs!GivenHorseSlug
<1>6. CASE table = "prices"
  BY RaceMaking, <1>6 DEF Race!Updated, RaceProofs!Updated, Race!UpdatePrice,
         RaceProofs!UpdatePrice, Race!NewNameTaken, RaceProofs!NewNameTaken, Race!PriceSlug,
         RaceProofs!PriceSlug, Race!Unfit, RaceProofs!Unfit, Race!Row, RaceProofs!Row,
         Race!NewName, RaceProofs!NewName
<1>7. CASE table = "price_groups"
  BY RaceMaking, <1>7 DEF Race!Updated, RaceProofs!Updated, Race!UpdatePriceGroup,
         RaceProofs!UpdatePriceGroup, Race!NewNameTaken, RaceProofs!NewNameTaken, Race!Row,
         RaceProofs!Row, Race!NewName, RaceProofs!NewName
<1>8. CASE table = "site_settings"
  BY RaceMaking, <1>8 DEF Race!Updated, RaceProofs!Updated, Race!UpdateSiteSetting,
         RaceProofs!UpdateSiteSetting, Race!Key, RaceProofs!Key, Race!NewNameTaken,
         RaceProofs!NewNameTaken, Race!Row, RaceProofs!Row, Race!NewName, RaceProofs!NewName
<1>9. CASE table = "horse_owner"
  BY RaceMaking, <1>9 DEF Race!Updated, RaceProofs!Updated, Race!UpdateHorseOwner,
         RaceProofs!UpdateHorseOwner, Race!Row, RaceProofs!Row, Race!NewName, RaceProofs!NewName
<1>10. CASE table = "horse_service_relations"
  BY RaceMaking, <1>10 DEF Race!Updated, RaceProofs!Updated, Race!UpdateAttached,
         RaceProofs!UpdateAttached
<1> QED
  BY <1>1, <1>2, <1>3, <1>4, <1>5, <1>6, <1>7, <1>8, <1>9, <1>10 DEF Race!Tables, Race!Slugged, Race!Homonymous

LEMMA RaceNext == ASSUME table \in Race!Tables, Race!Next PROVE RaceProofs!Next
<1>1. ASSUME NEW s \in Sessions, Race!Create(s)
      PROVE  RaceProofs!Create(s)
  <2>1. \A id, name, slug : Race!Created(id, name, slug) = RaceProofs!Created(id, name, slug)
    BY RaceCreated
  <2>2. \A id, slug, new : Race!Ask(s, id, slug, new) => RaceProofs!Ask(s, id, slug, new)
    BY DEF Race!Ask, RaceProofs!Ask, Race!Idle, RaceProofs!Idle, Race!Ended, RaceProofs!Ended
  <2> QED
    BY <1>1, <2>1, <2>2 DEF Race!Create, RaceProofs!Create, Race!Free, RaceProofs!Free, Race!Given,
           RaceProofs!Given, Race!Slugged, RaceProofs!Slugged
<1>2. ASSUME NEW s \in Sessions, Race!Update(s)
      PROVE  RaceProofs!Update(s)
  <2>1. \A id, name, slug : Race!Updated(id, name, slug) = RaceProofs!Updated(id, name, slug)
    BY RaceUpdated
  <2>2. \A id, slug, new : Race!Ask(s, id, slug, new) => RaceProofs!Ask(s, id, slug, new)
    BY DEF Race!Ask, RaceProofs!Ask, Race!Idle, RaceProofs!Idle, Race!Ended, RaceProofs!Ended
  <2> QED
    BY <1>2, <2>1, <2>2 DEF Race!Update, RaceProofs!Update, Race!Free, RaceProofs!Free, Race!Given,
           RaceProofs!Given, Race!Slugged, RaceProofs!Slugged
<1>3. ASSUME NEW s \in Sessions, Race!Delete(s)
      PROVE  RaceProofs!Delete(s)
  BY <1>3 DEF Race!Delete, RaceProofs!Delete, Race!Free, RaceProofs!Free, Race!Ask, RaceProofs!Ask,
         Race!Idle, RaceProofs!Idle, Race!Ended, RaceProofs!Ended
<1>4. ASSUME NEW s \in Sessions, Race!Write(s)
      PROVE  RaceProofs!Write(s)
  BY <1>4 DEF Race!Write, RaceProofs!Write, Race!Waits, RaceProofs!Waits, Race!Clash,
         RaceProofs!Clash, Race!NameKeys, RaceProofs!NameKeys, Race!SlugKeys, RaceProofs!SlugKeys,
         Race!Slugged, RaceProofs!Slugged, Race!Written, RaceProofs!Written, Race!TooLong,
         RaceProofs!TooLong, Race!Answered, RaceProofs!Answered, Race!Ended, RaceProofs!Ended,
         Race!Refusal, RaceProofs!Refusal, Race!Translated, RaceProofs!Translated
<1>5. ASSUME NEW s \in Sessions, Race!Commit(s)
      PROVE  RaceProofs!Commit(s)
  BY <1>5 DEF Race!Commit, RaceProofs!Commit, Race!Idle, RaceProofs!Idle, Race!Ended,
         RaceProofs!Ended
<1> QED
  BY <1>1, <1>2, <1>3, <1>4, <1>5 DEF Race!Next, RaceProofs!Next

LEMMA RaceStep ==
    ASSUME RaceProofs!NameInv, Race!Next
    PROVE  RaceProofs!NameInv' /\ (RaceProofs!SlugConstants /\ RaceProofs!KeysInv => RaceProofs!KeysInv')
<1>1. table \in Race!Tables
  BY DEF RaceProofs!NameInv, Race!Tables, RaceProofs!Tables, Race!Slugged, RaceProofs!Slugged, Race!Homonymous,
         RaceProofs!Homonymous
<1> QED
  BY <1>1, RaceNext, RaceProofs!NamesStep, RaceProofs!KeysStep

LEMMA RaceInit == Race!Init => RaceProofs!NameInv /\ RaceProofs!KeysInv
<1>1. Race!Init => RaceProofs!Init
  BY DEF Race!Init, RaceProofs!Init, Race!Idle, RaceProofs!Idle, Race!Ended, RaceProofs!Ended,
         Race!Tables, RaceProofs!Tables, Race!Slugged, RaceProofs!Slugged, Race!Homonymous,
         RaceProofs!Homonymous
<1> QED
  BY <1>1, RaceProofs!NamesInit, RaceProofs!KeysInit

LEMMA NamesInvStep == ASSUME Apart, NamesInv, [MCNext]_allVars PROVE NamesInv'
<1>1. CASE which = "accounts" /\ Next /\ which' = which
  BY <1>1, UsersNext DEF NamesInv
<1>2. CASE which = "names" /\ Alone!Next /\ which' = which
  BY <1>2, AloneStep DEF NamesInv
<1>3. CASE which = "race" /\ Race!Next /\ which' = which
  BY <1>3, RaceStep DEF NamesInv
<1>4. CASE which \notin {"accounts", "names", "race"} /\ which' = which
  BY <1>4 DEF NamesInv
<1>5. CASE UNCHANGED allVars
  <2>1. which' = which /\ UNCHANGED vars /\ UNCHANGED rowVars
    BY <1>5 DEF allVars
  <2>2. UInv => UInv'
    BY <2>1, UsersNext
  <2>3. AloneProofs!NameInv => AloneProofs!NameInv'
    BY <2>1, AloneProofs!NamesStep DEF rowVars, AloneProofs!vars
  <2>4. RaceProofs!NameInv => RaceProofs!NameInv'
    BY <2>1, RaceProofs!NamesStep DEF rowVars, RaceProofs!vars
  <2> QED
    BY <2>1, <2>2, <2>3, <2>4 DEF NamesInv
<1> QED
  BY <1>1, <1>2, <1>3, <1>4, <1>5 DEF MCNext

\* Names stay different in every table whose services look them up or which has
\* a key for them, and usernames always: AllNamesDiffer always holds.
THEOREM NamesStayDifferent == ASSUME Apart PROVE MCSpec => []AllNamesDiffer
<1>1. MCInit => NamesInv
  BY UsersInit, AloneInit, RaceInit DEF MCInit, InitRows, NamesInv
<1>2. UInv => TypeOK
  BY DEF UInv, Types, NamesUnique, TypeOK, Steps
<1>3. AloneProofs!NameInv => Alone!NamesDiffer
  BY AloneProofs!NamesKept
  DEF AloneProofs!NamesDiffer, Alone!NamesDiffer, AloneProofs!NameKeys, Alone!NameKeys,
      AloneProofs!Homonymous, Alone!Homonymous
<1>4. RaceProofs!NameInv => Race!NamesDiffer
  BY RaceProofs!NamesKept
  DEF RaceProofs!NamesDiffer, Race!NamesDiffer, RaceProofs!NameKeys, Race!NameKeys,
      RaceProofs!Homonymous, Race!Homonymous
<1>5. NamesInv => AllNamesDiffer
  BY <1>2, <1>3, <1>4 DEF NamesInv, AllNamesDiffer
<1> QED
  BY <1>1, <1>5, NamesInvStep, PTL DEF MCSpec

LEMMA SameConstants == AloneProofs!SlugConstants /\ RaceProofs!SlugConstants
<1>1. AloneProofs!SlugConstants
  BY RowConstants
  DEF Alone!SlugConstants, AloneProofs!SlugConstants, Alone!Attempts, AloneProofs!Attempts,
      Alone!Cardinality, AloneProofs!Cardinality, Alone!IsFiniteSet, AloneProofs!IsFiniteSet
<1>2. RaceProofs!SlugConstants
  BY RowConstants
  DEF Race!SlugConstants, RaceProofs!SlugConstants, Race!Attempts, RaceProofs!Attempts,
      Race!Cardinality, RaceProofs!Cardinality, Race!IsFiniteSet, RaceProofs!IsFiniteSet
<1> QED
  BY <1>1, <1>2

RacersInv ==
    /\ which = "names" => AloneProofs!NameInv /\ AloneProofs!KeysInv
    /\ which = "race" => RaceProofs!NameInv /\ RaceProofs!KeysInv

LEMMA RacersStep == ASSUME RacersInv, [MCNext]_allVars PROVE RacersInv'
<1>1. CASE which = "names" /\ Alone!Next /\ which' = which
  BY <1>1, AloneStep, SameConstants DEF RacersInv
<1>2. CASE which = "race" /\ Race!Next /\ which' = which
  BY <1>2, RaceStep, SameConstants DEF RacersInv
<1>3. CASE which \notin {"names", "race"} /\ which' = which
  BY <1>3 DEF RacersInv
<1>4. CASE UNCHANGED allVars
  <2>1. which' = which /\ UNCHANGED rowVars
    BY <1>4 DEF allVars
  <2>2. AloneProofs!NameInv /\ AloneProofs!KeysInv => (AloneProofs!NameInv /\ AloneProofs!KeysInv)'
    BY <2>1, SameConstants, AloneProofs!NamesStep, AloneProofs!KeysStep DEF rowVars, AloneProofs!vars
  <2>3. RaceProofs!NameInv /\ RaceProofs!KeysInv => (RaceProofs!NameInv /\ RaceProofs!KeysInv)'
    BY <2>1, SameConstants, RaceProofs!NamesStep, RaceProofs!KeysStep DEF rowVars, RaceProofs!vars
  <2> QED
    BY <2>1, <2>2, <2>3 DEF RacersInv
<1> QED
  BY <1>1, <1>2, <1>3, <1>4 DEF MCNext

\* Of requests for names and slugs only those fail with a server error that lost
\* a race for a key, or whose slug no service cuts: RacersOnlyFail always holds.
THEOREM OnlyLosersFail == MCSpec => []RacersOnlyFail
<1>1. MCInit => RacersInv
  BY AloneInit, RaceInit DEF MCInit, InitRows, RacersInv
<1>2. AloneProofs!KeysInv => Alone!OnlyRacesFail
  BY AloneProofs!KeysForeseen
  DEF AloneProofs!OnlyRacesFail, Alone!OnlyRacesFail, AloneProofs!Translated, Alone!Translated
<1>3. RaceProofs!KeysInv => Race!OnlyRacesFail
  BY RaceProofs!KeysForeseen
  DEF RaceProofs!OnlyRacesFail, Race!OnlyRacesFail, RaceProofs!Translated, Race!Translated
<1>4. RacersInv => RacersOnlyFail
  BY <1>2, <1>3 DEF RacersInv, RacersOnlyFail
<1> QED
  BY <1>1, <1>4, RacersStep, PTL DEF MCSpec

(***************************************************************************)
(* Lists: for any finite table, any keys and any size of a page, the pages *)
(* of a list whose order ends with the id are the rows that match.         *)
(***************************************************************************)

Numbered ==
    /\ IsFiniteSet(Rows) /\ Rows \subseteq Nat
    /\ Keys \subseteq Nat
    /\ Limit \in Nat

LEMMA SameSize == \A S : Lists!Cardinality(S) = Cardinality(S)
BY DEF Cardinality, Lists!Cardinality

\* A sequence of all members has each of them.
LEMMA EachOnce ==
    ASSUME NEW S, IsFiniteSet(S), NEW o \in Lists!SetToSeqs(S)
    PROVE  /\ Cardinality(S) \in Nat
           /\ o \in Seq(S) /\ Len(o) = Cardinality(S)
           /\ \A x \in S : \E i \in 1 .. Cardinality(S) : o[i] = x
           /\ \A i, j \in 1 .. Cardinality(S) : i # j => o[i] # o[j]
<1> DEFINE D == 1 .. Cardinality(S)
<1>1. Cardinality(S) \in Nat
  BY FS_CardinalityType
<1>2. IsFiniteSet(D) /\ Cardinality(D) = Cardinality(S)
  BY <1>1, FS_Interval
<1>3. o \in [D -> S] /\ \A i, j \in D : i # j => o[i] # o[j]
  BY SameSize DEF Lists!SetToSeqs
<1>4. o \in Injection(D, S)
  BY <1>3 DEF Injection, IsInjective
<1>5. o \in Surjection(D, S)
  BY <1>2, <1>4, FS_Injection
<1>6. \A x \in S : \E i \in D : o[i] = x
  BY <1>5 DEF Surjection
<1> QED
  BY <1>1, <1>3, <1>6

\* Of two sequences of all members the first place where they differ would have
\* members that are before each other.
LEMMA OneOrder ==
    ASSUME NEW S, IsFiniteSet(S), NEW o \in Lists!SetToSeqs(S), NEW p \in Lists!SetToSeqs(S),
           NEW T, \A x, y \in S : x # y => <<x, y>> \in T \/ <<y, x>> \in T,
           \A i, j \in DOMAIN o : i < j => <<o[j], o[i]>> \notin T,
           \A i, j \in DOMAIN p : i < j => <<p[j], p[i]>> \notin T
    PROVE  o = p
<1> DEFINE n == Cardinality(S)
           Differ == {i \in 1 .. n : o[i] # p[i]}
<1>1. /\ n \in Nat
      /\ o \in Seq(S) /\ Len(o) = n /\ p \in Seq(S) /\ Len(p) = n
      /\ \A x \in S : (\E i \in 1 .. n : o[i] = x) /\ (\E i \in 1 .. n : p[i] = x)
      /\ \A i, j \in 1 .. n : i # j => o[i] # o[j] /\ p[i] # p[j]
      /\ DOMAIN o = 1 .. n /\ DOMAIN p = 1 .. n
  <2>1. /\ n \in Nat /\ o \in Seq(S) /\ Len(o) = n
        /\ \A x \in S : \E i \in 1 .. n : o[i] = x
        /\ \A i, j \in 1 .. n : i # j => o[i] # o[j]
    BY EachOnce
  <2>2. /\ p \in Seq(S) /\ Len(p) = n
        /\ \A x \in S : \E i \in 1 .. n : p[i] = x
        /\ \A i, j \in 1 .. n : i # j => p[i] # p[j]
    BY EachOnce
  <2> HIDE DEF n
  <2>3. DOMAIN o = 1 .. n
    BY <2>1
  <2>4. DOMAIN p = 1 .. n
    BY <2>2
  <2> QED
    BY <2>1, <2>2, <2>3, <2>4, Zenon
<1> HIDE DEF n
<1>2. Differ \subseteq Nat
  BY <1>1
<1>3. CASE Differ # {}
  <2>1. PICK k \in Differ : \A d \in Differ : k <= d
    BY <1>2, <1>3, LeastNumber
  <2>2. k \in 1 .. n /\ o[k] # p[k] /\ \A i \in 1 .. n : i < k => o[i] = p[i]
    BY <1>1, <2>1
  <2>3. o[k] \in S /\ p[k] \in S
    BY <1>1, <2>2
  <2>4. PICK i \in 1 .. n : o[i] = p[k]
    BY <1>1, <2>3
  <2>5. PICK j \in 1 .. n : p[j] = o[k]
    BY <1>1, <2>3
  <2>6. i > k
    BY <1>1, <2>2, <2>4
  <2>7. j > k
    BY <1>1, <2>2, <2>5
  <2>8. k \in DOMAIN o /\ i \in DOMAIN o /\ k \in DOMAIN p /\ j \in DOMAIN p
    BY <1>1, <2>2
  <2>9. <<o[i], o[k]>> \notin T /\ <<p[j], p[k]>> \notin T
    BY <2>6, <2>7, <2>8
  <2> QED
    BY <2>2, <2>3, <2>4, <2>5, <2>9
<1>4. CASE Differ = {}
  BY <1>1, <1>4
<1> QED
  BY <1>3, <1>4

\* The pages so far begin the order in which the database has the rows.
Begins(o) == Len(answered) \in 0 .. Len(o) /\ answered = SubSeq(o, 1, Len(answered))

ListInv ==
    /\ list \in Lists!Lists
    /\ read \in [Rows -> [tenant : {Own, Other}, key : Keys, fits : SUBSET query]]
    /\ total \in {Lists!Unread, Lists!Cardinality(Lists!Matching)}
    /\ list.lastById => answered = <<>> \/ \E o \in Lists!Orders : Begins(o)

LEMMA MatchingFinite ==
    ASSUME Numbered
    PROVE  IsFiniteSet(Lists!Matching) /\ Lists!Matching \subseteq Rows
BY FS_Subset DEF Numbered, Lists!Matching

\* An order that ends with the id leaves the database no choice.
LEMMA OneListOrder ==
    ASSUME Numbered, ListInv, list.lastById, NEW o \in Lists!Orders, NEW p \in Lists!Orders
    PROVE  o = p
<1> DEFINE S == Lists!Matching
           T == {xy \in S \X S : Lists!Before(xy[1], xy[2])}
<1>1. IsFiniteSet(S) /\ S \subseteq Rows /\ Rows \subseteq Nat
  BY MatchingFinite DEF Numbered
<1>2. \A x \in S : read[x].key \in Nat
  BY <1>1 DEF ListInv, Numbered
<1>3. \A x, y \in S : <<x, y>> \in T <=> Lists!Before(x, y)
  OBVIOUS
<1>4. \A x, y \in S : x # y => Lists!Before(x, y) \/ Lists!Before(y, x)
  BY <1>1, <1>2 DEF Lists!Before
<1>5. /\ o \in Lists!SetToSeqs(S) /\ p \in Lists!SetToSeqs(S)
      /\ \A i, j \in DOMAIN o : i < j => ~Lists!Before(o[j], o[i])
      /\ \A i, j \in DOMAIN p : i < j => ~Lists!Before(p[j], p[i])
  BY DEF Lists!Orders
<1>6. o \in Seq(S) /\ p \in Seq(S)
  BY <1>1, <1>5, EachOnce
<1> HIDE DEF T, S
<1>7. /\ \A i, j \in DOMAIN o : i < j => <<o[j], o[i]>> \notin T
      /\ \A i, j \in DOMAIN p : i < j => <<p[j], p[i]>> \notin T
  BY <1>3, <1>5, <1>6
<1>8. \A x, y \in S : x # y => <<x, y>> \in T \/ <<y, x>> \in T
  BY <1>3, <1>4
<1> QED
  BY <1>1, <1>5, <1>7, <1>8, OneOrder

LEMMA OrderFits ==
    ASSUME Numbered, NEW o \in Lists!Orders
    PROVE  /\ o \in Seq(Lists!Matching) /\ Len(o) \in Nat
           /\ Len(o) = Lists!Cardinality(Lists!Matching)
           /\ \A r \in Lists!Matching : \E i \in 1 .. Len(o) : o[i] = r
<1>1. o \in Lists!SetToSeqs(Lists!Matching)
  BY DEF Lists!Orders
<1>2. IsFiniteSet(Lists!Matching)
  BY MatchingFinite
<1> QED
  BY <1>1, <1>2, EachOnce, SameSize

\* The page and the pages before it begin the order again.
LEMMA NextPage ==
    ASSUME NEW S, NEW o \in Seq(S), NEW n \in 0 .. Len(o), NEW m \in Nat,
           NEW k \in {n + m, Len(o)}, k <= n + m, k <= Len(o)
    PROVE  /\ k \in 0 .. Len(o)
           /\ SubSeq(o, 1, n) \o SubSeq(o, n + 1, k) = SubSeq(o, 1, k)
           /\ Len(SubSeq(o, 1, k)) = k
<1>1. n \in Nat /\ Len(o) \in Nat /\ n <= Len(o)
  OBVIOUS
<1>2. k \in Nat /\ n <= k /\ k <= Len(o)
  BY <1>1
<1>3. SubSeq(o, 1, n) \o SubSeq(o, n + 1, k) = SubSeq(o, 1, k)
  <2>1. 1 \in 1 .. Len(o) + 1 /\ n \in 1 - 1 .. Len(o) /\ k \in n .. Len(o)
    BY <1>1, <1>2
  <2> QED
    BY <2>1, ConcatAdjacentSubSeq
<1>4. Len(SubSeq(o, 1, k)) = k
  BY <1>1, <1>2
<1> QED
  BY <1>2, <1>3, <1>4

LEMMA ListStart == Lists!Init => ListInv
BY DEF Lists!Init, ListInv

LEMMA ListStep == ASSUME Numbered, ListInv, [Lists!Next]_(Lists!vars) PROVE ListInv'
<1>1. list' = list /\ read' = read /\ query' = query
  BY DEF Lists!Next, Lists!Read, Lists!vars
<1>2. Lists!Matching' = Lists!Matching
  BY <1>1 DEF Lists!Matching, Lists!Matches, Lists!Mine, Lists!Fits
<1>3. Lists!Orders' = Lists!Orders
  BY <1>1, <1>2 DEF Lists!Orders, Lists!Before
<1>4. CASE UNCHANGED Lists!vars
  BY <1>1, <1>2, <1>3, <1>4 DEF ListInv, Begins, Lists!vars
<1>5. CASE Lists!Read
  <2> DEFINE n == Len(answered)
  <2>1. PICK o \in Lists!Orders :
            answered' = answered \o SubSeq(o, n + 1, Lists!Min({n + Limit, Len(o)}))
    BY <1>5 DEF Lists!Read
  <2>2. total' = Lists!Cardinality(Lists!Matching)
    BY <1>5 DEF Lists!Read
  <2>3. ASSUME list.lastById PROVE Begins(o)'
    <3>1. o \in Seq(Lists!Matching) /\ Len(o) \in Nat
      BY OrderFits
    <3>2. n \in 0 .. Len(o) /\ answered = SubSeq(o, 1, n)
      <4>1. CASE answered = <<>>
        BY <3>1, <4>1
      <4>2. CASE \E p \in Lists!Orders : Begins(p)
        BY <2>3, <4>2, OneListOrder DEF Begins
      <4> QED
        BY <2>3, <4>1, <4>2 DEF ListInv
    <3>3. PICK k : k = Lists!Min({n + Limit, Len(o)})
      OBVIOUS
    <3>4. k \in 0 .. Len(o) /\ SubSeq(o, 1, n) \o SubSeq(o, n + 1, k) = SubSeq(o, 1, k)
          /\ Len(SubSeq(o, 1, k)) = k
      <4>1. n \in Nat /\ n + Limit \in Nat
        BY <3>1, <3>2 DEF Numbered
      <4>2. k \in {n + Limit, Len(o)} /\ k <= n + Limit /\ k <= Len(o)
        BY <3>1, <3>3, <4>1 DEF Lists!Min
      <4> QED
        BY <3>1, <3>2, <4>2, NextPage DEF Numbered
    <3>5. answered' = SubSeq(o, 1, k)
      BY <2>1, <3>2, <3>3, <3>4
    <3> QED
      BY <3>4, <3>5 DEF Begins
  <2> QED
    BY <1>1, <1>2, <1>3, <2>2, <2>3 DEF ListInv
<1> QED
  BY <1>4, <1>5 DEF Lists!Next

\* However many rows are equal in what the list is sorted by, no page repeats a
\* row of another and none is skipped.
THEOREM PagesTogether == ASSUME Numbered PROVE Lists!Spec => []PagesPartition
<1>1. ListInv => PagesPartition
  <2> SUFFICES ASSUME ListInv, Lists!Complete, list.lastById
               PROVE  /\ Lists!ToSet(answered) = Lists!Matching
                      /\ Len(answered) = Lists!Cardinality(Lists!Matching) /\ total = Len(answered)
    BY DEF PagesPartition, Lists!PagesPartition
  <2> DEFINE S == Lists!Matching
  <2>1. total = Lists!Cardinality(S) /\ Len(answered) >= total
    BY DEF ListInv, Lists!Complete
  <2>2. Lists!Cardinality(S) \in Nat /\ (Lists!Cardinality(S) = 0 => S = {})
    BY MatchingFinite, SameSize, FS_CardinalityType, FS_EmptySet
  <2>3. CASE answered = <<>>
    BY <2>1, <2>2, <2>3 DEF Lists!ToSet
  <2>4. ASSUME NEW o \in Lists!Orders, Begins(o)
        PROVE  answered = o /\ Len(o) = Lists!Cardinality(S)
    <3>1. o \in Seq(S) /\ Len(o) \in Nat /\ Len(o) = Lists!Cardinality(S)
      BY OrderFits
    <3>2. Len(answered) = Len(o) /\ answered = SubSeq(o, 1, Len(o))
      BY <2>1, <2>4, <3>1 DEF Begins
    <3>3. SubSeq(o, 1, Len(o)) = o
      BY <3>1
    <3> QED
      BY <3>1, <3>2, <3>3
  <2>5. ASSUME NEW o \in Lists!Orders, Begins(o)
        PROVE  Lists!ToSet(answered) = S /\ Len(answered) = Lists!Cardinality(S)
    <3>1. answered = o /\ o \in Seq(S) /\ Len(o) = Lists!Cardinality(S)
      BY <2>4, <2>5, OrderFits
    <3>2. \A r \in S : \E i \in 1 .. Len(o) : o[i] = r
      BY OrderFits
    <3> HIDE DEF S
    <3>3. \A i \in DOMAIN o : o[i] \in S
      BY <3>1
    <3>4. DOMAIN o = 1 .. Len(o)
      BY <3>1
    <3> QED
      BY <3>1, <3>2, <3>3, <3>4 DEF Lists!ToSet
  <2> QED
    BY <2>1, <2>2, <2>3, <2>5 DEF ListInv
<1> QED
  BY <1>1, ListStart, ListStep, PTL DEF Lists!Spec

(***************************************************************************)
(* Migrations                                                              *)
(***************************************************************************)

LEMMA TwentyOne == Tables!Latest = 21
  BY DEF Tables!Latest, Tables!Ups

\* The states of a chain of upgrades.
Chain(a, from, n, db) ==
    a = [v \in from .. n |-> IF v = from THEN db ELSE Tables!Step(a[v - 1], Tables!Ups[v])]

LEMMA ChainExists ==
    ASSUME NEW from \in Nat, NEW db, NEW m \in Nat
    PROVE  \E a : Chain(a, from, from + m, db)
<1> DEFINE Bad == {k \in Nat : \A a : ~Chain(a, from, from + k, db)}
<1> SUFFICES ASSUME Bad # {} PROVE FALSE
  OBVIOUS
<1>1. PICK k \in Bad : \A d \in Bad : k <= d
  BY LeastNumber
<1>2. CASE k = 0
  <2> DEFINE a == [v \in from .. from |-> db]
  <2>1. \A v \in from .. from : v = from
    OBVIOUS
  <2>2. a = [v \in from .. from |-> IF v = from THEN db ELSE Tables!Step(a[v - 1], Tables!Ups[v])]
    BY <2>1, Zenon
  <2>3. Chain(a, from, from + 0, db)
    BY <2>2 DEF Chain
  <2> QED
    BY <1>1, <1>2, <2>3
<1>3. CASE k # 0
  <2>1. k \in Nat /\ k - 1 \in Nat /\ k - 1 \notin Bad
    BY <1>1, <1>3
  <2>2. PICK b : Chain(b, from, from + (k - 1), db)
    BY <2>1
  <2> DEFINE n == from + k
             a == [v \in from .. n |-> IF v = n THEN Tables!Step(b[n - 1], Tables!Ups[n]) ELSE b[v]]
  <2>3. n \in Nat /\ from < n /\ from + (k - 1) = n - 1
    BY <2>1, <1>3
  <2> HIDE DEF n
  <2>4. b = [v \in from .. n - 1 |->
                IF v = from THEN db ELSE Tables!Step(b[v - 1], Tables!Ups[v])]
    BY <2>2, <2>3 DEF Chain
  <2>5. ASSUME NEW v \in from .. n
        PROVE  a[v] = IF v = from THEN db ELSE Tables!Step(a[v - 1], Tables!Ups[v])
    <3>1. CASE v = from
      <4>1. v # n /\ v \in from .. n - 1
        BY <2>3, <3>1
      <4> QED
        BY <2>4, <3>1, <4>1
    <3>2. CASE v # from /\ v # n
      <4>1. v \in from .. n - 1 /\ v - 1 \in from .. n /\ v - 1 # n
        BY <2>3, <3>2
      <4>2. a[v] = b[v] /\ a[v - 1] = b[v - 1]
        BY <3>2, <4>1
      <4> HIDE DEF a
      <4> QED
        BY <2>4, <3>2, <4>1, <4>2
    <3>3. CASE v # from /\ v = n
      <4>1. v - 1 \in from .. n /\ v - 1 # n
        BY <2>3, <3>3
      <4>2. a[v] = Tables!Step(b[n - 1], Tables!Ups[n]) /\ a[v - 1] = b[v - 1]
        BY <3>3, <4>1
      <4> HIDE DEF a
      <4> QED
        BY <3>3, <4>2
    <3> QED
      BY <3>1, <3>2, <3>3
  <2>6. a = [v \in from .. n |-> a[v]]
    OBVIOUS
  <2> HIDE DEF a
  <2>7. Chain(a, from, n, db)
    BY <2>5, <2>6 DEF Chain
  <2> QED
    BY <1>1, <2>7 DEF n
<1> QED
  BY <1>2, <1>3

LEMMA UpToChain ==
    ASSUME NEW from \in Nat, NEW to \in Nat, from <= to, NEW db
    PROVE  \E a : Chain(a, from, to, db) /\ Tables!UpTo(from, db, to) = a[to]
<1> DEFINE run == CHOOSE a : Chain(a, from, to, db)
<1>1. to - from \in Nat /\ from + (to - from) = to
  OBVIOUS
<1>2. \E a : Chain(a, from, to, db)
  BY <1>1, ChainExists
<1>3. Chain(run, from, to, db)
  BY <1>2
<1>4. Tables!UpTo(from, db, to) = run[to]
  BY DEF Tables!UpTo, Chain
<1> QED
  BY <1>3, <1>4

\* A state of a chain.
Db == {"schema", "data", "ok"}

LEMMA OneStep ==
    ASSUME NEW db, NEW e, DOMAIN db = Db, db = [x \in Db |-> db[x]], db.ok \in BOOLEAN
    PROVE  LET r == Tables!Step(db, e)
               fits == /\ Tables!Applicable(db.schema, e)
                       /\ Tables!Lawful(Tables!Edited(db.schema, e), Tables!Carried(db.data, e))
           IN  /\ DOMAIN r = Db /\ r = [x \in Db |-> r[x]] /\ r.ok \in BOOLEAN
               /\ r.ok <=> db.ok /\ fits
               /\ r.ok => /\ r.schema = Tables!Edited(db.schema, e)
                          /\ r.data = Tables!Carried(db.data, e)
<1> DEFINE r == Tables!Step(db, e)
           s == Tables!Edited(db.schema, e)
           d == Tables!Carried(db.data, e)
           fits == Tables!Applicable(db.schema, e) /\ Tables!Lawful(s, d)
<1>1. CASE db.ok /\ fits
  <2>1. r = [schema |-> s, data |-> d, ok |-> TRUE]
    BY <1>1 DEF Tables!Step
  <2> HIDE DEF s, d, fits, r
  <2>2. DOMAIN r = Db /\ r = [x \in Db |-> r[x]] /\ r.ok = TRUE /\ r.schema = s /\ r.data = d
    BY <2>1 DEF Db
  <2> QED
    BY <1>1, <2>2 DEF r, s, d, fits
<1>2. CASE ~(db.ok /\ fits)
  <2>1. r = [db EXCEPT !.ok = FALSE]
    BY <1>2 DEF Tables!Step
  <2> HIDE DEF s, d, fits, r
  <2>2. DOMAIN r = Db /\ r = [x \in Db |-> r[x]] /\ r.ok = FALSE
    BY <2>1 DEF Db
  <2> QED
    BY <1>2, <2>2 DEF r, s, d, fits
<1> QED
  BY <1>1, <1>2

\* The facts that TLC has found about the revisions.
LEMMA Revised ==
    ASSUME NEW v \in 1 .. 21
    PROVE  LET at == Tables!SchemaAt
           IN  /\ Tables!Edited(at[v - 1], Tables!Ups[v]) = at[v]
               /\ Tables!Applicable(at[v - 1], Tables!Ups[v])
               /\ Tables!Edited(at[v], Tables!Downs[v]) = at[v - 1]
               /\ Tables!Applicable(at[v], Tables!Downs[v])
  BY RevisionsFit, TwentyOne DEF Tables!VersionsFit

\* A chain that starts with the schema of a version has those of the next ones.
LEMMA ChainSchema ==
    ASSUME NEW from \in Nat, NEW to \in 0 .. 21, from <= to, NEW db,
           DOMAIN db = Db, db = [x \in Db |-> db[x]], db.ok \in BOOLEAN,
           db.schema = Tables!SchemaAt[from], NEW a, Chain(a, from, to, db)
    PROVE  \A v \in from .. to :
               /\ DOMAIN a[v] = Db /\ a[v] = [x \in Db |-> a[v][x]] /\ a[v].ok \in BOOLEAN
               /\ a[v].ok => a[v].schema = Tables!SchemaAt[v]
<1> DEFINE Fine(v) == /\ DOMAIN a[v] = Db /\ a[v] = [x \in Db |-> a[v][x]]
                      /\ a[v].ok \in BOOLEAN
                      /\ a[v].ok => a[v].schema = Tables!SchemaAt[v]
           Bad == {v \in from .. to : ~Fine(v)}
<1> SUFFICES ASSUME Bad # {} PROVE FALSE
  OBVIOUS
<1>1. PICK v \in Bad : \A d \in Bad : v <= d
  <2>1. Bad \in SUBSET Nat
    OBVIOUS
  <2> HIDE DEF Bad
  <2> QED
    BY <2>1, LeastNumber
<1>2. v \in from .. to /\ ~Fine(v)
  BY <1>1
<1>3. a[v] = IF v = from THEN db ELSE Tables!Step(a[v - 1], Tables!Ups[v])
  BY <1>2 DEF Chain
<1>4. v # from
  BY <1>2, <1>3
<1>5. v \in 1 .. 21 /\ v - 1 \in from .. to /\ v - 1 \notin Bad
  <2>1. v \in 1 .. 21 /\ v - 1 \in from .. to /\ ~(v <= v - 1)
    BY <1>2, <1>4
  <2> QED
    BY <1>1, <2>1
<1>6. Fine(v - 1)
  BY <1>5
<1>7. a[v] = Tables!Step(a[v - 1], Tables!Ups[v])
  BY <1>3, <1>4
<1> DEFINE b == a[v - 1]
           r == a[v]
<1>8. /\ DOMAIN r = Db /\ r = [x \in Db |-> r[x]] /\ r.ok \in BOOLEAN
      /\ r.ok => b.ok /\ r.schema = Tables!Edited(b.schema, Tables!Ups[v])
  BY <1>6, <1>7, OneStep
<1>9. r.ok => r.schema = Tables!SchemaAt[v]
  BY <1>5, <1>6, <1>8, Revised
<1> QED
  BY <1>2, <1>8, <1>9

LEMMA CurrentIsDb ==
    LET db == Tables!Current
    IN  /\ DOMAIN db = Db /\ db = [x \in Db |-> db[x]]
        /\ db.ok = TRUE /\ db.schema = schema /\ db.data = data
  BY DEF Tables!Current, Db

\* A version and its schema.
AtVersion == version \in 0 .. 21 /\ schema = Tables!SchemaAt[version]

LEMMA SchemaInit == Tables!Init => AtVersion
  BY RevisionsFit DEF Tables!Init, AtVersion, Tables!VersionsFit

LEMMA SchemaStep == AtVersion /\ [Tables!Next]_schemaVars => AtVersion'
<1> SUFFICES ASSUME AtVersion, [Tables!Next]_schemaVars
             PROVE  AtVersion'
  OBVIOUS
<1>1. CASE UNCHANGED <<version, schema>>
  BY <1>1 DEF AtVersion
<1>2. ASSUME NEW to \in {version + 1, Tables!Latest}, to <= Tables!Latest, Tables!Upgrade(to)
      PROVE  AtVersion'
  <2> DEFINE db == Tables!UpTo(version, Tables!Current, to)
  <2>1. version \in Nat /\ to \in 0 .. 21 /\ version <= to
    BY <1>2, TwentyOne DEF AtVersion, Tables!Upgrade
  <2>2. PICK a : Chain(a, version, to, Tables!Current) /\ db = a[to]
    BY <2>1, UpToChain
  <2>3. db.ok => db.schema = Tables!SchemaAt[to]
    <3> DEFINE c == Tables!Current
    <3>1. /\ DOMAIN c = Db /\ c = [x \in Db |-> c[x]] /\ c.ok \in BOOLEAN
          /\ c.schema = Tables!SchemaAt[version]
      BY CurrentIsDb DEF AtVersion
    <3>2. Chain(a, version, to, c) /\ to \in version .. to
      BY <2>1, <2>2
    <3> HIDE DEF c
    <3>3. a[to].ok => a[to].schema = Tables!SchemaAt[to]
      BY <2>1, <3>1, <3>2, ChainSchema
    <3> QED
      BY <2>2, <3>3
  <2>4. CASE db.ok
    BY <1>2, <2>1, <2>3, <2>4 DEF Tables!Upgrade, Tables!Transaction, AtVersion
  <2>5. CASE ~db.ok
    BY <1>1, <1>2, <2>5 DEF Tables!Upgrade, Tables!Transaction
  <2> QED
    BY <2>4, <2>5
<1>3. CASE Tables!Downgrade
  <2> DEFINE db == Tables!Step(Tables!Current, Tables!Downs[version])
  <2>1. version \in 1 .. 21
    BY <1>3 DEF Tables!Downgrade, AtVersion
  <2>2. db.ok => db.schema = Tables!Edited(schema, Tables!Downs[version])
    <3> DEFINE c == Tables!Current
    <3>1. /\ DOMAIN c = Db /\ c = [x \in Db |-> c[x]] /\ c.ok \in BOOLEAN /\ c.schema = schema
      BY CurrentIsDb
    <3> HIDE DEF c
    <3>2. LET r == Tables!Step(c, Tables!Downs[version])
          IN  r.ok => r.schema = Tables!Edited(c.schema, Tables!Downs[version])
      BY <3>1, OneStep
    <3> QED
      BY <3>1, <3>2 DEF c
  <2>3. db.ok => db.schema = Tables!SchemaAt[version - 1]
    BY <2>1, <2>2, Revised DEF AtVersion
  <2>4. CASE db.ok
    BY <1>3, <2>1, <2>3, <2>4 DEF Tables!Downgrade, Tables!Transaction, AtVersion
  <2>5. CASE ~db.ok
    BY <1>1, <1>3, <2>5 DEF Tables!Downgrade, Tables!Transaction
  <2> QED
    BY <2>4, <2>5
<1>4. CASE Tables!StoreRow \/ Tables!StoreNull \/ Tables!StoreEqual
  BY <1>1, <1>4 DEF Tables!StoreRow, Tables!StoreNull, Tables!StoreEqual, Tables!Store
<1>5. CASE UNCHANGED schemaVars
  BY <1>1, <1>5 DEF schemaVars
<1> QED
  BY <1>2, <1>3, <1>4, <1>5 DEF Tables!Next

\* Other parts of the run leave the migrations alone.
LEMMA CatalogueKeepsSchema ==
    ASSUME [MCNext]_allVars
    PROVE  which' = which /\ [Tables!Next]_schemaVars
  BY DEF MCNext, allVars, schemaVars

\* However a version is reached, by upgrades one at a time or all at once, by
\* failed ones and by downgrades, its schema is the same, whatever and however
\* much the releases store meanwhile.
THEOREM SchemaStays == MCSpec => []SchemaIsOfVersion
<1>1. MCInit => AtVersion
  BY SchemaInit DEF MCInit
<1>2. AtVersion /\ [MCNext]_allVars => AtVersion'
  BY SchemaStep, CatalogueKeepsSchema
<1>3. AtVersion => SchemaIsOfVersion
  BY RevisionsFit, TwentyOne DEF AtVersion, SchemaIsOfVersion, Tables!SchemaIsOfVersion, Tables!VersionsFit
<1> QED
  BY <1>1, <1>2, <1>3, PTL DEF MCSpec

\* What becomes of stored data becomes of one of its facts.
LEMMA CarriedByFact ==
    ASSUME NEW d, NEW e, \A c \in d.nulls : c[1] \in d.rows
    PROVE  /\ \A t \in Tables!Carried(d, e).rows :
                t \in d.rows /\ t \in Tables!Carried(Tables!OneRow(t), e).rows
           /\ \A c \in Tables!Carried(d, e).nulls :
                /\ c[1] \in Tables!Carried(d, e).rows
                /\ \/ \E t \in d.rows : c \in Tables!Carried(Tables!OneRow(t), e).nulls
                   \/ c \in d.nulls /\ c \in Tables!Carried(Tables!OneNull(c), e).nulls
           /\ \A x \in Tables!Carried(d, e).dups :
                \E y \in d.dups : x \in Tables!Carried(Tables!OneEqual(y), e).dups
<1> DEFINE r == Tables!Carried(d, e)
<1>1. \A t \in r.rows : t \in d.rows /\ t \in Tables!Carried(Tables!OneRow(t), e).rows
  BY DEF Tables!Carried, Tables!OneRow, Tables!NoRows
<1>2. ASSUME NEW c \in r.nulls
      PROVE  /\ c[1] \in r.rows
             /\ \/ \E t \in d.rows : c \in Tables!Carried(Tables!OneRow(t), e).nulls
                \/ c \in d.nulls /\ c \in Tables!Carried(Tables!OneNull(c), e).nulls
  <2>1. /\ c[1] \notin e.tables /\ c \notin e.drop.cols /\ c \notin e.fill
        /\ c \in d.nulls \/ (c \in e.add.cols /\ c[1] \in d.rows)
    BY <1>2 DEF Tables!Carried
  <2>2. c[1] \in r.rows
    BY <2>1 DEF Tables!Carried
  <2>3. CASE c \in d.nulls
    <3>1. c \in Tables!Carried(Tables!OneNull(c), e).nulls
      BY <2>1 DEF Tables!Carried, Tables!OneNull, Tables!NoRows
    <3> QED
      BY <2>2, <2>3, <3>1
  <2>4. CASE c \in e.add.cols /\ c[1] \in d.rows
    <3>1. c \in Tables!Carried(Tables!OneRow(c[1]), e).nulls
      BY <2>1, <2>4 DEF Tables!Carried, Tables!OneRow, Tables!NoRows
    <3> QED
      BY <2>2, <2>4, <3>1
  <2> QED
    BY <2>1, <2>3, <2>4
<1>3. ASSUME NEW x \in r.dups
      PROVE  \E y \in d.dups : x \in Tables!Carried(Tables!OneEqual(y), e).dups
  <2> DEFINE merged == {z[1] : z \in {c \in e.drop.cols : c[2] = "equestrian_id"}}
             moved(y) == IF y[1] \in merged /\ y[3] = "across" THEN <<y[1], y[2], "same">> ELSE y
             stays(z) == /\ z[1] \notin e.tables /\ <<z[1], z[2]>> \notin e.drop.cols
                         /\ z[3] = "same" => <<z[1], z[2]>> \notin e.renames
  <2>1. r.dups = {z \in {moved(y) : y \in d.dups} : stays(z)}
    BY Zenon DEF Tables!Carried
  <2>2. \A y : Tables!Carried(Tables!OneEqual(y), e).dups = {z \in {moved(w) : w \in {y}} : stays(z)}
    BY Zenon DEF Tables!Carried, Tables!OneEqual, Tables!NoRows
  <2> HIDE DEF moved, stays
  <2> QED
    BY <1>3, <2>1, <2>2
<1> QED
  BY <1>1, <1>2, <1>3

\* The facts of data that a schema holds.
LEMMA FactsOf ==
    ASSUME NEW s, NEW d, Tables!Held(s, d), NEW v
    PROVE  /\ \A t \in d.rows : LET f == Tables!OneRow(t) IN
                /\ f \in Tables!Facts(s) /\ Tables!Held(s, f)
                /\ Tables!NoWay(v, f) => Tables!NoWay(v, d)
                /\ Tables!NoWayBack(v, f) => Tables!NoWayBack(v, d)
           /\ \A c \in d.nulls : LET f == Tables!OneNull(c) IN
                /\ f \in Tables!Facts(s) /\ Tables!Held(s, f)
                /\ Tables!NoWay(v, f) => Tables!NoWay(v, d)
                /\ Tables!NoWayBack(v, f) => Tables!NoWayBack(v, d)
           /\ \A x \in d.dups : LET f == Tables!OneEqual(x) IN
                /\ f \in Tables!Facts(s) /\ Tables!Held(s, f)
                /\ Tables!NoWay(v, f) => Tables!NoWay(v, d)
                /\ Tables!NoWayBack(v, f) => Tables!NoWayBack(v, d)
<1> DEFINE Part(f) == /\ f.rows \subseteq d.rows /\ f.nulls \subseteq d.nulls /\ f.dups \subseteq d.dups
                      /\ \A c \in f.nulls : c[1] \in f.rows
<1>1. ASSUME NEW f, Part(f)
      PROVE  /\ Tables!Held(s, f)
             /\ Tables!NoWay(v, f) => Tables!NoWay(v, d)
             /\ Tables!NoWayBack(v, f) => Tables!NoWayBack(v, d)
  <2>1. Tables!Held(s, f)
    BY <1>1 DEF Tables!Held, Tables!Placed, Tables!Lawful
  <2>2. Tables!NoWay(v, f) => Tables!NoWay(v, d)
    BY <1>1 DEF Tables!NoWay
  <2>3. Tables!NoWayBack(v, f) => Tables!NoWayBack(v, d)
    BY <1>1 DEF Tables!NoWayBack
  <2> QED
    BY <2>1, <2>2, <2>3
<1>2. ASSUME NEW t \in d.rows
      PROVE  Tables!OneRow(t) \in Tables!Facts(s) /\ Part(Tables!OneRow(t))
  BY <1>2 DEF Tables!OneRow, Tables!NoRows, Tables!Facts, Tables!Held, Tables!Placed
<1>3. ASSUME NEW c \in d.nulls
      PROVE  Tables!OneNull(c) \in Tables!Facts(s) /\ Part(Tables!OneNull(c))
  BY <1>3 DEF Tables!OneNull, Tables!NoRows, Tables!Facts, Tables!Held, Tables!Placed,
              Tables!Lawful
<1>4. ASSUME NEW x \in d.dups
      PROVE  Tables!OneEqual(x) \in Tables!Facts(s) /\ Part(Tables!OneEqual(x))
  BY <1>4 DEF Tables!OneEqual, Tables!NoRows, Tables!Facts, Tables!Held, Tables!Placed
<1> HIDE DEF Part
<1> QED
  BY <1>1, <1>2, <1>3, <1>4

\* A schema has room for data after an edit if it has it for each fact.
LEMMA PlacedByFact ==
    ASSUME NEW s, NEW d, NEW e, \A c \in d.nulls : c[1] \in d.rows,
           \A t \in d.rows : Tables!Placed(s, Tables!Carried(Tables!OneRow(t), e)),
           \A x \in d.dups : Tables!Placed(s, Tables!Carried(Tables!OneEqual(x), e))
    PROVE  Tables!Placed(s, Tables!Carried(d, e))
<1> DEFINE r == Tables!Carried(d, e)
<1>1. \A t \in r.rows : t \in Tables!TablesOf(s)
  BY CarriedByFact DEF Tables!Placed
<1>2. \A c \in r.nulls : c[1] \in r.rows
  BY CarriedByFact
<1>3. \A x \in r.dups : x \in Tables!Equals(s)
  BY CarriedByFact DEF Tables!Placed
<1> HIDE DEF r
<1>4. Tables!Placed(s, r)
  BY <1>1, <1>2, <1>3 DEF Tables!Placed
<1> QED
  BY <1>4 DEF r

\* Data is lawful after an edit if each of its facts is.
LEMMA LawfulByFact ==
    ASSUME NEW s, NEW d, NEW e, \A c \in d.nulls : c[1] \in d.rows,
           \A t \in d.rows : Tables!Lawful(s, Tables!Carried(Tables!OneRow(t), e)),
           \A c \in d.nulls : Tables!Lawful(s, Tables!Carried(Tables!OneNull(c), e)),
           \A x \in d.dups : Tables!Lawful(s, Tables!Carried(Tables!OneEqual(x), e))
    PROVE  Tables!Lawful(s, Tables!Carried(d, e))
<1> DEFINE r == Tables!Carried(d, e)
<1>1. \A c \in r.nulls : c \in s.nullable
  BY CarriedByFact DEF Tables!Lawful
<1>2. \A x \in r.dups : /\ <<x[1], {x[2]}>> \notin s.unique
                        /\ x[3] # "across" => <<x[1], Tables!PerTenant(x[2])>> \notin s.unique
  BY CarriedByFact DEF Tables!Lawful
<1> HIDE DEF r
<1>3. Tables!Lawful(s, r)
  BY <1>1, <1>2 DEF Tables!Lawful
<1> QED
  BY <1>3 DEF r

\* Data can go on after an edit if each of its facts can.
LEMMA WayByFact ==
    ASSUME NEW v, NEW d, NEW e, \A c \in d.nulls : c[1] \in d.rows,
           \A t \in d.rows : ~Tables!NoWay(v, Tables!Carried(Tables!OneRow(t), e)),
           \A c \in d.nulls : ~Tables!NoWay(v, Tables!Carried(Tables!OneNull(c), e)),
           \A x \in d.dups : ~Tables!NoWay(v, Tables!Carried(Tables!OneEqual(x), e))
    PROVE  ~Tables!NoWay(v, Tables!Carried(d, e))
<1> DEFINE r == Tables!Carried(d, e)
<1>1. v < 2 => r.rows \cap {"breeds", "coat_color", "horse_service"} = {}
  BY CarriedByFact DEF Tables!NoWay
<1>2. v < 2 => <<"prices", "page_data">> \notin r.nulls
  BY CarriedByFact DEF Tables!NoWay
<1>3. v < 3 => r.dups \cap ({"breeds", "coat_color", "horse_service"} \X {"name"} \X {"same"}) = {}
  BY CarriedByFact DEF Tables!NoWay
<1>4. <<"photos", "name", "long">> \notin r.dups
  BY CarriedByFact DEF Tables!NoWay
<1> HIDE DEF r
<1>5. ~Tables!NoWay(v, r)
  BY <1>1, <1>2, <1>3, <1>4 DEF Tables!NoWay
<1> QED
  BY <1>5 DEF r

\* Data that a version holds passes the next revision, and the one before.
LEMMA DataMoves ==
    ASSUME NEW v \in 1 .. 21, NEW d
    PROVE  LET at == Tables!SchemaAt
               up == Tables!Carried(d, Tables!Ups[v])
               down == Tables!Carried(d, Tables!Downs[v])
           IN  /\ Tables!Held(at[v - 1], d) =>
                    /\ Tables!Placed(at[v], up)
                    /\ ~Tables!NoWay(v - 1, d) => Tables!Lawful(at[v], up) /\ ~Tables!NoWay(v, up)
               /\ Tables!Held(at[v], d) =>
                    /\ Tables!Placed(at[v - 1], down)
                    /\ ~Tables!NoWayBack(v, d) => Tables!Lawful(at[v - 1], down)
<1> DEFINE at == Tables!SchemaAt
           Up(f) == Tables!Carried(f, Tables!Ups[v])
           Down(f) == Tables!Carried(f, Tables!Downs[v])
           Goes(f) == Tables!Lawful(at[v], Up(f)) /\ ~Tables!NoWay(v, Up(f))
<1>1. /\ \A f \in Tables!Facts(at[v - 1]) :
            Tables!Held(at[v - 1], f) =>
                /\ Tables!Placed(at[v], Up(f))
                /\ ~Tables!NoWay(v - 1, f) => Goes(f)
      /\ \A f \in Tables!Facts(at[v]) :
            Tables!Held(at[v], f) =>
                /\ Tables!Placed(at[v - 1], Down(f))
                /\ ~Tables!NoWayBack(v, f) => Tables!Lawful(at[v - 1], Down(f))
  BY RevisionsFit, TwentyOne DEF Tables!FactsFit
<1> HIDE DEF at
<1>2. ASSUME Tables!Held(at[v - 1], d)
      PROVE  /\ Tables!Placed(at[v], Up(d))
             /\ ~Tables!NoWay(v - 1, d) => Goes(d)
  <2>1. \A c \in d.nulls : c[1] \in d.rows
    BY <1>2 DEF Tables!Held, Tables!Placed
  <2>2. /\ \A t \in d.rows : Tables!Placed(at[v], Up(Tables!OneRow(t)))
        /\ \A x \in d.dups : Tables!Placed(at[v], Up(Tables!OneEqual(x)))
    BY <1>1, <1>2, FactsOf
  <2>3. ASSUME ~Tables!NoWay(v - 1, d)
        PROVE  /\ \A t \in d.rows : Goes(Tables!OneRow(t))
               /\ \A c \in d.nulls : Goes(Tables!OneNull(c))
               /\ \A x \in d.dups : Goes(Tables!OneEqual(x))
    BY <1>1, <1>2, <2>3, FactsOf
  <2> QED
    BY <2>1, <2>2, <2>3, PlacedByFact, LawfulByFact, WayByFact
<1>3. ASSUME Tables!Held(at[v], d)
      PROVE  /\ Tables!Placed(at[v - 1], Down(d))
             /\ ~Tables!NoWayBack(v, d) => Tables!Lawful(at[v - 1], Down(d))
  <2>1. \A c \in d.nulls : c[1] \in d.rows
    BY <1>3 DEF Tables!Held, Tables!Placed
  <2>2. /\ \A t \in d.rows : Tables!Placed(at[v - 1], Down(Tables!OneRow(t)))
        /\ \A x \in d.dups : Tables!Placed(at[v - 1], Down(Tables!OneEqual(x)))
    BY <1>1, <1>3, FactsOf
  <2>3. ASSUME ~Tables!NoWayBack(v, d)
        PROVE  /\ \A t \in d.rows : Tables!Lawful(at[v - 1], Down(Tables!OneRow(t)))
               /\ \A c \in d.nulls : Tables!Lawful(at[v - 1], Down(Tables!OneNull(c)))
               /\ \A x \in d.dups : Tables!Lawful(at[v - 1], Down(Tables!OneEqual(x)))
    BY <1>1, <1>3, <2>3, FactsOf
  <2> QED
    BY <2>1, <2>2, <2>3, PlacedByFact, LawfulByFact
<1> QED
  BY <1>2, <1>3 DEF at

\* Along a chain of upgrades data is placed, and comes to the end if it can.
LEMMA ChainData ==
    ASSUME NEW from \in Nat, NEW to \in 0 .. 21, from <= to, NEW db,
           DOMAIN db = Db, db = [x \in Db |-> db[x]], db.ok = TRUE,
           db.schema = Tables!SchemaAt[from], Tables!Held(Tables!SchemaAt[from], db.data),
           NEW a, Chain(a, from, to, db)
    PROVE  \A v \in from .. to :
               /\ a[v].ok => Tables!Held(Tables!SchemaAt[v], a[v].data)
               /\ a[v].ok => v = from \/ \E d : a[v].data = Tables!Carried(d, Tables!Ups[v])
               /\ ~Tables!NoWay(from, db.data) => a[v].ok /\ ~Tables!NoWay(v, a[v].data)
<1> DEFINE at == Tables!SchemaAt
           Fine(v) == /\ a[v].ok => Tables!Held(at[v], a[v].data)
                      /\ a[v].ok => v = from \/ \E d : a[v].data = Tables!Carried(d, Tables!Ups[v])
                      /\ ~Tables!NoWay(from, db.data) => a[v].ok /\ ~Tables!NoWay(v, a[v].data)
           Bad == {v \in from .. to : ~Fine(v)}
<1> SUFFICES ASSUME Bad # {} PROVE FALSE
  OBVIOUS
<1>1. PICK v \in Bad : \A d \in Bad : v <= d
  <2>1. Bad \in SUBSET Nat
    OBVIOUS
  <2> HIDE DEF Bad
  <2> QED
    BY <2>1, LeastNumber
<1>2. v \in from .. to /\ ~Fine(v)
  BY <1>1
<1>3. a[v] = IF v = from THEN db ELSE Tables!Step(a[v - 1], Tables!Ups[v])
  BY <1>2 DEF Chain
<1>4. v # from
  BY <1>2, <1>3
<1>5. v \in 1 .. 21 /\ v - 1 \in from .. to /\ v - 1 \notin Bad
  <2>1. v \in 1 .. 21 /\ v - 1 \in from .. to /\ ~(v <= v - 1)
    BY <1>2, <1>4
  <2> QED
    BY <1>1, <2>1
<1>6. Fine(v - 1)
  BY <1>5
<1>7. a[v] = Tables!Step(a[v - 1], Tables!Ups[v])
  BY <1>3, <1>4
<1> DEFINE b == a[v - 1]
           r == a[v]
           e == Tables!Ups[v]
<1>8. /\ DOMAIN b = Db /\ b = [x \in Db |-> b[x]] /\ b.ok \in BOOLEAN
      /\ b.ok => b.schema = at[v - 1]
  BY <1>5, ChainSchema
<1>9. /\ r.ok <=> /\ b.ok /\ Tables!Applicable(b.schema, e)
                  /\ Tables!Lawful(Tables!Edited(b.schema, e), Tables!Carried(b.data, e))
      /\ r.ok => r.data = Tables!Carried(b.data, e)
  BY <1>7, <1>8, OneStep
<1>10. Tables!Edited(at[v - 1], e) = at[v] /\ Tables!Applicable(at[v - 1], e)
  BY <1>5, Revised
<1>11. b.ok => Tables!Held(at[v - 1], b.data)
  BY <1>6
<1>12. /\ Tables!Held(at[v - 1], b.data) =>
            /\ Tables!Placed(at[v], Tables!Carried(b.data, e))
            /\ ~Tables!NoWay(v - 1, b.data) =>
                 /\ Tables!Lawful(at[v], Tables!Carried(b.data, e))
                 /\ ~Tables!NoWay(v, Tables!Carried(b.data, e))
  BY <1>5, DataMoves
<1>13. r.ok => Tables!Held(at[v], r.data)
  BY <1>8, <1>9, <1>10, <1>11, <1>12 DEF Tables!Held
<1>14. ~Tables!NoWay(from, db.data) => b.ok /\ ~Tables!NoWay(v - 1, b.data)
  BY <1>6
<1>15. ~Tables!NoWay(from, db.data) => r.ok /\ ~Tables!NoWay(v, r.data)
  BY <1>8, <1>9, <1>10, <1>11, <1>12, <1>14
<1>16. r.ok => \E d : r.data = Tables!Carried(d, e)
  BY <1>9
<1> HIDE DEF at, b
<1> QED
  BY <1>2, <1>13, <1>15, <1>16 DEF at

\* What is stored fits the version.
DataFits ==
    /\ AtVersion
    /\ DOMAIN data = {"rows", "nulls", "dups"}
    /\ Tables!Held(schema, data)

LEMMA CarriedShape ==
    ASSUME NEW d, NEW e
    PROVE  DOMAIN Tables!Carried(d, e) = {"rows", "nulls", "dups"}
  BY DEF Tables!Carried

LEMMA DataInit == Tables!Init => DataFits
<1> SUFFICES ASSUME Tables!Init PROVE DataFits
  OBVIOUS
<1>1. Tables!Held(schema, data) /\ DOMAIN data = {"rows", "nulls", "dups"}
  BY DEF Tables!Init, Tables!NoRows, Tables!Held, Tables!Placed, Tables!Lawful
<1> QED
  BY <1>1, SchemaInit DEF DataFits

\* A transaction of the migrations leaves data that fits, and fails for a reason.
LEMMA UpgradeData ==
    ASSUME DataFits, NEW to \in {version + 1, Tables!Latest}, to <= Tables!Latest,
           Tables!Upgrade(to), AtVersion'
    PROVE  DataFits' /\ (~last'.ok => last'.cmd = "upgrade" /\ Tables!NoWay(version, data))
<1> DEFINE c == Tables!Current
           db == Tables!UpTo(version, c, to)
<1>1. version \in Nat /\ to \in 0 .. 21 /\ version < to /\ to \in version .. to
  BY TwentyOne DEF DataFits, AtVersion, Tables!Upgrade
<1>2. PICK a : Chain(a, version, to, c) /\ db = a[to]
  BY <1>1, UpToChain
<1>3. /\ DOMAIN c = Db /\ c = [x \in Db |-> c[x]] /\ c.ok = TRUE /\ c.data = data
      /\ c.schema = Tables!SchemaAt[version] /\ Tables!Held(Tables!SchemaAt[version], c.data)
  BY CurrentIsDb DEF DataFits, AtVersion
<1>4. /\ last' = [cmd |-> "upgrade", to |-> to, ok |-> db.ok]
      /\ IF db.ok THEN version' = to /\ schema' = db.schema /\ data' = db.data
                  ELSE UNCHANGED <<version, schema, data>>
  BY DEF Tables!Upgrade, Tables!Transaction
<1> HIDE DEF c, db
<1>5. /\ db.ok => Tables!Held(Tables!SchemaAt[to], db.data)
      /\ db.ok => \E d : db.data = Tables!Carried(d, Tables!Ups[to])
      /\ ~Tables!NoWay(version, data) => db.ok
  <2>1. \A v \in version .. to :
            /\ a[v].ok => Tables!Held(Tables!SchemaAt[v], a[v].data)
            /\ a[v].ok => v = version \/ \E d : a[v].data = Tables!Carried(d, Tables!Ups[v])
            /\ ~Tables!NoWay(version, c.data) => a[v].ok /\ ~Tables!NoWay(v, a[v].data)
    <3> HIDE DEF Db
    <3>1. PICK n, b : n = version /\ b = c
      OBVIOUS
    <3>2. n \in Nat /\ n <= to /\ Chain(a, n, to, b)
      BY <1>1, <1>2, <3>1
    <3>3. /\ DOMAIN b = Db /\ b = [x \in Db |-> b[x]] /\ b.ok = TRUE
          /\ b.schema = Tables!SchemaAt[n] /\ Tables!Held(Tables!SchemaAt[n], b.data)
      BY <1>3, <3>1
    <3>4. \A v \in n .. to :
            /\ a[v].ok => Tables!Held(Tables!SchemaAt[v], a[v].data)
            /\ a[v].ok => v = n \/ \E d : a[v].data = Tables!Carried(d, Tables!Ups[v])
            /\ ~Tables!NoWay(n, b.data) => a[v].ok /\ ~Tables!NoWay(v, a[v].data)
      BY <1>1, <3>2, <3>3, ChainData
    <3> QED
      BY <3>1, <3>4
  <2> QED
    BY <1>1, <1>2, <1>3, <2>1
<1>6. ASSUME db.ok PROVE DataFits'
  <2>1. Tables!Held(schema', data')
    BY <1>4, <1>5, <1>6 DEF AtVersion
  <2>2. DOMAIN data' = {"rows", "nulls", "dups"}
    BY <1>4, <1>5, <1>6, CarriedShape
  <2> QED
    BY <2>1, <2>2 DEF DataFits
<1>7. ASSUME ~db.ok PROVE DataFits'
  BY <1>4, <1>7 DEF DataFits
<1> QED
  BY <1>4, <1>5, <1>6, <1>7

LEMMA DowngradeData ==
    ASSUME DataFits, Tables!Downgrade, AtVersion'
    PROVE  DataFits' /\ (~last'.ok => last'.cmd = "downgrade" /\ Tables!NoWayBack(version, data))
<1> DEFINE c == Tables!Current
           e == Tables!Downs[version]
           db == Tables!Step(c, e)
           at == Tables!SchemaAt
<1>1. version \in 1 .. 21 /\ schema = at[version] /\ Tables!Held(at[version], data)
  BY DEF DataFits, AtVersion, Tables!Downgrade
<1>2. /\ DOMAIN c = Db /\ c = [x \in Db |-> c[x]] /\ c.ok = TRUE /\ c.data = data
      /\ c.schema = at[version]
  BY <1>1, CurrentIsDb
<1>3. /\ last' = [cmd |-> "downgrade", to |-> version - 1, ok |-> db.ok]
      /\ IF db.ok THEN version' = version - 1 /\ schema' = db.schema /\ data' = db.data
                  ELSE UNCHANGED <<version, schema, data>>
  BY DEF Tables!Downgrade, Tables!Transaction
<1> HIDE DEF c
<1>4. /\ db.ok <=> /\ c.ok /\ Tables!Applicable(c.schema, e)
                   /\ Tables!Lawful(Tables!Edited(c.schema, e), Tables!Carried(c.data, e))
      /\ db.ok => db.data = Tables!Carried(c.data, e)
  BY <1>2, OneStep
<1>5. Tables!Edited(at[version], e) = at[version - 1] /\ Tables!Applicable(at[version], e)
  BY <1>1, Revised
<1>6. /\ Tables!Placed(at[version - 1], Tables!Carried(data, e))
      /\ ~Tables!NoWayBack(version, data) => Tables!Lawful(at[version - 1], Tables!Carried(data, e))
  BY <1>1, DataMoves
<1> HIDE DEF db, e, at
<1>7. ASSUME db.ok PROVE DataFits'
  <2>1. schema' = at[version - 1]
    BY <1>3, <1>7 DEF AtVersion, at
  <2>2. Tables!Held(schema', data')
    BY <1>2, <1>3, <1>4, <1>5, <1>6, <1>7, <2>1 DEF Tables!Held
  <2>3. DOMAIN data' = {"rows", "nulls", "dups"}
    BY <1>3, <1>4, <1>7, CarriedShape
  <2> QED
    BY <2>2, <2>3 DEF DataFits
<1>8. ASSUME ~db.ok PROVE DataFits'
  BY <1>3, <1>8 DEF DataFits
<1>9. ~Tables!NoWayBack(version, data) => db.ok
  BY <1>2, <1>4, <1>5, <1>6
<1> QED
  BY <1>3, <1>7, <1>8, <1>9

\* What a release stores fits.
LEMMA StoredData ==
    ASSUME DataFits, Tables!StoreRow \/ Tables!StoreNull \/ Tables!StoreEqual
    PROVE  DataFits' /\ last'.ok
<1>1. schema.nullable \subseteq schema.cols
  BY RevisionsFit, TwentyOne DEF Tables!VersionsFit, DataFits, AtVersion
<1>2. ASSUME NEW d, Tables!Store(d), Tables!Placed(schema, d), DOMAIN d = {"rows", "nulls", "dups"}
      PROVE  DataFits' /\ last'.ok
  BY <1>2 DEF Tables!Store, DataFits, AtVersion, Tables!Held
<1>3. /\ data.rows \subseteq Tables!TablesOf(schema) /\ data.dups \subseteq Tables!Equals(schema)
      /\ \A c \in data.nulls : c[1] \in data.rows
      /\ DOMAIN data = {"rows", "nulls", "dups"}
  BY DEF DataFits, Tables!Held, Tables!Placed
<1>4. CASE Tables!StoreRow
  <2>1. PICK t \in Watched \cap {c[1] : c \in schema.cols} :
            Tables!Store([data EXCEPT !.rows = @ \cup {t},
                                      !.nulls = @ \cup {c \in schema.nullable : c[1] = t}])
    BY <1>4 DEF Tables!StoreRow
  <2> DEFINE d == [data EXCEPT !.rows = @ \cup {t},
                               !.nulls = @ \cup {c \in schema.nullable : c[1] = t}]
  <2>2. /\ DOMAIN d = {"rows", "nulls", "dups"} /\ d.rows = data.rows \cup {t}
        /\ d.nulls = data.nulls \cup {c \in schema.nullable : c[1] = t} /\ d.dups = data.dups
    BY <1>3
  <2> HIDE DEF d
  <2>3. Tables!Placed(schema, d)
    BY <1>3, <2>2 DEF Tables!Placed, Tables!TablesOf
  <2> QED
    BY <1>2, <2>1, <2>2, <2>3 DEF d
<1>5. CASE Tables!StoreNull
  <2>1. PICK c \in schema.nullable :
            Tables!Store([data EXCEPT !.rows = @ \cup {c[1]}, !.nulls = @ \cup {c}])
    BY <1>5 DEF Tables!StoreNull
  <2> DEFINE d == [data EXCEPT !.rows = @ \cup {c[1]}, !.nulls = @ \cup {c}]
  <2>2. /\ DOMAIN d = {"rows", "nulls", "dups"} /\ d.rows = data.rows \cup {c[1]}
        /\ d.nulls = data.nulls \cup {c} /\ d.dups = data.dups
    BY <1>3
  <2> HIDE DEF d
  <2>3. Tables!Placed(schema, d)
    BY <1>1, <1>3, <2>2 DEF Tables!Placed, Tables!TablesOf
  <2> QED
    BY <1>2, <2>1, <2>2, <2>3 DEF d
<1>6. CASE Tables!StoreEqual
  <2>0. PICK c \in schema.cols :
            /\ c[2] \in Tables!Named
            /\ \E kind \in Tables!Kinds(schema, c) :
                   Tables!Store([data EXCEPT !.rows = @ \cup {c[1]},
                                             !.dups = @ \cup {<<c[1], c[2], kind>>}])
    BY <1>6 DEF Tables!StoreEqual
  <2>1. PICK kind \in Tables!Kinds(schema, c) :
            Tables!Store([data EXCEPT !.rows = @ \cup {c[1]},
                                      !.dups = @ \cup {<<c[1], c[2], kind>>}])
    BY <2>0
  <2> DEFINE d == [data EXCEPT !.rows = @ \cup {c[1]}, !.dups = @ \cup {<<c[1], c[2], kind>>}]
  <2>2. /\ DOMAIN d = {"rows", "nulls", "dups"} /\ d.rows = data.rows \cup {c[1]}
        /\ d.nulls = data.nulls /\ d.dups = data.dups \cup {<<c[1], c[2], kind>>}
    BY <1>3
  <2> HIDE DEF d
  <2>3. <<c[1], c[2], kind>> \in Tables!Equals(schema)
    BY <2>0 DEF Tables!Equals
  <2>4. Tables!Placed(schema, d)
    BY <1>3, <2>2, <2>3 DEF Tables!Placed, Tables!TablesOf
  <2> QED
    BY <1>2, <2>1, <2>2, <2>4 DEF d
<1> QED
  BY <1>4, <1>5, <1>6

LEMMA DataStep ==
    ASSUME DataFits, [Tables!Next]_schemaVars
    PROVE  /\ DataFits'
           /\ \/ UNCHANGED schemaVars
              \/ ~last'.ok =>
                   \/ last'.cmd = "upgrade" /\ Tables!NoWay(version, data)
                   \/ last'.cmd = "downgrade" /\ Tables!NoWayBack(version, data)
<1>1. AtVersion'
  BY SchemaStep DEF DataFits
<1>2. CASE UNCHANGED schemaVars
  BY <1>2 DEF DataFits, AtVersion, schemaVars
<1>3. ASSUME NEW to \in {version + 1, Tables!Latest}, to <= Tables!Latest, Tables!Upgrade(to)
      PROVE  DataFits' /\ (~last'.ok => last'.cmd = "upgrade" /\ Tables!NoWay(version, data))
  BY <1>1, <1>3, UpgradeData
<1>4. CASE Tables!Downgrade
  BY <1>1, <1>4, DowngradeData
<1>5. CASE Tables!StoreRow \/ Tables!StoreNull \/ Tables!StoreEqual
  BY <1>5, StoredData
<1> QED
  BY <1>2, <1>3, <1>4, <1>5 DEF Tables!Next

\* Whatever and however much a release has stored, the revisions after it
\* apply, and so do downgrades, except where a row is one that cannot be
\* brought on: TLC has looked at every fact alone, here for all data together.
THEOREM DataStaysMigratable == MCSpec => LegalDataMigrates
<1> DEFINE Moved == ~last'.ok =>
                        \/ last'.cmd = "upgrade" /\ Tables!NoWay(version, data)
                        \/ last'.cmd = "downgrade" /\ Tables!NoWayBack(version, data)
<1>1. MCInit => DataFits
  BY DataInit DEF MCInit
<1>2. DataFits /\ [MCNext]_allVars => DataFits' /\ [Moved]_schemaVars
  BY DataStep, CatalogueKeepsSchema
<1>3. [][Moved]_schemaVars => LegalDataMigrates
  BY DEF LegalDataMigrates, Tables!LegalDataMigrates, schemaVars, Tables!vars
<1> QED
  BY <1>1, <1>2, <1>3, PTL DEF MCSpec
================================================================================
