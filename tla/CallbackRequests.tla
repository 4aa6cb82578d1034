---------------------------- MODULE CallbackRequests ----------------------------
(***************************************************************************)
(* Callback requests: CallbackRequestService, CallbackRequestRepository    *)
(* and CallbackRequestEventPublisher.  A visitor's form is inserted and    *)
(* committed, then announced in the JetStream stream, then answered; the   *)
(* notification service confirms deliveries; administrators and services   *)
(* set status and spam, each with one UPDATE that waits for the row and is *)
(* evaluated on its newest version.                                        *)
(*                                                                         *)
(* A session is one HTTP request at a time with its transaction; pend[s]   *)
(* is the row version it has written and not committed.  There is no       *)
(* DELETE of a callback request in the code.                               *)
(*                                                                         *)
(* Definitions named Bug... are mutated forms of the one that follows      *)
(* them; no specification uses them.                                       *)
(***************************************************************************)
EXTENDS Naturals

CONSTANTS
    Sessions,   \* concurrent requests
    Ids,        \* ids of callback requests (uuid4)
    Forms,      \* what visitors fill in; a retry sends the same form
    NoRow

VARIABLES
    rows,       \* committed table callback_requests
    stream,     \* events the stream has stored
    answered,   \* forms whose visitor has been answered with 201
    pc,         \* next step of the request
    req,        \* the request's parameters
    pend        \* uncommitted row version of the request's transaction

vars == <<rows, stream, answered, pc, req, pend>>

\* The seeder keeps exactly these two: 1 is new, 2 is closed.
Statuses == {1, 2}
Closed == 2

Row == [form: Forms, status: Statuses, spam: BOOLEAN, delivered: BOOLEAN]

\* The mark for a missing row is no row.
ASSUME Absence == NoRow \notin Row

\* The id and the contact data an event carries.
Event == [id: Ids, form: Forms]

Request ==
    [op: {"none"}]
    \cup [op: {"create"}, id: Ids, form: Forms]
    \cup [op: {"status"}, id: Ids, status: Statuses]
    \cup [op: {"spam"}, id: Ids, spam: BOOLEAN]
    \cup [op: {"delivery"}, id: Ids]

NoRequest == [op |-> "none"]

NewRow(f) == [form |-> f, status |-> 1, spam |-> FALSE, delivered |-> FALSE]

Goto(s, step) == pc' = [pc EXCEPT ![s] = step]

Start(s, r, step) ==
    /\ pc[s] = "idle"
    /\ req' = [req EXCEPT ![s] = r]
    /\ Goto(s, step)

Finish(s) ==
    /\ Goto(s, "idle")
    /\ req' = [req EXCEPT ![s] = NoRequest]
    /\ pend' = [pend EXCEPT ![s] = NoRow]

Init ==
    /\ rows = [i \in Ids |-> NoRow]
    /\ stream = {}
    /\ answered = {}
    /\ pc = [s \in Sessions |-> "idle"]
    /\ req = [s \in Sessions |-> NoRequest]
    /\ pend = [s \in Sessions |-> NoRow]

(***************************************************************************)
(* create                                                                  *)
(***************************************************************************)

Fresh(i) ==
    /\ rows[i] = NoRow
    /\ \A t \in Sessions : req[t] # NoRequest => req[t].id # i

\* A visitor sends the form, again after an error or twice at once; every
\* POST makes an entity with an id of its own.
Submit(s) ==
    /\ \E f \in Forms \ answered, i \in Ids :
        Fresh(i) /\ Start(s, [op |-> "create", id |-> i, form |-> f], "store")
    /\ UNCHANGED <<rows, stream, answered, pend>>

\* create_and_commit.
Store(s) ==
    /\ pc[s] = "store"
    /\ rows' = [rows EXCEPT ![req[s].id] = NewRow(req[s].form)]
    /\ Goto(s, "publish")
    /\ UNCHANGED <<stream, answered, req, pend>>

EventOf(s) == [id |-> req[s].id, form |-> req[s].form]

\* JetStream stores the event and its PubAck arrives.
Publish(s) ==
    /\ pc[s] = "publish"
    /\ stream' = stream \cup {EventOf(s)}
    /\ Goto(s, "answer")
    /\ UNCHANGED <<rows, answered, req, pend>>

\* A failed publish is logged and the visitor answered with 201.
BugPublishFails(s) ==
    /\ pc[s] = "publish"
    /\ stream' \in {stream, stream \cup {EventOf(s)}}
    /\ Goto(s, "answer")
    /\ UNCHANGED <<rows, answered, req, pend>>

\* The client is not connected, the publish fails or its PubAck is lost: the
\* handler raises CallbackRequestPublishError, the row stays.
PublishFails(s) ==
    /\ pc[s] = "publish"
    /\ stream' \in {stream, stream \cup {EventOf(s)}}
    /\ Finish(s)
    /\ UNCHANGED <<rows, answered>>

\* The transaction's end has nothing left to commit; the visitor reads 201.
Answer(s) ==
    /\ pc[s] = "answer"
    /\ answered' = answered \cup {req[s].form}
    /\ Finish(s)
    /\ UNCHANGED <<rows, stream>>

(***************************************************************************)
(* set_status, set_spam, confirm_delivery                                  *)
(***************************************************************************)

\* An administrator or a service asks for a status the table has, or for a
\* spam mark; ids of requests that are not there (yet) included.
AskStatus(s) ==
    /\ \E i \in Ids, v \in Statuses :
        Start(s, [op |-> "status", id |-> i, status |-> v], "update")
    /\ UNCHANGED <<rows, stream, answered, pend>>

AskSpam(s) ==
    /\ \E i \in Ids, b \in BOOLEAN :
        Start(s, [op |-> "spam", id |-> i, spam |-> b], "update")
    /\ UNCHANGED <<rows, stream, answered, pend>>

\* The notification service confirms what an event told it about; false is
\* refused before the repository is called.
AskDelivery(s) ==
    /\ \E e \in stream :
        Start(s, [op |-> "delivery", id |-> e.id], "update")
    /\ UNCHANGED <<rows, stream, answered, pend>>

\* The handler reads the row, changes it and writes all columns back.
BugRowFree(s) == TRUE

\* The UPDATE waits until no other transaction holds the row.
RowFree(s) ==
    \A t \in Sessions \ {s} : pend[t] # NoRow => req[t].id # req[s].id

BugStatusAfter(r, q) == [r EXCEPT !.status = q.status]

\* A row marked as spam stays closed.
StatusAfter(r, q) ==
    [r EXCEPT !.status = IF r.spam THEN Closed ELSE q.status]

SpamAfter(r, q) ==
    [r EXCEPT !.spam = q.spam, !.status = IF q.spam THEN Closed ELSE @]

DeliveryAfter(r) == [r EXCEPT !.delivered = TRUE]

\* The row version the UPDATE of request q makes of row r.
After(r, q) ==
    IF q.op = "status" THEN StatusAfter(r, q)
    ELSE IF q.op = "spam" THEN SpamAfter(r, q)
    ELSE DeliveryAfter(r)

Update(s) ==
    /\ pc[s] = "update"
    /\ RowFree(s)
    /\ rows[req[s].id] # NoRow
    /\ pend' = [pend EXCEPT ![s] = After(rows[req[s].id], req[s])]
    /\ Goto(s, "commit")
    /\ UNCHANGED <<rows, stream, answered, req>>

\* RETURNING yields no row: NotFoundError.
NotFound(s) ==
    /\ pc[s] = "update"
    /\ rows[req[s].id] = NoRow
    /\ Finish(s)
    /\ UNCHANGED <<rows, stream, answered>>

Commit(s) ==
    /\ pc[s] = "commit"
    /\ rows' = [rows EXCEPT ![req[s].id] = pend[s]]
    /\ Finish(s)
    /\ UNCHANGED <<stream, answered>>

\* The transaction's writes survive the request.
BugAbort(s) ==
    /\ pc[s] # "idle"
    /\ Goto(s, "idle")
    /\ req' = [req EXCEPT ![s] = NoRequest]
    /\ UNCHANGED <<rows, stream, answered, pend>>

\* A statement or commit fails, the worker dies, the visitor goes away: the
\* open transaction is rolled back, what was committed or published stays.
Abort(s) ==
    /\ pc[s] # "idle"
    /\ Finish(s)
    /\ UNCHANGED <<rows, stream, answered>>

Next ==
    \E s \in Sessions :
        \/ Submit(s) \/ Store(s) \/ Publish(s) \/ PublishFails(s) \/ Answer(s)
        \/ AskStatus(s) \/ AskSpam(s) \/ AskDelivery(s)
        \/ Update(s) \/ NotFound(s) \/ Commit(s) \/ Abort(s)

Spec == Init /\ [][Next]_vars

(***************************************************************************)
(* Properties                                                              *)
(***************************************************************************)

\* The variables keep the types the code gives them, and a transaction holds
\* a row version exactly between its UPDATE and its end.
TypeOK ==
    /\ rows \in [Ids -> Row \cup {NoRow}]
    /\ stream \in SUBSET Event
    /\ answered \in SUBSET Forms
    /\ pc \in [Sessions -> {"idle", "store", "publish", "answer", "update", "commit"}]
    /\ req \in [Sessions -> Request]
    /\ pend \in [Sessions -> Row \cup {NoRow}]
    /\ \A s \in Sessions :
        /\ pc[s] = "idle" <=> req[s] = NoRequest
        /\ pc[s] \in {"store", "publish", "answer"} <=> req[s].op = "create"
        /\ pc[s] = "commit" <=> pend[s] # NoRow

\* A request marked as spam is closed, whatever order the status and spam
\* changes of different sessions take effect in (set_status, set_spam).
SpamIsClosed == \A i \in Ids : rows[i] # NoRow /\ rows[i].spam => rows[i].status = Closed

\* Every commit has the effect of its own request on the row as it is then: a
\* status, a spam mark or a confirmed delivery that another session has
\* committed meanwhile is not undone.
NoLostChange ==
    [][\A s \in Sessions :
         pc[s] = "commit" /\ rows' # rows /\ pc'[s] = "idle"
         => rows' = [rows EXCEPT ![req[s].id] = After(rows[req[s].id], req[s])]]_vars

StoredForms == {f \in Forms : \E i \in Ids : rows[i] # NoRow /\ rows[i].form = f}

\* An announcement counts only if the request it names is stored.
AnnouncedForms ==
    {f \in Forms : \E e \in stream : /\ e.form = f
                                     /\ rows[e.id] # NoRow
                                     /\ rows[e.id].form = f}

Promise == INSTANCE CallbackPromise
    WITH kept <- StoredForms, told <- AnnouncedForms, done <- answered

\* A form is stored before it is announced and announced before its visitor
\* is told so, through every failure of the publish and every retry (create).
KeepsPromise == Promise!Spec
================================================================================
