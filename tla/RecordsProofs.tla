---------------------------- MODULE RecordsProofs ----------------------------
(***************************************************************************)
(* Theorems about parts that MCRecords puts side by side: callback         *)
(* requests, for every set of sessions, ids and forms, from the assumption *)
(* that the mark for a missing row is no row (Absence); photo lists, for   *)
(* every set of sessions and photos; proxied requests, for every page      *)
(* size; and calls from a browser, for every route, word and site.         *)
(***************************************************************************)
EXTENDS MCRecords, FiniteSetTheorems, SequenceTheorems, WellFoundedInduction, TLAPS

\* What the step of a request says about the request's parameters.
LEMMA RequestFields ==
    ASSUME TypeOK, NEW s \in Sessions, pc[s] # "idle"
    PROVE  /\ req[s].id \in Ids
           /\ req[s].op \in {"create", "status", "spam", "delivery"}
           /\ req[s].op = "create" => req[s].form \in Forms
           /\ req[s].op = "status" => req[s].status \in Statuses
           /\ req[s].op = "spam" => req[s].spam \in BOOLEAN
<1>1. req[s] \in Request /\ req[s] # NoRequest
  BY DEF TypeOK
<1>2. req[s] \notin [op: {"none"}]
  BY <1>1 DEF NoRequest
<1>3. QED
  BY <1>1, <1>2 DEF Request

\* What an UPDATE makes of a row is a row of the same form.
LEMMA AfterIsRow ==
    ASSUME NEW r \in Row, NEW q,
           q.op = "status" => q.status \in Statuses,
           q.op = "spam" => q.spam \in BOOLEAN
    PROVE  After(r, q) \in Row /\ After(r, q).form = r.form
<1>1. CASE q.op = "status"
  BY <1>1 DEF After, StatusAfter, Row, Statuses, Closed
<1>2. CASE q.op = "spam"
  BY <1>2 DEF After, SpamAfter, Row, Statuses, Closed
<1>3. CASE q.op # "status" /\ q.op # "spam"
  BY <1>3 DEF After, DeliveryAfter, Row
<1>4. QED
  BY <1>1, <1>2, <1>3

(***************************************************************************)
(* Types                                                                   *)
(***************************************************************************)

\* A request that ends leaves its session as it was at first.
LEMMA FinishType ==
    ASSUME TypeOK, NEW s \in Sessions, Finish(s),
           rows' \in [Ids -> Row \cup {NoRow}], stream' \in SUBSET Event,
           answered' \in SUBSET Forms
    PROVE  TypeOK'
<1>1. NoRequest \in Request /\ NoRequest.op = "none"
  BY DEF NoRequest, Request
<1>2. /\ pc' \in [Sessions -> {"idle", "store", "publish", "answer", "update", "commit"}]
      /\ req' \in [Sessions -> Request]
      /\ pend' \in [Sessions -> Row \cup {NoRow}]
  BY <1>1 DEF Finish, Goto, TypeOK
<1>3. \A t \in Sessions : t # s => pc'[t] = pc[t] /\ req'[t] = req[t] /\ pend'[t] = pend[t]
  BY DEF Finish, Goto, TypeOK
<1>4. pc'[s] = "idle" /\ req'[s] = NoRequest /\ pend'[s] = NoRow
  BY DEF Finish, Goto, TypeOK
<1>5. QED
  BY <1>1, <1>2, <1>3, <1>4 DEF TypeOK

\* A request that starts is of a kind its first step belongs to.
LEMMA StartType ==
    ASSUME TypeOK, NEW s \in Sessions, NEW r \in Request, NEW first,
           Start(s, r, first), UNCHANGED <<rows, stream, answered, pend>>,
           \/ first \in {"store", "publish"} /\ r.op = "create"
           \/ first = "update" /\ r.op \in {"status", "spam", "delivery"}
    PROVE  TypeOK'
<1>1. r # NoRequest
  BY DEF NoRequest
<1>2. /\ pc' \in [Sessions -> {"idle", "store", "publish", "answer", "update", "commit"}]
      /\ req' \in [Sessions -> Request]
  BY DEF Start, Goto, TypeOK
<1>3. \A t \in Sessions : t # s => pc'[t] = pc[t] /\ req'[t] = req[t]
  BY DEF Start, Goto, TypeOK
<1>4. pc'[s] = first /\ req'[s] = r /\ pend[s] = NoRow
  BY DEF Start, Goto, TypeOK
<1>5. QED
  BY <1>1, <1>2, <1>3, <1>4 DEF TypeOK

LEMMA InitType == Init => TypeOK
<1>1. NoRequest \in Request /\ NoRequest.op = "none"
  BY DEF NoRequest, Request
<1>2. QED
  BY <1>1 DEF Init, TypeOK

\* Every step keeps the types.
LEMMA TypeStep ==
    ASSUME TypeOK, [Next]_vars
    PROVE  TypeOK'
<1>1. CASE UNCHANGED vars
  BY <1>1 DEF vars, TypeOK
<1>2. SUFFICES ASSUME NEW s \in Sessions,
                      \/ Submit(s) \/ Store(s) \/ Publish(s) \/ PublishFails(s) \/ Answer(s)
                      \/ AskStatus(s) \/ AskSpam(s) \/ AskDelivery(s)
                      \/ Update(s) \/ NotFound(s) \/ Commit(s) \/ Abort(s)
               PROVE  TypeOK'
  BY <1>1 DEF Next
<1>3. CASE Submit(s)
  <2>1. PICK f \in Forms, i \in Ids :
            Start(s, [op |-> "create", id |-> i, form |-> f], "store")
    BY <1>3 DEF Submit
  <2>2. [op |-> "create", id |-> i, form |-> f] \in Request
    BY DEF Request
  <2>3. QED
    BY <1>3, <2>1, <2>2, StartType DEF Submit
<1>4. CASE Store(s)
  <2>1. req[s].id \in Ids /\ req[s].form \in Forms
    BY <1>4, RequestFields DEF Store, TypeOK
  <2>2. NewRow(req[s].form) \in Row
    BY <2>1 DEF NewRow, Row, Statuses
  <2>3. rows' \in [Ids -> Row \cup {NoRow}]
    BY <1>4, <2>1, <2>2 DEF Store, TypeOK
  <2>4. QED
    BY <1>4, <2>3 DEF Store, Goto, TypeOK
<1>5. CASE Publish(s)
  <2>1. EventOf(s) \in Event
    BY <1>5, RequestFields DEF Publish, TypeOK, EventOf, Event
  <2>2. QED
    BY <1>5, <2>1 DEF Publish, Goto, TypeOK
<1>6. CASE PublishFails(s)
  <2>1. EventOf(s) \in Event
    BY <1>6, RequestFields DEF PublishFails, TypeOK, EventOf, Event
  <2>2. rows' \in [Ids -> Row \cup {NoRow}] /\ answered' \in SUBSET Forms
    BY <1>6 DEF PublishFails, TypeOK
  <2>3. stream' \in SUBSET Event
    BY <1>6, <2>1 DEF PublishFails, TypeOK
  <2>4. QED
    BY <1>6, <2>2, <2>3, FinishType DEF PublishFails
<1>7. CASE Answer(s)
  <2>1. req[s].form \in Forms
    BY <1>7, RequestFields DEF Answer, TypeOK
  <2>2. rows' \in [Ids -> Row \cup {NoRow}] /\ stream' \in SUBSET Event
        /\ answered' \in SUBSET Forms
    BY <1>7, <2>1 DEF Answer, TypeOK
  <2>3. QED
    BY <1>7, <2>2, FinishType DEF Answer
<1>8. CASE AskStatus(s)
  <2>1. PICK i \in Ids, v \in Statuses :
            Start(s, [op |-> "status", id |-> i, status |-> v], "update")
    BY <1>8 DEF AskStatus
  <2>2. [op |-> "status", id |-> i, status |-> v] \in Request
    BY DEF Request
  <2>3. QED
    BY <1>8, <2>1, <2>2, StartType DEF AskStatus
<1>9. CASE AskSpam(s)
  <2>1. PICK i \in Ids, b \in BOOLEAN :
            Start(s, [op |-> "spam", id |-> i, spam |-> b], "update")
    BY <1>9 DEF AskSpam
  <2>2. [op |-> "spam", id |-> i, spam |-> b] \in Request
    BY DEF Request
  <2>3. QED
    BY <1>9, <2>1, <2>2, StartType DEF AskSpam
<1>10. CASE AskDelivery(s)
  <2>1. PICK e \in stream : Start(s, [op |-> "delivery", id |-> e.id], "update")
    BY <1>10 DEF AskDelivery
  <2>2. [op |-> "delivery", id |-> e.id] \in Request
    BY DEF Request, TypeOK, Event
  <2>3. QED
    BY <1>10, <2>1, <2>2, StartType DEF AskDelivery
<1>11. CASE Update(s)
  <2>1. rows[req[s].id] \in Row
    BY <1>11, RequestFields DEF Update, TypeOK
  <2>2. After(rows[req[s].id], req[s]) \in Row
    BY <1>11, <2>1, RequestFields, AfterIsRow DEF Update
  <2>3. After(rows[req[s].id], req[s]) # NoRow
    BY Absence, <2>2
  <2>4. QED
    BY <1>11, <2>2, <2>3 DEF Update, Goto, TypeOK
<1>12. CASE NotFound(s)
  BY <1>12, FinishType DEF NotFound, TypeOK
<1>13. CASE Commit(s)
  <2>1. rows' \in [Ids -> Row \cup {NoRow}]
    BY <1>13, RequestFields DEF Commit, TypeOK
  <2>2. QED
    BY <1>13, <2>1, FinishType DEF Commit, TypeOK
<1>14. CASE Abort(s)
  BY <1>14, FinishType DEF Abort, TypeOK
<1>15. QED
  BY <1>2, <1>3, <1>4, <1>5, <1>6, <1>7, <1>8, <1>9, <1>10, <1>11, <1>12, <1>13, <1>14

(***************************************************************************)
(* The order of create, and what an open UPDATE knows                      *)
(***************************************************************************)

\* The row a create is about to insert is absent and no other create's; from
\* its commit on it is stored; an answer follows an event; an event names a
\* stored row.
Filed ==
    /\ \A s \in Sessions :
        /\ pc[s] = "store" => rows[req[s].id] = NoRow
        /\ pc[s] \in {"publish", "answer"}
           => rows[req[s].id] # NoRow /\ rows[req[s].id].form = req[s].form
        /\ pc[s] = "answer" => EventOf(s) \in stream
    /\ \A s, t \in Sessions :
        s # t /\ req[s].op = "create" /\ req[t].op = "create" => req[s].id # req[t].id
    /\ \A e \in stream : rows[e.id] # NoRow /\ rows[e.id].form = e.form

\* A row version waiting for its commit was made from the row as it still is,
\* and is the only one of its row.
Staged ==
    /\ \A s \in Sessions :
        pc[s] = "commit" => /\ rows[req[s].id] # NoRow
                            /\ pend[s] = After(rows[req[s].id], req[s])
    /\ \A s, t \in Sessions :
        s # t /\ pc[s] = "commit" /\ pc[t] = "commit" => req[s].id # req[t].id

Order == Filed /\ Staged

\* Sessions other than the one that moves.
OthersSame(s) ==
    \A t \in Sessions : t # s => pc'[t] = pc[t] /\ req'[t] = req[t] /\ pend'[t] = pend[t]

LEMMA FinishOrder ==
    ASSUME TypeOK, Order, NEW s \in Sessions, Finish(s), rows' = rows,
           stream' = stream
    PROVE  Order'
<1>1. OthersSame(s) /\ pc'[s] = "idle" /\ req'[s].op = "none"
  BY DEF OthersSame, Finish, Goto, TypeOK, NoRequest
<1>2. Filed'
  BY <1>1 DEF OthersSame, Order, Filed, EventOf
<1>3. Staged'
  BY <1>1 DEF OthersSame, Order, Staged
<1>4. QED
  BY <1>2, <1>3 DEF Order

LEMMA AskOrder ==
    ASSUME TypeOK, Order, NEW s \in Sessions, NEW r, Start(s, r, "update"),
           r.op # "create", UNCHANGED <<rows, stream, answered, pend>>
    PROVE  Order'
<1>1. OthersSame(s) /\ pc'[s] = "update" /\ req'[s] = r
  BY DEF OthersSame, Start, Goto, TypeOK
<1>2. Filed'
  BY <1>1 DEF OthersSame, Order, Filed, EventOf
<1>3. Staged'
  BY <1>1 DEF OthersSame, Order, Staged
<1>4. QED
  BY <1>2, <1>3 DEF Order

LEMMA OrderStep ==
    ASSUME TypeOK, TypeOK', Order, [Next]_vars
    PROVE  Order'
<1>1. CASE UNCHANGED vars
  BY <1>1 DEF vars, Order, Filed, Staged, EventOf
<1>2. SUFFICES ASSUME NEW s \in Sessions,
                      \/ Submit(s) \/ Store(s) \/ Publish(s) \/ PublishFails(s) \/ Answer(s)
                      \/ AskStatus(s) \/ AskSpam(s) \/ AskDelivery(s)
                      \/ Update(s) \/ NotFound(s) \/ Commit(s) \/ Abort(s)
               PROVE  Order'
  BY <1>1 DEF Next
<1>3. CASE Submit(s)
  <2>1. PICK f \in Forms, i \in Ids :
            Fresh(i) /\ Start(s, [op |-> "create", id |-> i, form |-> f], "store")
    BY <1>3 DEF Submit
  <2>2. OthersSame(s) /\ pc'[s] = "store" /\ req'[s].id = i /\ UNCHANGED <<rows, stream>>
    BY <1>3, <2>1 DEF Submit, OthersSame, Start, Goto, TypeOK
  <2>3. \A t \in Sessions : t # s /\ req[t].op = "create" => req[t].id # i
    BY <2>1 DEF Fresh, NoRequest
  <2>4. Filed'
    BY <2>1, <2>2, <2>3 DEF OthersSame, Order, Filed, EventOf, Fresh
  <2>5. Staged'
    BY <2>2 DEF OthersSame, Order, Staged
  <2>6. QED
    BY <2>4, <2>5 DEF Order
<1>4. CASE Store(s)
  <2>1. req[s].id \in Ids /\ req[s].op = "create" /\ req[s].form \in Forms /\ rows[req[s].id] = NoRow
    BY <1>4, RequestFields DEF Store, TypeOK, Order, Filed
  <2>2. NewRow(req[s].form) # NoRow /\ NewRow(req[s].form).form = req[s].form
    <3>1. NewRow(req[s].form) \in Row
      BY <2>1 DEF NewRow, Row, Statuses
    <3>2. NewRow(req[s].form).form = req[s].form
      BY DEF NewRow
    <3>3. QED
      BY Absence, <3>1, <3>2
  <2>3. /\ rows'[req[s].id] = NewRow(req[s].form)
        /\ \A i \in Ids : i # req[s].id => rows'[i] = rows[i]
        /\ pc'[s] = "publish" /\ OthersSame(s)
        /\ UNCHANGED <<stream, req, pend>>
    BY <1>4, <2>1 DEF Store, Goto, TypeOK, OthersSame
  <2>4. \A t \in Sessions : t # s /\ pc[t] # "idle" => req[t].id \in Ids
    BY RequestFields
  <2>5. \A e \in stream : e.id \in Ids
    BY DEF TypeOK, Event
  <2>6. \A t \in Sessions : pc[t] = "store" => req[t].op = "create"
    BY DEF TypeOK
  <2>7. Filed'
    BY <2>1, <2>2, <2>3, <2>4, <2>5, <2>6 DEF OthersSame, Order, Filed, EventOf
  <2>8. Staged'
    BY <2>1, <2>3, <2>4 DEF OthersSame, Order, Staged
  <2>9. QED
    BY <2>7, <2>8 DEF Order
<1>5. CASE Publish(s)
  <2>1. /\ pc'[s] = "answer" /\ OthersSame(s) /\ UNCHANGED <<rows, req, pend>>
        /\ stream' = stream \cup {EventOf(s)}
    BY <1>5 DEF Publish, Goto, TypeOK, OthersSame
  <2>2. rows[req[s].id] # NoRow /\ rows[req[s].id].form = req[s].form
    BY <1>5 DEF Publish, Order, Filed
  <2>3. Filed'
    BY <2>1, <2>2 DEF OthersSame, Order, Filed, EventOf
  <2>4. Staged'
    BY <2>1 DEF OthersSame, Order, Staged
  <2>5. QED
    BY <2>3, <2>4 DEF Order
<1>6. CASE PublishFails(s)
  <2>1. /\ pc'[s] = "idle" /\ req'[s].op = "none" /\ OthersSame(s) /\ rows' = rows
        /\ stream' \in {stream, stream \cup {EventOf(s)}}
    BY <1>6 DEF PublishFails, Finish, Goto, TypeOK, OthersSame, NoRequest
  <2>2. rows[req[s].id] # NoRow /\ rows[req[s].id].form = req[s].form
    BY <1>6 DEF PublishFails, Order, Filed
  <2>3. Filed'
    BY <2>1, <2>2 DEF OthersSame, Order, Filed, EventOf
  <2>4. Staged'
    BY <2>1 DEF OthersSame, Order, Staged
  <2>5. QED
    BY <2>3, <2>4 DEF Order
<1>7. CASE Answer(s)
  BY <1>7, FinishOrder DEF Answer
<1>8. CASE AskStatus(s)
  <2>1. PICK i \in Ids, v \in Statuses :
            Start(s, [op |-> "status", id |-> i, status |-> v], "update")
    BY <1>8 DEF AskStatus
  <2>2. QED
    BY <1>8, <2>1, AskOrder DEF AskStatus
<1>9. CASE AskSpam(s)
  <2>1. PICK i \in Ids, b \in BOOLEAN :
            Start(s, [op |-> "spam", id |-> i, spam |-> b], "update")
    BY <1>9 DEF AskSpam
  <2>2. QED
    BY <1>9, <2>1, AskOrder DEF AskSpam
<1>10. CASE AskDelivery(s)
  <2>1. PICK e \in stream : Start(s, [op |-> "delivery", id |-> e.id], "update")
    BY <1>10 DEF AskDelivery
  <2>2. QED
    BY <1>10, <2>1, AskOrder DEF AskDelivery
<1>11. CASE Update(s)
  <2>1. /\ pc'[s] = "commit" /\ UNCHANGED <<rows, stream, req>>
        /\ pend'[s] = After(rows[req[s].id], req[s])
        /\ rows[req[s].id] # NoRow
        /\ OthersSame(s)
    BY <1>11 DEF Update, Goto, TypeOK, OthersSame
  <2>2. \A t \in Sessions : t # s /\ pc[t] = "commit" => req[t].id # req[s].id
    BY <1>11 DEF Update, RowFree, TypeOK
  <2>3. Filed'
    BY <2>1 DEF OthersSame, Order, Filed, EventOf
  <2>4. Staged'
    BY <2>1, <2>2 DEF OthersSame, Order, Staged
  <2>5. QED
    BY <2>3, <2>4 DEF Order
<1>12. CASE NotFound(s)
  BY <1>12, FinishOrder DEF NotFound
<1>13. CASE Commit(s)
  <2> DEFINE i == req[s].id
  <2>1. i \in Ids /\ rows[i] \in Row /\ pend[s] = After(rows[i], req[s])
    BY <1>13, RequestFields DEF Commit, TypeOK, Order, Staged
  <2>2. pend[s] \in Row /\ pend[s].form = rows[i].form
    BY <1>13, <2>1, RequestFields, AfterIsRow DEF Commit
  <2>3. pend[s] # NoRow
    BY Absence, <2>2
  <2>4. /\ rows'[i] = pend[s] /\ \A j \in Ids : j # i => rows'[j] = rows[j]
        /\ pc'[s] = "idle" /\ req'[s].op = "none" /\ OthersSame(s) /\ stream' = stream
    BY <1>13, <2>1 DEF Commit, Finish, Goto, TypeOK, OthersSame, NoRequest
  <2>5. \A t \in Sessions : t # s /\ pc[t] # "idle" => req[t].id \in Ids
    BY RequestFields
  <2>6. \A e \in stream : e.id \in Ids
    BY DEF TypeOK, Event
  <2>7. \A t \in Sessions : pc[t] = "store" => req[t].id # i
    BY Absence, <2>1 DEF Order, Filed
  <2>8. Filed'
    BY Absence, <2>1, <2>2, <2>3, <2>4, <2>5, <2>6, <2>7 DEF OthersSame, Order, Filed, EventOf
  <2>9. \A t \in Sessions : t # s /\ pc[t] = "commit" => req[t].id # i
    BY <1>13 DEF Commit, Order, Staged
  <2>10. Staged'
    BY <2>4, <2>5, <2>9 DEF OthersSame, Order, Staged
  <2>11. QED
    BY <2>8, <2>10 DEF Order
<1>14. CASE Abort(s)
  BY <1>14, FinishOrder DEF Abort
<1>15. QED
  BY <1>2, <1>3, <1>4, <1>5, <1>6, <1>7, <1>8, <1>9, <1>10, <1>11, <1>12, <1>13, <1>14

LEMMA InitOrder == Init => Order
  BY DEF Init, NoRequest, Order, Filed, Staged

(***************************************************************************)
(* Theorems                                                                *)
(***************************************************************************)

\* An UPDATE keeps a spam row closed and closes one it marks.
LEMMA AfterIsClosed ==
    ASSUME NEW r \in Row, r.spam => r.status = Closed, NEW q,
           q.op = "status" => q.status \in Statuses,
           q.op = "spam" => q.spam \in BOOLEAN
    PROVE  After(r, q).spam => After(r, q).status = Closed
<1>1. CASE q.op = "status"
  BY <1>1 DEF After, StatusAfter, Row
<1>2. CASE q.op = "spam"
  BY <1>2 DEF After, SpamAfter, Row
<1>3. CASE q.op # "status" /\ q.op # "spam"
  BY <1>3 DEF After, DeliveryAfter, Row
<1>4. QED
  BY <1>1, <1>2, <1>3

\* The two actions that write the table.
LEMMA WriteStep ==
    ASSUME TypeOK, Order, Next
    PROVE  \/ rows' = rows
           \/ \E s \in Sessions :
                /\ Store(s)
                /\ req[s].id \in Ids /\ req[s].form \in Forms
                /\ rows[req[s].id] = NoRow
                /\ rows' = [rows EXCEPT ![req[s].id] = NewRow(req[s].form)]
           \/ \E s \in Sessions :
                /\ Commit(s)
                /\ req[s].id \in Ids /\ rows[req[s].id] \in Row
                /\ rows' = [rows EXCEPT ![req[s].id] = After(rows[req[s].id], req[s])]
<1>1. SUFFICES ASSUME NEW s \in Sessions, Store(s) \/ Commit(s)
               PROVE  \/ /\ Store(s)
                         /\ req[s].id \in Ids /\ req[s].form \in Forms
                         /\ rows[req[s].id] = NoRow
                         /\ rows' = [rows EXCEPT ![req[s].id] = NewRow(req[s].form)]
                      \/ /\ Commit(s)
                         /\ req[s].id \in Ids /\ rows[req[s].id] \in Row
                         /\ rows' = [rows EXCEPT ![req[s].id] = After(rows[req[s].id], req[s])]
  BY DEF Next, Submit, Publish, PublishFails, Answer, AskStatus, AskSpam, AskDelivery,
         Update, NotFound, Abort
<1>2. CASE Store(s)
  BY <1>2, RequestFields DEF Store, TypeOK, Order, Filed
<1>3. CASE Commit(s)
  BY <1>3, RequestFields DEF Commit, TypeOK, Order, Staged
<1>4. QED
  BY <1>1, <1>2, <1>3

\* Types and order together are inductive.
LEMMA Inductive == Spec => [](TypeOK /\ Order)
<1>1. Init => TypeOK /\ Order
  BY InitType, InitOrder
<1>2. TypeOK /\ Order /\ [Next]_vars => TypeOK' /\ Order'
  BY TypeStep, OrderStep
<1>3. QED
  BY <1>1, <1>2, PTL DEF Spec

\* The variables of CallbackRequests keep their types.
THEOREM CallbackTypes == Spec => []TypeOK
  BY Inductive, PTL

\* set_status and set_spam keep a request marked as spam closed, for any number
\* of sessions and in every order of their statements and commits.
THEOREM SpamStaysClosed == Spec => []SpamIsClosed
<1>1. Init => SpamIsClosed
  BY DEF Init, SpamIsClosed
<1>2. ASSUME TypeOK, Order, SpamIsClosed, [Next]_vars
      PROVE  SpamIsClosed'
  <2>1. CASE rows' = rows
    BY <1>2, <2>1 DEF SpamIsClosed
  <2>2. CASE \E s \in Sessions :
                /\ req[s].id \in Ids /\ req[s].form \in Forms
                /\ rows' = [rows EXCEPT ![req[s].id] = NewRow(req[s].form)]
    BY <1>2, <2>2 DEF SpamIsClosed, NewRow, TypeOK
  <2>3. CASE \E s \in Sessions :
                /\ Commit(s)
                /\ req[s].id \in Ids /\ rows[req[s].id] \in Row
                /\ rows' = [rows EXCEPT ![req[s].id] = After(rows[req[s].id], req[s])]
    <3>1. PICK s \in Sessions :
                /\ Commit(s)
                /\ req[s].id \in Ids /\ rows[req[s].id] \in Row
                /\ rows' = [rows EXCEPT ![req[s].id] = After(rows[req[s].id], req[s])]
      BY <2>3
    <3>2. rows[req[s].id].spam => rows[req[s].id].status = Closed
      BY Absence, <1>2, <3>1 DEF SpamIsClosed
    <3>3. After(rows[req[s].id], req[s]).spam => After(rows[req[s].id], req[s]).status = Closed
      BY <1>2, <3>1, <3>2, RequestFields, AfterIsClosed DEF Commit
    <3>4. QED
      BY <1>2, <3>1, <3>3 DEF SpamIsClosed, TypeOK
  <2>4. QED
    BY <1>2, <2>1, <2>2, <2>3, WriteStep DEF vars
<1>3. QED
  BY <1>1, <1>2, Inductive, PTL DEF Spec

\* Every committed status, spam mark or delivery is the request's change of the
\* row as it is at the commit, so no change of another session is undone.
THEOREM ChangesAreKept == Spec => NoLostChange
<1>1. ASSUME TypeOK, Order, [Next]_vars
      PROVE  [\A s \in Sessions :
                pc[s] = "commit" /\ rows' # rows /\ pc'[s] = "idle"
                => rows' = [rows EXCEPT ![req[s].id] = After(rows[req[s].id], req[s])]]_vars
  <2>1. SUFFICES ASSUME Next, NEW s \in Sessions,
                        pc[s] = "commit", rows' # rows, pc'[s] = "idle"
                 PROVE  rows' = [rows EXCEPT ![req[s].id] = After(rows[req[s].id], req[s])]
    BY <1>1
  <2>2. PICK t \in Sessions :
            \/ Store(t)
            \/ /\ Commit(t)
               /\ rows' = [rows EXCEPT ![req[t].id] = After(rows[req[t].id], req[t])]
    BY <1>1, <2>1, WriteStep
  <2>3. t = s /\ ~Store(t)
    BY <1>1, <2>1, <2>2 DEF Store, Commit, Finish, Goto, TypeOK
  <2>4. QED
    BY <2>2, <2>3
<1>2. QED
  BY <1>1, Inductive, PTL DEF Spec, NoLostChange

\* A step of one form: it is stored, or a stored form is announced, or an
\* announced one answered; other steps leave the three sets alone.
LEMMA PromiseStep ==
    ASSUME TypeOK, Order, [Next]_vars
    PROVE  [Promise!Next]_(Promise!vars)
<1>1. CASE UNCHANGED <<rows, stream, answered>>
  BY <1>1 DEF Promise!vars, StoredForms, AnnouncedForms
<1>2. CASE \E s \in Sessions : Store(s)
  <2>1. PICK s \in Sessions : Store(s)
    BY <1>2
  <2> DEFINE i == req[s].id
             f == req[s].form
  <2>2. /\ i \in Ids /\ f \in Forms /\ rows[i] = NoRow
        /\ rows' = [rows EXCEPT ![i] = NewRow(f)]
        /\ UNCHANGED <<stream, answered>>
    BY <2>1, RequestFields DEF Store, TypeOK, Order, Filed
  <2>3. NewRow(f) \in Row /\ NewRow(f).form = f
    <3>1. NewRow(f) \in Row
      BY <2>2 DEF NewRow, Row, Statuses
    <3>2. QED
      BY <3>1 DEF NewRow
  <2>4. rows'[i] # NoRow /\ rows'[i].form = f /\ \A j \in Ids : j # i => rows'[j] = rows[j]
    BY Absence, <2>2, <2>3 DEF TypeOK
  <2>5. StoredForms' = StoredForms \cup {f}
    BY <2>2, <2>4 DEF StoredForms
  <2>6. \A e \in stream : e.id \in Ids /\ e.id # i
    BY <2>2 DEF TypeOK, Event, Order, Filed
  <2>7. AnnouncedForms' = AnnouncedForms
    BY <2>2, <2>4, <2>6 DEF AnnouncedForms
  <2>8. CASE f \in StoredForms
    BY <2>2, <2>5, <2>7, <2>8 DEF Promise!vars
  <2>9. CASE f \notin StoredForms
    BY <2>2, <2>5, <2>7, <2>9 DEF Promise!Next, Promise!Keep
  <2>10. QED
    BY <2>8, <2>9
<1>3. CASE \E s \in Sessions : pc[s] = "publish" /\ rows' = rows /\ answered' = answered
                              /\ stream' = stream \cup {EventOf(s)}
  <2>1. PICK s \in Sessions : pc[s] = "publish" /\ rows' = rows /\ answered' = answered
                              /\ stream' = stream \cup {EventOf(s)}
    BY <1>3
  <2> DEFINE f == req[s].form
  <2>2. f \in Forms /\ req[s].id \in Ids /\ rows[req[s].id] # NoRow /\ rows[req[s].id].form = f
    BY <2>1, RequestFields DEF TypeOK, Order, Filed
  <2>3. f \in StoredForms /\ StoredForms' = StoredForms
    BY <2>1, <2>2 DEF StoredForms
  <2>4. EventOf(s).id = req[s].id /\ EventOf(s).form = f
    BY DEF EventOf
  <2>5. AnnouncedForms' = AnnouncedForms \cup {f}
    BY <2>1, <2>2, <2>4 DEF AnnouncedForms
  <2>6. CASE f \in AnnouncedForms
    BY <2>1, <2>3, <2>5, <2>6 DEF Promise!vars
  <2>7. CASE f \notin AnnouncedForms
    BY <2>1, <2>2, <2>3, <2>5, <2>7 DEF Promise!Next, Promise!Tell
  <2>8. QED
    BY <2>6, <2>7
<1>4. CASE \E s \in Sessions : Answer(s)
  <2>1. PICK s \in Sessions : Answer(s)
    BY <1>4
  <2> DEFINE f == req[s].form
  <2>2. f \in Forms /\ rows[req[s].id] # NoRow /\ rows[req[s].id].form = f
        /\ EventOf(s) \in stream
    BY <2>1, RequestFields DEF Answer, TypeOK, Order, Filed
  <2>3. EventOf(s).id = req[s].id /\ EventOf(s).form = f
    BY DEF EventOf
  <2>4. f \in AnnouncedForms
    BY <2>2, <2>3 DEF AnnouncedForms
  <2>5. answered' = answered \cup {f} /\ UNCHANGED <<rows, stream>>
    BY <2>1 DEF Answer
  <2>6. UNCHANGED <<StoredForms, AnnouncedForms>>
    BY <2>5 DEF StoredForms, AnnouncedForms
  <2>7. CASE f \in answered
    BY <2>5, <2>6, <2>7 DEF Promise!vars
  <2>8. CASE f \notin answered
    BY <2>2, <2>4, <2>5, <2>6, <2>8 DEF Promise!Next, Promise!Settle
  <2>9. QED
    BY <2>7, <2>8
<1>5. CASE \E s \in Sessions : Commit(s)
  <2>1. PICK s \in Sessions : Commit(s)
    BY <1>5
  <2> DEFINE i == req[s].id
  <2>2. /\ i \in Ids /\ rows[i] \in Row /\ pend[s] = After(rows[i], req[s])
        /\ rows' = [rows EXCEPT ![i] = pend[s]]
        /\ UNCHANGED <<stream, answered>>
    BY <2>1, RequestFields DEF Commit, TypeOK, Order, Staged
  <2>3. pend[s] \in Row /\ pend[s].form = rows[i].form
    BY <2>1, <2>2, RequestFields, AfterIsRow DEF Commit
  <2>4. \A j \in Ids : /\ rows'[j] = NoRow <=> rows[j] = NoRow
                       /\ rows[j] # NoRow => rows'[j].form = rows[j].form
    BY Absence, <2>2, <2>3 DEF TypeOK
  <2>5. \A e \in stream : e.id \in Ids
    BY DEF TypeOK, Event
  <2>6. \A j \in Ids, g \in Forms :
          rows'[j] # NoRow /\ rows'[j].form = g <=> rows[j] # NoRow /\ rows[j].form = g
    BY <2>4
  <2>7. StoredForms' = StoredForms
    BY <2>6 DEF StoredForms
  <2>8. AnnouncedForms' = AnnouncedForms
    BY <2>2, <2>5, <2>6 DEF AnnouncedForms
  <2>9. QED
    BY <2>2, <2>7, <2>8 DEF Promise!vars
<1>6. QED
  BY <1>1, <1>2, <1>3, <1>4, <1>5
     DEF Next, vars, Submit, Publish, PublishFails, AskStatus, AskSpam, AskDelivery,
         Update, NotFound, Abort

\* CallbackRequests implements CallbackPromise: whatever fails and however often
\* visitors retry, a form is stored before it is announced, announced before
\* its visitor reads 201, and none of this is taken back.
THEOREM PromiseKept == Spec => KeepsPromise
<1>1. Init => Promise!Init
  BY DEF Init, Promise!Init, StoredForms, AnnouncedForms
<1>2. TypeOK /\ Order /\ [Next]_vars => [Promise!Next]_(Promise!vars)
  BY PromiseStep
<1>3. QED
  BY <1>1, <1>2, Inductive, PTL DEF Spec, KeepsPromise, Promise!Spec

(***************************************************************************)
(* Photo lists: what a transaction writes stays written until it ends,     *)
(* since rows are locked and the photos of its links cannot be deleted;    *)
(* and, of requests that come one after the other, what it sees of the     *)
(* list agrees with what it was asked for.                                 *)
(***************************************************************************)

\* No photo is NoPhoto, and KeepList is not a list.
PhotosApart ==
    NoPhoto \notin Images /\ KeepList \notin SUBSET Images /\ MaxFiles \in Nat /\ Crowd \subseteq Images

\* The photos a transaction has linked, and marked as main.
WrittenBy(s) == {p \in Images : \E r \in List!Rows : r[1] = p /\ lpend[s][r] \in {"plain", "main"}}
MarkedBy(s) == {p \in Images : \E r \in List!Rows : r[1] = p /\ lpend[s][r] = "main"}

\* The steps of each kind of request, and what it has: a request without a list
\* only chooses a main photo.
StepFits(s) ==
    /\ lpc[s] = "idle" <=> job[s].op = "none"
    /\ lpc[s] = "idle" \/ s \in broken => lpend[s] = List!NothingWritten /\ fresh[s] = {}
    /\ s \in broken => lpc[s] = "file"
    /\ lpc[s] = "file" => job[s].op = "upload"
    /\ lpc[s] \in {"reset", "choose", "mark", "commit"} => job[s].op = "set"
    /\ lpc[s] \in {"drop", "insert"} \/ job[s].op = "upload" => job[s].list # KeepList
    /\ lpc[s] \in {"reset", "choose", "mark"} => job[s].main # NoPhoto
    /\ job[s].op = "set" /\ job[s].list # KeepList => job[s].main \in job[s].list \cup {NoPhoto}

\* Between two files, an upload that has attached one has linked its whole list.
UploadFits(s) ==
    job[s].op = "upload" /\ s \notin broken =>
        /\ job[s].told \subseteq job[s].list \cap fresh[s]
        /\ lpc[s] \in {"drop", "insert"} => job[s].now \in job[s].list \cap fresh[s]
        /\ lpc[s] = "file" /\ job[s].told # {} => job[s].list \subseteq WrittenBy(s)

\* A request with a list has linked it, and marked its main photo.
SetFits(s) ==
    job[s].op = "set" /\ job[s].list # KeepList =>
        /\ lpc[s] \in {"reset", "choose", "mark", "commit"} => job[s].list \subseteq WrittenBy(s)
        /\ lpc[s] = "commit" /\ job[s].main # NoPhoto => job[s].main \in MarkedBy(s)

\* An UPDATE that waits has found the transaction's own rows.
WaitFits(s) ==
    s \in waiting /\ lpc[s] = "mark" =>
        \A r \in List!Rows :
            r[1] = job[s].main /\ lpend[s][r] \in {"plain", "main"} => r \in found[s]

Fits(s) == StepFits(s) /\ UploadFits(s) /\ SetFits(s) /\ WaitFits(s)

\* Linked photos exist, new photos are new, and one transaction writes a row.
Apart(s) ==
    /\ WrittenBy(s) \subseteq photos \cup fresh[s]
    /\ fresh[s] \cap photos = {}
    /\ \A t \in Sessions \ {s} :
          /\ fresh[s] \cap fresh[t] = {}
          /\ \A r \in List!Rows : lpend[s][r] = List!Keep \/ lpend[t][r] = List!Keep

AtMostOne(P) == \A p, q \in P : p = q

\* The photo that is being attached.
Current(s) == IF lpc[s] \in {"drop", "insert"} THEN {job[s].now} ELSE {}

\* The list of an upload has all that is linked and told, and nothing else that
\* still exists.
UploadAlone(s) ==
    job[s].op = "upload" /\ s \notin broken =>
        /\ List!Linked(links) \cup job[s].told \cup Current(s) \subseteq job[s].list
        /\ job[s].list \cap (photos \cup fresh[s])
             \subseteq List!Linked(links) \cup job[s].told \cup Current(s)
        /\ lpc[s] = "file" => List!Linked(List!Seen(s)) = List!Linked(links) \cup job[s].told

\* A request sees its list once it has linked it.
SetAlone(s) ==
    job[s].op = "set" /\ lpc[s] \in {"reset", "choose", "mark", "commit"} =>
        List!Linked(List!Seen(s)) =
            (IF job[s].list = KeepList THEN List!Linked(links) ELSE job[s].list)

\* Without a list: the main photo is linked, and once all links are reset, no
\* photo of theirs can be deleted.
ChoiceAlone(s) ==
    job[s].op = "set" /\ job[s].list = KeepList =>
        /\ job[s].main \in List!Linked(links) \/ job[s].main \notin photos
        /\ lpc[s] \in {"choose", "mark", "commit"} =>
              \A r \in List!Rows : List!Seen(s)[r] # "none" => lpend[s][r] # List!Keep
        /\ lpc[s] = "mark" => job[s].main \in List!Linked(List!Seen(s))
        /\ lpc[s] = "commit" => List!MainOf(List!Seen(s)) = {job[s].main}

\* What the transaction sees has one main photo at most, and none when the main
\* photo is about to be chosen.
MainAlone(s) ==
    /\ AtMostOne(List!MainOf(List!Seen(s)))
    /\ lpc[s] \in {"choose", "mark"} => List!MainOf(List!Seen(s)) = {}
    /\ lpc[s] = "insert" => List!Linked(List!Seen(s)) = {}

Alone(s) ==
    /\ s \notin waiting
    /\ lpc[s] # "idle" =>
        /\ \A t \in Sessions \ {s} : lpc[t] = "idle"
        /\ MainAlone(s) /\ UploadAlone(s) /\ SetAlone(s) /\ ChoiceAlone(s)

ListInv ==
    /\ List!TypeOK
    /\ \A s \in Sessions : Fits(s) /\ Apart(s)
    /\ serial => AtMostOne(List!MainOf(links)) /\ \A s \in Sessions : Alone(s)

Jobs == [op: {"none", "set", "upload"}, list: (SUBSET Images) \cup {KeepList},
         main: Images \cup {NoPhoto}, files: 0..MaxFiles,
         now: Images \cup {NoPhoto}, told: SUBSET Images]

LEMMA RowPhoto == \A r \in List!Rows : r[1] \in Images
  BY DEF List!Rows

LEMMA EmptyJob == PhotosApart => List!NoJob \in Jobs /\ List!NoJob.op = "none"
<1>1. PhotosApart => 0 \in 0..MaxFiles
  BY DEF PhotosApart
<1> QED
  BY <1>1 DEF List!NoJob, Jobs

LEMMA ListInit == ASSUME PhotosApart PROVE List!Init => ListInv
<1> SUFFICES ASSUME List!Init PROVE ListInv
  OBVIOUS
<1>1. /\ photos = {} /\ broken = {} /\ waiting = {}
      /\ owner \in {"horse", "item"} /\ serial \in BOOLEAN
      /\ links = [r \in List!Rows |-> "none"]
      /\ lpend = [s \in Sessions |-> List!NothingWritten]
      /\ fresh = [s \in Sessions |-> {}] /\ found = [s \in Sessions |-> {}]
      /\ lpc = [s \in Sessions |-> "idle"] /\ job = [s \in Sessions |-> List!NoJob]
  BY DEF List!Init
<1>2. List!Linked(links) = {} /\ List!MainOf(links) = {}
  BY <1>1 DEF List!Linked, List!MainOf
<1>3. job \in [Sessions -> Jobs]
  BY <1>1, EmptyJob
<1>4. links \in [List!Rows -> List!RowStates]
      /\ lpend \in [Sessions -> [List!Rows -> List!RowStates \cup {List!Keep}]]
  BY <1>1 DEF List!RowStates, List!NothingWritten
<1>5. List!TypeOK
  BY <1>1, <1>2, <1>3, <1>4 DEF List!TypeOK, Jobs
<1>6. \A s \in Sessions : WrittenBy(s) = {} /\ \A r \in List!Rows : lpend[s][r] = List!Keep
  BY <1>1 DEF WrittenBy, List!NothingWritten, List!Keep
<1>7. \A s \in Sessions : Fits(s) /\ Apart(s) /\ Alone(s)
  BY <1>1, <1>6, EmptyJob DEF Fits, StepFits, UploadFits, SetFits, WaitFits, Apart, Alone
<1> QED
  BY <1>2, <1>5, <1>7 DEF ListInv, AtMostOne

(***************************************************************************)
(* Steps of one request                                                    *)
(***************************************************************************)

\* A session that takes no step keeps what is its own.
Rests(t) ==
    /\ lpc'[t] = lpc[t] /\ job'[t] = job[t] /\ lpend'[t] = lpend[t] /\ fresh'[t] = fresh[t]
    /\ found'[t] = found[t]
    /\ t \in broken' <=> t \in broken
    /\ t \in waiting' <=> t \in waiting

LEMMA RestKeeps == ASSUME NEW t, Fits(t), Rests(t) PROVE Fits(t)'
<1>1. WrittenBy(t)' = WrittenBy(t) /\ MarkedBy(t)' = MarkedBy(t)
  BY DEF Rests, WrittenBy, MarkedBy
<1> QED
  BY <1>1 DEF Rests, Fits, StepFits, UploadFits, SetFits, WaitFits

\* What a step of a request that leaves the committed tables has to show.
LEMMA OwnStep ==
    ASSUME ListInv, NEW s \in Sessions,
           serial => \A t \in Sessions \ {s} : lpc[t] = "idle",
           UNCHANGED <<owner, serial, photos, links>>,
           \A t \in Sessions \ {s} : Rests(t),
           List!TypeOK', Fits(s)',
           WrittenBy(s)' \subseteq photos \cup fresh'[s],
           fresh'[s] \cap photos = {},
           \A t \in Sessions \ {s} : fresh'[s] \cap fresh[t] = {},
           \A t \in Sessions \ {s}, r \in List!Rows :
               lpend'[s][r] = List!Keep \/ lpend[t][r] = List!Keep,
           serial => Alone(s)'
    PROVE  ListInv'
<1>1. \A t \in Sessions : Fits(t)'
  BY RestKeeps DEF ListInv
<1>2. ASSUME NEW t \in Sessions PROVE Apart(t)'
  <2>1. CASE t = s
    BY <2>1 DEF Apart, Rests
  <2>2. CASE t # s
    <3>1. WrittenBy(t)' = WrittenBy(t) /\ fresh'[t] = fresh[t] /\ lpend'[t] = lpend[t]
      BY <2>2 DEF Rests, WrittenBy
    <3>2. Apart(t)
      BY DEF ListInv
    <3> QED
      BY <2>2, <3>1, <3>2 DEF Apart, Rests
  <2> QED
    BY <2>1, <2>2
<1>3. ASSUME serial, NEW t \in Sessions \ {s} PROVE Alone(t)'
  BY <1>3 DEF ListInv, Alone, Rests
<1>4. serial' = serial /\ (serial => AtMostOne(List!MainOf(links))')
  BY DEF ListInv, AtMostOne, List!MainOf
<1> QED
  BY <1>1, <1>2, <1>3, <1>4 DEF ListInv


\* A transaction that has written nothing sees what is committed.
LEMMA SeesCommitted ==
    ASSUME List!TypeOK, NEW s, lpend[s] = List!NothingWritten
    PROVE  List!Seen(s) = links
  BY DEF List!TypeOK, List!Seen, List!NothingWritten

\* A request begins: it has told nothing, and reads what is committed.
LEMMA ListStart ==
    ASSUME PhotosApart, ListInv, NEW s \in Sessions, NEW j \in Jobs, NEW first,
           List!Start(s, j, first), j.told = {},
           \/ /\ j.op = "set" /\ first = "reset" /\ j.list = KeepList
              /\ j.main \in List!Linked(links)
           \/ /\ j.op = "set" /\ first = "drop" /\ j.list # KeepList
              /\ j.main \in j.list \cup {NoPhoto}
           \/ j.op = "upload" /\ first = "file" /\ j.list = List!Linked(links)
    PROVE  ListInv'
<1>1. /\ lpc[s] = "idle" /\ (serial => \A t \in Sessions \ {s} : lpc[t] = "idle")
      /\ UNCHANGED <<owner, serial, photos, links, lpend, fresh, broken>>
      /\ waiting' = waiting \ {s} /\ found' = [found EXCEPT ![s] = {}]
      /\ job' = [job EXCEPT ![s] = j] /\ lpc' = [lpc EXCEPT ![s] = first]
  BY DEF List!Start, List!Admitted, List!Goto
<1>2. /\ lpend[s] = List!NothingWritten /\ fresh[s] = {} /\ s \notin broken
      /\ List!Linked(links) \subseteq photos /\ photos \in SUBSET Images
  BY <1>1 DEF ListInv, Fits, StepFits, List!TypeOK
<1>3. /\ job'[s] = j /\ lpc'[s] = first /\ s \notin waiting'
      /\ first \in {"reset", "drop", "file"} /\ j.op \in {"set", "upload"}
      /\ \A t \in Sessions \ {s} : Rests(t)
  BY <1>1 DEF ListInv, List!TypeOK, Rests
<1>4. List!TypeOK'
  BY <1>1, <1>3 DEF ListInv, List!TypeOK, List!Linked, Jobs
<1>5. /\ j.main \in List!Linked(links) => j.main # NoPhoto
      /\ j.list = List!Linked(links) => j.list # KeepList
  BY <1>2 DEF PhotosApart
<1>6. StepFits(s)'
  BY <1>1, <1>2, <1>3, <1>5 DEF StepFits
<1>7. Fits(s)'
  BY <1>1, <1>3, <1>6 DEF Fits, UploadFits, SetFits, WaitFits
<1>8. Apart(s) /\ WrittenBy(s)' = WrittenBy(s)
  BY <1>1 DEF ListInv, WrittenBy
<1>9. ASSUME serial PROVE Alone(s)'
  <2>1. List!Seen(s) = links /\ List!Seen(s)' = links
    BY <1>1, <1>2, SeesCommitted DEF ListInv, List!Seen
  <2>2. /\ List!Linked(links)' = List!Linked(links)
        /\ List!Linked(List!Seen(s)') = List!Linked(links)
        /\ List!MainOf(List!Seen(s)') = List!MainOf(links)
    BY <1>1, <2>1
  <2>3. MainAlone(s)'
    BY <1>3, <1>9, <2>1, <2>2 DEF ListInv, MainAlone
  <2>4. UploadAlone(s)' /\ SetAlone(s)' /\ ChoiceAlone(s)'
    BY <1>1, <1>2, <1>3, <2>1, <2>2 DEF UploadAlone, SetAlone, ChoiceAlone, Current
  <2> QED
    BY <1>1, <1>3, <1>9, <2>3, <2>4 DEF Alone
<1> QED
  BY <1>1, <1>3, <1>4, <1>7, <1>8, <1>9, OwnStep DEF Apart

\* A request waits only for another: not where requests do not overlap.
LEMMA ListWait == ASSUME ListInv, NEW s \in Sessions, List!Wait(s) PROVE ListInv'
<1>1. /\ lpc[s] \in {"drop", "reset", "mark"} /\ List!Blockers(s) # {} /\ s \notin waiting
      /\ waiting' = waiting \cup {s} /\ found' = [found EXCEPT ![s] = List!Matching(s)]
      /\ UNCHANGED <<owner, serial, photos, links, lpend, fresh, broken, lpc, job>>
  BY DEF List!Wait
<1>2. ~serial
  <2> SUFFICES ASSUME serial PROVE FALSE
    OBVIOUS
  <2>1. PICK t \in Sessions \ {s}, r \in List!Rows : lpend[t][r] # List!Keep
    <3>1. List!Target(s) \subseteq List!Rows
      BY <1>1 DEF List!Target, List!Matching, List!Visible
    <3> QED
      BY <1>1, <3>1 DEF List!Blockers
  <2>2. lpc[t] = "idle"
    BY <1>1 DEF ListInv, Alone
  <2>3. lpend[t] = List!NothingWritten
    BY <2>2 DEF ListInv, Fits, StepFits
  <2> QED
    BY <2>1, <2>3 DEF List!NothingWritten
<1>3. List!Matching(s) \subseteq List!Rows
  BY <1>1 DEF List!Matching, List!Visible
<1>4. List!TypeOK'
  BY <1>1, <1>3 DEF ListInv, List!TypeOK, List!Linked
<1>5. \A t \in Sessions \ {s} : Rests(t)
  BY <1>1 DEF Rests, ListInv, List!TypeOK
<1>6. WrittenBy(s)' = WrittenBy(s) /\ MarkedBy(s)' = MarkedBy(s)
  BY <1>1 DEF WrittenBy, MarkedBy
<1>7. WaitFits(s)'
  <2> SUFFICES ASSUME lpc[s] = "mark", NEW r \in List!Rows,
                      r[1] = job[s].main, lpend[s][r] \in {"plain", "main"}
               PROVE  r \in List!Matching(s)
    BY <1>1 DEF WaitFits, ListInv, List!TypeOK
  <2> QED
    BY DEF List!Matching, List!Visible, List!Seen, List!Keep
<1>8. Fits(s)'
  BY <1>1, <1>6, <1>7 DEF ListInv, Fits, StepFits, UploadFits, SetFits
<1>9. Apart(s)
  BY DEF ListInv
<1> QED
  BY <1>1, <1>2, <1>4, <1>5, <1>6, <1>8, <1>9, OwnStep DEF Apart

LEMMA ListFile ==
    ASSUME PhotosApart, ListInv, NEW s \in Sessions, List!CreateFile(s)
    PROVE  ListInv'
<1>1. /\ lpc[s] = "file" /\ job[s].files > 0 /\ s \notin broken
      /\ lpc' = [lpc EXCEPT ![s] = "drop"]
      /\ waiting' = waiting \ {s} /\ found' = [found EXCEPT ![s] = {}]
      /\ UNCHANGED <<owner, serial, photos, links, lpend, broken>>
  BY DEF List!CreateFile, List!Goto
<1>2. PICK p \in List!Unused :
          /\ fresh' = [fresh EXCEPT ![s] = @ \cup {p}]
          /\ job' = [job EXCEPT ![s].list = @ \cup {p}, ![s].files = @ - 1, ![s].now = p]
  BY DEF List!CreateFile
<1>3. job[s].op = "upload" /\ job[s].list \in SUBSET Images /\ job[s] \in Jobs
  BY <1>1 DEF ListInv, Fits, StepFits, List!TypeOK, Jobs
<1>4. /\ p \in (IF serial THEN Images ELSE Crowd) /\ p \notin photos
      /\ \A t \in Sessions : p \notin fresh[t] /\ p \notin job[t].told
      /\ job[s].list # KeepList => p \notin job[s].list
  BY <1>2 DEF List!Unused
<1>5. p \in Images /\ job[s].list # KeepList
  BY <1>3, <1>4 DEF PhotosApart
<1>6. /\ job'[s] \in Jobs /\ lpc'[s] = "drop" /\ fresh'[s] = fresh[s] \cup {p} /\ s \notin waiting'
      /\ job'[s].op = "upload" /\ job'[s].list = job[s].list \cup {p}
      /\ job'[s].main = job[s].main /\ job'[s].told = job[s].told /\ job'[s].now = p
      /\ \A t \in Sessions \ {s} : Rests(t)
  <2>1. job'[s] = [job[s] EXCEPT !.list = @ \cup {p}, !.files = @ - 1, !.now = p]
    BY <1>2 DEF ListInv, List!TypeOK
  <2>2. /\ job'[s] \in Jobs /\ job'[s].op = job[s].op /\ job'[s].list = job[s].list \cup {p}
        /\ job'[s].main = job[s].main /\ job'[s].told = job[s].told /\ job'[s].now = p
    <3>1. job[s].files - 1 \in 0..MaxFiles /\ job[s].list \cup {p} \in SUBSET Images
      BY <1>1, <1>3, <1>5 DEF Jobs, PhotosApart
    <3> QED
      BY <1>3, <1>5, <2>1, <3>1 DEF Jobs
  <2>3. lpc'[s] = "drop" /\ fresh'[s] = fresh[s] \cup {p} /\ s \notin waiting'
    BY <1>1, <1>2 DEF ListInv, List!TypeOK
  <2>4. \A t \in Sessions \ {s} : Rests(t)
    BY <1>1, <1>2 DEF ListInv, List!TypeOK, Rests
  <2> QED
    BY <1>3, <2>2, <2>3, <2>4
<1>7. List!TypeOK'
  BY <1>1, <1>2, <1>5, <1>6 DEF ListInv, List!TypeOK, List!Linked, Jobs
<1>8. WrittenBy(s)' = WrittenBy(s)
  BY <1>1 DEF WrittenBy
<1>9. Fits(s)'
  BY <1>1, <1>3, <1>5, <1>6, <1>8
     DEF ListInv, PhotosApart, Jobs, Fits, StepFits, UploadFits, SetFits, WaitFits
<1>10. Apart(s)
  BY DEF ListInv
<1>11. ASSUME serial PROVE Alone(s)'
  <2>1. Alone(s) /\ List!Seen(s)' = List!Seen(s)
    BY <1>1, <1>11 DEF ListInv, List!Seen
  <2>2. /\ List!Linked(links)' = List!Linked(links)
        /\ List!MainOf(List!Seen(s)') = List!MainOf(List!Seen(s))
    BY <1>1, <2>1
  <2>3. UploadAlone(s)'
    BY <1>1, <1>3, <1>4, <1>6, <2>1, <2>2 DEF Alone, UploadAlone, Current
  <2> QED
    BY <1>1, <1>6, <2>1, <2>2, <2>3 DEF Alone, MainAlone, SetAlone, ChoiceAlone, Rests
<1>12. serial => \A t \in Sessions \ {s} : lpc[t] = "idle"
  BY <1>1 DEF ListInv, Alone
<1> QED
  BY <1>1, <1>4, <1>6, <1>7, <1>8, <1>9, <1>10, <1>11, <1>12, OwnStep DEF Apart

\* What a failed statement leaves of an upload: the transaction has lost all.
LEMMA ListUndo ==
    ASSUME ListInv, NEW s \in Sessions, List!Undo(s), lpc[s] # "idle", NEW j \in Jobs,
           job' = [job EXCEPT ![s] = j], job[s].op = "upload", j.op = "upload",
           j.list = job[s].list, lpc' = [lpc EXCEPT ![s] = "file"],
           waiting' \in SUBSET waiting, waiting \ {s} \in SUBSET waiting',
           found' \in {found, [found EXCEPT ![s] = {}]},
           UNCHANGED <<owner, serial, photos, links>>
    PROVE  ListInv'
<1>1. /\ broken' = broken \cup {s} /\ lpend' = [lpend EXCEPT ![s] = List!NothingWritten]
      /\ fresh' = [fresh EXCEPT ![s] = {}]
  BY DEF List!Undo
<1>2. /\ job'[s] = j /\ lpc'[s] = "file" /\ lpend'[s] = List!NothingWritten /\ fresh'[s] = {}
      /\ \A t \in Sessions \ {s} : Rests(t)
  BY <1>1 DEF ListInv, List!TypeOK, Rests
<1>3. List!TypeOK'
  BY <1>1, <1>2 DEF ListInv, List!TypeOK, List!Linked, Jobs, List!NothingWritten, List!RowStates
<1>4. Fits(s) /\ Apart(s)
  BY DEF ListInv
<1>5. Fits(s)'
  BY <1>1, <1>2, <1>4 DEF Fits, StepFits, UploadFits, SetFits, WaitFits
<1>6. WrittenBy(s)' = {} /\ \A r \in List!Rows : lpend'[s][r] = List!Keep
  BY <1>2 DEF WrittenBy, List!NothingWritten, List!Keep
<1>7. ASSUME serial PROVE Alone(s)'
  <2>1. Alone(s) /\ AtMostOne(List!MainOf(links)) /\ links \in [List!Rows -> List!RowStates]
    BY <1>7 DEF ListInv, List!TypeOK
  <2>2. List!Seen(s)' = links
    BY <1>2, <2>1 DEF List!Seen, List!NothingWritten
  <2>3. MainAlone(s)' /\ UploadAlone(s)' /\ SetAlone(s)' /\ ChoiceAlone(s)'
    BY <1>1, <1>2, <2>1, <2>2 DEF MainAlone, UploadAlone, SetAlone, ChoiceAlone
  <2> QED
    BY <1>2, <2>1, <2>3 DEF Alone, Rests
<1>8. serial => \A t \in Sessions \ {s} : lpc[t] = "idle"
  BY DEF ListInv, Alone
<1> QED
  BY <1>2, <1>3, <1>5, <1>6, <1>7, <1>8, OwnStep

LEMMA ListFileFails ==
    ASSUME PhotosApart, ListInv, NEW s \in Sessions, List!CreateFails(s)
    PROVE  ListInv'
<1> DEFINE j == [job[s] EXCEPT !.files = @ - 1]
<1>1. /\ lpc[s] = "file" /\ job[s].files > 0 /\ job[s] \in Jobs /\ job[s].op = "upload"
      /\ job' = [job EXCEPT ![s].files = @ - 1]
      /\ UNCHANGED <<owner, serial, photos, links, lpc, waiting, found>>
  BY DEF List!CreateFails, ListInv, Fits, StepFits, List!TypeOK, Jobs
<1>2. /\ j \in Jobs /\ j.op = job[s].op /\ j.list = job[s].list /\ j.main = job[s].main
      /\ j.told = job[s].told /\ j.now = job[s].now
      /\ job' = [job EXCEPT ![s] = j]
  BY <1>1 DEF PhotosApart, Jobs
<1> HIDE DEF j
<1>3. CASE List!Undo(s)
  <2>1. /\ lpc' = [lpc EXCEPT ![s] = "file"] /\ lpc[s] # "idle"
        /\ waiting' \in SUBSET waiting /\ waiting \ {s} \in SUBSET waiting'
        /\ found' \in {found, [found EXCEPT ![s] = {}]}
    BY <1>1 DEF ListInv, List!TypeOK
  <2> QED
    <3>1. UNCHANGED <<owner, serial, photos, links>>
      BY <1>1
    <3>2. job[s].op = "upload" /\ j.op = "upload" /\ j.list = job[s].list /\ j \in Jobs
      BY <1>1, <1>2
    <3>3. job' = [job EXCEPT ![s] = j]
      BY <1>2
    <3> QED
      BY <1>3, <2>1, <3>1, <3>2, <3>3, ListUndo
<1>4. CASE UNCHANGED <<broken, lpend, fresh>>
  <2>1. /\ job'[s] = j /\ lpc'[s] = lpc[s] /\ lpc[s] = "file" /\ \A t \in Sessions \ {s} : Rests(t)
    BY <1>1, <1>2, <1>4 DEF ListInv, List!TypeOK, Rests
  <2>2. List!TypeOK'
    <3>1. job' \in [Sessions -> Jobs]
      BY <1>2 DEF ListInv, List!TypeOK, Jobs
    <3> QED
      BY <1>1, <1>4, <3>1 DEF ListInv, List!TypeOK, List!Linked, Jobs
  <2>3. Fits(s) /\ Apart(s) /\ WrittenBy(s)' = WrittenBy(s)
    BY <1>4 DEF ListInv, WrittenBy
  <2>4. Fits(s)'
    BY <1>1, <1>2, <1>4, <2>1, <2>3 DEF Fits, StepFits, UploadFits, SetFits, WaitFits
  <2>5. ASSUME serial PROVE Alone(s)'
    <3>1. Alone(s) /\ List!Seen(s)' = List!Seen(s)
      BY <1>1, <1>4, <2>5 DEF ListInv, List!Seen
    <3>2. /\ List!Linked(links)' = List!Linked(links)
          /\ List!Linked(List!Seen(s)') = List!Linked(List!Seen(s))
          /\ List!MainOf(List!Seen(s)') = List!MainOf(List!Seen(s))
      BY <1>1, <3>1
    <3>3. MainAlone(s)' /\ UploadAlone(s)' /\ SetAlone(s)' /\ ChoiceAlone(s)'
      BY <1>1, <1>2, <1>4, <2>1, <3>1, <3>2
         DEF Alone, MainAlone, UploadAlone, SetAlone, ChoiceAlone, Current
    <3> QED
      BY <1>1, <2>1, <3>1, <3>3 DEF Alone, Rests
  <2>6. serial => \A t \in Sessions \ {s} : lpc[t] = "idle"
    BY <1>1 DEF ListInv, Alone
  <2> QED
    BY <1>1, <1>4, <2>1, <2>2, <2>3, <2>4, <2>5, <2>6, OwnStep DEF Apart
<1> QED
  BY <1>3, <1>4 DEF List!CreateFails

(***************************************************************************)
(* Statements                                                              *)
(***************************************************************************)

\* The photos of the rows a transaction sees exist.
LEMMA VisibleExist ==
    ASSUME ListInv, NEW s \in Sessions, NEW r \in List!Visible(s)
    PROVE  r \in List!Rows /\ r[1] \in photos \cup fresh[s]
<1>1. r \in List!Rows /\ List!Seen(s)[r] # "none" /\ r[1] \in Images
  BY RowPhoto DEF List!Visible
<1>2. CASE lpend[s][r] = List!Keep
  <2>1. links[r] # "none"
    BY <1>1, <1>2 DEF List!Seen
  <2> QED
    BY <1>1, <2>1 DEF ListInv, List!TypeOK, List!Linked
<1>3. CASE lpend[s][r] # List!Keep
  <2>1. lpend[s][r] \in {"plain", "main"}
    BY <1>1, <1>3 DEF List!Seen, ListInv, List!TypeOK, List!RowStates
  <2> QED
    BY <1>1, <2>1 DEF ListInv, Apart, WrittenBy
<1> QED
  BY <1>1, <1>2, <1>3

\* What a statement that writes rows nobody else has written does not disturb.
LEMMA ListWrite ==
    ASSUME ListInv, NEW s \in Sessions, lpc[s] # "idle", NEW W,
           NEW new \in [List!Rows -> List!RowStates \cup {List!Keep}],
           lpend' = [lpend EXCEPT ![s] = new],
           \A r \in List!Rows \ W : new[r] = lpend[s][r],
           \A r \in List!Rows \cap W :
               /\ new[r] = "none" \/ r[1] \in photos \cup fresh[s]
               /\ \A t \in Sessions \ {s} : lpend[t][r] = List!Keep,
           NEW j \in Jobs, job' = [job EXCEPT ![s] = j],
           NEW to \in {"file", "insert", "reset", "choose", "mark", "commit"}, List!Goto(s, to),
           UNCHANGED <<owner, serial, photos, links, fresh, broken>>,
           Fits(s)',
           serial => MainAlone(s)' /\ UploadAlone(s)' /\ SetAlone(s)' /\ ChoiceAlone(s)'
    PROVE  ListInv'
<1>1. /\ lpc' = [lpc EXCEPT ![s] = to]
      /\ waiting' = waiting \ {s} /\ found' = [found EXCEPT ![s] = {}]
  BY DEF List!Goto
<1>2. lpend'[s] = new /\ lpc'[s] = to /\ job'[s] = j /\ \A t \in Sessions \ {s} : Rests(t)
  BY <1>1 DEF ListInv, List!TypeOK, Rests
<1>3. List!TypeOK'
  BY <1>1 DEF ListInv, List!TypeOK, List!Linked, Jobs
<1>4. Apart(s)
  BY DEF ListInv
<1>5. WrittenBy(s)' \subseteq photos \cup fresh[s]
  <2> SUFFICES ASSUME NEW r \in List!Rows, r[1] \in Images, new[r] \in {"plain", "main"}
               PROVE  r[1] \in photos \cup fresh[s]
    BY <1>2 DEF WrittenBy
  <2> QED
    BY <1>4 DEF Apart, WrittenBy
<1>6. \A t \in Sessions \ {s}, r \in List!Rows : new[r] = List!Keep \/ lpend[t][r] = List!Keep
  BY <1>4 DEF Apart
<1>7. serial => \A t \in Sessions \ {s} : lpc[t] = "idle"
  BY DEF ListInv, Alone
<1>8. serial => Alone(s)'
  BY <1>1, <1>2, <1>7 DEF Alone, Rests
<1> QED
  BY <1>2, <1>3, <1>4, <1>5, <1>6, <1>7, <1>8, OwnStep DEF Apart

\* What the transaction sees of the rows afterwards.
LEMMA AfterWrite ==
    ASSUME ListInv, NEW s \in Sessions, links' = links, NEW new, lpend' = [lpend EXCEPT ![s] = new]
    PROVE  /\ lpend'[s] = new
           /\ \A r \in List!Rows :
                 List!Seen(s)'[r] = IF new[r] = List!Keep THEN links[r] ELSE new[r]
  BY DEF ListInv, List!TypeOK, List!Seen

\* The rows a statement writes: others have not written them, and where requests
\* do not overlap, they are those that match.
LEMMA RunsOn ==
    ASSUME ListInv, NEW s \in Sessions, NEW point \in {"drop", "reset", "mark"}, List!Runs(s, point)
    PROVE  /\ List!Target(s) \subseteq List!Visible(s) /\ List!Visible(s) \subseteq List!Rows
           /\ \A r \in List!Target(s), t \in Sessions \ {s} : lpend[t][r] = List!Keep
           /\ serial => List!Target(s) = List!Matching(s)
           /\ lpc[s] = point /\ s \notin broken /\ job[s] \in Jobs
<1>1. List!Matching(s) \subseteq List!Visible(s)
  BY DEF List!Runs, List!Matching
<1> QED
  BY <1>1 DEF List!Runs, List!Blockers, List!Target, List!Visible, ListInv, Alone, Fits, StepFits,
              List!TypeOK, Jobs

LEMMA ListDrop ==
    ASSUME ListInv, NEW s \in Sessions, List!DropLinks(s)
    PROVE  ListInv'
<1> DEFINE W == List!Target(s)
           new == [r \in List!Rows |-> IF r \in W THEN "none" ELSE lpend[s][r]]
<1>1. /\ List!Runs(s, "drop") /\ List!Goto(s, "insert")
      /\ lpend' = [lpend EXCEPT ![s] = [r \in List!Rows |-> IF r \in W THEN "none" ELSE @[r]]]
      /\ UNCHANGED <<owner, serial, photos, links, fresh, broken, job>>
  BY DEF List!DropLinks
<1>2. /\ \A r \in W, t \in Sessions \ {s} : lpend[t][r] = List!Keep
      /\ lpc[s] = "drop" /\ s \notin broken /\ job[s] \in Jobs
      /\ serial => W = List!Visible(s)
  BY <1>1, RunsOn DEF List!Matching
<1>3. /\ new \in [List!Rows -> List!RowStates \cup {List!Keep}]
      /\ \A r \in List!Rows \cap W : new[r] = "none"
      /\ \A r \in List!Rows \ W : new[r] = lpend[s][r]
  BY DEF List!RowStates, ListInv, List!TypeOK
<1>4. /\ lpend' = [lpend EXCEPT ![s] = new]
      /\ job' = [job EXCEPT ![s] = job[s]]
      /\ lpc'[s] = "insert" /\ s \notin waiting' /\ job'[s] = job[s]
  BY <1>1 DEF List!Goto, ListInv, List!TypeOK
<1> HIDE DEF new, W
<1>5. \A r \in List!Rows : List!Seen(s)'[r] = IF r \in W THEN "none" ELSE List!Seen(s)[r]
  BY <1>1, <1>3, <1>4, AfterWrite DEF List!Seen, List!Keep
<1>6. Fits(s) /\ fresh' = fresh /\ broken' = broken /\ job'[s] = job[s]
  BY <1>1, <1>4 DEF ListInv
<1>7. Fits(s)'
  <2>1. StepFits(s)'
    BY <1>2, <1>4, <1>6 DEF Fits, StepFits
  <2>2. UploadFits(s)'
    BY <1>2, <1>4, <1>6 DEF Fits, UploadFits
  <2>3. SetFits(s)'
    BY <1>2, <1>4, <1>6 DEF Fits, SetFits
  <2>4. WaitFits(s)'
    BY <1>2, <1>4, <1>6 DEF Fits, WaitFits
  <2> QED
    BY <2>1, <2>2, <2>3, <2>4 DEF Fits
<1>8. ASSUME serial
      PROVE  MainAlone(s)' /\ UploadAlone(s)' /\ SetAlone(s)' /\ ChoiceAlone(s)'
  <2>1. Alone(s) /\ List!Linked(links)' = List!Linked(links)
    BY <1>1, <1>8 DEF ListInv, List!Linked
  <2>2. \A r \in List!Rows : List!Seen(s)'[r] = "none"
    BY <1>2, <1>5, <1>8 DEF List!Visible
  <2>3. List!Linked(List!Seen(s)') = {} /\ List!MainOf(List!Seen(s)') = {}
    BY <2>2 DEF List!Linked, List!MainOf
  <2>4. MainAlone(s)'
    BY <1>4, <2>3 DEF MainAlone, AtMostOne
  <2>5. UploadAlone(s)'
    BY <1>1, <1>2, <1>4, <1>6, <2>1 DEF Alone, UploadAlone, Current
  <2>6. SetAlone(s)' /\ ChoiceAlone(s)'
    BY <1>2, <1>4, <1>6 DEF Fits, StepFits, SetAlone, ChoiceAlone
  <2> QED
    BY <2>4, <2>5, <2>6
<1>9. \A r \in List!Rows \cap W :
          /\ new[r] = "none" \/ r[1] \in photos \cup fresh[s]
          /\ \A t \in Sessions \ {s} : lpend[t][r] = List!Keep
  BY <1>2, <1>3
<1>10. lpc[s] # "idle" /\ job[s] \in Jobs /\ List!Goto(s, "insert")
  BY <1>1, <1>2
<1>11. UNCHANGED <<owner, serial, photos, links, fresh, broken>>
  BY <1>1
<1> QED
  BY <1>3, <1>4, <1>7, <1>8, <1>9, <1>10, <1>11, ListWrite

\* The rows of an INSERT: new ones, for every photo that it can find one for.
LEMMA NewRowsFree ==
    ASSUME NEW s \in Sessions, NEW P
    PROVE  /\ List!NewRows(s, P) \subseteq List!Rows
           /\ \A r \in List!NewRows(s, P) : r[1] \in P /\ links[r] = "none"
           /\ \A r \in List!NewRows(s, P), t \in Sessions \ {s} : lpend[t][r] = List!Keep
  BY DEF List!NewRows, List!Free

LEMMA ListInsert ==
    ASSUME ListInv, NEW s \in Sessions, List!InsertLinks(s)
    PROVE  ListInv'
<1> DEFINE W == List!NewRows(s, job[s].list)
           main(r) == owner = "horse" /\ r[1] = job[s].main
           new == [r \in List!Rows |-> IF r \in W THEN IF main(r) THEN "main" ELSE "plain"
                                       ELSE lpend[s][r]]
           upload == job[s].op = "upload"
           j == IF upload THEN [job[s] EXCEPT !.told = @ \cup {job[s].now}, !.now = NoPhoto] ELSE job[s]
           to == IF upload THEN "file"
                 ELSE IF owner = "item" /\ job[s].main # NoPhoto THEN "reset" ELSE "commit"
<1>1. /\ lpc[s] = "insert" /\ job[s] \in Jobs /\ job[s].list \subseteq photos \cup fresh[s]
      /\ \A p \in job[s].list : \E r \in W : r[1] = p
      /\ lpend' = [lpend EXCEPT ![s] = new]
      /\ job' = [job EXCEPT ![s] = j]
      /\ UNCHANGED <<owner, serial, photos, links, fresh, broken>>
  BY DEF List!InsertLinks, List!Runs, List!Written, ListInv, List!TypeOK, Jobs
<1>2. /\ List!Goto(s, to) /\ Fits(s)
      /\ owner \in {"horse", "item"}
  BY DEF List!InsertLinks, ListInv, List!TypeOK
<1>3. /\ s \notin broken /\ job[s].list # KeepList /\ job[s].list \in SUBSET Images
      /\ job[s].op \in {"set", "upload"}
  BY <1>1, <1>2 DEF Fits, StepFits, Jobs
<1>4. /\ W \subseteq List!Rows
      /\ \A r \in W : r[1] \in job[s].list /\ links[r] = "none"
      /\ \A r \in W, t \in Sessions \ {s} : lpend[t][r] = List!Keep
  BY NewRowsFree
<1>5. /\ new \in [List!Rows -> List!RowStates \cup {List!Keep}]
      /\ \A r \in W : new[r] = IF main(r) THEN "main" ELSE "plain"
      /\ \A r \in List!Rows \ W : new[r] = lpend[s][r]
  BY <1>4 DEF List!RowStates, ListInv, List!TypeOK
<1>6. /\ upload => job[s].now \in job[s].list \cap fresh[s] /\ job[s].told \subseteq job[s].list \cap fresh[s]
      /\ j \in Jobs /\ j.op = job[s].op /\ j.list = job[s].list /\ j.main = job[s].main
      /\ j.told = IF upload THEN job[s].told \cup {job[s].now} ELSE job[s].told
  BY <1>1, <1>2, <1>3 DEF Fits, UploadFits, Jobs
<1>7. /\ to \in {"file", "reset", "commit"} /\ (to = "file" <=> upload)
      /\ to = "reset" => job[s].main # NoPhoto
      /\ to = "commit" => owner = "horse" \/ job[s].main = NoPhoto
  BY <1>2
<1> HIDE DEF W, new, j, to
<1>8. lpc'[s] = to /\ s \notin waiting' /\ job'[s] = j
  BY <1>1, <1>2 DEF List!Goto, ListInv, List!TypeOK
<1>9. \A r \in List!Rows :
          List!Seen(s)'[r] = IF r \in W THEN IF main(r) THEN "main" ELSE "plain" ELSE List!Seen(s)[r]
  <2>1. \A r \in List!Rows :
            List!Seen(s)'[r] = IF new[r] = List!Keep THEN links[r] ELSE new[r]
    BY <1>1, AfterWrite
  <2>2. \A r \in W : new[r] # List!Keep
    BY <1>5 DEF List!Keep
  <2> QED
    BY <1>5, <2>1, <2>2 DEF List!Seen
<1>10. lpend'[s] = new /\ job[s].list \subseteq WrittenBy(s)'
  <2>1. lpend'[s] = new
    BY <1>1, AfterWrite
  <2> QED
    BY <1>1, <1>3, <1>4, <1>5, <2>1 DEF WrittenBy
<1>11. Fits(s)'
  <2>1. StepFits(s)'
    BY <1>1, <1>2, <1>3, <1>6, <1>7, <1>8 DEF Fits, StepFits
  <2>2. UploadFits(s)'
    BY <1>1, <1>3, <1>6, <1>7, <1>8, <1>10 DEF UploadFits
  <2>3. ASSUME job[s].op = "set", to = "commit", job[s].main # NoPhoto
        PROVE  job[s].main \in MarkedBy(s)'
    <3>1. job[s].main \in job[s].list /\ owner = "horse"
      BY <1>2, <1>3, <1>7, <2>3 DEF Fits, StepFits
    <3>2. PICK r \in W : r[1] = job[s].main
      BY <1>1, <3>1
    <3>3. new[r] = "main" /\ r \in List!Rows /\ r[1] \in Images
      BY <1>3, <1>4, <1>5, <3>1, <3>2
    <3> QED
      BY <1>10, <3>2, <3>3 DEF MarkedBy
  <2>4. SetFits(s)'
    BY <1>6, <1>8, <1>10, <2>3 DEF SetFits
  <2> QED
    BY <1>8, <2>1, <2>2, <2>4 DEF Fits, WaitFits
<1>12. ASSUME serial
       PROVE  MainAlone(s)' /\ UploadAlone(s)' /\ SetAlone(s)' /\ ChoiceAlone(s)'
  <2>1. /\ MainAlone(s) /\ UploadAlone(s) /\ List!Linked(links)' = List!Linked(links)
        /\ List!Linked(List!Seen(s)) = {}
    BY <1>1, <1>12 DEF ListInv, Alone, MainAlone, List!Linked
  <2>2. \A r \in List!Rows : List!Seen(s)[r] = "none"
    BY <2>1, RowPhoto DEF List!Linked
  <2>3. List!Linked(List!Seen(s)') = job[s].list
    BY <1>1, <1>3, <1>4, <1>9, <2>2 DEF List!Linked
  <2>4. List!MainOf(List!Seen(s)') \subseteq {job[s].main}
    BY <1>9, <2>2 DEF List!MainOf
  <2>5. MainAlone(s)'
    BY <1>7, <1>8, <2>4 DEF MainAlone, AtMostOne
  <2>6. SetAlone(s)' /\ ChoiceAlone(s)'
    BY <1>3, <1>6, <1>8, <2>3 DEF SetAlone, ChoiceAlone
  <2>7. upload => job[s].list = List!Linked(links) \cup job[s].told \cup {job[s].now}
    BY <1>1, <1>3, <2>1 DEF UploadAlone, Current
  <2>8. UploadAlone(s)'
    BY <1>1, <1>6, <1>7, <1>8, <2>1, <2>3, <2>7 DEF UploadAlone, Current
  <2> QED
    BY <2>5, <2>6, <2>8
<1>13. \A r \in List!Rows \cap W :
          /\ new[r] = "none" \/ r[1] \in photos \cup fresh[s]
          /\ \A t \in Sessions \ {s} : lpend[t][r] = List!Keep
  BY <1>1, <1>4
<1>14. lpc[s] # "idle" /\ UNCHANGED <<owner, serial, photos, links, fresh, broken>>
  BY <1>1
<1>15. to \in {"file", "insert", "reset", "choose", "mark", "commit"}
  BY <1>7
<1> QED
  BY <1>1, <1>2, <1>5, <1>6, <1>11, <1>12, <1>13, <1>14, <1>15, ListWrite

LEMMA ListReset ==
    ASSUME ListInv, NEW s \in Sessions, List!ResetMain(s)
    PROVE  ListInv'
<1> DEFINE W == List!Target(s)
           new == [r \in List!Rows |-> IF r \in W THEN "plain" ELSE lpend[s][r]]
<1>1. /\ List!Runs(s, "reset") /\ List!Goto(s, "choose")
      /\ lpend' = [lpend EXCEPT ![s] = new]
      /\ UNCHANGED <<owner, serial, photos, links, fresh, broken, job>>
  BY DEF List!ResetMain, ListInv, List!TypeOK
<1>2. /\ W \subseteq List!Visible(s) /\ W \subseteq List!Rows
      /\ \A r \in W, t \in Sessions \ {s} : lpend[t][r] = List!Keep
      /\ lpc[s] = "reset" /\ s \notin broken /\ job[s] \in Jobs
      /\ serial => W = List!Visible(s)
  BY <1>1, RunsOn DEF List!Matching
<1>3. /\ new \in [List!Rows -> List!RowStates \cup {List!Keep}]
      /\ \A r \in W : new[r] = "plain" /\ new[r] # List!Keep
      /\ \A r \in List!Rows \ W : new[r] = lpend[s][r]
  BY <1>2 DEF List!RowStates, List!Keep, ListInv, List!TypeOK
<1>4. /\ job' = [job EXCEPT ![s] = job[s]]
      /\ lpc'[s] = "choose" /\ s \notin waiting' /\ job'[s] = job[s]
  BY <1>1 DEF List!Goto, ListInv, List!TypeOK
<1> HIDE DEF new, W
<1>5. /\ lpend'[s] = new
      /\ \A r \in List!Rows : List!Seen(s)'[r] = IF r \in W THEN "plain" ELSE List!Seen(s)[r]
  <2>1. /\ lpend'[s] = new
        /\ \A r \in List!Rows : List!Seen(s)'[r] = IF new[r] = List!Keep THEN links[r] ELSE new[r]
    BY <1>1, AfterWrite
  <2> QED
    BY <1>3, <2>1 DEF List!Seen
<1>6. Fits(s) /\ fresh' = fresh /\ broken' = broken /\ job[s].op = "set" /\ job[s].main # NoPhoto
  BY <1>1, <1>2 DEF ListInv, Fits, StepFits
<1>7. WrittenBy(s) \subseteq WrittenBy(s)'
  BY <1>3, <1>5 DEF WrittenBy
<1>8. Fits(s)'
  <2>1. StepFits(s)'
    BY <1>2, <1>4, <1>6 DEF Fits, StepFits
  <2>2. SetFits(s)'
    BY <1>2, <1>4, <1>6, <1>7 DEF Fits, SetFits
  <2> QED
    BY <1>4, <1>6, <2>1, <2>2 DEF Fits, UploadFits, WaitFits
<1>9. ASSUME serial
      PROVE  MainAlone(s)' /\ UploadAlone(s)' /\ SetAlone(s)' /\ ChoiceAlone(s)'
  <2>1. /\ SetAlone(s) /\ ChoiceAlone(s) /\ List!Linked(links)' = List!Linked(links)
        /\ photos' = photos
    BY <1>1, <1>2, <1>9 DEF ListInv, Alone
  <2>2. \A r \in List!Rows :
            List!Seen(s)'[r] = IF List!Seen(s)[r] = "none" THEN "none" ELSE "plain"
    BY <1>2, <1>5, <1>9 DEF List!Visible
  <2>3. List!Linked(List!Seen(s)') = List!Linked(List!Seen(s)) /\ List!MainOf(List!Seen(s)') = {}
    BY <2>2 DEF List!Linked, List!MainOf
  <2>4. MainAlone(s)'
    BY <1>4, <2>3 DEF MainAlone, AtMostOne
  <2>5. \A r \in List!Rows : List!Seen(s)'[r] # "none" => lpend'[s][r] # List!Keep
    BY <1>2, <1>3, <1>5, <1>9, <2>2 DEF List!Visible
  <2>6. UploadAlone(s)' /\ SetAlone(s)'
    BY <1>2, <1>4, <1>6, <2>1, <2>3 DEF SetAlone, UploadAlone
  <2>7. ChoiceAlone(s)'
    BY <1>4, <2>1, <2>5 DEF ChoiceAlone
  <2> QED
    BY <2>4, <2>6, <2>7
<1>10. \A r \in List!Rows \cap W :
          /\ new[r] = "none" \/ r[1] \in photos \cup fresh[s]
          /\ \A t \in Sessions \ {s} : lpend[t][r] = List!Keep
  BY <1>2, VisibleExist
<1>11. lpc[s] # "idle" /\ List!Goto(s, "choose")
       /\ UNCHANGED <<owner, serial, photos, links, fresh, broken>>
  BY <1>1, <1>2
<1> QED
  BY <1>1, <1>2, <1>3, <1>4, <1>8, <1>9, <1>10, <1>11, ListWrite

LEMMA ListChoose ==
    ASSUME PhotosApart, ListInv, NEW s \in Sessions, List!ChooseMain(s)
    PROVE  ListInv'
<1> DEFINE main == job[s].main
<1>1. /\ lpc[s] = "choose" /\ Fits(s) /\ Apart(s) /\ job[s] \in Jobs
      /\ UNCHANGED <<owner, serial, photos, links, fresh, broken, job>>
  BY DEF List!ChooseMain, ListInv, List!TypeOK, Jobs
<1>2. job[s].op = "set" /\ main # NoPhoto /\ main \in Images /\ s \notin broken
  BY <1>1 DEF Fits, StepFits, Jobs
<1>3. CASE main \in List!Linked(List!Seen(s)) /\ List!Goto(s, "mark") /\ UNCHANGED lpend
  <2>1. /\ lpc' = [lpc EXCEPT ![s] = "mark"] /\ waiting' = waiting \ {s}
        /\ found' = [found EXCEPT ![s] = {}]
    BY <1>3 DEF List!Goto
  <2>2. /\ lpc'[s] = "mark" /\ s \notin waiting' /\ job'[s] = job[s]
        /\ \A t \in Sessions \ {s} : Rests(t)
    BY <1>1, <1>3, <2>1 DEF ListInv, List!TypeOK, Rests
  <2>3. List!TypeOK'
    BY <1>1, <1>3, <2>1 DEF ListInv, List!TypeOK, List!Linked
  <2>4. WrittenBy(s)' = WrittenBy(s)
    BY <1>3 DEF WrittenBy
  <2>5. Fits(s)'
    <3>1. StepFits(s)'
      BY <1>1, <1>2, <2>2 DEF Fits, StepFits
    <3>2. SetFits(s)'
      BY <1>1, <1>2, <2>2, <2>4 DEF Fits, SetFits
    <3> QED
      BY <1>2, <2>2, <3>1, <3>2 DEF Fits, UploadFits, WaitFits
  <2>6. ASSUME serial PROVE Alone(s)'
    <3>1. Alone(s) /\ List!Seen(s)' = List!Seen(s)
      BY <1>1, <1>3, <2>6 DEF ListInv, List!Seen
    <3>2. /\ List!Linked(links)' = List!Linked(links)
          /\ List!Linked(List!Seen(s)') = List!Linked(List!Seen(s))
          /\ List!MainOf(List!Seen(s)') = List!MainOf(List!Seen(s))
      BY <1>1, <3>1
    <3>3. MainAlone(s)' /\ UploadAlone(s)' /\ SetAlone(s)'
      BY <1>1, <1>2, <2>2, <3>1, <3>2 DEF Alone, MainAlone, UploadAlone, SetAlone, AtMostOne
    <3>4. ChoiceAlone(s)'
      BY <1>1, <1>3, <2>2, <3>1, <3>2 DEF Alone, ChoiceAlone
    <3> QED
      BY <1>1, <2>2, <3>1, <3>3, <3>4 DEF Alone, Rests
  <2>7. serial => \A t \in Sessions \ {s} : lpc[t] = "idle"
    BY <1>1 DEF ListInv, Alone
  <2> QED
    BY <1>1, <1>3, <2>2, <2>3, <2>4, <2>5, <2>6, <2>7, OwnStep DEF Apart
<1>4. ASSUME main \notin List!Linked(List!Seen(s)) PROVE ListInv'
  <2> DEFINE W == List!NewRows(s, {main})
             new == [r \in List!Rows |-> IF r \in W THEN "main" ELSE lpend[s][r]]
  <2>1. /\ main \in photos /\ W # {} /\ List!Goto(s, "commit")
        /\ lpend' = [lpend EXCEPT ![s] = new]
    BY <1>4 DEF List!ChooseMain, ListInv, List!TypeOK
  <2>2. /\ W \subseteq List!Rows
        /\ \A r \in W : r[1] = main /\ links[r] = "none"
        /\ \A r \in W, t \in Sessions \ {s} : lpend[t][r] = List!Keep
    BY NewRowsFree
  <2>3. /\ new \in [List!Rows -> List!RowStates \cup {List!Keep}]
        /\ \A r \in W : new[r] = "main"
        /\ \A r \in List!Rows \ W : new[r] = lpend[s][r]
    <3> HIDE DEF W
    <3>1. lpend[s] \in [List!Rows -> List!RowStates \cup {List!Keep}] /\ "main" \in List!RowStates
      BY DEF List!RowStates, ListInv, List!TypeOK
    <3> QED
      BY <2>2, <3>1
  <2> HIDE DEF W, new
  <2>4. ~serial
    <3> SUFFICES ASSUME serial PROVE FALSE
      OBVIOUS
    <3>1. SetAlone(s) /\ ChoiceAlone(s)
      BY <1>1 DEF ListInv, Alone
    <3>2. job[s].list = KeepList
      BY <1>1, <1>2, <1>4, <3>1 DEF Fits, StepFits, SetAlone
    <3> QED
      BY <1>1, <1>2, <1>4, <2>1, <3>1, <3>2 DEF SetAlone, ChoiceAlone
  <2>5. lpc'[s] = "commit" /\ s \notin waiting' /\ job'[s] = job[s] /\ lpend'[s] = new
        /\ job' = [job EXCEPT ![s] = job[s]]
    BY <1>1, <2>1 DEF List!Goto, ListInv, List!TypeOK
  <2>6. WrittenBy(s) \subseteq WrittenBy(s)' /\ main \in MarkedBy(s)'
    BY <1>2, <2>1, <2>2, <2>3, <2>5 DEF WrittenBy, MarkedBy
  <2>7. Fits(s)'
    <3>1. StepFits(s)'
      BY <1>1, <1>2, <2>5 DEF Fits, StepFits
    <3>2. SetFits(s)'
      BY <1>1, <1>2, <2>5, <2>6 DEF Fits, SetFits
    <3> QED
      BY <1>2, <2>5, <3>1, <3>2 DEF Fits, UploadFits, WaitFits
  <2>8. \A r \in List!Rows \cap W :
            /\ new[r] = "none" \/ r[1] \in photos \cup fresh[s]
            /\ \A t \in Sessions \ {s} : lpend[t][r] = List!Keep
    BY <2>1, <2>2
  <2>9. lpc[s] # "idle" /\ UNCHANGED <<owner, serial, photos, links, fresh, broken>>
    BY <1>1
  <2>10. job[s] \in Jobs
    BY <1>1
  <2> QED
    BY <2>1, <2>3, <2>4, <2>5, <2>7, <2>8, <2>9, <2>10, ListWrite
<1> QED
  BY <1>3, <1>4 DEF List!ChooseMain

LEMMA ListMark ==
    ASSUME PhotosApart, ListInv, NEW s \in Sessions, List!MarkMain(s)
    PROVE  ListInv'
<1> DEFINE W == List!Target(s)
           main == job[s].main
           new == [r \in List!Rows |-> IF r \in W THEN "main" ELSE lpend[s][r]]
<1>1. /\ List!Runs(s, "mark") /\ List!Goto(s, "commit")
      /\ lpend' = [lpend EXCEPT ![s] = new]
      /\ UNCHANGED <<owner, serial, photos, links, fresh, broken, job>>
  BY DEF List!MarkMain, ListInv, List!TypeOK
<1>2. /\ W \subseteq List!Visible(s) /\ W \subseteq List!Rows
      /\ \A r \in W, t \in Sessions \ {s} : lpend[t][r] = List!Keep
      /\ lpc[s] = "mark" /\ s \notin broken /\ job[s] \in Jobs
      /\ serial => W = {r \in List!Visible(s) : r[1] = main}
  BY <1>1, RunsOn DEF List!Matching
<1>3. /\ new \in [List!Rows -> List!RowStates \cup {List!Keep}]
      /\ \A r \in W : new[r] = "main" /\ new[r] # List!Keep
      /\ \A r \in List!Rows \ W : new[r] = lpend[s][r]
  BY <1>2 DEF List!RowStates, List!Keep, ListInv, List!TypeOK
<1>4. /\ job' = [job EXCEPT ![s] = job[s]]
      /\ lpc'[s] = "commit" /\ s \notin waiting' /\ job'[s] = job[s]
  BY <1>1 DEF List!Goto, ListInv, List!TypeOK
<1>5. Fits(s) /\ fresh' = fresh /\ broken' = broken /\ job[s].op = "set" /\ main # NoPhoto
  BY <1>1, <1>2 DEF ListInv, Fits, StepFits
<1>6. \A r \in List!Rows : r[1] = main /\ lpend[s][r] \in {"plain", "main"} => r \in W
  <2> SUFFICES ASSUME NEW r \in List!Rows, r[1] = main, lpend[s][r] \in {"plain", "main"}
               PROVE  r \in W
    OBVIOUS
  <2>1. r \in List!Visible(s)
    BY DEF List!Visible, List!Seen, List!Keep
  <2>2. CASE s \in waiting
    BY <1>2, <1>5, <2>1, <2>2 DEF Fits, WaitFits, List!Target
  <2>3. CASE s \notin waiting
    BY <1>2, <2>1, <2>3 DEF List!Target, List!Matching
  <2> QED
    BY <2>2, <2>3
<1> HIDE DEF new, W
<1>7. /\ lpend'[s] = new
      /\ \A r \in List!Rows : List!Seen(s)'[r] = IF r \in W THEN "main" ELSE List!Seen(s)[r]
  <2>1. /\ lpend'[s] = new
        /\ \A r \in List!Rows : List!Seen(s)'[r] = IF new[r] = List!Keep THEN links[r] ELSE new[r]
    BY <1>1, AfterWrite
  <2> QED
    BY <1>3, <2>1 DEF List!Seen
<1>8. WrittenBy(s) \subseteq WrittenBy(s)'
  BY <1>3, <1>7 DEF WrittenBy
<1>9. main \in WrittenBy(s) => main \in MarkedBy(s)'
  BY <1>3, <1>6, <1>7 DEF WrittenBy, MarkedBy
<1>10. Fits(s)'
  <2>1. StepFits(s)'
    BY <1>2, <1>4, <1>5 DEF Fits, StepFits
  <2>2. SetFits(s)'
    BY <1>2, <1>4, <1>5, <1>8, <1>9 DEF Fits, StepFits, SetFits
  <2> QED
    BY <1>4, <1>5, <2>1, <2>2 DEF Fits, UploadFits, WaitFits
<1>11. ASSUME serial
      PROVE  MainAlone(s)' /\ UploadAlone(s)' /\ SetAlone(s)' /\ ChoiceAlone(s)'
  <2>1. /\ MainAlone(s) /\ SetAlone(s) /\ ChoiceAlone(s)
        /\ List!Linked(links)' = List!Linked(links) /\ photos' = photos
    BY <1>1, <1>2, <1>11 DEF ListInv, Alone
  <2>2. \A r \in List!Rows :
            List!Seen(s)'[r] = IF List!Seen(s)[r] # "none" /\ r[1] = main THEN "main"
                               ELSE List!Seen(s)[r]
    BY <1>2, <1>7, <1>11 DEF List!Visible
  <2>3. List!MainOf(List!Seen(s)) = {}
    BY <1>2, <2>1 DEF MainAlone
  <2>4. List!Linked(List!Seen(s)') = List!Linked(List!Seen(s))
    BY <2>2 DEF List!Linked
  <2>5. /\ List!MainOf(List!Seen(s)') \subseteq {main}
        /\ main \in List!Linked(List!Seen(s)) => main \in List!MainOf(List!Seen(s)')
    BY <2>2, <2>3, RowPhoto DEF List!Linked, List!MainOf
  <2>6. MainAlone(s)'
    BY <1>4, <2>5 DEF MainAlone, AtMostOne
  <2>7. UploadAlone(s)' /\ SetAlone(s)'
    BY <1>2, <1>4, <1>5, <2>1, <2>4 DEF SetAlone, UploadAlone
  <2>8. job[s].list = KeepList =>
            \A r \in List!Rows : List!Seen(s)'[r] # "none" => lpend'[s][r] # List!Keep
    BY <1>2, <1>3, <1>5, <1>7, <2>1, <2>2 DEF ChoiceAlone
  <2>9. ChoiceAlone(s)'
    BY <1>2, <1>4, <1>5, <2>1, <2>5, <2>8 DEF ChoiceAlone
  <2> QED
    BY <2>6, <2>7, <2>9
<1>12. \A r \in List!Rows \cap W :
          /\ new[r] = "none" \/ r[1] \in photos \cup fresh[s]
          /\ \A t \in Sessions \ {s} : lpend[t][r] = List!Keep
  BY <1>2, VisibleExist
<1>13. lpc[s] # "idle" /\ List!Goto(s, "commit")
       /\ UNCHANGED <<owner, serial, photos, links, fresh, broken>>
  BY <1>1, <1>2
<1> QED
  BY <1>1, <1>2, <1>3, <1>4, <1>10, <1>11, <1>12, <1>13, ListWrite

(***************************************************************************)
(* Ends, and the other requests                                            *)
(***************************************************************************)

\* A request that ends leaves what its transaction sees, or the committed links.
LEMMA ListEnds ==
    ASSUME PhotosApart, ListInv, NEW s \in Sessions, List!Reset(s), lpc[s] # "idle",
           \/ UNCHANGED <<photos, links>>
           \/ photos' = photos \cup fresh[s] /\ links' = List!Seen(s)
    PROVE  ListInv'
<1>1. /\ job' = [job EXCEPT ![s] = List!NoJob] /\ lpc' = [lpc EXCEPT ![s] = "idle"]
      /\ lpend' = [lpend EXCEPT ![s] = List!NothingWritten]
      /\ fresh' = [fresh EXCEPT ![s] = {}] /\ broken' = broken \ {s}
      /\ waiting' = waiting \ {s} /\ found' = [found EXCEPT ![s] = {}]
      /\ UNCHANGED <<owner, serial>>
  BY DEF List!Reset, List!Goto
<1>2. /\ job'[s] = List!NoJob /\ lpc'[s] = "idle" /\ lpend'[s] = List!NothingWritten
      /\ fresh'[s] = {} /\ \A t \in Sessions \ {s} : Rests(t)
  BY <1>1 DEF ListInv, List!TypeOK, Rests
<1>3. links' \in [List!Rows -> List!RowStates] /\ photos' \in SUBSET Images /\ photos \subseteq photos'
  <2>1. List!Seen(s) \in [List!Rows -> List!RowStates]
    BY DEF ListInv, List!TypeOK, List!Seen
  <2> QED
    BY <2>1 DEF ListInv, List!TypeOK
<1>4. List!Linked(links)' \subseteq photos'
  <2>1. CASE UNCHANGED <<photos, links>>
    BY <2>1 DEF ListInv, List!TypeOK, List!Linked
  <2>2. CASE photos' = photos \cup fresh[s] /\ links' = List!Seen(s)
    BY <2>2, VisibleExist DEF List!Linked, List!Visible
  <2> QED
    BY <2>1, <2>2
<1>5. List!TypeOK'
  <2>1. job' \in [Sessions -> Jobs]
    BY <1>1, EmptyJob DEF ListInv, List!TypeOK, Jobs
  <2>2. lpend' \in [Sessions -> [List!Rows -> List!RowStates \cup {List!Keep}]]
    BY <1>1 DEF ListInv, List!TypeOK, List!NothingWritten
  <2> QED
    BY <1>1, <1>3, <1>4, <2>1, <2>2 DEF ListInv, List!TypeOK, Jobs
<1>6. \A t \in Sessions : Fits(t)'
  <2>1. Fits(s)'
    BY <1>1, <1>2, EmptyJob DEF Fits, StepFits, UploadFits, SetFits, WaitFits
  <2> QED
    BY <1>2, <2>1, RestKeeps DEF ListInv
<1>7. ASSUME NEW t \in Sessions PROVE Apart(t)'
  <2>1. WrittenBy(s)' = {} /\ \A r \in List!Rows : lpend'[s][r] = List!Keep
    BY <1>2 DEF WrittenBy, List!NothingWritten, List!Keep
  <2>2. CASE t = s
    BY <1>2, <2>1, <2>2 DEF Apart
  <2>3. CASE t # s
    <3>1. WrittenBy(t)' = WrittenBy(t) /\ fresh'[t] = fresh[t] /\ lpend'[t] = lpend[t]
      BY <1>2, <2>3 DEF Rests, WrittenBy
    <3>2. Apart(t)
      BY DEF ListInv
    <3>3. fresh[t] \cap photos' = {}
      BY <2>3, <3>2 DEF Apart
    <3> QED
      BY <1>2, <1>3, <2>1, <2>3, <3>1, <3>2, <3>3 DEF Apart, Rests
  <2> QED
    BY <2>2, <2>3
<1>8. ASSUME serial PROVE AtMostOne(List!MainOf(links))' /\ \A t \in Sessions : Alone(t)'
  <2>1. Alone(s) /\ \A t \in Sessions : t \notin waiting
    BY <1>8 DEF ListInv, Alone
  <2>2. \A t \in Sessions : lpc'[t] = "idle" /\ t \notin waiting'
    BY <1>1, <1>2, <2>1 DEF Alone, Rests
  <2>3. links' = links \/ links' = List!Seen(s)
    OBVIOUS
  <2>4. AtMostOne(List!MainOf(links'))
    BY <1>8, <2>1, <2>3 DEF ListInv, Alone, MainAlone
  <2> QED
    BY <2>2, <2>4 DEF Alone
<1> QED
  BY <1>1, <1>5, <1>6, <1>7, <1>8 DEF ListInv

LEMMA ListAdd == ASSUME ListInv, List!AddPhoto, PhotosApart PROVE ListInv'
<1>1. PICK p \in List!Unused : photos' = photos \cup {p}
  BY DEF List!AddPhoto
<1>2. UNCHANGED <<owner, serial, links, lpend, fresh, broken, lpc, job, waiting, found>>
  BY DEF List!AddPhoto
<1>3. /\ p \in (IF serial THEN Images ELSE Crowd)
      /\ \A t \in Sessions : /\ p \notin fresh[t] /\ p # job[t].main
                             /\ job[t].list # KeepList => p \notin job[t].list
  BY <1>1 DEF List!Unused
<1>4. p \in Images
  BY <1>3 DEF PhotosApart
<1>5. List!TypeOK'
  BY <1>1, <1>2, <1>4 DEF ListInv, List!TypeOK, List!Linked
<1>6. ASSUME NEW t \in Sessions PROVE Fits(t)' /\ Apart(t)'
  <2>1. Rests(t) /\ Fits(t) /\ Apart(t) /\ WrittenBy(t)' = WrittenBy(t)
    BY <1>2 DEF Rests, WrittenBy, ListInv
  <2> QED
    BY <1>1, <1>2, <1>3, <2>1, RestKeeps DEF Apart
<1>7. ASSUME serial PROVE AtMostOne(List!MainOf(links))' /\ \A t \in Sessions : Alone(t)'
  <2>1. AtMostOne(List!MainOf(links)) /\ List!MainOf(links)' = List!MainOf(links)
        /\ List!Linked(links)' = List!Linked(links)
    BY <1>2, <1>7 DEF ListInv
  <2>2. ASSUME NEW t \in Sessions PROVE Alone(t)'
    <3>1. Alone(t) /\ Fits(t) /\ List!Seen(t)' = List!Seen(t)
      BY <1>2, <1>7 DEF ListInv, List!Seen
    <3>2. /\ List!Linked(List!Seen(t)') = List!Linked(List!Seen(t))
          /\ List!MainOf(List!Seen(t)') = List!MainOf(List!Seen(t))
      BY <3>1
    <3>3. MainAlone(t) => MainAlone(t)'
      BY <1>2, <3>2 DEF MainAlone
    <3>4. UploadAlone(t) => UploadAlone(t)'
      BY <1>1, <1>2, <1>3, <2>1, <3>1, <3>2 DEF Fits, StepFits, UploadAlone, Current
    <3>5. SetAlone(t) => SetAlone(t)'
      BY <1>2, <2>1, <3>2 DEF SetAlone
    <3>6. ChoiceAlone(t) => ChoiceAlone(t)'
      BY <1>1, <1>2, <1>3, <2>1, <3>1, <3>2 DEF ChoiceAlone
    <3> QED
      BY <1>2, <3>1, <3>3, <3>4, <3>5, <3>6 DEF Alone
  <2> QED
    BY <2>1, <2>2
<1> QED
  BY <1>2, <1>5, <1>6, <1>7 DEF ListInv

\* Only photos that no transaction has written a link of can be deleted.
LEMMA ListRemove == ASSUME ListInv, List!RemovePhoto PROVE ListInv'
<1>1. PICK p \in photos :
          /\ ~List!InUse(p) /\ photos' = photos \ {p}
          /\ links' = [r \in List!Rows |-> IF r[1] = p THEN "none" ELSE links[r]]
          /\ UNCHANGED <<owner, serial, lpend, fresh, broken, lpc, job, waiting, found>>
  BY DEF List!RemovePhoto
<1>2. UNCHANGED <<owner, serial, lpend, fresh, broken, lpc, job, waiting, found>>
  BY <1>1
<1>3. \A t \in Sessions, r \in List!Rows : r[1] = p => lpend[t][r] = List!Keep
  BY <1>1 DEF List!InUse
<1>4. /\ links' \in [List!Rows -> List!RowStates]
      /\ \A r \in List!Rows : links'[r] = IF r[1] = p THEN "none" ELSE links[r]
  BY <1>1 DEF ListInv, List!TypeOK, List!RowStates
<1>5. /\ List!Linked(links') = List!Linked(links) \ {p}
      /\ List!MainOf(links') = List!MainOf(links) \ {p}
  BY <1>4 DEF List!Linked, List!MainOf
<1>6. List!TypeOK'
  BY <1>1, <1>2, <1>4, <1>5 DEF ListInv, List!TypeOK
<1>7. ASSUME NEW t \in Sessions PROVE Fits(t)' /\ Apart(t)' /\ p \notin WrittenBy(t)
  <2>1. Rests(t) /\ Fits(t) /\ Apart(t) /\ WrittenBy(t)' = WrittenBy(t)
    BY <1>2 DEF Rests, WrittenBy, ListInv
  <2>2. p \notin WrittenBy(t)
    BY <1>3 DEF WrittenBy, List!Keep
  <2> QED
    BY <1>1, <1>2, <2>1, <2>2, RestKeeps DEF Apart
<1>8. ASSUME serial PROVE AtMostOne(List!MainOf(links))' /\ \A t \in Sessions : Alone(t)'
  <2>1. AtMostOne(List!MainOf(links'))
    BY <1>5, <1>8 DEF ListInv, AtMostOne
  <2>2. ASSUME NEW t \in Sessions PROVE Alone(t)'
    <3>1. Alone(t) /\ Fits(t) /\ Apart(t)
      BY <1>8 DEF ListInv
    <3>2. \A r \in List!Rows :
              List!Seen(t)'[r] = IF r[1] = p THEN "none" ELSE List!Seen(t)[r]
      BY <1>2, <1>3, <1>4 DEF List!Seen
    <3>3. /\ List!Linked(List!Seen(t)') = List!Linked(List!Seen(t)) \ {p}
          /\ List!MainOf(List!Seen(t)') = List!MainOf(List!Seen(t)) \ {p}
      BY <3>2 DEF List!Linked, List!MainOf
    <3>4. MainAlone(t) => MainAlone(t)'
      BY <1>2, <3>3 DEF MainAlone, AtMostOne
    <3>5. UploadAlone(t) => UploadAlone(t)'
      <4> SUFFICES ASSUME UploadAlone(t), job[t].op = "upload", t \notin broken
                   PROVE  UploadAlone(t)'
        BY <1>2 DEF UploadAlone
      <4>1. p \notin job[t].told \cup Current(t) /\ p \notin fresh[t]
        BY <1>1, <3>1 DEF Fits, UploadFits, Current, Apart
      <4>2. Current(t)' = Current(t)
        BY <1>2 DEF Current
      <4> QED
        BY <1>1, <1>2, <1>5, <3>3, <4>1, <4>2 DEF UploadAlone
    <3>6. SetAlone(t) => SetAlone(t)'
      BY <1>2, <1>5, <1>7, <3>1, <3>3 DEF SetAlone, Fits, SetFits
    <3>7. ChoiceAlone(t) => ChoiceAlone(t)'
      <4> SUFFICES ASSUME ChoiceAlone(t), job[t].op = "set", job[t].list = KeepList
                   PROVE  ChoiceAlone(t)'
        BY <1>2 DEF ChoiceAlone
      <4>1. lpc[t] \in {"mark", "commit"} => p \notin List!Linked(List!Seen(t))
        BY <1>3 DEF ChoiceAlone, List!Linked
      <4>2. List!MainOf(List!Seen(t)) \subseteq List!Linked(List!Seen(t))
        BY DEF List!MainOf, List!Linked
      <4>3. lpc[t] \in {"choose", "mark", "commit"} =>
                \A r \in List!Rows : List!Seen(t)'[r] # "none" => lpend[t][r] # List!Keep
        BY <3>2 DEF ChoiceAlone
      <4> QED
        BY <1>1, <1>2, <1>5, <3>3, <4>1, <4>2, <4>3 DEF ChoiceAlone
    <3> QED
      BY <1>2, <3>1, <3>4, <3>5, <3>6, <3>7 DEF Alone
  <2> QED
    BY <2>1, <2>2
<1> QED
  BY <1>2, <1>6, <1>7, <1>8 DEF ListInv

LEMMA ListStep == ASSUME PhotosApart, ListInv, [List!Next]_listVars PROVE ListInv'
<1>1. CASE \E s \in Sessions : List!SetPhotos(s)
  <2>1. PICK s \in Sessions,
             list \in (SUBSET photos) \cup {KeepList}, main \in photos \cup {NoPhoto} :
            /\ list = KeepList => main \in List!Linked(links)
            /\ list # KeepList => main \in list \cup {NoPhoto}
            /\ List!Start(s, [List!NoJob EXCEPT !.op = "set", !.list = list, !.main = main],
                          IF list = KeepList THEN "reset" ELSE "drop")
    BY <1>1 DEF List!SetPhotos
  <2> DEFINE j == [List!NoJob EXCEPT !.op = "set", !.list = list, !.main = main]
  <2>2. photos \in SUBSET Images /\ 0 \in 0..MaxFiles
    BY DEF ListInv, List!TypeOK, PhotosApart
  <2>3. /\ j \in Jobs /\ j.told = {} /\ j.op = "set" /\ j.list = list /\ j.main = main
    BY <2>2 DEF List!NoJob, Jobs
  <2> HIDE DEF j
  <2>4. List!Start(s, j, IF list = KeepList THEN "reset" ELSE "drop")
    BY <2>1 DEF j
  <2>5. CASE list = KeepList
    BY <2>1, <2>3, <2>4, <2>5, ListStart
  <2>6. CASE list # KeepList
    BY <2>1, <2>3, <2>4, <2>6, ListStart
  <2> QED
    BY <2>5, <2>6
<1>2. CASE \E s \in Sessions : List!UploadPhotos(s)
  <2>1. PICK s \in Sessions, n \in 1..MaxFiles :
            List!Start(s, [List!NoJob EXCEPT !.op = "upload", !.list = List!Linked(links),
                                             !.files = n], "file")
    BY <1>2 DEF List!UploadPhotos
  <2> DEFINE j == [List!NoJob EXCEPT !.op = "upload", !.list = List!Linked(links), !.files = n]
  <2>2. List!Linked(links) \in SUBSET Images /\ n \in 0..MaxFiles
    BY DEF List!Linked, PhotosApart
  <2>3. j \in Jobs /\ j.told = {} /\ j.op = "upload" /\ j.list = List!Linked(links)
    BY <2>2 DEF List!NoJob, Jobs
  <2> HIDE DEF j
  <2>4. List!Start(s, j, "file")
    BY <2>1 DEF j
  <2> QED
    BY <2>3, <2>4, ListStart
<1>3. CASE \E s \in Sessions : List!CreateFile(s) \/ List!CreateFails(s)
  BY <1>3, ListFile, ListFileFails
<1>4. CASE \E s \in Sessions : List!DropLinks(s) \/ List!InsertLinks(s) \/ List!ResetMain(s)
  BY <1>4, ListDrop, ListInsert, ListReset
<1>5. CASE \E s \in Sessions : List!ChooseMain(s) \/ List!MarkMain(s) \/ List!Wait(s)
  BY <1>5, ListChoose, ListMark, ListWait
<1>6. CASE \E s \in Sessions : List!StatementFails(s)
  <2>1. PICK s \in Sessions : List!StatementFails(s)
    BY <1>6
  <2>2. lpc[s] # "idle"
    BY <2>1 DEF List!StatementFails
  <2>3. CASE job[s].op = "upload" /\ List!Undo(s) /\ job' = [job EXCEPT ![s].now = NoPhoto]
             /\ List!Goto(s, "file") /\ UNCHANGED <<owner, serial, photos, links>>
    <3> DEFINE j == [job[s] EXCEPT !.now = NoPhoto]
    <3>1. /\ j \in Jobs /\ j.op = job[s].op /\ j.list = job[s].list
          /\ job' = [job EXCEPT ![s] = j]
      BY <2>3 DEF ListInv, List!TypeOK, Jobs
    <3> HIDE DEF j
    <3>2. /\ lpc' = [lpc EXCEPT ![s] = "file"] /\ waiting' = waiting \ {s}
          /\ found' = [found EXCEPT ![s] = {}]
      BY <2>3 DEF List!Goto
    <3>3. /\ waiting' \in SUBSET waiting /\ waiting \ {s} \in SUBSET waiting'
          /\ found' \in {found, [found EXCEPT ![s] = {}]}
      BY <3>2
    <3>4. UNCHANGED <<owner, serial, photos, links>> /\ List!Undo(s) /\ job[s].op = "upload"
      BY <2>3
    <3> QED
      BY <2>2, <3>1, <3>2, <3>3, <3>4, ListUndo
  <2>4. CASE List!Reset(s) /\ UNCHANGED <<photos, links>>
    BY <2>2, <2>4, ListEnds
  <2> QED
    BY <2>1, <2>3, <2>4 DEF List!StatementFails
<1>7. CASE \E s \in Sessions : List!Commit(s) \/ List!Abort(s)
  BY <1>7, ListEnds DEF List!Commit, List!Abort
<1>8. CASE List!AddPhoto \/ List!RemovePhoto
  BY <1>8, ListAdd, ListRemove
<1>9. CASE UNCHANGED listVars
  <2>1. UNCHANGED <<owner, serial, photos, links, lpend, fresh, broken, lpc, job, waiting, found>>
    BY <1>9 DEF listVars
  <2>2. List!TypeOK'
    BY <2>1 DEF ListInv, List!TypeOK, List!Linked
  <2>3. \A t \in Sessions : Rests(t)
    BY <2>1 DEF Rests
  <2>4. \A t \in Sessions : Fits(t)'
    BY <2>3, RestKeeps DEF ListInv
  <2>5. \A t \in Sessions : Apart(t)'
    BY <2>1 DEF ListInv, Apart, WrittenBy
  <2>6. serial => AtMostOne(List!MainOf(links))' /\ \A t \in Sessions : Alone(t)'
    <3>1. \A t \in Sessions : List!Seen(t)' = List!Seen(t)
      BY <2>1 DEF List!Seen
    <3>2. \A t \in Sessions : Alone(t) => Alone(t)'
      BY <2>1, <3>1 DEF Alone, MainAlone, UploadAlone, SetAlone, ChoiceAlone, Current
    <3> QED
      BY <2>1, <3>2 DEF ListInv
  <2> QED
    BY <2>1, <2>2, <2>4, <2>5, <2>6 DEF ListInv
<1> QED
  BY <1>1, <1>2, <1>3, <1>4, <1>5, <1>6, <1>7, <1>8, <1>9 DEF List!Next

LEMMA RecordsKeepLists ==
    ASSUME PhotosApart, ListInv, [MCNext]_<<which, vars, listVars, webVars, peerVars>>
    PROVE  ListInv' /\ [List!Next]_listVars
<1>1. [List!Next]_listVars
  BY DEF MCNext
<1> QED
  BY <1>1, ListStep

\* As long as the requests for a list come one after the other, its owner has
\* at most one main photo, whatever photos are deleted meanwhile; and links
\* always have their photos.
THEOREM MainStaysOne == ASSUME PhotosApart PROVE
    MCSpec => [](List!TypeOK /\ (serial => AtMostOne(List!MainOf(links))))
<1>1. MCInit => ListInv
  BY ListInit DEF MCInit
<1>2. ListInv => List!TypeOK /\ (serial => AtMostOne(List!MainOf(links)))
  BY DEF ListInv
<1> QED
  BY <1>1, <1>2, RecordsKeepLists, PTL DEF MCSpec

\* A request that no other overtakes makes of the list what it was asked for; an
\* upload, of the list as it is at its end, although it writes back a list it
\* has read at its start and photos are deleted meanwhile.
THEOREM ListsAsAsked == ASSUME PhotosApart PROVE MCSpec => SerialListAsAsked
<1>1. MCInit => ListInv
  BY ListInit DEF MCInit
<1>2. ASSUME ListInv, serial, NEW s \in Sessions, List!Commits(s)
      PROVE  List!ListIsAsAsked(s)
  <2>1. /\ links' = List!Seen(s) /\ s \notin broken
        /\ lpc[s] = "commit" \/ lpc[s] = "file"
    BY <1>2 DEF List!Commits, List!Commit
  <2>2. Fits(s) /\ UploadAlone(s) /\ SetAlone(s) /\ ChoiceAlone(s)
    BY <1>2, <2>1 DEF ListInv, Alone
  <2>6. AtMostOne(List!MainOf(links'))
    BY <1>2, <2>1 DEF ListInv, Alone, MainAlone
  <2>3. CASE job[s].op = "upload"
    BY <2>1, <2>2, <2>3, <2>6 DEF AtMostOne, Fits, StepFits, UploadAlone, List!ListIsAsAsked
  <2>4. CASE job[s].op = "set"
    BY <2>1, <2>2, <2>4, <2>6 DEF AtMostOne, Fits, StepFits, SetAlone, ChoiceAlone, List!ListIsAsAsked
  <2>5. job[s].op \in {"set", "upload"}
    BY <2>1, <2>2 DEF Fits, StepFits
  <2> QED
    BY <2>3, <2>4, <2>5
<1>3. ListInv /\ [List!Next]_listVars
      => [serial => \A s \in Sessions : List!Commits(s) => List!ListIsAsAsked(s)]_(List!vars)
  BY <1>2
<1> QED
  BY <1>1, <1>3, RecordsKeepLists, PTL DEF MCSpec, SerialListAsAsked, List!SerialListAsAsked

\* What a request has linked is on the list when it commits, its main photo
\* marked, however many requests for the list overlap it and whatever photos
\* are deleted meanwhile.
THEOREM CommitsLand == ASSUME PhotosApart PROVE MCSpec => CommittedLands
<1>1. MCInit => ListInv
  BY ListInit DEF MCInit
<1>2. ASSUME ListInv, NEW s \in Sessions, List!Commits(s)
      PROVE  List!Lands(s)
  <2>1. /\ links' = List!Seen(s) /\ s \notin broken
        /\ lpc[s] = "commit" \/ lpc[s] = "file"
    BY <1>2 DEF List!Commits, List!Commit
  <2>2. Fits(s) /\ lpend \in [Sessions -> [List!Rows -> List!RowStates \cup {List!Keep}]]
    BY <1>2 DEF ListInv, List!TypeOK
  <2>3. /\ WrittenBy(s) \subseteq List!Linked(links')
        /\ MarkedBy(s) \subseteq List!MainOf(links')
    BY <2>1 DEF WrittenBy, MarkedBy, List!Linked, List!MainOf, List!Seen, List!Keep
  <2>4. CASE job[s].op = "upload"
    BY <2>1, <2>2, <2>3, <2>4 DEF Fits, StepFits, UploadFits, List!Lands
  <2>5. CASE job[s].op = "set"
    BY <2>1, <2>2, <2>3, <2>5 DEF Fits, StepFits, SetFits, List!Lands
  <2>6. job[s].op \in {"set", "upload"}
    BY <2>1, <2>2 DEF Fits, StepFits
  <2> QED
    BY <2>4, <2>5, <2>6
<1>3. ListInv /\ [List!Next]_listVars
      => [\A s \in Sessions : List!Commits(s) => List!Lands(s)]_(List!vars)
  BY <1>2
<1> QED
  BY <1>1, <1>3, RecordsKeepLists, PTL DEF MCSpec, CommittedLands, List!CommittedLands

(***************************************************************************)
(* Requests that another service answers                                   *)
(***************************************************************************)

\* What becomes of a r: what was done is not answered with a 4xx, what was
\* not done is no success, and no call for an account ends with a 404.
LEMMA StatusesOfReplies ==
    ASSUME NEW c \in Peer!Calls
    PROVE  /\ \A r \in {200, 2, 1} : Peer!Status(c, r) \notin 400..499
           /\ \A r \in {400, 404, 409, 500, 503, 1} : Peer!Status(c, r) # 200
           /\ c \in Peer!ForAccount =>
                \A r \in {200, 2, 1, 400, 404, 409, 500, 503} : Peer!Status(c, r) # 404
<1>1. CASE c \in Peer!EmailCalls
  <2>1. \A r : Peer!Status(c, r) = Peer!EmailStatus(c, r)
    BY <1>1 DEF Peer!Status, Peer!EmailCalls, Peer!VkCalls, Peer!SettingCalls, Peer!SeoCalls, Peer!YandexCalls
  <2>2. QED
    BY <1>1, <2>1 DEF Peer!EmailStatus, Peer!EmailCalls, Peer!ForAccount, Peer!Lost, Peer!Unreadable
<1>2. CASE c \in Peer!VkCalls
  <2>1. \A r : Peer!Status(c, r) = Peer!VkStatus(c, r)
    BY <1>2 DEF Peer!Status, Peer!EmailCalls, Peer!VkCalls, Peer!SettingCalls, Peer!SeoCalls, Peer!YandexCalls
  <2>2. QED
    BY <1>2, <2>1 DEF Peer!VkStatus, Peer!VkCalls, Peer!ForAccount, Peer!Lost, Peer!Unreadable
<1>3. CASE c \in Peer!SettingCalls
  <2>1. \A r : Peer!Status(c, r) = Peer!SettingStatus(c, r)
    BY <1>3 DEF Peer!Status, Peer!EmailCalls, Peer!VkCalls, Peer!SettingCalls, Peer!SeoCalls, Peer!YandexCalls
  <2>2. QED
    BY <1>3, <2>1 DEF Peer!SettingStatus, Peer!SettingCalls, Peer!ForAccount, Peer!Lost, Peer!Unreadable
<1>4. CASE c \in Peer!SeoCalls
  <2>1. \A r : Peer!Status(c, r) = Peer!SeoStatus(c, r)
    BY <1>4 DEF Peer!Status, Peer!EmailCalls, Peer!VkCalls, Peer!SettingCalls, Peer!SeoCalls, Peer!YandexCalls
  <2>2. QED
    BY <1>4, <2>1 DEF Peer!SeoStatus, Peer!SeoCalls, Peer!ForAccount, Peer!Lost, Peer!Unreadable
<1>5. CASE c \in Peer!YandexCalls
  <2>1. \A r : Peer!Status(c, r) = Peer!YandexStatus(c, r)
    BY <1>5 DEF Peer!Status, Peer!EmailCalls, Peer!VkCalls, Peer!SettingCalls, Peer!SeoCalls, Peer!YandexCalls
  <2>2. QED
    BY <1>5, <2>1 DEF Peer!YandexStatus, Peer!YandexCalls, Peer!Lost, Peer!Unreadable
<1> QED
  BY <1>1, <1>2, <1>3, <1>4, <1>5 DEF Peer!Calls

\* A set of numbers has a least one.
LEMMA LeastNumber ==
    ASSUME NEW S \in SUBSET Nat, S # {}
    PROVE  \E c \in S : \A d \in S : c <= d
<1> DEFINE Less == {ss \in Nat \X Nat : ss[1] < ss[2]}
<1>1. IsWellFoundedOn(Less, Nat)
  BY NatLessThanWellFounded DEF OpToRel
<1>2. PICK c \in S : \A d \in S : ~(<<d, c>> \in Less)
  BY <1>1, WFMin
<1>3. \A d \in S : ~(d < c)
  BY <1>2
<1> QED
  BY <1>2, <1>3

\* The cardinality of the instance is that of the library.
LEMMA SameCount == ASSUME NEW S PROVE Peer!Cardinality(S) = Cardinality(S)
  BY DEF Peer!Cardinality, Cardinality

\* The tenant's accounts among the first n of a list, and how many they are.
OwnIn(s, n) == {i \in 1..n : tenantOf[s[i]] = request.actor}

Rank(s, n) == Cardinality(OwnIn(s, n))

LEMMA OwnIsOwn ==
    /\ \A n : Peer!OwnUpTo(n) = OwnIn(accounts, n)
    /\ \A n : Peer!Cardinality(Peer!OwnUpTo(n)) = Rank(accounts, n)
    /\ Peer!Total = Rank(accounts, Len(accounts))
  BY SameCount DEF Peer!OwnUpTo, OwnIn, Rank, Peer!Total, Peer!actor

LEMMA RankIsNumber ==
    ASSUME NEW s, NEW n \in Nat
    PROVE  /\ IsFiniteSet(OwnIn(s, n)) /\ Rank(s, n) \in Nat
           /\ \A i \in 0..n : Rank(s, i) <= Rank(s, n)
           /\ \A i \in OwnIn(s, n) : Rank(s, i) = Rank(s, i - 1) + 1
           /\ \A i \in 1..n : i \notin OwnIn(s, n) => Rank(s, i) = Rank(s, i - 1)
           /\ Rank(s, 0) = 0
<1>1. ASSUME NEW i \in Nat
      PROVE  IsFiniteSet(OwnIn(s, i)) /\ Rank(s, i) \in Nat
  <2>1. OwnIn(s, i) \in SUBSET (1..i) /\ IsFiniteSet(1..i)
    BY FS_Interval DEF OwnIn
  <2> QED
    BY <2>1, FS_Subset, FS_CardinalityType DEF Rank
<1>2. ASSUME NEW i \in 0..n
      PROVE  Rank(s, i) <= Rank(s, n)
  <2>1. OwnIn(s, i) \in SUBSET OwnIn(s, n)
    BY DEF OwnIn
  <2> QED
    BY <1>1, <2>1, FS_Subset DEF Rank
<1>3. ASSUME NEW i \in OwnIn(s, n)
      PROVE  Rank(s, i) = Rank(s, i - 1) + 1
  <2>1. i \in Nat /\ i - 1 \in Nat
    BY DEF OwnIn
  <2>2. OwnIn(s, i) = OwnIn(s, i - 1) \cup {i} /\ i \notin OwnIn(s, i - 1)
    BY <2>1 DEF OwnIn
  <2> QED
    BY <1>1, <2>1, <2>2, FS_AddElement DEF Rank
<1>4. ASSUME NEW i \in 1..n, i \notin OwnIn(s, n)
      PROVE  Rank(s, i) = Rank(s, i - 1)
  <2>1. OwnIn(s, i) = OwnIn(s, i - 1)
    BY <1>4 DEF OwnIn
  <2> QED
    BY <2>1 DEF Rank
<1>5. Rank(s, 0) = 0
  <2>1. OwnIn(s, 0) = {}
    BY DEF OwnIn
  <2> QED
    BY <2>1, FS_EmptySet DEF Rank
<1> QED
  BY <1>1, <1>2, <1>3, <1>4, <1>5

\* Where more than k accounts come, one of them is number k + 1.
LEMMA EveryRank ==
    ASSUME NEW s, NEW n \in Nat, NEW k \in Nat, k < Rank(s, n)
    PROVE  \E j \in OwnIn(s, n) : Rank(s, j) = k + 1
<1> DEFINE S == {j \in 0..n : k < Rank(s, j)}
<1>1. n \in S /\ S \in SUBSET Nat
  OBVIOUS
<1>2. PICK j \in S : \A d \in S : j <= d
  BY <1>1, LeastNumber
<1>3. j # 0 /\ j \in 1..n /\ j - 1 \in 0..n /\ j - 1 \notin S
  BY <1>2, RankIsNumber
<1>4. Rank(s, j) \in Nat /\ Rank(s, j - 1) \in Nat /\ Rank(s, j - 1) <= k /\ k < Rank(s, j)
  BY <1>2, <1>3, RankIsNumber
<1>5. j \in OwnIn(s, n) /\ Rank(s, j) = Rank(s, j - 1) + 1
  BY <1>3, <1>4, RankIsNumber
<1> QED
  BY <1>4, <1>5

\* A page holds no more than its size.
LEMMA PageFits ==
    ASSUME NEW s, NEW n \in Nat, NEW k \in Nat, NEW size \in Nat
    PROVE  Cardinality({i \in OwnIn(s, n) : Rank(s, i) \in k + 1 .. k + size}) \in 0..size
<1> DEFINE P == {i \in OwnIn(s, n) : Rank(s, i) \in k + 1 .. k + size}
           f == [i \in P |-> Rank(s, i)]
<1>1. IsFiniteSet(k + 1 .. k + size) /\ Cardinality(k + 1 .. k + size) = size
  BY FS_Interval
<1>2. f \in Injection(P, k + 1 .. k + size)
  <2>1. ASSUME NEW i \in P, NEW j \in P, i < j
        PROVE  Rank(s, i) # Rank(s, j)
    <3>1. i \in 0 .. j - 1 /\ j \in 1..n /\ j - 1 \in Nat
      BY <2>1 DEF OwnIn
    <3>2. Rank(s, i) <= Rank(s, j - 1) /\ Rank(s, j) = Rank(s, j - 1) + 1
      BY <3>1, RankIsNumber
    <3> QED
      BY <3>1, <3>2, RankIsNumber
  <2>2. \A i, j \in P : i # j => f[i] # f[j]
    <3>1. \A i \in P : i \in Nat
      BY DEF OwnIn
    <3> QED
      BY <2>1, <3>1
  <2>3. f \in [P -> k + 1 .. k + size]
    OBVIOUS
  <2> QED
    BY <2>2, <2>3 DEF Injection, IsInjective
<1>3. IsFiniteSet(P) /\ Cardinality(P) <= size
  BY <1>1, <1>2, FS_Injection
<1> QED
  BY <1>3, FS_CardinalityType

\* Accounts that keep their order stay as far down the list.
LEMMA RankKept ==
    ASSUME NEW s, NEW t, NEW p \in Nat, NEW q \in Nat, NEW f \in [OwnIn(s, p) -> 1..q],
           \A i, j \in OwnIn(s, p) : i # j => f[i] # f[j],
           \A i \in OwnIn(s, p) : t[f[i]] = s[i]
    PROVE  Rank(s, p) <= Rank(t, q)
<1>1. f \in Injection(OwnIn(s, p), OwnIn(t, q))
  <2>1. f \in [OwnIn(s, p) -> OwnIn(t, q)]
    BY DEF OwnIn
  <2> QED
    BY <2>1 DEF Injection, IsInjective
<1> QED
  BY <1>1, RankIsNumber, FS_Injection DEF Rank

\* A list that an account comes to, and one that an account goes from.
LEMMA InsertedSeq ==
    ASSUME NEW s \in Seq(Accounts), NEW i \in 1..(Len(s) + 1), NEW a \in Accounts
    PROVE  LET t == Peer!InsertAt(s, i, a)
           IN  /\ t \in Seq(Accounts) /\ Len(t) = Len(s) + 1
               /\ \A j \in 1..Len(s) : j < i => t[j] = s[j]
               /\ \A j \in 1..Len(s) : ~(j < i) => t[j + 1] = s[j]
<1> DEFINE t == Peer!InsertAt(s, i, a)
<1> DEFINE A == SubSeq(s, 1, i - 1)
           B == <<a>>
           C == SubSeq(s, i, Len(s))
<1>1. /\ A \in Seq(Accounts) /\ Len(A) = i - 1
      /\ \A j \in 1 .. i - 1 : A[j] = s[j]
  OBVIOUS
<1>2. /\ C \in Seq(Accounts) /\ Len(C) = Len(s) - i + 1
      /\ \A j \in 1 .. Len(s) - i + 1 : C[j] = s[i + j - 1]
  OBVIOUS
<1>3. B \in Seq(Accounts) /\ Len(B) = 1
  OBVIOUS
<1>4. t = (A \o B) \o C
  BY Zenon DEF Peer!InsertAt
<1> HIDE DEF A, B, C, t
<1>5. /\ A \o B \in Seq(Accounts) /\ Len(A \o B) = i
      /\ \A j \in 1 .. i - 1 : (A \o B)[j] = s[j]
  <2>1. A \o B \in Seq(Accounts) /\ Len(A \o B) = Len(A) + Len(B)
    BY <1>1, <1>3, ConcatProperties
  <2>2. \A j \in 1 .. Len(A) : (A \o B)[j] = A[j]
    BY <1>1, <1>3
  <2> QED
    BY <1>1, <1>3, <2>1, <2>2
<1>6. /\ t \in Seq(Accounts) /\ Len(t) = Len(s) + 1
      /\ \A j \in 1 .. i : t[j] = (A \o B)[j]
      /\ \A j \in 1 .. Len(s) - i + 1 : t[i + j] = C[j]
  <2> DEFINE D == A \o B
  <2>1. D \in Seq(Accounts) /\ Len(D) = i /\ t = D \o C
    BY <1>4, <1>5
  <2> HIDE DEF D
  <2> DEFINE m == Len(s) - i + 1
  <2>2. m \in Nat /\ i \in Nat /\ Len(s) \in Nat /\ i + m = Len(s) + 1 /\ Len(C) = m
    BY <1>2
  <2> HIDE DEF m
  <2>3. /\ t \in Seq(Accounts) /\ Len(t) = i + m
        /\ \A j \in 1 .. i + m : t[j] = IF j <= i THEN D[j] ELSE C[j - i]
    <3>1. /\ D \o C \in Seq(Accounts) /\ Len(D \o C) = Len(D) + Len(C)
          /\ \A j \in 1 .. Len(D) + Len(C) :
               (D \o C)[j] = IF j <= Len(D) THEN D[j] ELSE C[j - Len(D)]
      BY <1>2, <2>1, ConcatProperties, Zenon
    <3> QED
      BY <2>1, <2>2, <3>1, Zenon
  <2>4. \A j \in 1 .. i : t[j] = D[j]
    BY <2>2, <2>3
  <2>5. \A j \in 1 .. m : t[i + j] = C[j]
    <3> TAKE j \in 1 .. m
    <3>1. i + j \in 1 .. i + m /\ ~(i + j <= i) /\ i + j - i = j
      BY <2>2
    <3> DEFINE h == i + j
    <3>2. h \in 1 .. i + m /\ ~(h <= i) /\ h - i = j
      BY <2>2, <3>1
    <3> HIDE DEF h
    <3>3. t[h] = C[h - i]
      BY <2>3, <3>2
    <3> QED
      BY <3>2, <3>3 DEF h
  <2> QED
    BY <2>2, <2>3, <2>4, <2>5 DEF D, m
<1>7. ASSUME NEW j \in 1 .. Len(s), ~(j < i)
      PROVE  t[j + 1] = s[j]
  <2>1. j - i + 1 \in 1 .. Len(s) - i + 1 /\ i + (j - i + 1) = j + 1
        /\ i + (j - i + 1) - 1 = j
    BY <1>7
  <2>2. t[i + (j - i + 1)] = C[j - i + 1] /\ C[j - i + 1] = s[i + (j - i + 1) - 1]
    BY <1>2, <1>6, <2>1
  <2> QED
    BY <2>1, <2>2
<1>8. \A j \in 1 .. Len(s) : j < i => t[j] = s[j]
  <2>1. \A j \in 1 .. Len(s) : j < i => j \in 1 .. i /\ j \in 1 .. i - 1
    OBVIOUS
  <2> QED
    BY <1>5, <1>6, <2>1
<1> QED
  BY <1>6, <1>7, <1>8 DEF t

LEMMA RemovedSeq ==
    ASSUME NEW s \in Seq(Accounts), NEW i \in 1..Len(s)
    PROVE  LET t == Peer!RemoveAt(s, i)
           IN  /\ t \in Seq(Accounts) /\ Len(t) = Len(s) - 1
               /\ \A j \in 1..Len(s) : j < i => t[j] = s[j]
               /\ \A j \in 1..Len(s) : i < j => t[j - 1] = s[j]
<1> DEFINE t == Peer!RemoveAt(s, i)
<1> DEFINE A == SubSeq(s, 1, i - 1)
           C == SubSeq(s, i + 1, Len(s))
<1>1. /\ A \in Seq(Accounts) /\ Len(A) = i - 1
      /\ \A j \in 1 .. i - 1 : A[j] = s[j]
  OBVIOUS
<1>2. /\ C \in Seq(Accounts) /\ Len(C) = Len(s) - i
      /\ \A j \in 1 .. Len(s) - i : C[j] = s[i + j]
  OBVIOUS
<1>3. t = A \o C
  BY DEF Peer!RemoveAt
<1> HIDE DEF A, C, t
<1>4. /\ t \in Seq(Accounts) /\ Len(t) = Len(s) - 1
      /\ \A j \in 1 .. i - 1 : t[j] = A[j]
      /\ \A j \in 1 .. Len(s) - i : t[i - 1 + j] = C[j]
  <2> DEFINE k == i - 1
             m == Len(s) - i
  <2>1. k \in Nat /\ m \in Nat /\ Len(A) = k /\ Len(C) = m /\ k + m = Len(s) - 1
    BY <1>1, <1>2
  <2>2. /\ A \o C \in Seq(Accounts) /\ Len(A \o C) = Len(A) + Len(C)
        /\ \A j \in 1 .. Len(A) + Len(C) :
             (A \o C)[j] = IF j <= Len(A) THEN A[j] ELSE C[j - Len(A)]
    BY <1>1, <1>2, ConcatProperties, Zenon
  <2> HIDE DEF k, m
  <2>3. t \in Seq(Accounts) /\ Len(t) = k + m
    BY <1>3, <2>1, <2>2, Zenon
  <2>6. \A h \in 1 .. k + m : t[h] = IF h <= k THEN A[h] ELSE C[h - k]
    BY <1>3, <2>1, <2>2, Zenon
  <2>4. \A j \in 1 .. k : t[j] = A[j]
    BY <2>1, <2>6
  <2>5. \A j \in 1 .. m : t[k + j] = C[j]
    <3> TAKE j \in 1 .. m
    <3>1. k + j \in 1 .. k + m /\ ~(k + j <= k) /\ k + j - k = j
      BY <2>1
    <3> DEFINE h == k + j
    <3>2. h \in 1 .. k + m /\ ~(h <= k) /\ h - k = j
      BY <2>1, <3>1
    <3> HIDE DEF h
    <3>3. t[h] = IF h <= k THEN A[h] ELSE C[h - k]
      BY <2>6, <3>2
    <3>4. t[h] = C[h - k]
      BY <3>2, <3>3
    <3> QED
      BY <3>2, <3>4 DEF h
  <2> QED
    BY <2>1, <2>3, <2>4, <2>5 DEF k, m
<1>5. ASSUME NEW j \in 1 .. Len(s), i < j
      PROVE  t[j - 1] = s[j]
  <2>1. j - i \in 1 .. Len(s) - i /\ i - 1 + (j - i) = j - 1 /\ i + (j - i) = j
    BY <1>5
  <2> QED
    BY <1>2, <1>4, <2>1
<1>6. \A j \in 1 .. Len(s) : j < i => t[j] = s[j]
  BY <1>1, <1>4
<1> QED
  BY <1>4, <1>5, <1>6 DEF t

\* Where an account is after another one came or went.
LEMMA Inserted ==
    ASSUME NEW s \in Seq(Accounts), NEW i \in 1..(Len(s) + 1), NEW a \in Accounts,
           NEW p \in OwnIn(s, Len(s))
    PROVE  LET t == Peer!InsertAt(s, i, a)
           IN  \E q \in OwnIn(t, Len(t)) : t[q] = s[p] /\ Rank(s, p) <= Rank(t, q)
<1> DEFINE t == Peer!InsertAt(s, i, a)
           q == IF p < i THEN p ELSE p + 1
           f == [j \in OwnIn(s, p) |-> IF j < i THEN j ELSE j + 1]
<1>1. /\ t \in Seq(Accounts) /\ Len(t) = Len(s) + 1
      /\ \A j \in 1..Len(s) : j < i => t[j] = s[j]
      /\ \A j \in 1..Len(s) : ~(j < i) => t[j + 1] = s[j]
  BY InsertedSeq
<1> HIDE DEF t
<1>2. p \in 1..Len(s) /\ q \in 1..Len(t) /\ t[q] = s[p]
  BY <1>1 DEF OwnIn
<1>3. q \in OwnIn(t, Len(t))
  BY <1>2 DEF OwnIn
<1>4. OwnIn(s, p) \subseteq 1..p
  BY DEF OwnIn
<1>5. f \in [OwnIn(s, p) -> 1..q]
  BY <1>2, <1>4
<1>6. \A j, k \in OwnIn(s, p) : j # k => f[j] # f[k]
  BY <1>2, <1>4
<1>7. \A j \in OwnIn(s, p) : t[f[j]] = s[j]
  BY <1>1, <1>2, <1>4
<1>8. p \in Nat /\ q \in Nat
  BY <1>2
<1> HIDE DEF f, q
<1>9. Rank(s, p) <= Rank(t, q)
  BY <1>5, <1>6, <1>7, <1>8, RankKept
<1> QED
  BY <1>1, <1>2, <1>3, <1>9 DEF t

LEMMA Removed ==
    ASSUME NEW s \in Seq(Accounts), NEW i \in 1..Len(s), NEW p \in OwnIn(s, Len(s)), p # i
    PROVE  LET t == Peer!RemoveAt(s, i)
           IN  \E q \in OwnIn(t, Len(t)) :
               /\ t[q] = s[p] /\ 0 < Rank(t, q)
               /\ tenantOf[s[i]] # request.actor => Rank(s, p) <= Rank(t, q)
<1> DEFINE t == Peer!RemoveAt(s, i)
           q == IF p < i THEN p ELSE p - 1
           f == [j \in OwnIn(s, p) |-> IF j < i THEN j ELSE j - 1]
<1>1. /\ t \in Seq(Accounts) /\ Len(t) = Len(s) - 1
      /\ \A j \in 1..Len(s) : j < i => t[j] = s[j]
      /\ \A j \in 1..Len(s) : i < j => t[j - 1] = s[j]
  BY RemovedSeq
<1> HIDE DEF t
<1>2. p \in 1..Len(s) /\ q \in 1..Len(t) /\ t[q] = s[p]
  BY <1>1 DEF OwnIn
<1>3. q \in OwnIn(t, Len(t))
  BY <1>2 DEF OwnIn
<1>4. OwnIn(s, p) \subseteq 1..p
  BY DEF OwnIn
<1>5. p \in Nat /\ q \in Nat
  BY <1>2
<1>6. 0 < Rank(t, q)
  <2>1. Rank(t, q) = Rank(t, q - 1) + 1 /\ Rank(t, q - 1) \in Nat
    <3>1. q - 1 \in Nat /\ q - 1 \in 0 .. Len(t)
      BY <1>2
    <3> HIDE DEF q
    <3> QED
      BY <1>1, <1>3, <3>1, RankIsNumber
  <2> HIDE DEF q
  <2> QED
    BY <2>1
<1>7. ASSUME tenantOf[s[i]] # request.actor
      PROVE  Rank(s, p) <= Rank(t, q)
  <2>1. i \notin OwnIn(s, p)
    BY <1>7 DEF OwnIn
  <2>2. f \in [OwnIn(s, p) -> 1..q]
    BY <1>2, <1>4, <2>1
  <2>3. \A j, k \in OwnIn(s, p) : j # k => f[j] # f[k]
    BY <1>2, <1>4, <2>1
  <2>4. \A j \in OwnIn(s, p) : t[f[j]] = s[j]
    BY <1>1, <1>2, <1>4, <2>1
  <2> HIDE DEF f, q
  <2> QED
    BY <1>5, <2>2, <2>3, <2>4, RankKept
<1> QED
  BY <1>1, <1>2, <1>3, <1>6, <1>7 DEF t

\* The account is still to come on the list.
Ahead ==
    \E p \in OwnIn(accounts, Len(accounts)) :
        accounts[p] = request.target /\ offset < Rank(accounts, p)

\* Before the answer: nothing is done; the account is still to come, unless it
\* was not there or the list moved; a call is made for its own.
PeerInv ==
    /\ request \in Peer!Requests
    /\ stage \in {"asked", "check", "find", "call", "answered"}
    /\ stage # "answered" =>
         ~done /\ answer = 0 /\ accounts \in Seq(Accounts) /\ offset \in Nat
    /\ stage = "asked" => offset = 0
    /\ stage = "check" => request.call \in Peer!ForAccount /\ (absent \/ Ahead)
    /\ stage = "find" => request.call = "delete_connection"
    /\ stage = "call" => Peer!OwnTarget
    /\ Peer!AnswerMatchesPeer

LEMMA CallIsKnown == request \in Peer!Requests => request.call \in Peer!Calls
  BY DEF Peer!Requests, Peer!Calls, Peer!ForUser, Peer!ByCode, Peer!ForAccount, Peer!EmailCalls,
         Peer!VkCalls, Peer!SettingCalls, Peer!SeoCalls, Peer!YandexCalls

\* A request that is not refused is about the user of its session.
LEMMA Unrefused ==
    ASSUME Peer!Refusals(request) = {}
    PROVE  request.call \in (Peer!ForUser \cup Peer!ByCode) \ Peer!Sessionless => request.target = request.actor
<1>1. 400 \notin Peer!Refusals(request) /\ 403 \notin Peer!Refusals(request)
  OBVIOUS
<1> QED
  BY <1>1 DEF Peer!Refusals, Peer!NotOwner, Peer!ForeignState, Peer!ByCode, Peer!Sessionless

LEMMA PeerInit == ASSUME IsFiniteSet(Accounts), Peer!Init PROVE PeerInv
<1>1. PICK S \in SUBSET Accounts : accounts = Peer!SetToSeq(S)
  BY DEF Peer!Init
<1>2. IsFiniteSet(S) /\ Cardinality(S) \in Nat
  BY FS_Subset, FS_CardinalityType
<1>3. PICK f : f \in Bijection(1..Cardinality(S), S)
  BY <1>2, FS_CardinalityType DEF ExistsBijection
<1>4. f \in [1..Peer!Cardinality(S) -> S] /\ Peer!IsInjective(f)
  BY <1>3, SameCount DEF Bijection, Injection, IsInjective, Peer!IsInjective
<1>5. accounts \in [1..Peer!Cardinality(S) -> S]
  BY <1>1, <1>4 DEF Peer!SetToSeq
<1>6. accounts \in Seq(Accounts)
  BY <1>2, <1>5, SameCount
<1> QED
  BY <1>6 DEF Peer!Init, PeerInv, Peer!AnswerMatchesPeer, Peer!Unanswered
\* A page without the account leaves the account to come, and more than it.
LEMMA PageStep ==
    ASSUME PageSize \in Nat \ {0}, accounts \in Seq(Accounts), offset \in Nat, Ahead,
           ~Peer!Listed(Peer!Page)
    PROVE  /\ Peer!Page # {}
           /\ Peer!Cardinality(Peer!Page) \in Nat
           /\ offset + Peer!Cardinality(Peer!Page) < Peer!Total
           /\ \E p \in OwnIn(accounts, Len(accounts)) :
                accounts[p] = request.target
                /\ offset + Peer!Cardinality(Peer!Page) < Rank(accounts, p)
<1> DEFINE n == Len(accounts)
           R(i) == Rank(accounts, i)
           P == {i \in OwnIn(accounts, n) : R(i) \in offset + 1 .. offset + PageSize}
<1>1. Peer!Page = P /\ Peer!Cardinality(Peer!Page) = Cardinality(P) /\ Peer!Total = R(n)
  BY OwnIsOwn, SameCount DEF Peer!Page
<1>2. Cardinality(P) \in 0 .. PageSize /\ n \in Nat
  <2>1. n \in Nat /\ PageSize \in Nat
    OBVIOUS
  <2> HIDE DEF n
  <2> QED
    BY <2>1, PageFits
<1>3. PICK p \in OwnIn(accounts, n) : accounts[p] = request.target /\ offset < R(p)
  BY DEF Ahead
<1>4. p \notin P
  BY <1>1, <1>3 DEF Peer!Listed
<1>5. p \in 0 .. n /\ p \in Nat
  BY <1>2 DEF OwnIn
<1>6. R(p) \in Nat /\ R(n) \in Nat /\ R(p) <= R(n)
  BY <1>2, <1>5, RankIsNumber
<1>7. offset + PageSize < R(p)
  BY <1>3, <1>4, <1>6
<1>8. PICK j \in OwnIn(accounts, n) : R(j) = offset + 1
  BY <1>2, <1>3, <1>6, EveryRank
<1>9. j \in P
  BY <1>8
<1> HIDE DEF P, R, n
<1>10. offset + Cardinality(P) < R(p) /\ offset + Cardinality(P) < R(n)
  BY <1>2, <1>6, <1>7
<1> QED
  BY <1>1, <1>2, <1>3, <1>9, <1>10 DEF n, R

LEMMA PeerStep ==
    ASSUME PageSize \in Nat \ {0}, PeerInv, [Peer!Next]_peerVars
    PROVE  PeerInv'
<1> USE DEF Peer!Unanswered
<1>1. CASE UNCHANGED peerVars
  <2>1. UNCHANGED <<tenantOf, accounts, request, stage, offset, answer, done, absent>>
    BY <1>1 DEF peerVars
  <2>2. Ahead => Ahead'
    BY <2>1 DEF Ahead, OwnIn, Rank
  <2>3. Peer!OwnTarget => Peer!OwnTarget'
    BY <2>1 DEF Peer!OwnTarget, Peer!actor
  <2>4. Peer!AnswerMatchesPeer'
    BY <2>1, <2>3 DEF PeerInv, Peer!AnswerMatchesPeer, Peer!OwnTarget, Peer!actor
  <2> QED
    BY <2>1, <2>2, <2>3, <2>4 DEF PeerInv
<1>a. request.call \in Peer!Calls
  BY CallIsKnown DEF PeerInv
<1>b. ASSUME request' = request, stage' = "answered", tenantOf' = tenantOf, Peer!AnswerMatchesPeer'
      PROVE  PeerInv'
  BY <1>b DEF PeerInv
<1>2. CASE Peer!Refuse
  <2>1. PICK s \in Peer!Refusals(request) : answer' = s
    BY <1>2 DEF Peer!Refuse, Peer!Respond
  <2>2. s \in {400, 403, 404} /\ (s = 404 => request.call = "setting")
    BY <2>1 DEF Peer!Refusals, Peer!NotEligible
  <2>3. "setting" \notin Peer!ForAccount
    BY DEF Peer!ForAccount
  <2>4. Peer!AnswerMatchesPeer'
    BY <1>2, <2>1, <2>2, <2>3 DEF Peer!Refuse, PeerInv, Peer!AnswerMatchesPeer
  <2> QED
    BY <1>2, <1>b, <2>4 DEF Peer!Refuse, Peer!Respond
<1>3. CASE Peer!NoSettings
  <2>1. Peer!AnswerMatchesPeer'
    BY <1>3 DEF Peer!NoSettings, Peer!Respond, PeerInv, Peer!AnswerMatchesPeer, Peer!Reads
  <2> QED
    BY <1>3, <1>b, <2>1 DEF Peer!NoSettings, Peer!Respond
<1>4. CASE Peer!Start
  <2>1. stage' \in {"check", "find", "call"} /\ request' = request /\ tenantOf' = tenantOf
        /\ (stage' = "check" <=> request.call \in Peer!ForAccount)
        /\ (stage' = "find" => request.call = "delete_connection")
    BY <1>4 DEF Peer!Start, Peer!ForAccount
  <2>2. stage' = "check" => (absent \/ Ahead)'
    <3>1. SUFFICES ASSUME stage' = "check", ~absent' PROVE Ahead'
      OBVIOUS
    <3>2. Peer!Listed(Peer!OwnUpTo(Len(accounts)))
      BY <1>4, <2>1, <3>1 DEF Peer!Start
    <3>3. PICK p \in OwnIn(accounts, Len(accounts)) : accounts[p] = request.target
      BY <3>2, OwnIsOwn DEF Peer!Listed
    <3>4. Len(accounts) \in Nat /\ p \in 1 .. Len(accounts) /\ offset = 0
      BY <1>4 DEF Peer!Start, PeerInv, OwnIn
    <3>5. 0 < Rank(accounts, p)
      BY <3>3, <3>4, RankIsNumber
    <3> QED
      BY <1>4, <3>3, <3>4, <3>5 DEF Peer!Start, Ahead, OwnIn, Rank
  <2>3. stage' = "call" => Peer!OwnTarget'
    BY <1>4, <2>1, Unrefused DEF Peer!Start, Peer!OwnTarget, Peer!actor
  <2> QED
    BY <1>4, <2>1, <2>2, <2>3 DEF Peer!Start, PeerInv, Peer!AnswerMatchesPeer
<1>5. CASE Peer!CheckPage
  <2>1. /\ request.call \in Peer!ForAccount /\ request \in Peer!Requests /\ stage = "check"
        /\ ~done /\ answer = 0 /\ accounts \in Seq(Accounts) /\ offset \in Nat
        /\ absent \/ Ahead
        /\ UNCHANGED <<tenantOf, accounts, connected, changes, request, done, absent>>
    BY <1>5 DEF Peer!CheckPage, PeerInv
  <2>2. CASE Peer!Listed(Peer!Page)
    <3>1. stage' = "call" /\ offset' = offset /\ answer' = answer
      BY <1>5, <2>2 DEF Peer!CheckPage
    <3>2. tenantOf[request.target] = request.actor
      BY <2>2, OwnIsOwn DEF Peer!Listed, Peer!Page, OwnIn
    <3>3. Peer!OwnTarget'
      BY <2>1, <3>2 DEF Peer!OwnTarget, Peer!actor, Peer!ForAccount, Peer!ForUser, Peer!ByCode
    <3> QED
      BY <2>1, <3>1, <3>3 DEF PeerInv, Peer!AnswerMatchesPeer
  <2>3. CASE ~Peer!Listed(Peer!Page) /\ absent
    <3>1. offset' = offset + Peer!Cardinality(Peer!Page)
          /\ \/ stage' = "answered" /\ answer' = 404
             \/ stage' = stage /\ answer' = answer
      BY <1>5, <2>3 DEF Peer!CheckPage, Peer!Respond
    <3>2. Peer!Cardinality(Peer!Page) \in Nat
      <4>1. Peer!Page \in SUBSET OwnIn(accounts, Len(accounts)) /\ Len(accounts) \in Nat
        BY <2>1, OwnIsOwn DEF Peer!Page
      <4>2. IsFiniteSet(OwnIn(accounts, Len(accounts)))
        BY <4>1, RankIsNumber
      <4> QED
        BY <4>1, <4>2, SameCount, FS_Subset, FS_CardinalityType
    <3>3. Peer!AnswerMatchesPeer'
      BY <2>1, <2>3, <3>1 DEF Peer!AnswerMatchesPeer
    <3> QED
      BY <2>1, <2>3, <3>1, <3>2, <3>3 DEF PeerInv
  <2>4. CASE ~Peer!Listed(Peer!Page) /\ ~absent
    <3>1. /\ Peer!Page # {} /\ Peer!Cardinality(Peer!Page) \in Nat
          /\ offset + Peer!Cardinality(Peer!Page) < Peer!Total
          /\ \E p \in OwnIn(accounts, Len(accounts)) :
               accounts[p] = request.target
               /\ offset + Peer!Cardinality(Peer!Page) < Rank(accounts, p)
      BY <2>1, <2>4, PageStep
    <3>2. Peer!Total \in Nat
      BY <2>1, OwnIsOwn, RankIsNumber
    <3>3. offset' = offset + Peer!Cardinality(Peer!Page) /\ stage' = stage /\ answer' = answer
      BY <1>5, <2>1, <2>4, <3>1, <3>2 DEF Peer!CheckPage
    <3>4. Ahead'
      BY <2>1, <3>1, <3>3 DEF Ahead, OwnIn, Rank
    <3>5. Peer!AnswerMatchesPeer'
      BY <2>1, <3>3 DEF Peer!AnswerMatchesPeer
    <3> QED
      BY <2>1, <3>1, <3>3, <3>4, <3>5 DEF PeerInv
  <2> QED
    BY <2>2, <2>3, <2>4
<1>6. CASE Peer!FindConnection
  <2>1. /\ request.call = "delete_connection" /\ request \in Peer!Requests
        /\ ~done /\ answer = 0 /\ accounts \in Seq(Accounts) /\ offset \in Nat
        /\ UNCHANGED <<tenantOf, accounts, connected, changes, request, offset, absent>>
    BY <1>6 DEF Peer!FindConnection, PeerInv
  <2>2. Peer!OwnTarget'
    BY <2>1 DEF Peer!OwnTarget, Peer!ForAccount, Peer!ForUser, Peer!ByCode
  <2>3. \/ stage' = "call" /\ answer' = answer /\ done' = done
        \/ stage' = "answered" /\ answer' = 200 /\ done' = TRUE
    BY <1>6 DEF Peer!FindConnection, Peer!Respond
  <2>4. "delete_connection" \notin Peer!ForAccount
    BY DEF Peer!ForAccount
  <2>5. Peer!AnswerMatchesPeer'
    <3>1. ~done' => answer' = 0
      BY <2>1, <2>3
    <3>2. answer' \in {0, 200}
      BY <2>1, <2>3
    <3>3. answer' # 404 /\ answer' \notin 400..499 /\ (answer' = 200 => answer' # 0)
      BY <3>2
    <3> QED
      BY <2>2, <3>1, <3>3 DEF Peer!AnswerMatchesPeer
  <2> QED
    BY <2>1, <2>2, <2>3, <2>5 DEF PeerInv
<1>7. CASE Peer!ReadFails
  <2>1. PICK r \in {400, 404, 409, 500, 503, 1, 2} :
            stage' = "answered" /\ answer' = Peer!YandexStatus("list_accounts", r)
    BY <1>7 DEF Peer!ReadFails, Peer!Respond, Peer!Errors, Peer!Lost, Peer!Unreadable
  <2>2. answer' \in {400, 502}
    <3>1. "list_accounts" \notin {"delete_account", "delete_connection"}
      OBVIOUS
    <3>2. CASE r = 400
      BY <2>1, <3>2 DEF Peer!YandexStatus, Peer!Unreadable
    <3>3. CASE r # 400
      BY <2>1, <3>1, <3>3 DEF Peer!YandexStatus, Peer!Unreadable
    <3> QED
      BY <3>2, <3>3
  <2>3. Peer!AnswerMatchesPeer'
    <3>1. ~done /\ done' = done
      BY <1>7 DEF Peer!ReadFails, PeerInv
    <3>2. answer' # 200 /\ answer' # 404
      BY <2>2
    <3> QED
      BY <3>1, <3>2 DEF Peer!AnswerMatchesPeer
  <2> QED
    BY <1>7, <1>b, <2>1, <2>3 DEF Peer!ReadFails
<1>8. CASE Peer!CallDone
  <2>1. PICK r \in {200, 2, 1} : stage' = "answered" /\ answer' = Peer!Status(request.call, r)
    BY <1>8 DEF Peer!CallDone, Peer!Respond, Peer!Good, Peer!Lost, Peer!Unreadable
  <2>2. answer' \notin 400..499 /\ (request.call \in Peer!ForAccount => answer' # 404)
    BY <1>a, <2>1, StatusesOfReplies
  <2>3. Peer!OwnTarget'
    BY <1>8 DEF Peer!CallDone, PeerInv, Peer!OwnTarget, Peer!actor
  <2>4. Peer!AnswerMatchesPeer'
    BY <1>8, <2>2, <2>3 DEF Peer!CallDone, Peer!AnswerMatchesPeer
  <2> QED
    BY <1>8, <1>b, <2>1, <2>4 DEF Peer!CallDone
<1>9. CASE Peer!CallFails
  <2>1. PICK r \in {400, 404, 409, 500, 503, 1} :
            stage' = "answered" /\ answer' = Peer!Status(request.call, r)
    BY <1>9 DEF Peer!CallFails, Peer!Respond, Peer!Errors, Peer!Lost
  <2>2. answer' # 200 /\ (request.call \in Peer!ForAccount => answer' # 404)
    BY <1>a, <2>1, StatusesOfReplies
  <2>3. Peer!AnswerMatchesPeer'
    BY <1>9, <2>2 DEF Peer!CallFails, PeerInv, Peer!AnswerMatchesPeer
  <2> QED
    BY <1>9, <1>b, <2>1, <2>3 DEF Peer!CallFails
<1>10. CASE Peer!Disturb
  <2>1. /\ stage \in {"check", "find", "call"} /\ request \in Peer!Requests
        /\ ~done /\ answer = 0 /\ accounts \in Seq(Accounts) /\ offset \in Nat
        /\ stage = "check" => request.call \in Peer!ForAccount /\ (absent \/ Ahead)
        /\ stage = "find" => request.call = "delete_connection"
        /\ stage = "call" => Peer!OwnTarget
        /\ UNCHANGED <<tenantOf, request, stage, offset, answer, done>>
    BY <1>10 DEF Peer!Disturb, PeerInv
  <2>2. stage' = "call" => Peer!OwnTarget'
    BY <2>1 DEF Peer!OwnTarget, Peer!actor
  <2>3. Peer!AnswerMatchesPeer'
    BY <2>1 DEF Peer!AnswerMatchesPeer
  <2>4. SUFFICES ASSUME TRUE
                 PROVE  accounts' \in Seq(Accounts) /\ (absent \/ Ahead => (absent \/ Ahead)')
    BY <2>1, <2>2, <2>3 DEF PeerInv
  <2>5. CASE \E a \in Accounts \ Peer!ToSet(accounts), i \in 1..(Len(accounts) + 1) :
                /\ accounts' = Peer!InsertAt(accounts, i, a)
                /\ UNCHANGED <<connected, absent>>
    <3>1. PICK a \in Accounts, i \in 1..(Len(accounts) + 1) :
              accounts' = Peer!InsertAt(accounts, i, a) /\ absent' = absent
      BY <2>5
    <3>2. accounts' \in Seq(Accounts)
      BY <2>1, <3>1, InsertedSeq
    <3>3. ASSUME Ahead PROVE Ahead'
      <4>1. PICK p \in OwnIn(accounts, Len(accounts)) :
                accounts[p] = request.target /\ offset < Rank(accounts, p)
        BY <3>3 DEF Ahead
      <4>2. PICK q \in OwnIn(accounts', Len(accounts')) :
                accounts'[q] = accounts[p] /\ Rank(accounts, p) <= Rank(accounts', q)
        <5>1. LET t == Peer!InsertAt(accounts, i, a)
              IN  \E q \in OwnIn(t, Len(t)) :
                      t[q] = accounts[p] /\ Rank(accounts, p) <= Rank(t, q)
          BY <2>1, Inserted
        <5> QED
          BY <3>1, <5>1
      <4>3. Rank(accounts, p) \in Nat /\ Rank(accounts', q) \in Nat
        <5>1. p \in Nat /\ q \in Nat
          BY <2>1, <3>2 DEF OwnIn
        <5> QED
          BY <5>1, RankIsNumber
      <4>4. offset < Rank(accounts', q)
        BY <2>1, <4>1, <4>2, <4>3
      <4> QED
        BY <2>1, <4>1, <4>2, <4>4 DEF Ahead, OwnIn, Rank
    <3> QED
      BY <3>1, <3>2, <3>3
  <2>6. CASE \E i \in DOMAIN accounts :
                /\ accounts' = Peer!RemoveAt(accounts, i)
                /\ absent' = \/ absent \/ request.target = accounts[i]
                             \/ tenantOf[accounts[i]] = Peer!actor /\ offset > 0
                /\ UNCHANGED connected
    <3>1. PICK i \in 1 .. Len(accounts) :
              /\ accounts' = Peer!RemoveAt(accounts, i)
              /\ absent' = \/ absent \/ request.target = accounts[i]
                           \/ tenantOf[accounts[i]] = request.actor /\ offset > 0
      BY <2>1, <2>6 DEF Peer!actor
    <3>2. accounts' \in Seq(Accounts)
      BY <2>1, <3>1, RemovedSeq
    <3>3. ASSUME Ahead, ~absent' PROVE Ahead'
      <4>1. PICK p \in OwnIn(accounts, Len(accounts)) :
                accounts[p] = request.target /\ offset < Rank(accounts, p)
        BY <3>3 DEF Ahead
      <4>2. p # i
        BY <3>1, <3>3, <4>1
      <4>3. PICK q \in OwnIn(accounts', Len(accounts')) :
                /\ accounts'[q] = accounts[p] /\ 0 < Rank(accounts', q)
                /\ tenantOf[accounts[i]] # request.actor
                     => Rank(accounts, p) <= Rank(accounts', q)
        <5>1. LET t == Peer!RemoveAt(accounts, i)
              IN  \E q \in OwnIn(t, Len(t)) :
                      /\ t[q] = accounts[p] /\ 0 < Rank(t, q)
                      /\ tenantOf[accounts[i]] # request.actor => Rank(accounts, p) <= Rank(t, q)
          BY <2>1, <4>2, Removed
        <5> QED
          BY <3>1, <5>1
      <4>4. Rank(accounts, p) \in Nat /\ Rank(accounts', q) \in Nat
        <5>1. p \in Nat /\ q \in Nat
          BY <2>1, <3>2 DEF OwnIn
        <5> QED
          BY <5>1, RankIsNumber
      <4>5. offset < Rank(accounts', q)
        BY <2>1, <3>1, <3>3, <4>1, <4>3, <4>4
      <4> QED
        BY <2>1, <4>1, <4>3, <4>5 DEF Ahead, OwnIn, Rank
    <3>4. absent => absent'
      BY <3>1
    <3> QED
      BY <3>2, <3>3, <3>4
  <2>7. CASE accounts' = accounts /\ absent' = absent
    BY <2>1, <2>7 DEF Ahead, OwnIn, Rank
  <2> QED
    BY <1>10, <2>5, <2>6, <2>7 DEF Peer!Disturb
<1> QED
  BY <1>1, <1>2, <1>3, <1>4, <1>5, <1>6, <1>7, <1>8, <1>9, <1>10 DEF Peer!Next

\* The other parts of the run do not touch a proxied request.
LEMMA RecordsKeepPeer ==
    ASSUME [MCNext]_<<which, vars, listVars, webVars, peerVars>>
    PROVE  which' = which /\ (which = "peer" => [Peer!Next]_peerVars)
  BY DEF MCNext

\* The status of every proxied request is true of the peer, whatever page size
\* it reads the accounts with and however often others change them meanwhile
\* (yandex_proxy.py:24-35).
THEOREM StatusIsTrue == MCSpec => []AnswerMatchesPeer
<1> DEFINE Inv == which = "peer" => PeerInv
<1>1. MCInit => Inv
  BY PageConstants, PeerInit DEF MCInit, InitPeer
<1>2. Inv /\ [MCNext]_<<which, vars, listVars, webVars, peerVars>> => Inv'
  BY PageConstants, PeerStep, RecordsKeepPeer
<1>3. Inv => AnswerMatchesPeer
  BY DEF PeerInv, AnswerMatchesPeer
<1> QED
  BY <1>1, <1>2, <1>3, PTL DEF MCSpec

(***************************************************************************)
(* From a browser to a route                                               *)
(***************************************************************************)

\* A sequence of segments.
Path(p) == \E S : p \in Seq(S)

LEMMA ShortPaths ==
    /\ Path(<<>>)
    /\ \A a : Path(<<a>>) /\ Len(<<a>>) = 1 /\ <<a>>[1] = a
    /\ \A a, b : Path(<<a, b>>) /\ Len(<<a, b>>) = 2 /\ <<a, b>>[1] = a /\ <<a, b>>[2] = b
    /\ \A a, b, c : Path(<<a, b, c>>) /\ Len(<<a, b, c>>) = 3 /\ <<a, b, c>>[1] = a
    /\ \A a, b, c, d : Path(<<a, b, c, d>>) /\ Len(<<a, b, c, d>>) = 4 /\ <<a, b, c, d>>[1] = a
<1>1. Path(<<>>)
  <2>1. <<>> \in Seq({})
    OBVIOUS
  <2> QED
    BY <2>1 DEF Path
<1>2. ASSUME NEW a PROVE Path(<<a>>)
  <2>1. <<a>> \in Seq({a})
    OBVIOUS
  <2> QED
    BY <2>1 DEF Path
<1>3. ASSUME NEW a, NEW b PROVE Path(<<a, b>>)
  <2>1. <<a, b>> \in Seq({a, b})
    OBVIOUS
  <2> QED
    BY <2>1 DEF Path
<1>4. ASSUME NEW a, NEW b, NEW c PROVE Path(<<a, b, c>>)
  <2>1. <<a, b, c>> \in Seq({a, b, c})
    OBVIOUS
  <2> QED
    BY <2>1 DEF Path
<1>5. ASSUME NEW a, NEW b, NEW c, NEW d PROVE Path(<<a, b, c, d>>)
  <2>1. <<a, b, c, d>> \in Seq({a, b, c, d})
    OBVIOUS
  <2> QED
    BY <2>1 DEF Path
<1> HIDE DEF Path
<1> QED
  BY <1>1, <1>2, <1>3, <1>4, <1>5

\* Concatenation begins with its first part.
LEMMA JoinedPath ==
    ASSUME NEW p, NEW q, Path(p), Path(q)
    PROVE  /\ Path(p \o q) /\ Len(p \o q) = Len(p) + Len(q) /\ Len(p) \in Nat /\ Len(q) \in Nat
           /\ Len(p) > 0 => (p \o q)[1] = p[1]
           /\ Len(p) > 1 => (p \o q)[2] = p[2]
           /\ Len(p) = 1 /\ Len(q) > 0 => (p \o q)[2] = q[1]
<1>1. PICK S : p \in Seq(S)
  BY DEF Path
<1>2. PICK T : q \in Seq(T)
  BY DEF Path
<1> DEFINE U == S \cup T
<1>3. p \in Seq(U) /\ q \in Seq(U)
  BY <1>1, <1>2
<1>4. Path(p \o q)
  <2>1. p \o q \in Seq(U)
    BY <1>3
  <2> QED
    BY <2>1 DEF Path
<1> HIDE DEF U
<1>5. Len(p) \in Nat /\ Len(q) \in Nat /\ Len(p \o q) = Len(p) + Len(q)
  BY <1>3
<1>6. ASSUME NEW i \in 1 .. Len(p) + Len(q)
      PROVE  (p \o q)[i] = IF i <= Len(p) THEN p[i] ELSE q[i - Len(p)]
  BY <1>3
<1>7. ASSUME Len(p) > 0 PROVE (p \o q)[1] = p[1]
  BY <1>5, <1>6, <1>7
<1>8. ASSUME Len(p) > 1 PROVE (p \o q)[2] = p[2]
  BY <1>5, <1>6, <1>8
<1>9. ASSUME Len(p) = 1, Len(q) > 0 PROVE (p \o q)[2] = q[1]
  <2>1. 2 \in 1 .. Len(p) + Len(q) /\ ~(2 <= Len(p)) /\ 2 - Len(p) = 1
    BY <1>5, <1>9
  <2> QED
    BY <1>6, <2>1
<1> QED
  BY <1>4, <1>5, <1>7, <1>8, <1>9

Methods == {"GET", "POST", "PATCH", "DELETE"}

\* What a site may read.
Readable(r) == r.method = "GET" /\ r.needs \in {"open", "read", "key"}

\* The first words of routers that a site reads from.
Heads == {"horses", "emails", "news", "notification-settings", "photos", "prices", "site_settings",
          "vks", "callback_requests"}

\* A route, one that no site may read, one of a router that a site reads from,
\* and one as the application has it.
Route(r) == r = Web!R(r.method, r.path, r.needs, r.ok) /\ r.method \in Methods /\ Path(r.path)

Is(kind, r) ==
    /\ Route(r)
    /\ kind = "guarded" => ~Readable(r)
    /\ kind = "headed" => (Readable(r) => Len(r.path) > 0 /\ r.path[1] \in Heads)
    /\ kind = "served" => (Readable(r) => Len(r.path) = 1 \/ (Len(r.path) > 1 /\ r.path[2] \in Heads))

\* Routes of one kind.
All(kind, rs) == \E S : rs \in Seq(S) /\ \A r \in S : Is(kind, r)

LEMMA RouteFields ==
    ASSUME NEW m, NEW p, NEW n, NEW k
    PROVE  /\ Web!R(m, p, n, k).method = m /\ Web!R(m, p, n, k).path = p
           /\ Web!R(m, p, n, k).needs = n /\ Web!R(m, p, n, k).ok = k
  BY DEF Web!R

\* Of which kind a route is.
LEMMA RouteIs ==
    ASSUME NEW m \in Methods, NEW p, Path(p), NEW n, NEW k
    PROVE  /\ Is("any", Web!R(m, p, n, k))
           /\ m # "GET" \/ n \notin {"open", "read", "key"} =>
                  \A kind : Is(kind, Web!R(m, p, n, k))
           /\ Len(p) > 0 /\ p[1] \in Heads => Is("headed", Web!R(m, p, n, k))
<1> DEFINE r == Web!R(m, p, n, k)
<1>1. r.method = m /\ r.path = p /\ r.needs = n /\ r.ok = k
  BY RouteFields
<1>2. r = Web!R(r.method, r.path, r.needs, r.ok)
  BY <1>1
<1> HIDE DEF r
<1>3. Route(r)
  BY <1>1, <1>2 DEF Route
<1>4. Is("any", r)
  BY <1>3 DEF Is
<1>5. m # "GET" \/ n \notin {"open", "read", "key"} => \A kind : Is(kind, r)
  BY <1>1, <1>3 DEF Is, Readable
<1>6. Len(p) > 0 /\ p[1] \in Heads => Is("headed", r)
  BY <1>1, <1>3 DEF Is
<1> QED
  BY <1>4, <1>5, <1>6 DEF r

LEMMA AllIs ==
    ASSUME NEW kind, NEW rs, NEW S, rs \in Seq(S), \A r \in S : Is(kind, r)
    PROVE  All(kind, rs)
  BY DEF All

\* Routes given one by one.
LEMMA GivenOneByOne ==
    ASSUME NEW kind
    PROVE  /\ \A a : Is(kind, a) => All(kind, <<a>>)
           /\ \A a, b : Is(kind, a) /\ Is(kind, b) => All(kind, <<a, b>>)
           /\ \A a, b, c : Is(kind, a) /\ Is(kind, b) /\ Is(kind, c) => All(kind, <<a, b, c>>)
           /\ \A a, b, c, d : Is(kind, a) /\ Is(kind, b) /\ Is(kind, c) /\ Is(kind, d) =>
                  All(kind, <<a, b, c, d>>)
           /\ \A a, b, c, d, e :
                  Is(kind, a) /\ Is(kind, b) /\ Is(kind, c) /\ Is(kind, d) /\ Is(kind, e) =>
                  All(kind, <<a, b, c, d, e>>)
           /\ \A a, b, c, d, e, f :
                  /\ Is(kind, a) /\ Is(kind, b) /\ Is(kind, c)
                  /\ Is(kind, d) /\ Is(kind, e) /\ Is(kind, f)
                => All(kind, <<a, b, c, d, e, f>>)
           /\ \A a, b, c, d, e, f, g, h :
                  /\ Is(kind, a) /\ Is(kind, b) /\ Is(kind, c) /\ Is(kind, d)
                  /\ Is(kind, e) /\ Is(kind, f) /\ Is(kind, g) /\ Is(kind, h)
                => All(kind, <<a, b, c, d, e, f, g, h>>)
<1>1. ASSUME NEW a, Is(kind, a) PROVE All(kind, <<a>>)
  <2> DEFINE S == {a}
  <2>1. <<a>> \in Seq(S)
    OBVIOUS
  <2>2. \A r \in S : Is(kind, r)
    BY <1>1
  <2> HIDE DEF S
  <2> QED
    BY <2>1, <2>2, AllIs
<1>2. ASSUME NEW a, NEW b, Is(kind, a), Is(kind, b) PROVE All(kind, <<a, b>>)
  <2> DEFINE S == {a, b}
  <2>1. <<a, b>> \in Seq(S)
    OBVIOUS
  <2>2. \A r \in S : Is(kind, r)
    BY <1>2
  <2> HIDE DEF S
  <2> QED
    BY <2>1, <2>2, AllIs
<1>3. ASSUME NEW a, NEW b, NEW c, Is(kind, a), Is(kind, b), Is(kind, c)
      PROVE  All(kind, <<a, b, c>>)
  <2> DEFINE S == {a, b, c}
  <2>1. <<a, b, c>> \in Seq(S)
    OBVIOUS
  <2>2. \A r \in S : Is(kind, r)
    BY <1>3
  <2> HIDE DEF S
  <2> QED
    BY <2>1, <2>2, AllIs
<1>4. ASSUME NEW a, NEW b, NEW c, NEW d, Is(kind, a), Is(kind, b), Is(kind, c), Is(kind, d)
      PROVE  All(kind, <<a, b, c, d>>)
  <2> DEFINE S == {a, b, c, d}
  <2>1. <<a, b, c, d>> \in Seq(S)
    OBVIOUS
  <2>2. \A r \in S : Is(kind, r)
    BY <1>4
  <2> HIDE DEF S
  <2> QED
    BY <2>1, <2>2, AllIs
<1>5. ASSUME NEW a, NEW b, NEW c, NEW d, NEW e,
             Is(kind, a), Is(kind, b), Is(kind, c), Is(kind, d), Is(kind, e)
      PROVE  All(kind, <<a, b, c, d, e>>)
  <2> DEFINE S == {a, b, c, d, e}
  <2>1. <<a, b, c, d, e>> \in Seq(S)
    OBVIOUS
  <2>2. \A r \in S : Is(kind, r)
    BY <1>5
  <2> HIDE DEF S
  <2> QED
    BY <2>1, <2>2, AllIs
<1>6. ASSUME NEW a, NEW b, NEW c, NEW d, NEW e, NEW f,
             Is(kind, a), Is(kind, b), Is(kind, c), Is(kind, d), Is(kind, e), Is(kind, f)
      PROVE  All(kind, <<a, b, c, d, e, f>>)
  <2> DEFINE S == {a, b, c, d, e, f}
  <2>1. <<a, b, c, d, e, f>> \in Seq(S)
    OBVIOUS
  <2>2. \A r \in S : Is(kind, r)
    BY <1>6
  <2> HIDE DEF S
  <2> QED
    BY <2>1, <2>2, AllIs
<1>7. ASSUME NEW a, NEW b, NEW c, NEW d, NEW e, NEW f, NEW g, NEW h,
             Is(kind, a), Is(kind, b), Is(kind, c), Is(kind, d),
             Is(kind, e), Is(kind, f), Is(kind, g), Is(kind, h)
      PROVE  All(kind, <<a, b, c, d, e, f, g, h>>)
  <2> DEFINE S == {a, b, c, d, e, f, g, h}
  <2>1. <<a, b, c, d, e, f, g, h>> \in Seq(S)
    OBVIOUS
  <2>2. \A r \in S : Is(kind, r)
    BY <1>7
  <2> HIDE DEF S
  <2> QED
    BY <2>1, <2>2, AllIs
<1> HIDE DEF All
<1> QED
  BY <1>1, <1>2, <1>3, <1>4, <1>5, <1>6, <1>7

LEMMA JoinedRoutes ==
    ASSUME NEW kind, NEW a, NEW b, All(kind, a), All(kind, b)
    PROVE  All(kind, a \o b)
<1>1. PICK S : a \in Seq(S) /\ \A r \in S : Is(kind, r)
  BY DEF All
<1>2. PICK T : b \in Seq(T) /\ \A r \in T : Is(kind, r)
  BY DEF All
<1>3. a \o b \in Seq(S \cup T)
  BY <1>1, <1>2
<1>4. \A r \in S \cup T : Is(kind, r)
  BY <1>1, <1>2
<1> QED
  BY <1>3, <1>4 DEF All

LEMMA GuardedAll == ASSUME NEW rs, All("guarded", rs), NEW kind PROVE All(kind, rs)
<1>1. PICK S : rs \in Seq(S) /\ \A r \in S : Is("guarded", r)
  BY DEF All
<1>2. \A r \in S : Is(kind, r)
  BY <1>1 DEF Is
<1> QED
  BY <1>1, <1>2 DEF All

\* What a prefix makes of routes.
LEMMA UnderIs ==
    ASSUME NEW prefix, Path(prefix), Len(prefix) > 0, NEW kind, NEW rs, All(kind, rs)
    PROVE  /\ All("any", Web!Under(prefix, rs))
           /\ kind = "guarded" => All("guarded", Web!Under(prefix, rs))
           /\ prefix[1] \in Heads => All("headed", Web!Under(prefix, rs))
           /\ kind = "headed" /\ Len(prefix) = 1 => All("served", Web!Under(prefix, rs))
<1>1. PICK S : rs \in Seq(S) /\ \A r \in S : Is(kind, r)
  BY DEF All
<1> DEFINE new(r) == [r EXCEPT !.path = prefix \o @]
           T == {new(r) : r \in S}
           u == Web!Under(prefix, rs)
<1>2. u \in Seq(T)
  <2>1. u = [i \in 1 .. Len(rs) |-> new(rs[i])] /\ Len(rs) \in Nat
    BY <1>1 DEF Web!Under
  <2>2. \A i \in 1 .. Len(rs) : rs[i] \in S
    BY <1>1
  <2>3. \A i \in 1 .. Len(rs) : new(rs[i]) \in T
    BY <2>2
  <2> HIDE DEF T, new, u
  <2>4. u \in [1 .. Len(rs) -> T]
    BY <2>1, <2>3
  <2> QED
    BY <2>1, <2>4, SeqDef
<1>3. ASSUME NEW r \in S
      PROVE  /\ Route(new(r)) /\ (Readable(new(r)) <=> Readable(r))
             /\ new(r).path = prefix \o r.path /\ Path(r.path) /\ Is(kind, r)
  <2>1. Is(kind, r) /\ Route(r)
    BY <1>1 DEF Is
  <2>2. r = Web!R(r.method, r.path, r.needs, r.ok) /\ Path(r.path) /\ r.method \in Methods
    BY <2>1 DEF Route
  <2>3. PICK m, p, n, k : m = r.method /\ p = r.path /\ n = r.needs /\ k = r.ok
    OBVIOUS
  <2>4. r = Web!R(m, p, n, k)
    BY <2>2, <2>3
  <2>5. new(r) = Web!R(m, prefix \o p, n, k)
    <3>1. r = [method |-> m, path |-> p, needs |-> n, ok |-> k]
      BY <2>4 DEF Web!R
    <3>2. PICK q : q = prefix \o r.path
      OBVIOUS
    <3>3. new(r) = [r EXCEPT !.path = prefix \o r.path]
      OBVIOUS
    <3>4. new(r) = [r EXCEPT !.path = q]
      BY <3>2, <3>3
    <3>5. [r EXCEPT !.path = q] = Web!R(m, q, n, k)
      BY <3>1 DEF Web!R
    <3> HIDE DEF new
    <3> QED
      BY <2>3, <3>2, <3>4, <3>5
  <2> HIDE DEF new
  <2>6. PICK q : q = prefix \o p
    OBVIOUS
  <2>7. new(r) = Web!R(m, q, n, k)
    BY <2>5, <2>6
  <2>8. new(r).method = m /\ new(r).needs = n /\ new(r).path = q /\ new(r).ok = k
    BY <2>7, RouteFields
  <2>9. Path(q)
    BY <2>2, <2>3, <2>6, JoinedPath
  <2> QED
    BY <2>1, <2>2, <2>3, <2>6, <2>7, <2>8, <2>9 DEF Route, Readable
<1>4. ASSUME NEW r \in S
      PROVE  /\ Len(prefix \o r.path) = Len(prefix) + Len(r.path)
             /\ Len(prefix) \in Nat /\ Len(r.path) \in Nat
             /\ (prefix \o r.path)[1] = prefix[1]
             /\ Len(prefix) = 1 /\ Len(r.path) > 0 => (prefix \o r.path)[2] = r.path[1]
  BY <1>3, JoinedPath
<1> HIDE DEF new, u
<1>8. \A t \in T : Is("any", t)
  BY <1>3 DEF Is
<1>5. ASSUME kind = "guarded" PROVE \A t \in T : Is("guarded", t)
  BY <1>3, <1>5 DEF Is
<1>6. ASSUME prefix[1] \in Heads PROVE \A t \in T : Is("headed", t)
  BY <1>3, <1>4, <1>6 DEF Is
<1>7. ASSUME kind = "headed", Len(prefix) = 1 PROVE \A t \in T : Is("served", t)
  BY <1>3, <1>4, <1>7 DEF Is
<1> HIDE DEF T
<1> QED
  BY <1>2, <1>5, <1>6, <1>7, <1>8 DEF All, u

LEMMA MethodsAre ==
    "GET" \in Methods /\ "POST" \in Methods /\ "PATCH" \in Methods /\ "DELETE" \in Methods
  BY DEF Methods

LEMMA CrudIs ==
    ASSUME NEW p, Path(p), NEW w, NEW k
    PROVE  /\ All("any", Web!Crud(p, w, k))
           /\ Len(p) > 0 /\ p[1] \in Heads => All("headed", Web!Crud(p, w, k))
<1> DEFINE q == p \o <<Web!Param>>
<1>1. Path(q) /\ (Len(p) > 0 => Len(q) > 0 /\ q[1] = p[1])
  BY JoinedPath, ShortPaths
<1>2. Web!Crud(p, w, k) =
        <<Web!R("GET", p, "read", 200), Web!R("GET", q, "read", 200), Web!R("POST", p, w, k),
          Web!R("PATCH", q, w, 200), Web!R("DELETE", q, w, 204)>>
  BY DEF Web!Crud
<1> HIDE DEF q
<1>3. /\ Is("any", Web!R("GET", p, "read", 200)) /\ Is("any", Web!R("GET", q, "read", 200))
      /\ \A kind : /\ Is(kind, Web!R("POST", p, w, k)) /\ Is(kind, Web!R("PATCH", q, w, 200))
                   /\ Is(kind, Web!R("DELETE", q, w, 204))
  BY <1>1, RouteIs, MethodsAre
<1>4. ASSUME Len(p) > 0, p[1] \in Heads
      PROVE  Is("headed", Web!R("GET", p, "read", 200)) /\ Is("headed", Web!R("GET", q, "read", 200))
  BY <1>1, <1>4, RouteIs, MethodsAre
<1> QED
  BY <1>2, <1>3, <1>4, GivenOneByOne

\* Router by router.
LEMMA AuthIs == All("guarded", Web!Under(<<"auth">>, Web!Auth))
<1>1. /\ Is("guarded", Web!R("POST", <<"register">>, "open", 400))
      /\ Is("guarded", Web!R("POST", <<"login">>, "open", 200))
      /\ Is("guarded", Web!R("POST", <<"refresh">>, "refresh", 200))
      /\ Is("guarded", Web!R("GET", <<"me">>, "user", 200))
      /\ Is("guarded", Web!R("POST", <<"logout">>, "open", 204))
  BY RouteIs, ShortPaths, MethodsAre
<1>2. All("guarded", Web!Auth)
  BY <1>1, GivenOneByOne DEF Web!Auth
<1> QED
  BY <1>2, UnderIs, ShortPaths

LEMMA HeadsAre ==
    /\ "horses" \in Heads /\ "emails" \in Heads /\ "news" \in Heads /\ "photos" \in Heads
    /\ "notification-settings" \in Heads /\ "prices" \in Heads /\ "site_settings" \in Heads
    /\ "vks" \in Heads /\ "callback_requests" \in Heads
  BY DEF Heads

LEMMA CrudsAre ==
    /\ All("headed", Web!Breeds) /\ All("headed", Web!BreedGroups) /\ All("headed", Web!CoatColors)
    /\ All("headed", Web!HorseOwners) /\ All("headed", Web!HorseServices)
    /\ All("headed", Web!Prices) /\ All("headed", Web!SiteSettingsRoutes) /\ All("any", Web!Horses)
<1>1. /\ All("headed", Web!Breeds) /\ All("headed", Web!BreedGroups)
      /\ All("headed", Web!CoatColors)
  BY CrudIs, ShortPaths, HeadsAre DEF Web!Breeds, Web!BreedGroups, Web!CoatColors
<1>2. All("headed", Web!HorseOwners) /\ All("headed", Web!HorseServices)
  BY CrudIs, ShortPaths, HeadsAre DEF Web!HorseOwners, Web!HorseServices
<1>3. All("headed", Web!Prices) /\ All("headed", Web!SiteSettingsRoutes)
  BY CrudIs, ShortPaths, HeadsAre DEF Web!Prices, Web!SiteSettingsRoutes
<1>4. All("any", Web!Horses)
  BY CrudIs, ShortPaths DEF Web!Horses
<1> QED
  BY <1>1, <1>2, <1>3, <1>4

LEMMA HorsesAre == All("headed", Web!HorseCatalogue)
<1>1. All("headed", Web!Emails)
  <2>1. /\ Is("any", Web!R("GET", <<"me">>, "user", 200))
        /\ Is("any", Web!R("POST", <<>>, "user", 201))
        /\ Is("any", Web!R("PATCH", <<>>, "user", 200))
        /\ Is("any", Web!R("DELETE", <<Web!Param>>, "user", 204))
        /\ Is("any", Web!R("PATCH", <<"confirm">>, "open", 200))
        /\ Is("any", Web!R("POST", <<"send-confirmation">>, "open", 202))
    BY RouteIs, ShortPaths, MethodsAre
  <2>2. All("any", <<Web!R("GET", <<"me">>, "user", 200), Web!R("POST", <<>>, "user", 201),
                     Web!R("PATCH", <<>>, "user", 200), Web!R("DELETE", <<Web!Param>>, "user", 204),
                     Web!R("PATCH", <<"confirm">>, "open", 200),
                     Web!R("POST", <<"send-confirmation">>, "open", 202)>>)
    BY <2>1, GivenOneByOne
  <2> QED
    BY <2>2, UnderIs, ShortPaths, HeadsAre DEF Web!Emails
<1>2. All("headed", Web!HorseServiceRelations)
  <2>1. /\ Is("any", Web!R("POST", <<"services">>, "user", 201))
        /\ Is("any", Web!R("PATCH", <<"services", Web!Param>>, "user", 200))
        /\ Is("any", Web!R("DELETE", <<"services", Web!Param>>, "user", 204))
        /\ Is("any", Web!R("GET", <<"services">>, "read", 200))
        /\ Is("any", Web!R("GET", <<"available-services">>, "user", 200))
    BY RouteIs, ShortPaths, MethodsAre
  <2>2. All("any", <<Web!R("POST", <<"services">>, "user", 201),
                     Web!R("PATCH", <<"services", Web!Param>>, "user", 200),
                     Web!R("DELETE", <<"services", Web!Param>>, "user", 204),
                     Web!R("GET", <<"services">>, "read", 200),
                     Web!R("GET", <<"available-services">>, "user", 200)>>)
    BY <2>1, GivenOneByOne
  <2> QED
    BY <2>2, UnderIs, ShortPaths, HeadsAre DEF Web!HorseServiceRelations
<1>3. All("any", Web!HorseDetails)
  <2>1. /\ Is("any", Web!R("POST", <<"pedigree">>, "user", 204))
        /\ Is("any", Web!R("POST", <<"photos">>, "user", 200))
        /\ Is("any", Web!R("POST", <<"photos", "upload">>, "user", 200))
        /\ Is("any", Web!R("GET", <<"pedigree", Web!Param>>, "read", 200))
    BY RouteIs, ShortPaths, MethodsAre
  <2>2. All("any", <<Web!R("POST", <<"pedigree">>, "user", 204),
                     Web!R("POST", <<"photos">>, "user", 200),
                     Web!R("POST", <<"photos", "upload">>, "user", 200),
                     Web!R("GET", <<"pedigree", Web!Param>>, "read", 200)>>)
    BY <2>1, GivenOneByOne
  <2>3. Path(<<Web!Param>>) /\ Len(<<Web!Param>>) = 1
    BY ShortPaths
  <2> QED
    BY <2>2, <2>3, UnderIs DEF Web!HorseDetails
<1>4. All("headed", Web!Under(<<"horses">>, Web!Horses \o Web!HorseDetails))
  <2>1. All("any", Web!Horses \o Web!HorseDetails)
    BY <1>3, CrudsAre, JoinedRoutes
  <2>2. Path(<<"horses">>) /\ Len(<<"horses">>) = 1 /\ <<"horses">>[1] \in Heads
    BY ShortPaths, HeadsAre
  <2> QED
    BY <2>1, <2>2, UnderIs
<1> QED
  BY <1>1, <1>2, <1>4, CrudsAre, JoinedRoutes DEF Web!HorseCatalogue

LEMMA NewsIs == All("headed", Web!NewsReads) /\ All("headed", Web!NewsWrites)
<1>1. All("headed", Web!NewsReads)
  <2>1. /\ Is("headed", Web!R("GET", <<"news-cms">>, "user", 200))
        /\ Is("headed", Web!R("GET", <<"news">>, "key", 200))
        /\ Is("headed", Web!R("GET", <<"news", "by-slug", Web!Param>>, "key", 200))
        /\ Is("headed", Web!R("GET", <<"news", Web!Param>>, "key", 200))
    BY RouteIs, ShortPaths, MethodsAre, HeadsAre
  <2> QED
    BY <2>1, GivenOneByOne DEF Web!NewsReads
<1>2. All("headed", Web!NewsWrites)
  <2>1. /\ Is("any", Web!R("POST", <<>>, "user", 201))
        /\ Is("any", Web!R("PATCH", <<Web!Param>>, "user", 200))
        /\ Is("any", Web!R("DELETE", <<Web!Param>>, "user", 204))
        /\ Is("any", Web!R("POST", <<Web!Param, "photos">>, "user", 204))
        /\ Is("any", Web!R("POST", <<Web!Param, "photos", "upload">>, "user", 200))
    BY RouteIs, ShortPaths, MethodsAre
  <2>2. All("any", <<Web!R("POST", <<>>, "user", 201), Web!R("PATCH", <<Web!Param>>, "user", 200),
                     Web!R("DELETE", <<Web!Param>>, "user", 204),
                     Web!R("POST", <<Web!Param, "photos">>, "user", 204),
                     Web!R("POST", <<Web!Param, "photos", "upload">>, "user", 200)>>)
    BY <2>1, GivenOneByOne
  <2>3. Path(<<"news">>) /\ Len(<<"news">>) = 1 /\ <<"news">>[1] \in Heads
    BY ShortPaths, HeadsAre
  <2> QED
    BY <2>2, <2>3, UnderIs DEF Web!NewsWrites
<1> QED
  BY <1>1, <1>2

LEMMA CatalogueIs ==
    /\ All("headed", Web!NotificationSettings) /\ All("headed", Web!Photos)
    /\ All("headed", Web!PriceGroups) /\ All("headed", Web!PricePhotos)
<1>1. All("headed", Web!NotificationSettings)
  <2>1. /\ Is("any", Web!R("GET", <<>>, "user", 200))
        /\ Is("any", Web!R("PATCH", <<Web!Param, Web!Param>>, "user", 200))
    BY RouteIs, ShortPaths, MethodsAre
  <2>2. All("any", <<Web!R("GET", <<>>, "user", 200),
                     Web!R("PATCH", <<Web!Param, Web!Param>>, "user", 200)>>)
    BY <2>1, GivenOneByOne
  <2> QED
    BY <2>2, UnderIs, ShortPaths, HeadsAre DEF Web!NotificationSettings
<1>2. All("headed", Web!Photos)
  <2>1. All("headed", Web!Crud(<<"photos">>, "user", 200))
    BY CrudIs, ShortPaths, HeadsAre
  <2>2. All("headed", <<Web!R("POST", <<"photos", "batch-delete">>, "user", 204)>>)
    BY RouteIs, ShortPaths, MethodsAre, GivenOneByOne
  <2> QED
    BY <2>1, <2>2, JoinedRoutes DEF Web!Photos
<1>3. All("headed", Web!PriceGroups)
  <2>1. All("headed", Web!Crud(<<"prices", "groups">>, "user", 200))
    BY CrudIs, ShortPaths, HeadsAre
  <2>2. All("headed", <<Web!R("POST", <<"prices", "groups", Web!Param, "reorder">>, "user", 204)>>)
    BY RouteIs, ShortPaths, MethodsAre, GivenOneByOne
  <2> QED
    BY <2>1, <2>2, JoinedRoutes DEF Web!PriceGroups
<1>4. All("headed", Web!PricePhotos)
  <2>1. /\ Is("any", Web!R("POST", <<>>, "user", 204))
        /\ Is("any", Web!R("POST", <<"upload">>, "user", 200))
    BY RouteIs, ShortPaths, MethodsAre
  <2>2. All("any", <<Web!R("POST", <<>>, "user", 204), Web!R("POST", <<"upload">>, "user", 200)>>)
    BY <2>1, GivenOneByOne
  <2> QED
    BY <2>2, UnderIs, ShortPaths, HeadsAre DEF Web!PricePhotos
<1> QED
  BY <1>1, <1>2, <1>3, <1>4

\* The proxies of other services and the profile.
LEMMA OwnersAre ==
    /\ All("guarded", Web!Under(<<"users">>, Web!Profile)) /\ All("headed", Web!Vk)
    /\ All("guarded", Web!Yandex)
<1>1. All("guarded", Web!Under(<<"users">>, Web!Profile))
  <2>1. /\ Is("guarded", Web!R("GET", <<"me">>, "user", 200))
        /\ Is("guarded", Web!R("PATCH", <<"me">>, "user", 200))
        /\ Is("guarded", Web!R("PATCH", <<"me", "password">>, "user", 204))
    BY RouteIs, ShortPaths, MethodsAre
  <2>2. All("guarded", Web!Profile)
    BY <2>1, GivenOneByOne DEF Web!Profile
  <2> QED
    BY <2>2, UnderIs, ShortPaths
<1>2. All("headed", Web!Vk)
  <2>1. /\ Is("any", Web!R("GET", <<"me">>, "user", 200))
        /\ Is("any", Web!R("GET", <<"bot-info">>, "open", 200))
        /\ Is("any", Web!R("POST", <<"issue-confirmation">>, "user", 201))
        /\ Is("any", Web!R("DELETE", <<Web!Param>>, "user", 204))
    BY RouteIs, ShortPaths, MethodsAre
  <2>2. All("any", <<Web!R("GET", <<"me">>, "user", 200), Web!R("GET", <<"bot-info">>, "open", 200),
                     Web!R("POST", <<"issue-confirmation">>, "user", 201),
                     Web!R("DELETE", <<Web!Param>>, "user", 204)>>)
    BY <2>1, GivenOneByOne
  <2>3. Path(<<"vks">>) /\ Len(<<"vks">>) = 1 /\ <<"vks">>[1] \in Heads
    BY ShortPaths, HeadsAre
  <2> QED
    BY <2>2, <2>3, UnderIs DEF Web!Vk
<1>3. All("guarded", Web!Yandex)
  <2>1. /\ Is("guarded", Web!R("GET", <<"auth", "link">>, "seo", 200))
        /\ Is("guarded", Web!R("POST", <<"auth", "code">>, "seo", 200))
        /\ Is("guarded", Web!R("GET", <<"accounts">>, "seo", 200))
        /\ Is("guarded", Web!R("DELETE", <<"accounts", Web!Param>>, "seo", 204))
        /\ Is("guarded", Web!R("GET", <<"metrica", "counters">>, "seo", 200))
        /\ Is("guarded", Web!R("GET", <<"metrica", "connection">>, "seo", 200))
        /\ Is("guarded", Web!R("POST", <<"metrica", "connection">>, "seo", 200))
        /\ Is("guarded", Web!R("DELETE", <<"metrica", "connection">>, "seo", 204))
    BY RouteIs, ShortPaths, MethodsAre
  <2>2. All("guarded",
            <<Web!R("GET", <<"auth", "link">>, "seo", 200),
              Web!R("POST", <<"auth", "code">>, "seo", 200),
              Web!R("GET", <<"accounts">>, "seo", 200),
              Web!R("DELETE", <<"accounts", Web!Param>>, "seo", 204),
              Web!R("GET", <<"metrica", "counters">>, "seo", 200),
              Web!R("GET", <<"metrica", "connection">>, "seo", 200),
              Web!R("POST", <<"metrica", "connection">>, "seo", 200),
              Web!R("DELETE", <<"metrica", "connection">>, "seo", 204)>>)
    BY <2>1, GivenOneByOne
  <2>3. Path(<<"yandex">>) /\ Len(<<"yandex">>) = 1
    BY ShortPaths
  <2> QED
    BY <2>2, <2>3, UnderIs DEF Web!Yandex
<1> QED
  BY <1>1, <1>2, <1>3

LEMMA SeoIs ==
    All("guarded", Web!Under(<<"seo">>, Web!SeoLists \o Web!SeoBlacklist("blacklisted-query-params")
                        \o Web!SeoBlacklist("blacklisted-hashes") \o Web!SeoParseJobs))
<1>1. All("guarded", Web!SeoLists)
  <2>1. /\ Is("guarded", Web!R("GET", <<"search-queries">>, "seo", 200))
        /\ Is("guarded", Web!R("GET", <<"pages">>, "seo", 200))
    BY RouteIs, ShortPaths, MethodsAre
  <2> QED
    BY <2>1, GivenOneByOne DEF Web!SeoLists
<1>2. ASSUME NEW l PROVE All("guarded", Web!SeoBlacklist(l))
  <2>1. /\ Is("guarded", Web!R("GET", <<>>, "seo", 200))
        /\ Is("guarded", Web!R("POST", <<>>, "seo", 201))
        /\ Is("guarded", Web!R("PATCH", <<Web!Param>>, "seo", 200))
        /\ Is("guarded", Web!R("DELETE", <<Web!Param>>, "seo", 204))
    BY RouteIs, ShortPaths, MethodsAre
  <2>2. All("guarded", <<Web!R("GET", <<>>, "seo", 200), Web!R("POST", <<>>, "seo", 201),
                         Web!R("PATCH", <<Web!Param>>, "seo", 200),
                         Web!R("DELETE", <<Web!Param>>, "seo", 204)>>)
    BY <2>1, GivenOneByOne
  <2>3. Path(<<"page-normalization", l>>) /\ Len(<<"page-normalization", l>>) > 0
    BY ShortPaths
  <2> DEFINE rs == <<Web!R("GET", <<>>, "seo", 200), Web!R("POST", <<>>, "seo", 201),
                     Web!R("PATCH", <<Web!Param>>, "seo", 200),
                     Web!R("DELETE", <<Web!Param>>, "seo", 204)>>
             prefix == <<"page-normalization", l>>
  <2>4. Web!SeoBlacklist(l) = Web!Under(prefix, rs)
    BY DEF Web!SeoBlacklist
  <2>5. All("guarded", rs) /\ Path(prefix) /\ Len(prefix) > 0
    BY <2>2, <2>3
  <2> HIDE DEF rs, prefix
  <2>6. All("guarded", Web!Under(prefix, rs))
    BY <2>5, UnderIs
  <2> QED
    BY <2>4, <2>6
<1>3. All("guarded", Web!SeoParseJobs)
  <2>1. Is("guarded", Web!R("POST", <<"parse-jobs">>, "seo", 202))
    BY RouteIs, ShortPaths, MethodsAre
  <2> QED
    BY <2>1, GivenOneByOne DEF Web!SeoParseJobs
<1>4. All("guarded", Web!SeoLists \o Web!SeoBlacklist("blacklisted-query-params")
                        \o Web!SeoBlacklist("blacklisted-hashes") \o Web!SeoParseJobs)
  BY <1>1, <1>2, <1>3, JoinedRoutes
<1>5. Path(<<"seo">>) /\ Len(<<"seo">>) = 1
  BY ShortPaths
<1> QED
  BY <1>4, <1>5, UnderIs

LEMMA CallbacksAre == All("headed", Web!Under(<<"callback_requests">>, Web!CallbackRoutes))
<1>1. /\ Is("any", Web!R("POST", <<>>, "read", 201))
      /\ Is("any", Web!R("GET", <<"statuses">>, "open", 200))
      /\ Is("any", Web!R("GET", <<>>, "user", 200))
      /\ Is("any", Web!R("GET", <<Web!Param>>, "user", 200))
      /\ Is("any", Web!R("PATCH", <<Web!Param, "status">>, "user", 200))
      /\ Is("any", Web!R("PATCH", <<Web!Param, "spam">>, "user", 200))
  BY RouteIs, ShortPaths, MethodsAre
<1>2. All("any", Web!CallbackRoutes)
  BY <1>1, GivenOneByOne DEF Web!CallbackRoutes
<1>3. /\ Path(<<"callback_requests">>) /\ Len(<<"callback_requests">>) = 1
      /\ <<"callback_requests">>[1] \in Heads
  BY ShortPaths, HeadsAre
<1> QED
  BY <1>2, <1>3, UnderIs

\* The routes of microservices and of the user management are not for sites.
LEMMA OtherRoutes ==
    /\ All("guarded", Web!Under(<<"api", "service">>,
             Web!Under(<<"users">>, Web!ServiceUsers)
             \o Web!Under(<<"callback_requests">>, Web!ServiceCallbacks)))
    /\ All("guarded", Web!Under(<<"api", "user-management">>, Web!ManagedUsers \o Web!ManagedAccounts))
    /\ All("served", <<Web!R("GET", <<"health">>, "open", 200)>>)
<1>1. All("guarded", Web!ServiceUsers)
  <2>1. ASSUME NEW w PROVE Is("guarded", Web!R("GET", <<w>>, "service", 200))
    BY RouteIs, ShortPaths, MethodsAre
  <2> QED
    BY <2>1, GivenOneByOne DEF Web!ServiceUsers
<1>2. All("guarded", Web!ServiceCallbacks)
  <2>1. /\ Is("guarded", Web!R("PATCH", <<Web!Param, "status">>, "service", 200))
        /\ Is("guarded", Web!R("PATCH", <<Web!Param, "spam">>, "service", 200))
        /\ Is("guarded", Web!R("PATCH", <<Web!Param, "notifications-delivered">>, "service", 200))
    BY RouteIs, ShortPaths, MethodsAre
  <2> QED
    BY <2>1, GivenOneByOne DEF Web!ServiceCallbacks
<1>3. All("guarded", Web!ManagedUsers)
  <2>1. /\ Is("guarded", Web!R("GET", <<"users">>, "manager", 200))
        /\ Is("guarded", Web!R("GET", <<"users", Web!Param>>, "manager", 200))
        /\ Is("guarded", Web!R("POST", <<"users">>, "manager", 201))
        /\ Is("guarded", Web!R("PATCH", <<"users", Web!Param>>, "manager", 200))
        /\ Is("guarded", Web!R("DELETE", <<"users", Web!Param>>, "manager", 204))
    BY RouteIs, ShortPaths, MethodsAre
  <2> QED
    BY <2>1, GivenOneByOne DEF Web!ManagedUsers
<1>4. All("guarded", Web!ManagedAccounts)
  <2>1. /\ Is("guarded", Web!R("PATCH", <<"users", Web!Param, "block">>, "manager", 200))
        /\ Is("guarded", Web!R("PATCH", <<"users", Web!Param, "unblock">>, "manager", 200))
        /\ Is("guarded", Web!R("PATCH", <<"users", Web!Param, "password">>, "manager", 204))
        /\ Is("guarded", Web!R("GET", <<"roles">>, "manager", 200))
    BY RouteIs, ShortPaths, MethodsAre
  <2> QED
    BY <2>1, GivenOneByOne DEF Web!ManagedAccounts
<1>5. /\ \A a : Path(<<a>>) /\ Len(<<a>>) = 1
      /\ \A a, b : Path(<<a, b>>) /\ Len(<<a, b>>) = 2
  BY ShortPaths
<1>6. All("guarded", Web!Under(<<"users">>, Web!ServiceUsers)
                     \o Web!Under(<<"callback_requests">>, Web!ServiceCallbacks))
  <2>1. All("guarded", Web!Under(<<"users">>, Web!ServiceUsers))
    BY <1>1, <1>5, UnderIs
  <2>2. All("guarded", Web!Under(<<"callback_requests">>, Web!ServiceCallbacks))
    BY <1>2, <1>5, UnderIs
  <2> QED
    BY <2>1, <2>2, JoinedRoutes
<1>7. All("guarded", Web!ManagedUsers \o Web!ManagedAccounts)
  BY <1>3, <1>4, JoinedRoutes
<1>8. All("served", <<Web!R("GET", <<"health">>, "open", 200)>>)
  <2>1. Is("any", Web!R("GET", <<"health">>, "open", 200))
    BY RouteIs, ShortPaths, MethodsAre
  <2>2. Is("served", Web!R("GET", <<"health">>, "open", 200))
    BY <2>1, <1>5, RouteFields DEF Is
  <2> QED
    BY <2>2, GivenOneByOne
<1> QED
  BY <1>5, <1>6, <1>7, <1>8, UnderIs

\* Every route a site may read is /health or has its router's word after /api.
LEMMA RoutesAreServed == \A r \in Web!ToSet(Web!Routes) : Is("served", r)
<1>1. All("headed", Web!Under(<<"auth">>, Web!Auth))
  BY AuthIs, GuardedAll
<1>2. All("headed", Web!Under(<<"users">>, Web!Profile)) /\ All("headed", Web!Yandex)
  BY OwnersAre, GuardedAll
<1>3. All("headed", Web!Under(<<"seo">>, Web!SeoLists
                        \o Web!SeoBlacklist("blacklisted-query-params")
                        \o Web!SeoBlacklist("blacklisted-hashes") \o Web!SeoParseJobs))
  BY SeoIs, GuardedAll
<1>4. All("headed", Web!Routers)
  <2>1. All("headed", Web!Under(<<"auth">>, Web!Auth) \o Web!HorseCatalogue \o Web!NewsReads
                      \o Web!NewsWrites \o Web!NotificationSettings)
    BY <1>1, HorsesAre, NewsIs, CatalogueIs, JoinedRoutes
  <2> DEFINE a == Web!Under(<<"auth">>, Web!Auth) \o Web!HorseCatalogue \o Web!NewsReads
                      \o Web!NewsWrites \o Web!NotificationSettings
  <2> HIDE DEF a
  <2>2. All("headed", a \o Web!Photos \o Web!PriceGroups \o Web!Prices \o Web!PricePhotos
                      \o Web!SiteSettingsRoutes)
    BY <2>1, CrudsAre, CatalogueIs, JoinedRoutes DEF a
  <2> DEFINE b == a \o Web!Photos \o Web!PriceGroups \o Web!Prices \o Web!PricePhotos
                      \o Web!SiteSettingsRoutes
             seo == Web!Under(<<"seo">>, Web!SeoLists \o Web!SeoBlacklist("blacklisted-query-params")
                        \o Web!SeoBlacklist("blacklisted-hashes") \o Web!SeoParseJobs)
  <2>3. All("headed", seo)
    BY <1>3
  <2>4. Web!Routers = b \o Web!Under(<<"users">>, Web!Profile) \o Web!Vk \o Web!Yandex \o seo
                      \o Web!Under(<<"callback_requests">>, Web!CallbackRoutes)
    BY DEF Web!Routers, a
  <2> HIDE DEF b, seo
  <2>5. All("headed", b)
    BY <2>2 DEF b
  <2> QED
    BY <2>3, <2>4, <2>5, <1>2, OwnersAre, CallbacksAre, JoinedRoutes
<1>5. All("served", Web!Under(<<"api">>, Web!Routers))
  <2>1. Path(<<"api">>) /\ Len(<<"api">>) = 1
    BY ShortPaths
  <2> QED
    BY <1>4, <2>1, UnderIs
<1>6. All("served", Web!Routes)
  BY <1>5, OtherRoutes, GuardedAll, JoinedRoutes DEF Web!Routes
<1>7. PICK S : Web!Routes \in Seq(S) /\ \A r \in S : Is("served", r)
  BY <1>6 DEF All
<1>8. \A i \in DOMAIN Web!Routes : Web!Routes[i] \in S
  BY <1>7
<1> QED
  BY <1>7, <1>8 DEF Web!ToSet

LEMMA AddressOf ==
    ASSUME NEW r, Path(r.path), NEW w
    PROVE  /\ Len(Web!Address(r, w)) = Len(r.path) /\ Len(r.path) \in Nat
           /\ Path(Web!Address(r, w))
           /\ \A k \in 1 .. Len(r.path) :
                  Web!Address(r, w)[k] = IF r.path[k] = Web!Param THEN w ELSE r.path[k]
<1>1. PICK S : r.path \in Seq(S)
  BY DEF Path
<1> DEFINE a == Web!Address(r, w)
           n == Len(r.path)
<1>2. /\ a = [k \in 1 .. n |-> IF r.path[k] = Web!Param THEN w ELSE r.path[k]]
      /\ n \in Nat /\ \A k \in 1 .. n : r.path[k] \in S
  BY <1>1 DEF Web!Address
<1> HIDE DEF a, n
<1>3. a \in [1 .. n -> S \cup {w}]
  BY <1>2
<1>4. a \in Seq(S \cup {w}) /\ Len(a) = n
  <2>1. a \in Seq(S \cup {w})
    BY <1>2, <1>3, SeqDef
  <2>2. DOMAIN a = 1 .. n
    BY <1>2
  <2> QED
    BY <1>2, <2>1, <2>2
<1> QED
  BY <1>2, <1>4 DEF Path, a, n

\* What a site reads is not under a protected prefix.
LEMMA ReadableAddress ==
    ASSUME NEW r \in Web!ToSet(Web!Routes), Readable(r), NEW w
    PROVE  ~Web!is_protected_request("GET", Web!Address(r, w))
<1> DEFINE a == Web!Address(r, w)
<1>1. Path(r.path) /\ (Len(r.path) = 1 \/ (Len(r.path) > 1 /\ r.path[2] \in Heads))
  BY RoutesAreServed DEF Is, Route
<1>2. Path(a) /\ Len(a) \in Nat /\ (Len(a) = 1 \/ (Len(a) > 1 /\ a[2] \in Heads))
  <2>1. CASE Len(r.path) = 1
    BY <1>1, <2>1, AddressOf
  <2>2. CASE Len(r.path) > 1 /\ r.path[2] \in Heads
    <3>1. r.path[2] # Web!Param
      BY <2>2 DEF Heads, Web!Param
    <3>2. 2 \in 1 .. Len(r.path)
      BY <1>1, <2>2, AddressOf
    <3>3. /\ Len(a) = Len(r.path) /\ Len(r.path) \in Nat /\ Path(a)
          /\ a[2] = IF r.path[2] = Web!Param THEN w ELSE r.path[2]
      BY <1>1, <3>2, AddressOf
    <3> HIDE DEF a
    <3> QED
      BY <2>2, <3>1, <3>3
  <2> QED
    BY <1>1, <2>1, <2>2
<1>3. PICK S : a \in Seq(S)
  BY <1>2 DEF Path
<1> HIDE DEF a
<1>4. ASSUME NEW p \in Web!PROTECTED_GET_PATH_PREFIXES PROVE ~Web!IsPrefix(p, a)
  <2> SUFFICES ASSUME Web!IsPrefix(p, a) PROVE FALSE
    OBVIOUS
  <2>1. Len(p) >= 2 /\ Len(p) \in Nat /\ p[2] \in {"auth", "users", "news-cms"}
    BY DEF Web!PROTECTED_GET_PATH_PREFIXES
  <2>2. Len(p) <= Len(a) /\ SubSeq(p, 1, Len(p)) = SubSeq(a, 1, Len(p))
    BY DEF Web!IsPrefix
  <2>3. \E T : p \in Seq(T)
    <3>1. CASE p = <<"api", "auth", "me">>
      BY <3>1, ShortPaths DEF Path
    <3>2. CASE p = <<"api", "users">>
      BY <3>2, ShortPaths DEF Path
    <3>3. CASE p = <<"api", "news-cms">>
      BY <3>3, ShortPaths DEF Path
    <3> QED
      BY <3>1, <3>2, <3>3 DEF Web!PROTECTED_GET_PATH_PREFIXES
  <2>4. PICK T : p \in Seq(T)
    BY <2>3
  <2>5. SubSeq(p, 1, Len(p))[2] = p[2]
    BY <2>1, <2>4
  <2>6. SubSeq(a, 1, Len(p))[2] = a[2]
    BY <1>2, <1>3, <2>1, <2>2
  <2>7. Len(a) > 1 /\ a[2] \in Heads
    BY <1>2, <2>1, <2>2
  <2> QED
    BY <2>1, <2>2, <2>5, <2>6, <2>7 DEF Heads
<1> QED
  BY <1>4 DEF Web!is_protected_request, Web!MUTATING_METHODS, a

\* The one write that a site may make.
CallbackForm == Web!R("POST", <<"api", "callback_requests">>, "read", 201)

LEMMA FormAddress ==
    ASSUME NEW w PROVE Web!Address(CallbackForm, w) = <<"api", "callback_requests">>
<1> DEFINE p == <<"api", "callback_requests">>
           a == Web!Address(CallbackForm, w)
<1>1. CallbackForm.path = p
  BY RouteFields DEF CallbackForm
<1>2. p[1] # Web!Param /\ p[2] # Web!Param /\ DOMAIN p = 1 .. 2 /\ p \in Seq({"api", "callback_requests"})
  BY DEF Web!Param
<1>3. a = [k \in 1 .. 2 |-> IF p[k] = Web!Param THEN w ELSE p[k]]
  BY <1>1, <1>2 DEF Web!Address
<1>4. a = [k \in 1 .. 2 |-> p[k]]
  BY <1>2, <1>3
<1>5. p = [k \in 1 .. 2 |-> p[k]]
  BY <1>2
<1> HIDE DEF a, p
<1>6. a = p
  BY <1>4, <1>5
<1> QED
  BY <1>6 DEF a, p

\* The calls that a page may make.
MayCall ==
    \/ caller.page = "cms"
    \/ caller.page = "site" /\ (Readable(call.route) \/ call.route = CallbackForm)

\* What the middleware answers to the preflight and to the request.
Asked == Web!Preflight(caller.page, call.route.method, call.path, Web!RequestHeaders)

Cors == Web!SendWithCors(caller.page, call.route.method, call.path)

\* The middleware lets such a call pass.
LEMMA CallPasses ==
    ASSUME call \in Web!Calls, MayCall
    PROVE  /\ Asked.ok /\ Asked.origin \in {"*", caller.page}
           /\ call.route.method \in Asked.methods /\ Web!RequestHeaders \subseteq Asked.headers
           /\ caller.page = "cms" => Asked.credentials
           /\ Cors.origin \in {"*", caller.page} /\ (caller.page = "cms" => Cors.credentials)
<1> DEFINE m == call.route.method
           h == Web!RequestHeaders
<1>1. PICK w : call.route \in Web!ToSet(Web!Routes) /\ call.path = Web!Address(call.route, w)
  BY DEF Web!Calls
<1>2. m \in Methods
  BY <1>1, RoutesAreServed DEF Is, Route
<1>3. h \subseteq {"content-type", "x-equestrian-service-key"}
  BY DEF Web!RequestHeaders
<1>4. CASE caller.page = "cms"
  <2>1. Web!Strict(caller.page, m, call.path)
    BY <1>4 DEF Web!Strict
  <2>2. Asked = [ok |-> TRUE, origin |-> caller.page, credentials |-> TRUE,
                 methods |-> {"GET", "POST", "PATCH", "DELETE", "PUT"}, headers |-> h]
    BY <1>4, <2>1 DEF Asked, Web!Preflight, Web!Forbidden
  <2>3. Cors = [origin |-> caller.page, credentials |-> TRUE]
    BY <1>4, <2>1 DEF Cors, Web!SendWithCors
  <2> QED
    BY <1>2, <1>4, <2>2, <2>3 DEF Methods
<1>5. ASSUME caller.page = "site", ~Web!is_protected_request(m, call.path),
             NEW ms, ms = (IF <<m, call.path>> \in Web!PUBLIC_CORS_ROUTES THEN {"POST"} ELSE {"GET"})
      PROVE  /\ Asked = [ok |-> TRUE, origin |-> "*", credentials |-> FALSE, methods |-> ms,
                         headers |-> h]
             /\ Cors = [origin |-> "*", credentials |-> FALSE]
  <2>1. ~Web!Strict(caller.page, m, call.path)
    BY <1>5 DEF Web!Strict
  <2> HIDE DEF h, m
  <2>2. Asked = [ok |-> TRUE, origin |-> "*", credentials |-> FALSE, methods |-> ms, headers |-> h]
    BY <1>3, <1>5, <2>1 DEF Asked, Web!Preflight, Web!Forbidden, h, m
  <2>3. Cors = [origin |-> "*", credentials |-> FALSE]
    BY <2>1 DEF Cors, Web!SendWithCors, m
  <2> QED
    BY <2>2, <2>3
<1>6. CASE caller.page = "site" /\ Readable(call.route)
  <2>1. m = "GET"
    BY <1>6 DEF Readable
  <2>2. ~Web!is_protected_request(m, call.path)
    BY <1>1, <1>6, <2>1, ReadableAddress
  <2>3. <<m, call.path>> \notin Web!PUBLIC_CORS_ROUTES
    BY <2>1 DEF Web!PUBLIC_CORS_ROUTES
  <2>4. /\ Asked = [ok |-> TRUE, origin |-> "*", credentials |-> FALSE, methods |-> {"GET"},
                    headers |-> h]
        /\ Cors = [origin |-> "*", credentials |-> FALSE]
    BY <1>5, <1>6, <2>2, <2>3
  <2> QED
    BY <1>6, <2>1, <2>4
<1>7. CASE caller.page = "site" /\ call.route = CallbackForm
  <2>1. m = "POST" /\ call.path = <<"api", "callback_requests">>
    BY <1>1, <1>7, FormAddress, RouteFields DEF CallbackForm
  <2>2. <<m, call.path>> \in Web!PUBLIC_CORS_ROUTES
    BY <2>1 DEF Web!PUBLIC_CORS_ROUTES
  <2>3. ~Web!is_protected_request(m, call.path)
    BY <2>2 DEF Web!is_protected_request
  <2>4. /\ Asked = [ok |-> TRUE, origin |-> "*", credentials |-> FALSE, methods |-> {"POST"},
                    headers |-> h]
        /\ Cors = [origin |-> "*", credentials |-> FALSE]
    BY <1>5, <1>7, <2>2, <2>3
  <2> QED
    BY <1>7, <2>1, <2>4
<1> QED
  BY <1>4, <1>6, <1>7 DEF MayCall

\* A request that is done was answered, if its page may make it.
WebInv ==
    /\ call \in Web!Calls
    /\ step \in {"preflight", "send", "done"}
    /\ step = "done" /\ MayCall =>
         /\ reply # Web!NoReply /\ reply.cors.origin \in {"*", caller.page}
         /\ caller.page = "cms" => reply.cors.credentials

LEMMA WebInit == Web!Init => WebInv
  BY DEF Web!Init, WebInv

LEMMA WebStep == WebInv /\ [Web!Next]_webVars => WebInv'
<1> SUFFICES ASSUME WebInv, [Web!Next]_webVars PROVE WebInv'
  OBVIOUS
<1>1. CASE UNCHANGED webVars
  BY <1>1 DEF WebInv, MayCall, webVars
<1>2. CASE Web!Ask
  <2>1. /\ UNCHANGED <<caller, call, reply>>
        /\ step' = IF /\ Asked.ok /\ Asked.origin \in {"*", caller.page}
                      /\ call.route.method \in Asked.methods
                      /\ Web!RequestHeaders \subseteq Asked.headers
                      /\ caller.page = "cms" => Asked.credentials
                   THEN "send" ELSE "done"
    BY <1>2 DEF Web!Ask, Asked
  <2>2. ASSUME MayCall PROVE step' = "send"
    BY <2>1, <2>2, CallPasses DEF WebInv
  <2>3. MayCall' <=> MayCall
    BY <2>1 DEF MayCall
  <2> QED
    BY <2>1, <2>2, <2>3 DEF WebInv
<1>3. CASE Web!Send
  <2>1. /\ UNCHANGED <<caller, call>> /\ step' = "done"
        /\ \E r, n : reply' = [reply |-> r, cors |-> Cors, route |-> n]
    BY <1>3 DEF Web!Send, Cors
  <2>2. reply' # Web!NoReply /\ reply'.cors = Cors
    BY <2>1 DEF Web!NoReply
  <2>3. MayCall' <=> MayCall
    BY <2>1 DEF MayCall
  <2>4. MayCall => Cors.origin \in {"*", caller.page} /\ (caller.page = "cms" => Cors.credentials)
    BY CallPasses DEF WebInv
  <2> QED
    BY <2>1, <2>2, <2>3, <2>4 DEF WebInv
<1> QED
  BY <1>1, <1>2, <1>3 DEF Web!Next

LEMMA RecordsKeepWeb ==
    which = "web" /\ [MCNext]_<<which, vars, listVars, webVars, peerVars>> =>
        which' = which /\ [Web!Next]_webVars
  BY DEF MCNext

\* Whatever route, word and credentials: a page that may make a call gets past
\* the middleware, with or without a preflight, and may read the answer
\* (cors.py).
THEOREM PagesMayCall == MCSpec => []BrowserMayCall
<1> DEFINE Inv == which = "web" => WebInv
<1>1. MCInit => Inv
  BY WebInit DEF MCInit, InitWeb
<1>2. Inv /\ [MCNext]_<<which, vars, listVars, webVars, peerVars>> => Inv'
  BY WebStep, RecordsKeepWeb DEF MCNext
<1>3. Inv => BrowserMayCall
  BY DEF WebInv, MayCall, Readable, CallbackForm, BrowserMayCall, Web!BrowserMayCall, Web!Sent
<1> QED
  BY <1>1, <1>2, <1>3, PTL DEF MCSpec
==============================================================================
