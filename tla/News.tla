---------------------------------- MODULE News ----------------------------------
(***************************************************************************)
(* Which news the site shows.  An item is scheduled until its date, then   *)
(* published, and deleted only by a mark.  Requests read a row, change     *)
(* some columns and write all of them back; others may commit in between.  *)
(* Texts and photos are left out (the photos are in PhotoAttach), as are   *)
(* permissions and tenants.                                                *)
(***************************************************************************)
EXTENDS Naturals

CONSTANTS Editors, Items,
          Titles,        \* names of news
          Nothing,       \* a field that is not given
          NoItem,        \* no row
          MaxTime        \* bound of the clock and of dates

VARIABLES news,          \* committed rows
          now,           \* the time transactions see
          editing        \* the request of each editor

vars == <<news, now, editing>>

Dates == 0 .. MaxTime

\* The title when the item was created, and its id.
generate_news_slug(title, id) == <<title, id>>

Resting == [pc |-> "idle", kind |-> "none", id |-> Nothing, row |-> NoItem, stale |-> FALSE]

Init ==
    /\ news = [i \in Items |-> NoItem]
    /\ now = 0
    /\ editing = [e \in Editors |-> Resting]

Stored == {i \in Items : news[i] # NoItem}

Statuses == {"published", "scheduled", "deleted"}

\* Items the CMS lists under a status.
OfStatus(status) ==
    {i \in Stored :
        CASE status = "published" -> ~news[i].deleted /\ news[i].date <= now
          [] status = "scheduled" -> ~news[i].deleted /\ news[i].date > now
          [] status = "deleted" -> news[i].deleted}

\* By which the CMS sorts.
StatusRank(i) == IF news[i].deleted THEN 3 ELSE IF news[i].date > now THEN 2 ELSE 1

\* Items of the public list.
Public == {i \in Stored : ~news[i].deleted /\ news[i].date <= now}

PublicBySlug(slug) == {i \in Public : news[i].slug = slug}

Begin(e, kind, id, row) ==
    /\ editing' = [editing EXCEPT ![e] =
           [pc |-> "write", kind |-> kind, id |-> id, row |-> row, stale |-> FALSE]]
    /\ UNCHANGED <<news, now>>

Create(e) ==
    /\ editing[e].pc = "idle"
    /\ \E id \in {i \in Items \ Stored : \A d \in Editors : editing[d].id # i}, title \in Titles, date \in Dates :
           Begin(e, "create", id,
                 [title |-> title, date |-> date, deleted |-> FALSE, slug |-> generate_news_slug(title, id)])

\* A change brings a deleted item back.
BugChanged(row, title, date) ==
    [row EXCEPT !.title = IF title = Nothing THEN @ ELSE title,
                !.date = IF date = Nothing THEN @ ELSE date,
                !.deleted = FALSE]

\* The given columns replace what was read: neither the slug nor the mark is
\* among them.  A null date would be refused by the table.
Changed(row, title, date) ==
    [row EXCEPT !.title = IF title = Nothing THEN @ ELSE title, !.date = IF date = Nothing THEN @ ELSE date]

\* A deleted item can be changed like any other.
Update(e) ==
    /\ editing[e].pc = "idle"
    /\ \E id \in Stored, title \in Titles \cup {Nothing}, date \in Dates \cup {Nothing} :
         /\ title # Nothing \/ date # Nothing
         /\ Begin(e, IF date = Nothing THEN "change" ELSE "date", id, Changed(news[id], title, date))

SoftDelete(e) ==
    /\ editing[e].pc = "idle"
    /\ \E id \in Stored : Begin(e, "delete", id, [news[id] EXCEPT !.deleted = TRUE])

\* The statement waits for a transaction that has written the row.
Write(e) ==
    /\ editing[e].pc = "write"
    /\ \A d \in Editors \ {e} : editing[d].pc = "end" => editing[d].id # editing[e].id
    /\ editing' = [editing EXCEPT ![e].pc = "end"]
    /\ UNCHANGED <<news, now>>

Commit(e) ==
    /\ editing[e].pc = "end"
    /\ news' = [news EXCEPT ![editing[e].id] = editing[e].row]
    /\ editing' = [d \in Editors |->
           IF d = e THEN Resting
           ELSE [editing[d] EXCEPT !.stale = @ \/ editing[d].id = editing[e].id]]
    /\ UNCHANGED now

Abort(e) ==
    /\ editing[e].pc \in {"write", "end"}
    /\ editing' = [editing EXCEPT ![e] = Resting]
    /\ UNCHANGED <<news, now>>

Tick == now < MaxTime /\ now' = now + 1 /\ UNCHANGED <<news, editing>>

Next ==
    \/ \E e \in Editors : Create(e) \/ Update(e) \/ SoftDelete(e) \/ Write(e) \/ Commit(e) \/ Abort(e)
    \/ Tick

Spec == Init /\ [][Next]_vars

(***************************************************************************)
(* Properties                                                              *)
(***************************************************************************)

\* The three statuses share out the items, the CMS sorts by the status it
\* filters by, and what it calls published is what the site shows.
StatusesAgree ==
    /\ \A s, t \in Statuses : s # t => OfStatus(s) \cap OfStatus(t) = {}
    /\ \A i \in Stored : i \in OfStatus(<<"published", "scheduled", "deleted">>[StatusRank(i)])
    /\ OfStatus("published") = Public

\* An item appears on the site when its date comes, and appears or disappears
\* only by a request that is about that - or by one that read the row before
\* another changed it, whose change it undoes.  Its address finds it, and no
\* other, for as long as it exists, and the CMS agrees with the site about it.
VisibilityOnPurpose ==
    [][/\ \A i \in Items : (i \in Public) # (i \in Public') =>
             \/ now' # now /\ i \in Public'
             \/ \E e \in Editors :
                  /\ editing[e].id = i /\ editing[e].pc = "end" /\ editing'[e].pc = "idle"
                  /\ editing[e].kind # "change" \/ editing[e].stale
       /\ \A i \in Stored : \A slug \in {news[i].slug} :
             i \in Public' => PublicBySlug(slug)' = {i}
       /\ StatusesAgree']_vars
================================================================================
