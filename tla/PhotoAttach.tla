----------------------------- MODULE PhotoAttach -----------------------------
(***************************************************************************)
(* The photo list of one horse, price or news item: the link rows with     *)
(* is_main, set as a whole (update_..._photos with set_..._photos) or       *)
(* extended by an upload of several files (upload_and_attach_photos).      *)
(* Nothing keeps two requests from changing one list at a time: the table  *)
(* has no key on owner and photo, and no statement locks the owner.        *)
(* Photos are created and deleted by other requests, a deletion with its   *)
(* links.                                                                  *)
(*                                                                         *)
(* An upload reads the list once, then creates and attaches file by file;  *)
(* the error of a file is caught, and the response is 200 whatever         *)
(* happened.  A statement that failed aborts the transaction, which undoes *)
(* its writes and gives up its locks: all later statements fail, and its   *)
(* COMMIT is a rollback.                                                   *)
(*                                                                         *)
(* Rows that one INSERT writes for one photo are found, written and        *)
(* deleted together ever after and count as one row.  A statement that     *)
(* waits for locks takes effect at once when it has all of them.           *)
(*                                                                         *)
(* Definitions named Bug... are mutated forms of the one that follows      *)
(* them; no specification uses them.                                       *)
(***************************************************************************)
EXTENDS Naturals, FiniteSets

CONSTANTS
    Sessions,    \* requests, each with its transaction
    Photos,      \* ids of photos
    Crowd,       \* the photos there are when requests overlap
    Copies,      \* at most so many rows link one photo
    NoPhoto,
    KeepList,    \* a request without photo_ids
    MaxFiles     \* most files of one upload

VARIABLES
    owner,       \* "horse" or "item" (price, news): they set the main photo differently
    serial,      \* do the requests for the list come one after the other?
    photos,      \* committed table photos
    links,       \* committed link rows of the owner
    pend,        \* what a transaction has written to the rows
    fresh,       \* photos it has inserted
    broken,      \* transactions a statement of which has failed
    pc,          \* next step of the request
    job,         \* the request: photo ids and main, files left, photos reported
    waiting,     \* sessions whose statement has started and waits
    found        \* the rows it found at its start

vars == <<owner, serial, photos, links, pend, fresh, broken, pc, job, waiting, found>>

Rows == Photos \X Copies

RowStates == {"none", "plain", "main"}

Keep == "keep"

NoJob == [op |-> "none", list |-> {}, main |-> NoPhoto, files |-> 0,
          now |-> NoPhoto, told |-> {}]

NothingWritten == [r \in Rows |-> Keep]

Linked(table) == {p \in Photos : \E r \in Rows : r[1] = p /\ table[r] # "none"}
MainOf(table) == {p \in Photos : \E r \in Rows : r[1] = p /\ table[r] = "main"}

(***************************************************************************)
(* What a transaction sees, and what it waits for                          *)
(***************************************************************************)

Seen(s) == [r \in Rows |-> IF pend[s][r] = Keep THEN links[r] ELSE pend[s][r]]
Visible(s) == {r \in Rows : Seen(s)[r] # "none"}

Matching(s) ==
    CASE pc[s] \in {"drop", "reset"} -> Visible(s)
      [] pc[s] = "mark" -> {r \in Visible(s) : r[1] = job[s].main}
      [] OTHER -> {}

\* The rows a statement writes: those it found when it started, less those that
\* were deleted while it waited.
Target(s) == IF s \in waiting THEN found[s] \cap Visible(s) ELSE Matching(s)

Blockers(s) == {t \in Sessions \ {s} : \E r \in Target(s) : pend[t][r] # Keep}

Runs(s, step) == pc[s] = step /\ Blockers(s) = {}

Goto(s, step) ==
    /\ pc' = [pc EXCEPT ![s] = step]
    /\ waiting' = waiting \ {s}
    /\ found' = [found EXCEPT ![s] = {}]

\* A statement starts and has to wait.
Wait(s) ==
    /\ pc[s] \in {"drop", "reset", "mark"} /\ Blockers(s) # {}
    /\ s \notin waiting
    /\ waiting' = waiting \cup {s}
    /\ found' = [found EXCEPT ![s] = Matching(s)]
    /\ UNCHANGED <<owner, serial, photos, links, pend, fresh, broken, pc, job>>

Admitted(s) == serial => \A t \in Sessions \ {s} : pc[t] = "idle"

\* Ids nothing mentions (uuid4).
Unused ==
    {p \in (IF serial THEN Photos ELSE Crowd) \ photos : \A s \in Sessions :
        /\ p \notin fresh[s] \cup job[s].told /\ p # job[s].main
        /\ job[s].list # KeepList => p \notin job[s].list}

\* Rows nobody has: a transaction may use again what it has deleted of its own.
Free(s) ==
    {r \in Rows :
        /\ links[r] = "none" /\ pend[s][r] \in {Keep, "none"}
        /\ \A t \in Sessions : r \notin found[t] /\ (t # s => pend[t][r] = Keep)}

\* A new row for each photo of P; which of them makes no difference.
NewRows(s, P) == {r \in Free(s) : r[1] \in P /\ \A q \in Free(s) : q[1] = r[1] => r[2] <= q[2]}

Init ==
    /\ owner \in {"horse", "item"} /\ serial \in BOOLEAN
    /\ photos = {}
    /\ links = [r \in Rows |-> "none"]
    /\ pend = [s \in Sessions |-> NothingWritten]
    /\ fresh = [s \in Sessions |-> {}]
    /\ broken = {}
    /\ pc = [s \in Sessions |-> "idle"]
    /\ job = [s \in Sessions |-> NoJob]
    /\ waiting = {}
    /\ found = [s \in Sessions |-> {}]

(***************************************************************************)
(* Entry of the handlers                                                   *)
(***************************************************************************)

Start(s, j, step) ==
    /\ pc[s] = "idle" /\ Admitted(s)
    /\ job' = [job EXCEPT ![s] = j]
    /\ Goto(s, step)
    /\ UNCHANGED <<owner, serial, photos, links, pend, fresh, broken>>

\* update_horse_photos always has a list; update_price_photos and the update of
\* news have a list, a main photo or both.  The main photo is in the list.
SetPhotos(s) ==
    \E list \in (SUBSET photos) \cup {KeepList}, main \in photos \cup {NoPhoto} :
        /\ owner = "horse" => list # KeepList
        /\ list = KeepList => main \in Linked(links)
        /\ list # KeepList => main \in list \cup {NoPhoto}
        /\ Start(s, [NoJob EXCEPT !.op = "set", !.list = list, !.main = main],
                 IF list = KeepList THEN "reset" ELSE "drop")

UploadPhotos(s) ==
    \E n \in 1..MaxFiles :
        Start(s, [NoJob EXCEPT !.op = "upload", !.list = Linked(links), !.files = n], "file")

(***************************************************************************)
(* The loop of an upload                                                   *)
(***************************************************************************)

\* Each file is attached to the list that was read.
BugCreateFile(s) ==
    /\ pc[s] = "file" /\ job[s].files > 0 /\ s \notin broken
    /\ \E p \in Unused :
        /\ fresh' = [fresh EXCEPT ![s] = @ \cup {p}]
        /\ job' = [job EXCEPT ![s].list = (@ \ fresh[s]) \cup {p}, ![s].files = @ - 1, ![s].now = p]
    /\ Goto(s, "drop")
    /\ UNCHANGED <<owner, serial, photos, links, pend, broken>>

\* PhotoService.create has made object and row; the id joins the list.
CreateFile(s) ==
    /\ pc[s] = "file" /\ job[s].files > 0 /\ s \notin broken
    /\ \E p \in Unused :
        /\ fresh' = [fresh EXCEPT ![s] = @ \cup {p}]
        /\ job' = [job EXCEPT ![s].list = @ \cup {p}, ![s].files = @ - 1, ![s].now = p]
    /\ Goto(s, "drop")
    /\ UNCHANGED <<owner, serial, photos, links, pend, broken>>

\* The transaction has lost what it did; only the request does not know yet.
Undo(s) ==
    /\ broken' = broken \cup {s}
    /\ pend' = [pend EXCEPT ![s] = NothingWritten]
    /\ fresh' = [fresh EXCEPT ![s] = {}]

\* PhotoService.create raises (always in an aborted transaction) and has undone
\* what it did; a statement outside its savepoint may be what failed.
CreateFails(s) ==
    /\ pc[s] = "file" /\ job[s].files > 0
    /\ Undo(s) \/ UNCHANGED <<broken, pend, fresh>>
    /\ job' = [job EXCEPT ![s].files = @ - 1]
    /\ UNCHANGED <<owner, serial, photos, links, pc, waiting, found>>

(***************************************************************************)
(* set_horse_photos, set_price_photos, set_news_photos                     *)
(***************************************************************************)

\* DELETE of the owner's links.
DropLinks(s) ==
    /\ Runs(s, "drop")
    /\ pend' = [pend EXCEPT ![s] = [r \in Rows |-> IF r \in Target(s) THEN "none" ELSE @[r]]]
    /\ Goto(s, "insert")
    /\ UNCHANGED <<owner, serial, photos, links, fresh, broken, job>>

Written(s, p) == IF owner = "horse" /\ p = job[s].main THEN "main" ELSE "plain"

\* A photo the owner still seems to have is not linked again.
BugInsertLinks(s) ==
    /\ Runs(s, "insert")
    /\ job[s].list \subseteq photos \cup fresh[s]
    /\ LET absent == job[s].list \ Linked(Seen(s))
           new == NewRows(s, absent) IN
        /\ \A p \in absent : \E r \in new : r[1] = p
        /\ pend' = [pend EXCEPT ![s] = [r \in Rows |-> IF r \in new THEN Written(s, r[1]) ELSE @[r]]]
    /\ IF job[s].op = "upload"
       THEN /\ job' = [job EXCEPT ![s].told = @ \cup {job[s].now}, ![s].now = NoPhoto]
            /\ Goto(s, "file")
       ELSE /\ UNCHANGED job
            /\ Goto(s, IF owner = "item" /\ job[s].main # NoPhoto THEN "reset" ELSE "commit")
    /\ UNCHANGED <<owner, serial, photos, links, fresh, broken>>

\* INSERT of the list, if the photos still exist; a horse's main photo is marked
\* at once, for the others the main photo is chosen next.
InsertLinks(s) ==
    /\ Runs(s, "insert")
    /\ job[s].list \subseteq photos \cup fresh[s]
    /\ LET new == NewRows(s, job[s].list) IN
        /\ \A p \in job[s].list : \E r \in new : r[1] = p
        /\ pend' = [pend EXCEPT ![s] = [r \in Rows |-> IF r \in new THEN Written(s, r[1]) ELSE @[r]]]
    /\ IF job[s].op = "upload"
       THEN /\ job' = [job EXCEPT ![s].told = @ \cup {job[s].now}, ![s].now = NoPhoto]
            /\ Goto(s, "file")
       ELSE /\ UNCHANGED job
            /\ Goto(s, IF owner = "item" /\ job[s].main # NoPhoto THEN "reset" ELSE "commit")
    /\ UNCHANGED <<owner, serial, photos, links, fresh, broken>>

\* UPDATE: no link is main.
ResetMain(s) ==
    /\ Runs(s, "reset")
    /\ pend' = [pend EXCEPT ![s] = [r \in Rows |-> IF r \in Target(s) THEN "plain" ELSE @[r]]]
    /\ Goto(s, "choose")
    /\ UNCHANGED <<owner, serial, photos, links, fresh, broken, job>>

\* SELECT: is there a link of the main photo?  If not, it is inserted.
ChooseMain(s) ==
    /\ pc[s] = "choose"
    /\ IF job[s].main \in Linked(Seen(s))
       THEN Goto(s, "mark") /\ UNCHANGED pend
       ELSE LET new == NewRows(s, {job[s].main}) IN
            /\ job[s].main \in photos /\ new # {}
            /\ pend' = [pend EXCEPT ![s] = [r \in Rows |-> IF r \in new THEN "main" ELSE @[r]]]
            /\ Goto(s, "commit")
    /\ UNCHANGED <<owner, serial, photos, links, fresh, broken, job>>

\* UPDATE of the link of the main photo.
MarkMain(s) ==
    /\ Runs(s, "mark")
    /\ pend' = [pend EXCEPT ![s] = [r \in Rows |-> IF r \in Target(s) THEN "main" ELSE @[r]]]
    /\ Goto(s, "commit")
    /\ UNCHANGED <<owner, serial, photos, links, fresh, broken, job>>

(***************************************************************************)
(* Ends and the other requests                                             *)
(***************************************************************************)

Reset(s) ==
    /\ job' = [job EXCEPT ![s] = NoJob]
    /\ pend' = [pend EXCEPT ![s] = NothingWritten]
    /\ fresh' = [fresh EXCEPT ![s] = {}]
    /\ broken' = broken \ {s}
    /\ Goto(s, "idle")
    /\ UNCHANGED <<owner, serial>>

\* A statement fails: a photo of the list is gone (foreign key), two requests
\* wait for each other, or a timeout.  update_..._photos raises, an upload notes
\* the error and goes on.
StatementFails(s) ==
    /\ pc[s] \in {"drop", "insert", "reset", "choose", "mark"}
    /\ \/ /\ job[s].op = "upload"
          /\ Undo(s)
          /\ job' = [job EXCEPT ![s].now = NoPhoto]
          /\ Goto(s, "file")
          /\ UNCHANGED <<owner, serial, photos, links>>
       \/ /\ job[s].op = "set"
          /\ Reset(s)
          /\ UNCHANGED <<photos, links>>

\* The handler has returned; of an aborted transaction nothing is left.
Commit(s) ==
    /\ pc[s] = "commit" \/ (pc[s] = "file" /\ job[s].files = 0)
    /\ Reset(s)
    /\ photos' = photos \cup fresh[s]
    /\ links' = Seen(s)

\* The commit fails, the worker dies, the client goes away.
Abort(s) ==
    /\ pc[s] # "idle"
    /\ Reset(s)
    /\ UNCHANGED <<photos, links>>

AddPhoto ==
    /\ \E p \in Unused : photos' = photos \cup {p}
    /\ UNCHANGED <<owner, serial, links, pend, fresh, broken, pc, job, waiting, found>>

\* DELETE of a photo waits for those who have written a link to it.
InUse(p) == \E s \in Sessions, r \in Rows : r[1] = p /\ pend[s][r] # Keep

\* It cascades to its links.
RemovePhoto ==
    \E p \in photos :
        /\ ~InUse(p)
        /\ photos' = photos \ {p}
        /\ links' = [r \in Rows |-> IF r[1] = p THEN "none" ELSE links[r]]
        /\ UNCHANGED <<owner, serial, pend, fresh, broken, pc, job, waiting, found>>

Next ==
    \/ \E s \in Sessions :
        \/ SetPhotos(s) \/ UploadPhotos(s) \/ CreateFile(s) \/ CreateFails(s)
        \/ DropLinks(s) \/ InsertLinks(s) \/ ResetMain(s) \/ ChooseMain(s) \/ MarkMain(s)
        \/ StatementFails(s) \/ Commit(s) \/ Abort(s) \/ Wait(s)
    \/ AddPhoto \/ RemovePhoto

Spec == Init /\ [][Next]_vars

(***************************************************************************)
(* Properties                                                              *)
(***************************************************************************)

\* The variables keep their types, and links have their photos.
TypeOK ==
    /\ owner \in {"horse", "item"} /\ serial \in BOOLEAN
    /\ photos \in SUBSET Photos
    /\ links \in [Rows -> RowStates]
    /\ pend \in [Sessions -> [Rows -> RowStates \cup {Keep}]]
    /\ fresh \in [Sessions -> SUBSET Photos]
    /\ broken \in SUBSET Sessions
    /\ pc \in [Sessions -> {"idle", "file", "drop", "insert", "reset", "choose", "mark", "commit"}]
    /\ job \in [Sessions ->
                  [op: {"none", "set", "upload"}, list: (SUBSET Photos) \cup {KeepList},
                   main: Photos \cup {NoPhoto}, files: 0..MaxFiles,
                   now: Photos \cup {NoPhoto}, told: SUBSET Photos]]
    /\ waiting \in SUBSET Sessions
    /\ found \in [Sessions -> SUBSET Rows]
    /\ Linked(links) \subseteq photos

Commits(s) == Commit(s) /\ s \notin broken

\* What a request that is not overtaken makes of the list: what it was asked
\* for, or what was there when it ended and every photo it reports, although an
\* upload writes back a list it has read at its start and photos are deleted
\* meanwhile.  It leaves one main photo at most, which no constraint asks for.
ListIsAsAsked(s) ==
    /\ \A p, q \in MainOf(links') : p = q
    /\ CASE job[s].op = "upload" -> Linked(links') = Linked(links) \cup job[s].told
         [] job[s].op = "set" /\ job[s].list # KeepList -> Linked(links') = job[s].list
         [] job[s].op = "set" /\ job[s].list = KeepList ->
               Linked(links') = Linked(links) /\ MainOf(links') = {job[s].main}

SerialListAsAsked ==
    [][serial => \A s \in Sessions : Commits(s) => ListIsAsAsked(s)]_vars

\* What a request has linked is there when it commits, whoever replaces the list
\* or deletes photos meanwhile: the list it was given and its main photo, or
\* what an upload reports and the list it has read.
Lands(s) ==
    /\ job[s].op = "upload" => job[s].told \subseteq Linked(links')
    /\ job[s].op = "upload" /\ job[s].told # {} => job[s].list \subseteq Linked(links')
    /\ job[s].op = "set" /\ job[s].list # KeepList =>
         /\ job[s].list \subseteq Linked(links')
         /\ job[s].main # NoPhoto => job[s].main \in MainOf(links')

CommittedLands == [][\A s \in Sessions : Commits(s) => Lands(s)]_vars

\* "we do not change main": the main photo of the owner is the same after an
\* upload (upload_and_attach_photos).
UploadKeepsMain ==
    [][\A s \in Sessions : Commits(s) /\ job[s].op = "upload" =>
          MainOf(links') = MainOf(links)]_vars

\* "the successful files are committed": what an upload reports is on the list
\* (upload_and_attach_photos).
ReportedIsCommitted ==
    [][\A s \in Sessions : Commit(s) => job[s].told \subseteq Linked(links')]_vars

==============================================================================
