------------------------------ MODULE PhotoStore ------------------------------
(***************************************************************************)
(* A photo is a row of table photos plus an object in the S3 bucket, and   *)
(* the two are written without a common transaction.  This module models   *)
(* PhotoService (create, update, delete, batch_delete) together with what  *)
(* it calls: PhotoRepository on PostgreSQL at READ COMMITTED, where a      *)
(* request sees committed rows and its own writes and waits for rows and   *)
(* names another request has written; S3MediaStorage, whose calls take     *)
(* effect at once; and get_session, which commits after the handler        *)
(* returns and rolls back when it raises.                                  *)
(*                                                                         *)
(* A session is one HTTP request at a time: pc, req, ent, bat and faults   *)
(* hold the local variables of its handler, pend[s] the uncommitted effect *)
(* of its transaction.                                                     *)
(*                                                                         *)
(* Definitions named Bug... are mutated forms of the one that follows      *)
(* them; no specification uses them, they show what a property would catch.*)
(***************************************************************************)
EXTENDS Integers, Sequences, FiniteSets

CONSTANTS
    Sessions,    \* concurrent requests
    Photos,      \* photo ids (uuid4: never used twice)
    Files,       \* S3 keys (uuid4 + extension: never used twice)
    Names,       \* photo names
    Bases,       \* names a request may ask for
    Candidates,  \* Candidates[b]: the names tried for b, in order
    NoRow, NoFile, NoBase, NoPhoto, Keep,
    Faults,      \* the kinds of failure that may happen
    MaxFaults,   \* how many steps of one request may fail
    Overlap,     \* may two requests work on one photo at the same time?
    MaxBatch     \* longest list of ids sent to batch_delete

Row == [name: Names, path: Files]
MaybeRow == Row \cup {NoRow}

\* "s3": the call failed and did nothing; "s3lost": it took effect and its
\* answer was lost; "db": a statement failed; "commit": the commit failed;
\* "crash": the worker died.
FaultKinds == {"s3", "s3lost", "db", "commit", "crash"}

ASSUME PhotoConstants ==
    /\ Candidates \in [Bases -> Seq(Names)]
    /\ \A b \in Bases : Len(Candidates[b]) > 0
    /\ NoRow \notin Row
    /\ Keep \notin MaybeRow
    /\ NoFile \notin Files
    /\ NoBase \notin Bases
    /\ NoPhoto \notin Photos
    /\ Faults \subseteq FaultKinds
    /\ MaxFaults \in Nat
    /\ MaxBatch \in Nat
    /\ Overlap \in BOOLEAN

VARIABLES
    mild,     \* is this a behaviour in a mild environment (see Admitted, Kinds)?
    rows,     \* committed table photos
    objects,  \* keys present in the bucket
    born,     \* photo ids handed out so far
    issued,   \* file names handed out so far
    pend,     \* pend[s][p]: what s has written to row p and not committed
    pc,       \* next step of the request
    req,      \* what was asked
    ent,      \* create, update: the entity and its files
    bat,      \* delete, batch_delete: the work lists
    faults    \* failed steps of the request so far

vars == <<mild, rows, objects, born, issued, pend, pc, req, ent, bat, faults>>

Steps == {"idle", "save", "write", "purge", "revert", "cleanup", "read",
          "load", "unlink", "drop", "restore", "rollback", "commit"}

Request == [
    op    : {"none", "create", "update", "delete"},
    ids   : SUBSET Photos,           \* photos the request names
    photo : Photos \cup {NoPhoto},   \* create, update: the entity's id
    base  : Bases \cup {NoBase} ]    \* requested name

Entity == [
    row     : MaybeRow,              \* the Photo object, name and path
    attempt : Nat,                   \* of _create/_update_with_unique_name
    old     : Files \cup {NoFile},   \* old_filename
    new     : Files \cup {NoFile} ]  \* filename, new_filename

Batch == [
    todo   : Seq(Photos),            \* ids still to read
    doomed : SUBSET Photos,          \* existing_photos
    left   : Seq(Files),             \* paths still to load and delete
    gone   : SUBSET Files ]          \* deleted_files

NoRequest == [op |-> "none", ids |-> {}, photo |-> NoPhoto, base |-> NoBase]
NoEntity  == [row |-> NoRow, attempt |-> 1, old |-> NoFile, new |-> NoFile]
NoBatch   == [todo |-> <<>>, doomed |-> {}, left |-> <<>>, gone |-> {}]
NothingWritten == [p \in Photos |-> Keep]

(***************************************************************************)
(* What a session sees and what it has to wait for                         *)
(***************************************************************************)

Seen(s, p) == IF pend[s][p] = Keep THEN rows[p] ELSE pend[s][p]

\* Another transaction has written row p and is still open.
RowLocked(s, p) == \E t \in Sessions \ {s} : pend[t][p] # Keep

BugNameLocked(s, n) == FALSE   \* no unique constraint, only a check

\* uq_photos_equestrian_name: an open transaction of another session has
\* taken name n, or is giving it up; the statement waits for its outcome.
NameLocked(s, n) ==
    \E t \in Sessions \ {s}, p \in Photos :
        /\ pend[t][p] # Keep
        /\ \/ pend[t][p] # NoRow /\ pend[t][p].name = n
           \/ rows[p] # NoRow /\ rows[p].name = n

\* Another photo has the name.
NameTaken(s, p, n) ==
    \E q \in Photos \ {p} : Seen(s, q) # NoRow /\ Seen(s, q).name = n

\* A mild environment keeps requests for one photo apart, and only calls to the
\* bucket that do nothing and statements fail; every behaviour stays in its own.
Admitted(s, ps) ==
    (Overlap /\ ~mild) \/ \A t \in Sessions \ {s} : req[t].ids \cap ps = {}

Kinds == IF mild THEN Faults \cap {"s3", "db"} ELSE Faults

MayFail(s, kind) == kind \in Kinds /\ faults[s] < MaxFaults
Fault(s) == faults' = [faults EXCEPT ![s] = @ + 1]
Goto(s, step) == pc' = [pc EXCEPT ![s] = step]

\* One call to the bucket with the given effect; ok says how it returned.
S3Call(s, effect, ok) ==
    \/ ok /\ objects' = effect /\ UNCHANGED faults
    \/ ~ok /\ MayFail(s, "s3") /\ UNCHANGED objects /\ Fault(s)
    \/ ~ok /\ MayFail(s, "s3lost") /\ objects' = effect /\ Fault(s)

BugAbandon(s) == Goto(s, "rollback")   \* the upload is not cleaned up

\* The except branches: best-effort delete of the new file, if there is one.
Abandon(s) == Goto(s, IF ent[s].new = NoFile THEN "rollback" ELSE "cleanup")

(***************************************************************************)
(* create                                                                  *)
(***************************************************************************)

\* The key is taken from the uploaded file's name.
BugCreatePhoto(s) ==
    /\ pc[s] = "idle"
    /\ \E p \in Photos \ born, f \in Files, b \in Bases :
        /\ Admitted(s, {p})
        /\ born' = born \cup {p}
        /\ issued' = issued \cup {f}
        /\ req' = [req EXCEPT ![s] =
                     [op |-> "create", ids |-> {p}, photo |-> p, base |-> b]]
        /\ ent' = [ent EXCEPT ![s] =
                     [row |-> [name |-> Candidates[b][1], path |-> f],
                      attempt |-> 1, old |-> NoFile, new |-> f]]
    /\ Goto(s, "save")
    /\ UNCHANGED <<rows, objects, pend, bat, faults>>

CreatePhoto(s) ==
    /\ pc[s] = "idle"
    /\ \E p \in Photos \ born, f \in Files \ issued, b \in Bases :
        /\ Admitted(s, {p})
        /\ born' = born \cup {p}
        /\ issued' = issued \cup {f}
        /\ req' = [req EXCEPT ![s] =
                     [op |-> "create", ids |-> {p}, photo |-> p, base |-> b]]
        /\ ent' = [ent EXCEPT ![s] =
                     [row |-> [name |-> Candidates[b][1], path |-> f],
                      attempt |-> 1, old |-> NoFile, new |-> f]]
    /\ Goto(s, "save")
    /\ UNCHANGED <<rows, objects, pend, bat, faults>>

\* A failed upload is swallowed.
BugSaveFile(s) ==
    /\ pc[s] = "save"
    /\ \E ok \in BOOLEAN : S3Call(s, objects \cup {ent[s].new}, ok)
    /\ Goto(s, "write")
    /\ UNCHANGED <<rows, born, issued, pend, req, ent, bat>>

\* media_storage.save of create and of update with a file: outside the try
\* block, so a failure here runs no compensation.
SaveFile(s) ==
    /\ pc[s] = "save"
    /\ \E ok \in BOOLEAN :
        /\ S3Call(s, objects \cup {ent[s].new}, ok)
        /\ Goto(s, IF ok THEN "write" ELSE "rollback")
    /\ UNCHANGED <<rows, born, issued, pend, req, ent, bat>>

(***************************************************************************)
(* The database write of create and update                                 *)
(***************************************************************************)

\* A missing name is replaced by one derived from the file.
BugNameToWrite(s) ==
    Candidates[IF req[s].base = NoBase THEN CHOOSE b \in Bases : TRUE
                                       ELSE req[s].base][ent[s].attempt]

\* The name this attempt writes: the next candidate of the requested name or,
\* when no name is requested, the one the entity was read with.
NameToWrite(s) ==
    IF req[s].base = NoBase THEN ent[s].row.name
                            ELSE Candidates[req[s].base][ent[s].attempt]

\* An UPDATE finds nothing to write when the row has been deleted meanwhile;
\* neither try_update nor update looks at the row count.
HasTarget(s) == req[s].op = "create" \/ rows[req[s].photo] # NoRow

\* The statement that succeeds: every column of the entity is written.
WriteRow(s) ==
    LET written == [ent[s].row EXCEPT !.name = NameToWrite(s)]
    IN  /\ pc[s] = "write"
        /\ ~RowLocked(s, req[s].photo)
        /\ HasTarget(s) => /\ ~NameLocked(s, written.name)
                           /\ ~NameTaken(s, req[s].photo, written.name)
        /\ pend' = IF HasTarget(s) THEN [pend EXCEPT ![s][req[s].photo] = written]
                                   ELSE pend
        /\ ent' = [ent EXCEPT ![s].row = written]
        /\ Goto(s, IF ent[s].old = NoFile THEN "commit" ELSE "purge")
        /\ UNCHANGED <<rows, objects, born, issued, req, bat, faults>>

\* The statement that meets uq_photos_equestrian_name.  try_create and
\* try_update undo their savepoint and the loop goes on to the next candidate;
\* the plain update of a request without a name, and the last attempt, raise.
NameConflict(s) ==
    /\ pc[s] = "write" /\ HasTarget(s)
    /\ ~RowLocked(s, req[s].photo)
    /\ ~NameLocked(s, NameToWrite(s))
    /\ NameTaken(s, req[s].photo, NameToWrite(s))
    /\ \/ /\ req[s].base # NoBase
          /\ ent[s].attempt < Len(Candidates[req[s].base])
          /\ ent' = [ent EXCEPT ![s].attempt = @ + 1]
          /\ UNCHANGED <<pc, faults>>
       \/ /\ req[s].base # NoBase => ent[s].attempt >= Len(Candidates[req[s].base])
          /\ Abandon(s)
          /\ Fault(s)
          /\ UNCHANGED ent
    /\ UNCHANGED <<rows, objects, born, issued, pend, req, bat>>

WriteFails(s) ==
    /\ pc[s] = "write" /\ MayFail(s, "db")
    /\ Abandon(s)
    /\ Fault(s)
    /\ UNCHANGED <<rows, objects, born, issued, pend, req, ent, bat>>

\* The clean-up deletes whatever the row points to now.
BugCleanUp(s) ==
    /\ pc[s] = "cleanup"
    /\ \E ok \in BOOLEAN, p \in Photos :
        /\ rows[p] # NoRow
        /\ S3Call(s, objects \ {rows[p].path}, ok)
    /\ Goto(s, "rollback")
    /\ UNCHANGED <<rows, born, issued, pend, req, ent, bat>>

\* _safe_delete_file(new file): its own failure is swallowed.
CleanUp(s) ==
    /\ pc[s] = "cleanup"
    /\ \E ok \in BOOLEAN : S3Call(s, objects \ {ent[s].new}, ok)
    /\ Goto(s, "rollback")
    /\ UNCHANGED <<rows, born, issued, pend, req, ent, bat>>

(***************************************************************************)
(* update                                                                  *)
(***************************************************************************)

\* get_by_id, then the new file name and entity.  A request with neither file
\* nor name changes the description only and still writes every column.
UpdatePhoto(s) ==
    /\ pc[s] = "idle"
    /\ \E p \in Photos, b \in Bases \cup {NoBase} :
        /\ rows[p] # NoRow
        /\ Admitted(s, {p})
        /\ req' = [req EXCEPT ![s] =
                     [op |-> "update", ids |-> {p}, photo |-> p, base |-> b]]
        /\ \/ /\ ent' = [ent EXCEPT ![s].row = rows[p]]
              /\ Goto(s, "write")
              /\ UNCHANGED issued
           \/ \E f \in Files \ issued :
              /\ ent' = [ent EXCEPT ![s] =
                           [row |-> [name |-> rows[p].name, path |-> f],
                            attempt |-> 1, old |-> rows[p].path, new |-> f]]
              /\ Goto(s, "save")
              /\ issued' = issued \cup {f}
    /\ UNCHANGED <<rows, objects, born, pend, bat, faults>>

\* The entity keeps no path after a failed delete.
BugPurgeOld(s) ==
    /\ pc[s] = "purge"
    /\ \E ok \in BOOLEAN :
        /\ S3Call(s, objects \ {ent[s].old}, ok)
        /\ Goto(s, IF ok THEN "commit" ELSE "revert")
        /\ ent' = IF ok THEN ent ELSE [ent EXCEPT ![s].row.path = NoFile]
    /\ UNCHANGED <<rows, born, issued, pend, req, bat>>

\* The old file is deleted before the row is committed.
PurgeOld(s) ==
    /\ pc[s] = "purge"
    /\ \E ok \in BOOLEAN :
        /\ S3Call(s, objects \ {ent[s].old}, ok)
        /\ Goto(s, IF ok THEN "commit" ELSE "revert")
        /\ ent' = IF ok THEN ent ELSE [ent EXCEPT ![s].row.path = ent[s].old]
    /\ UNCHANGED <<rows, born, issued, pend, req, bat>>

\* photo.path = old_filename and a second UPDATE.  Whether it succeeds or not,
\* the new file is deleted and the storage error raised.
RevertRow(s) ==
    /\ pc[s] = "revert"
    /\ \/ /\ pend' = IF Seen(s, req[s].photo) = NoRow THEN pend
                     ELSE [pend EXCEPT ![s][req[s].photo] = ent[s].row]
          /\ UNCHANGED faults
       \/ MayFail(s, "db") /\ Fault(s) /\ UNCHANGED pend
    /\ Goto(s, "cleanup")
    /\ UNCHANGED <<rows, objects, born, issued, req, ent, bat>>

(***************************************************************************)
(* delete and batch_delete                                                 *)
(***************************************************************************)

\* delete reads one row and then does what batch_delete does to a list of one.
DeletePhoto(s) ==
    /\ pc[s] = "idle"
    /\ \E p \in Photos :
        /\ rows[p] # NoRow
        /\ Admitted(s, {p})
        /\ req' = [req EXCEPT ![s].op = "delete", ![s].ids = {p}]
        /\ bat' = [bat EXCEPT ![s].doomed = {p}, ![s].left = <<rows[p].path>>]
    /\ Goto(s, "load")
    /\ UNCHANGED <<rows, objects, born, issued, pend, ent, faults>>

\* The list of ids may name a photo twice or one that does not exist.
BatchLists == UNION {[1..n -> Photos] : n \in 1..MaxBatch}

BatchDelete(s) ==
    /\ pc[s] = "idle"
    /\ \E ids \in BatchLists :
        LET named == {ids[i] : i \in DOMAIN ids}
        IN  /\ Admitted(s, named)
            /\ req' = [req EXCEPT ![s].op = "delete", ![s].ids = named]
            /\ bat' = [bat EXCEPT ![s].todo = ids]
    /\ Goto(s, "read")
    /\ UNCHANGED <<rows, objects, born, issued, pend, ent, faults>>

\* One get_by_id of the first loop; photos that are not there are skipped.
ReadNext(s) ==
    LET p == Head(bat[s].todo)
        rest == Tail(bat[s].todo)
        found == rows[p] # NoRow
        left == IF found THEN Append(bat[s].left, rows[p].path) ELSE bat[s].left
    IN  /\ pc[s] = "read"
        /\ bat' = [bat EXCEPT
                     ![s].todo = rest,
                     ![s].left = left,
                     ![s].doomed = IF found THEN @ \cup {p} ELSE @]
        /\ Goto(s, IF rest # <<>> THEN "read"
                   ELSE IF left = <<>> THEN "commit" ELSE "load")
        /\ UNCHANGED <<rows, objects, born, issued, pend, req, ent, faults>>

\* get_object raises when the key is not there.
LoadFile(s) ==
    LET f == Head(bat[s].left)
    IN  /\ pc[s] = "load"
        /\ \/ f \in objects /\ Goto(s, "unlink") /\ UNCHANGED faults
           \/ (f \notin objects \/ MayFail(s, "s3")) /\ Goto(s, "restore") /\ Fault(s)
        /\ UNCHANGED <<rows, objects, born, issued, pend, req, ent, bat>>

\* deleted_files is not filled.
BugUnlinkFile(s) ==
    LET f == Head(bat[s].left)
        rest == Tail(bat[s].left)
    IN  /\ pc[s] = "unlink"
        /\ \E ok \in BOOLEAN :
            /\ S3Call(s, objects \ {f}, ok)
            /\ bat' = IF ok THEN [bat EXCEPT ![s].left = rest] ELSE bat
            /\ Goto(s, IF ~ok THEN "restore" ELSE IF rest = <<>> THEN "drop" ELSE "load")
        /\ UNCHANGED <<rows, born, issued, pend, req, ent>>

\* delete_object; it succeeds on a key that is not there.
UnlinkFile(s) ==
    LET f == Head(bat[s].left)
        rest == Tail(bat[s].left)
    IN  /\ pc[s] = "unlink"
        /\ \E ok \in BOOLEAN :
            /\ S3Call(s, objects \ {f}, ok)
            /\ bat' = IF ok THEN [bat EXCEPT ![s].gone = @ \cup {f}, ![s].left = rest]
                            ELSE bat
            /\ Goto(s, IF ~ok THEN "restore" ELSE IF rest = <<>> THEN "drop" ELSE "load")
        /\ UNCHANGED <<rows, born, issued, pend, req, ent>>

\* The DELETE statement, once no other transaction holds one of its rows.
DropRows(s) ==
    LET present == {p \in bat[s].doomed : rows[p] # NoRow}
    IN  /\ pc[s] = "drop"
        /\ \/ /\ \A p \in present : ~RowLocked(s, p)
              /\ pend' = [pend EXCEPT ![s] =
                            [p \in Photos |-> IF p \in present THEN NoRow ELSE @[p]]]
              /\ Goto(s, "commit")
              /\ UNCHANGED faults
           \/ MayFail(s, "db") /\ Fault(s) /\ Goto(s, "restore") /\ UNCHANGED pend
        /\ UNCHANGED <<rows, objects, born, issued, req, ent, bat>>

\* A file that was restored is not taken off the list.
BugRestoreFile(s) ==
    /\ pc[s] = "restore"
    /\ \E f \in bat[s].gone :
        \E ok \in BOOLEAN : S3Call(s, objects \cup {f}, ok)
    /\ UNCHANGED <<rows, born, issued, pend, pc, req, ent, bat>>

\* _safe_restore_file of one deleted file; its failure is swallowed.
RestoreFile(s) ==
    /\ pc[s] = "restore"
    /\ \E f \in bat[s].gone :
        /\ \E ok \in BOOLEAN : S3Call(s, objects \cup {f}, ok)
        /\ bat' = [bat EXCEPT ![s].gone = @ \ {f}]
    /\ UNCHANGED <<rows, born, issued, pend, pc, req, ent>>

(***************************************************************************)
(* get_session                                                             *)
(***************************************************************************)

EndSession(s) ==
    /\ Goto(s, "idle")
    /\ pend' = [pend EXCEPT ![s] = NothingWritten]
    /\ req' = [req EXCEPT ![s] = NoRequest]
    /\ ent' = [ent EXCEPT ![s] = NoEntity]
    /\ bat' = [bat EXCEPT ![s] = NoBatch]
    /\ faults' = [faults EXCEPT ![s] = 0]
    /\ UNCHANGED <<objects, born, issued>>

Commit(s) ==
    /\ pc[s] = "commit"
    /\ rows' = [p \in Photos |-> Seen(s, p)]
    /\ EndSession(s)

\* The handler raised, or the commit itself failed after the handler returned.
Rollback(s) ==
    /\ \/ pc[s] = "rollback"
       \/ pc[s] = "restore" /\ bat[s].gone = {}
       \/ pc[s] = "commit" /\ MayFail(s, "commit")
    /\ UNCHANGED rows
    /\ EndSession(s)

\* The worker dies, or the request is cancelled: no except branch runs.
Crash(s) ==
    /\ "crash" \in Kinds /\ pc[s] # "idle"
    /\ UNCHANGED rows
    /\ EndSession(s)

-----------------------------------------------------------------------------

Init ==
    /\ mild \in BOOLEAN
    /\ rows = [p \in Photos |-> NoRow]
    /\ objects = {}
    /\ born = {}
    /\ issued = {}
    /\ pend = [s \in Sessions |-> NothingWritten]
    /\ pc = [s \in Sessions |-> "idle"]
    /\ req = [s \in Sessions |-> NoRequest]
    /\ ent = [s \in Sessions |-> NoEntity]
    /\ bat = [s \in Sessions |-> NoBatch]
    /\ faults = [s \in Sessions |-> 0]

Progress(s) ==
    \/ SaveFile(s) \/ WriteRow(s) \/ NameConflict(s) \/ WriteFails(s) \/ CleanUp(s)
    \/ PurgeOld(s) \/ RevertRow(s)
    \/ ReadNext(s) \/ LoadFile(s) \/ UnlinkFile(s) \/ DropRows(s) \/ RestoreFile(s)
    \/ Commit(s) \/ Rollback(s)

Next ==
    /\ \E s \in Sessions :
        \/ CreatePhoto(s) \/ UpdatePhoto(s) \/ DeletePhoto(s) \/ BatchDelete(s)
        \/ Progress(s) \/ Crash(s)
    /\ UNCHANGED mild

Spec == Init /\ [][Next]_vars

\* A handler that can go on does: the event loop runs it, and a statement that
\* waits for a row or a name stands in PostgreSQL's queue for it (hence strong
\* fairness).  No request is obliged to start and no worker to crash.
Fairness == \A s \in Sessions : SF_vars(Progress(s) /\ UNCHANGED mild)

(***************************************************************************)
(* Properties                                                              *)
(***************************************************************************)

\* Every variable stays in its type.
TypeOK ==
    /\ mild \in BOOLEAN
    /\ rows \in [Photos -> MaybeRow]
    /\ objects \in SUBSET Files
    /\ born \in SUBSET Photos
    /\ issued \in SUBSET Files
    /\ pend \in [Sessions -> [Photos -> MaybeRow \cup {Keep}]]
    /\ pc \in [Sessions -> Steps]
    /\ req \in [Sessions -> Request]
    /\ ent \in [Sessions -> Entity]
    /\ bat \in [Sessions -> Batch]
    /\ faults \in [Sessions -> Nat]

Referenced == {rows[p].path : p \in {q \in Photos : rows[q] # NoRow}}

\* The compensations of PhotoService do their work: a photo no request is
\* working on has its object in the bucket, whatever single step of whatever
\* earlier request failed (an S3 call, a statement, the last name attempt).
StoredWhenIdle ==
    \A p \in Photos :
        /\ rows[p] # NoRow
        /\ \A s \in Sessions : p \notin req[s].ids
        => rows[p].path \in objects

\* Nothing is left behind in the bucket: an object is the file of a committed
\* photo or the upload of a request that is still running.
NoOrphans ==
    \A f \in objects :
        f \in Referenced \/ \E s \in Sessions : ent[s].new = f

\* Whatever single S3 call or statement failed, PhotoService's compensations
\* leave row and bucket in step for every photo no request is working on, and
\* no object behind that no row and no request knows of.
MildStorageMatches == TypeOK /\ (mild => StoredWhenIdle /\ NoOrphans)

\* Two photos never share an object, under every failure and interleaving: so
\* deleting or replacing the file of one cannot take away that of another.
PathsDisjoint ==
    \A p, q \in Photos :
        /\ p # q /\ rows[p] # NoRow /\ rows[q] # NoRow
        => rows[p].path # rows[q].path

\* A committed row never has the name of another photo, although names are
\* chosen by trying candidates with no lock held between the attempts.
NamesDisjoint ==
    \A p, q \in Photos :
        /\ p # q /\ rows[p] # NoRow /\ rows[q] # NoRow
        => rows[p].name # rows[q].name

\* A step takes away only an object no committed row points to, or the file of
\* a photo that the acting request was sent to change; under every failure and
\* interleaving, compensations included.
OnlyOwnObjectsRemoved ==
    [][\A p \in Photos :
        /\ rows[p] # NoRow /\ rows[p].path \in objects \ objects'
        => \E s \in Sessions : pc'[s] # pc[s] /\ p \in req[s].ids]_vars

\* Upload first, row second: at the moment a new path becomes visible to
\* readers its object is there, whatever failed on the way.
PublishedIsStored ==
    [][\A p \in Photos :
        /\ rows'[p] # rows[p] /\ rows'[p] # NoRow
        /\ \E s \in Sessions : ent[s].new = rows'[p].path
        => rows'[p].path \in objects']_vars

\* A request comes to an end: no two of them wait for each other's rows and
\* names for ever, and every retry and compensation loop runs out.
RequestsEnd == \A s \in Sessions : pc[s] # "idle" ~> pc[s] = "idle"

\* A commit changes the path only for a request that brought a file, and the
\* name only for one that asked for it.
ProvidedFieldsStep ==
    \A s \in Sessions, p \in Photos :
        /\ pc[s] = "commit" /\ pc'[s] = "idle" /\ req[s].op = "update"
        /\ rows'[p] # rows[p] /\ rows[p] # NoRow /\ rows'[p] # NoRow
        => /\ rows'[p].path # rows[p].path => ent[s].new # NoFile
           /\ rows'[p].name # rows[p].name => req[s].base # NoBase

\* An update changes only the fields it was given, when no other request works
\* on its photo.
MildOnlyProvidedFields == [][mild => ProvidedFieldsStep]_vars

\* "updates only provided fields", in the words of the tests of update.
OnlyProvidedFields == [][ProvidedFieldsStep]_vars
=============================================================================
