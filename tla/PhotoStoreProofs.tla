--------------------------- MODULE PhotoStoreProofs ---------------------------
(***************************************************************************)
(* Theorems about PhotoStore, for every set of sessions, photos, files and *)
(* names and every candidate list, under every failure and interleaving:   *)
(* variables keep their types; no two photos share an object, a request    *)
(* takes away only objects of photos it was sent to change, and names and  *)
(* uploads of requests that run at the same time stay apart.               *)
(***************************************************************************)
EXTENDS PhotoStore, TLAPS

\* The list of ids of a batch request is a non-empty sequence of photos.
LEMMA BatchListsType ==
    \A q \in BatchLists : q \in Seq(Photos) /\ q # <<>>
<1>1. SUFFICES ASSUME NEW n \in 1..MaxBatch, NEW q \in [1..n -> Photos]
               PROVE  q \in Seq(Photos) /\ q # <<>>
  BY DEF BatchLists
<1>2. n \in Nat /\ n > 0
  BY PhotoConstants
<1>3. q \in Seq(Photos) /\ Len(q) = n
  BY <1>2
<1>4. QED
  BY <1>2, <1>3

\* What a call to the bucket may change keeps its type.
LEMMA S3CallType ==
    ASSUME TypeOK, NEW s \in Sessions, NEW effect \in SUBSET Files,
           NEW ok \in BOOLEAN, S3Call(s, effect, ok)
    PROVE  objects' \in SUBSET Files /\ faults' \in [Sessions -> Nat]
<1>1. [faults EXCEPT ![s] = @ + 1] \in [Sessions -> Nat]
  BY DEF TypeOK
<1>2. QED
  BY <1>1 DEF S3Call, Fault, TypeOK

\* The blank values of an idle session have their types.
LEMMA BlankTypes ==
    /\ NoRequest \in Request
    /\ NoEntity \in Entity
    /\ NoBatch \in Batch
    /\ NothingWritten \in [Photos -> MaybeRow \cup {Keep}]
  BY DEF NoRequest, Request, NoEntity, Entity, NoBatch, Batch, NothingWritten,
         MaybeRow

LEMMA EndSessionType ==
    ASSUME TypeOK, mild' \in BOOLEAN, NEW s \in Sessions, EndSession(s), rows' \in [Photos -> MaybeRow]
    PROVE  TypeOK'
  BY BlankTypes DEF EndSession, Goto, TypeOK, Steps

\* While a create or update has its entity, the entity is a row, there is a
\* candidate to write and the files of the step exist; the list a loop works
\* on is not empty; and an idle session keeps nothing of its last request.
Loaded ==
    \A s \in Sessions :
        /\ pc[s] = "idle" => ent[s] = NoEntity /\ req[s] = NoRequest /\ bat[s] = NoBatch
        /\ pc[s] \in {"save", "write", "purge", "revert", "cleanup"}
           => /\ ent[s].row \in Row
              /\ req[s].photo \in Photos
              /\ ent[s].attempt \in Nat \ {0}
              /\ req[s].base # NoBase => ent[s].attempt <= Len(Candidates[req[s].base])
              /\ ent[s].old # NoFile => ent[s].new \in Files
        /\ pc[s] \in {"save", "purge", "revert", "cleanup"} => ent[s].new \in Files
        /\ pc[s] \in {"purge", "revert"} => ent[s].old \in Files
        /\ pc[s] \in {"load", "unlink"} => bat[s].left # <<>>
        /\ pc[s] = "read" => bat[s].todo # <<>>

TypeInv == TypeOK /\ Loaded

LEMMA TypeStep == TypeInv /\ [Next]_vars => TypeInv'
<1> SUFFICES ASSUME TypeOK, Loaded, [Next]_vars PROVE TypeOK' /\ Loaded'
  BY DEF TypeInv
<1> USE DEF TypeOK
<1>0. mild' \in BOOLEAN
  BY DEF Next, vars
<1> USE <1>0
<1>1. ASSUME NEW s \in Sessions, CreatePhoto(s) PROVE TypeOK' /\ Loaded'
  <2>1. PICK p \in Photos \ born, f \in Files \ issued, b \in Bases :
          /\ born' = born \cup {p}
          /\ issued' = issued \cup {f}
          /\ req' = [req EXCEPT ![s] =
                     [op |-> "create", ids |-> {p}, photo |-> p, base |-> b]]
          /\ ent' = [ent EXCEPT ![s] =
                     [row |-> [name |-> Candidates[b][1], path |-> f],
                      attempt |-> 1, old |-> NoFile, new |-> f]]
    BY <1>1 DEF CreatePhoto
  <2>2. Candidates[b][1] \in Names /\ 1 <= Len(Candidates[b])
    BY PhotoConstants
  <2>3. [name |-> Candidates[b][1], path |-> f] \in Row
    BY <2>2 DEF Row
  <2>4. [op |-> "create", ids |-> {p}, photo |-> p, base |-> b] \in Request
    BY DEF Request
  <2>5. [row |-> [name |-> Candidates[b][1], path |-> f],
         attempt |-> 1, old |-> NoFile, new |-> f] \in Entity
    BY <2>3 DEF Entity, MaybeRow
  <2>6. TypeOK'
    BY <1>1, <2>1, <2>4, <2>5 DEF CreatePhoto, Goto, Steps
  <2>7. Loaded'
    BY <1>1, <2>1, <2>2, <2>3 DEF CreatePhoto, Goto, Loaded
  <2>8. QED
    BY <2>6, <2>7
<1>2. ASSUME NEW s \in Sessions, SaveFile(s) PROVE TypeOK' /\ Loaded'
  <2>1. objects \cup {ent[s].new} \in SUBSET Files
    BY <1>2 DEF SaveFile, Loaded
  <2>2. objects' \in SUBSET Files /\ faults' \in [Sessions -> Nat]
    BY <1>2, <2>1, S3CallType DEF SaveFile
  <2>3. TypeOK'
    BY <1>2, <2>2 DEF SaveFile, Goto, Steps
  <2>4. Loaded'
    BY <1>2 DEF SaveFile, Goto, Loaded
  <2>5. QED
    BY <2>3, <2>4
<1>3. ASSUME NEW s \in Sessions, WriteRow(s) PROVE TypeOK' /\ Loaded'
  <2>1. NameToWrite(s) \in Names
    BY <1>3, PhotoConstants DEF WriteRow, NameToWrite, Loaded, Row, Request
  <2> DEFINE written == [ent[s].row EXCEPT !.name = NameToWrite(s)]
  <2>2. written \in Row
    BY <1>3, <2>1 DEF WriteRow, Loaded, Row
  <2>3. [ent[s] EXCEPT !.row = written] \in Entity
    BY <2>2 DEF Entity, MaybeRow
  <2> HIDE DEF written
  <2>4. TypeOK'
    BY <1>3, <2>2, <2>3 DEF WriteRow, Goto, Steps, MaybeRow, Loaded, written
  <2>5. Loaded'
    BY <1>3, <2>2 DEF WriteRow, Goto, Loaded, Entity, written
  <2>6. QED
    BY <2>4, <2>5
<1>4. ASSUME NEW s \in Sessions, NameConflict(s) PROVE TypeOK' /\ Loaded'
  <2>1. CASE /\ UNCHANGED <<pc, faults>> /\ ent' = [ent EXCEPT ![s].attempt = @ + 1]
             /\ ent[s].attempt < Len(Candidates[req[s].base])
             /\ req[s].base # NoBase
    <3>1. Len(Candidates[req[s].base]) \in Nat
      BY <2>1, PhotoConstants DEF Request
    <3>2. ent[s] \in Entity /\ ent[s].attempt \in Nat
      BY DEF Entity
    <3>3. \A k \in Nat : [ent[s] EXCEPT !.attempt = k] \in Entity
      BY <3>2 DEF Entity
    <3>4. ent' \in [Sessions -> Entity]
      <4>1. ent[s].attempt + 1 \in Nat
        BY <3>2
      <4>2. [ent[s] EXCEPT !.attempt = ent[s].attempt + 1] \in Entity
        BY <3>3, <4>1
      <4>3. ent' = [ent EXCEPT ![s] = [ent[s] EXCEPT !.attempt = ent[s].attempt + 1]]
        BY <2>1
      <4>4. QED
        BY <4>2, <4>3
    <3>5. TypeOK'
      BY <1>4, <2>1, <3>4 DEF NameConflict
    <3>6. Loaded'
      BY <1>4, <2>1, <3>1, <3>2 DEF NameConflict, Loaded, Entity
    <3>7. QED
      BY <3>5, <3>6
  <2>2. CASE Abandon(s) /\ Fault(s) /\ UNCHANGED ent
    <3>1. faults' \in [Sessions -> Nat]
      BY <2>2 DEF Fault
    <3>2. TypeOK'
      BY <1>4, <2>2, <3>1 DEF NameConflict, Abandon, Goto, Steps
    <3>3. Loaded'
      BY <1>4, <2>2 DEF NameConflict, Abandon, Goto, Loaded, Entity
    <3>4. QED
      BY <3>2, <3>3
  <2>3. QED
    BY <1>4, <2>1, <2>2 DEF NameConflict
<1>5. ASSUME NEW s \in Sessions, WriteFails(s) PROVE TypeOK' /\ Loaded'
  <2>1. TypeOK'
    BY <1>5 DEF WriteFails, Abandon, Goto, Fault, Steps
  <2>2. Loaded'
    BY <1>5 DEF WriteFails, Abandon, Goto, Loaded, Entity
  <2>3. QED
    BY <2>1, <2>2
<1>6. ASSUME NEW s \in Sessions, CleanUp(s) PROVE TypeOK' /\ Loaded'
  <2>1. objects' \in SUBSET Files /\ faults' \in [Sessions -> Nat]
    BY <1>6, S3CallType DEF CleanUp
  <2>2. TypeOK'
    BY <1>6, <2>1 DEF CleanUp, Goto, Steps
  <2>3. Loaded'
    BY <1>6 DEF CleanUp, Goto, Loaded
  <2>4. QED
    BY <2>2, <2>3
<1>7. ASSUME NEW s \in Sessions, UpdatePhoto(s) PROVE TypeOK' /\ Loaded'
  <2>1. PICK p \in Photos, b \in Bases \cup {NoBase} :
          /\ rows[p] # NoRow
          /\ req' = [req EXCEPT ![s] =
                       [op |-> "update", ids |-> {p}, photo |-> p, base |-> b]]
          /\ \/ /\ ent' = [ent EXCEPT ![s].row = rows[p]]
                /\ Goto(s, "write")
                /\ UNCHANGED issued
             \/ \E f \in Files \ issued :
                /\ ent' = [ent EXCEPT ![s] =
                             [row |-> [name |-> rows[p].name, path |-> f],
                              attempt |-> 1, old |-> rows[p].path, new |-> f]]
                /\ Goto(s, "save")
                /\ issued' = issued \cup {f}
    BY <1>7 DEF UpdatePhoto
  <2>2. rows[p] \in Row /\ rows[p].name \in Names /\ rows[p].path \in Files
    BY <2>1 DEF MaybeRow, Row
  <2>3. [op |-> "update", ids |-> {p}, photo |-> p, base |-> b] \in Request
    BY DEF Request
  <2>4. b # NoBase => 1 <= Len(Candidates[b])
    BY PhotoConstants
  <2>5. ent[s].attempt = 1
    BY <1>7 DEF UpdatePhoto, Loaded, NoEntity
  <2>6. CASE ent' = [ent EXCEPT ![s].row = rows[p]] /\ Goto(s, "write") /\ UNCHANGED issued
    <3>1. [ent[s] EXCEPT !.row = rows[p]] \in Entity
      BY <2>2 DEF Entity, MaybeRow
    <3>2. TypeOK'
      BY <1>7, <2>1, <2>3, <2>6, <3>1 DEF UpdatePhoto, Goto, Steps
    <3>3. Loaded'
      BY <1>7, <2>1, <2>2, <2>4, <2>5, <2>6 DEF UpdatePhoto, Goto, Loaded, Entity, NoEntity
    <3>4. QED
      BY <3>2, <3>3
  <2>7. ASSUME NEW f \in Files \ issued,
               ent' = [ent EXCEPT ![s] =
                         [row |-> [name |-> rows[p].name, path |-> f],
                          attempt |-> 1, old |-> rows[p].path, new |-> f]],
               Goto(s, "save"),
               issued' = issued \cup {f}
        PROVE  TypeOK' /\ Loaded'
    <3>1. [name |-> rows[p].name, path |-> f] \in Row
      BY <2>2 DEF Row
    <3>2. [row |-> [name |-> rows[p].name, path |-> f],
           attempt |-> 1, old |-> rows[p].path, new |-> f] \in Entity
      BY <2>2, <3>1 DEF Entity, MaybeRow
    <3>3. TypeOK'
      BY <1>7, <2>1, <2>3, <2>7, <3>2 DEF UpdatePhoto, Goto, Steps
    <3>4. Loaded'
      BY <1>7, <2>1, <2>4, <2>7, <3>1 DEF UpdatePhoto, Goto, Loaded
    <3>5. QED
      BY <3>3, <3>4
  <2>8. QED
    BY <2>1, <2>6, <2>7
<1>8. ASSUME NEW s \in Sessions, PurgeOld(s) PROVE TypeOK' /\ Loaded'
  <2>1. PICK ok \in BOOLEAN :
          /\ S3Call(s, objects \ {ent[s].old}, ok)
          /\ Goto(s, IF ok THEN "commit" ELSE "revert")
          /\ ent' = IF ok THEN ent ELSE [ent EXCEPT ![s].row.path = ent[s].old]
    BY <1>8 DEF PurgeOld
  <2>2. objects' \in SUBSET Files /\ faults' \in [Sessions -> Nat]
    BY <2>1, S3CallType
  <2>3. [ent[s].row EXCEPT !.path = ent[s].old] \in Row
    BY <1>8 DEF PurgeOld, Loaded, Row
  <2>4. ent[s] \in Entity /\ [ent[s] EXCEPT !.row.path = ent[s].old] \in Entity
    BY <2>3 DEF Entity, MaybeRow
  <2>5. TypeOK'
    BY <1>8, <2>1, <2>2, <2>4 DEF PurgeOld, Goto, Steps
  <2>6. Loaded'
    BY <1>8, <2>1, <2>3 DEF PurgeOld, Goto, Loaded, Entity
  <2>7. QED
    BY <2>5, <2>6
<1>9. ASSUME NEW s \in Sessions, RevertRow(s) PROVE TypeOK' /\ Loaded'
  <2>1. ent[s].row \in MaybeRow /\ req[s].photo \in Photos
    BY <1>9 DEF RevertRow, Loaded, MaybeRow
  <2>2. pend' \in [Sessions -> [Photos -> MaybeRow \cup {Keep}]]
    <3>1. [pend[s] EXCEPT ![req[s].photo] = ent[s].row] \in [Photos -> MaybeRow \cup {Keep}]
      BY <2>1
    <3>2. pend' = pend \/ pend' = [pend EXCEPT ![s][req[s].photo] = ent[s].row]
      BY <1>9 DEF RevertRow
    <3>3. QED
      BY <3>1, <3>2
  <2>3. faults' \in [Sessions -> Nat]
    BY <1>9 DEF RevertRow, Fault
  <2>4. TypeOK'
    BY <1>9, <2>2, <2>3 DEF RevertRow, Goto, Steps
  <2>5. Loaded'
    BY <1>9 DEF RevertRow, Goto, Loaded
  <2>6. QED
    BY <2>4, <2>5
<1>10. ASSUME NEW s \in Sessions, DeletePhoto(s) PROVE TypeOK' /\ Loaded'
  <2>1. PICK p \in Photos :
          /\ rows[p] # NoRow
          /\ req' = [req EXCEPT ![s].op = "delete", ![s].ids = {p}]
          /\ bat' = [bat EXCEPT ![s].doomed = {p}, ![s].left = <<rows[p].path>>]
    BY <1>10 DEF DeletePhoto
  <2>2. rows[p].path \in Files
    BY <2>1 DEF MaybeRow, Row
  <2>3. <<rows[p].path>> \in Seq(Files) /\ <<rows[p].path>> # <<>>
    BY <2>2
  <2>4. [[bat[s] EXCEPT !.doomed = {p}] EXCEPT !.left = <<rows[p].path>>] \in Batch
    BY <2>3 DEF Batch
  <2>5. [[req[s] EXCEPT !.op = "delete"] EXCEPT !.ids = {p}] \in Request
    BY DEF Request
  <2>6. TypeOK'
    BY <1>10, <2>1, <2>4, <2>5 DEF DeletePhoto, Goto, Steps
  <2>7. Loaded'
    BY <1>10, <2>1, <2>3 DEF DeletePhoto, Goto, Loaded, Batch
  <2>8. QED
    BY <2>6, <2>7
<1>11. ASSUME NEW s \in Sessions, BatchDelete(s) PROVE TypeOK' /\ Loaded'
  <2>1. PICK ids \in BatchLists :
          /\ req' = [req EXCEPT ![s].op = "delete",
                                ![s].ids = {ids[i] : i \in DOMAIN ids}]
          /\ bat' = [bat EXCEPT ![s].todo = ids]
    BY <1>11 DEF BatchDelete
  <2>2. ids \in Seq(Photos) /\ ids # <<>>
    BY BatchListsType
  <2>3. {ids[i] : i \in DOMAIN ids} \in SUBSET Photos
    BY <2>2
  <2>4. [bat[s] EXCEPT !.todo = ids] \in Batch
    BY <2>2 DEF Batch
  <2>5. [[req[s] EXCEPT !.op = "delete"] EXCEPT !.ids = {ids[i] : i \in DOMAIN ids}]
          \in Request
    BY <2>3 DEF Request
  <2>6. TypeOK'
    BY <1>11, <2>1, <2>4, <2>5 DEF BatchDelete, Goto, Steps
  <2>7. Loaded'
    BY <1>11, <2>1, <2>2 DEF BatchDelete, Goto, Loaded, Batch
  <2>8. QED
    BY <2>6, <2>7
<1>12. ASSUME NEW s \in Sessions, ReadNext(s) PROVE TypeOK' /\ Loaded'
  <2> DEFINE p == Head(bat[s].todo)
             rest == Tail(bat[s].todo)
             found == rows[p] # NoRow
             left == IF found THEN Append(bat[s].left, rows[p].path) ELSE bat[s].left
             doomed == IF found THEN bat[s].doomed \cup {p} ELSE bat[s].doomed
  <2>1. bat[s] \in Batch /\ bat[s].todo \in Seq(Photos) /\ bat[s].todo # <<>>
    BY <1>12 DEF ReadNext, Loaded, Batch
  <2>2. p \in Photos /\ rest \in Seq(Photos)
    BY <2>1
  <2>3. found => rows[p].path \in Files
    BY <2>2 DEF MaybeRow, Row
  <2>4. left \in Seq(Files) /\ doomed \in SUBSET Photos
    BY <2>1, <2>2, <2>3 DEF Batch
  <2>5. /\ bat' = [bat EXCEPT ![s].todo = rest, ![s].left = left, ![s].doomed = doomed]
        /\ Goto(s, IF rest # <<>> THEN "read"
                   ELSE IF left = <<>> THEN "commit" ELSE "load")
        /\ UNCHANGED <<rows, objects, born, issued, pend, req, ent, faults>>
        /\ pc[s] = "read"
    BY <1>12 DEF ReadNext
  <2>6. [bat[s] EXCEPT !.todo = rest, !.left = left, !.doomed = doomed] \in Batch
    BY <2>1, <2>2, <2>4 DEF Batch
  <2> HIDE DEF p, rest, found, left, doomed
  <2>7. TypeOK'
    BY <2>5, <2>6 DEF Goto, Steps
  <2>8. Loaded'
    BY <2>5 DEF Goto, Loaded
  <2>9. QED
    BY <2>7, <2>8
<1>13. ASSUME NEW s \in Sessions, LoadFile(s) PROVE TypeOK' /\ Loaded'
  <2>1. faults' \in [Sessions -> Nat]
    BY <1>13 DEF LoadFile, Fault
  <2>2. TypeOK'
    BY <1>13, <2>1 DEF LoadFile, Goto, Steps
  <2>3. Loaded'
    BY <1>13 DEF LoadFile, Goto, Loaded
  <2>4. QED
    BY <2>2, <2>3
<1>14. ASSUME NEW s \in Sessions, UnlinkFile(s) PROVE TypeOK' /\ Loaded'
  <2> DEFINE f == Head(bat[s].left)
             rest == Tail(bat[s].left)
  <2>1. bat[s] \in Batch /\ bat[s].left \in Seq(Files) /\ bat[s].left # <<>>
    BY <1>14 DEF UnlinkFile, Loaded, Batch
  <2>2. f \in Files /\ rest \in Seq(Files)
    BY <2>1
  <2>3. PICK ok \in BOOLEAN :
          /\ S3Call(s, objects \ {f}, ok)
          /\ bat' = IF ok THEN [bat EXCEPT ![s].gone = @ \cup {f}, ![s].left = rest]
                          ELSE bat
          /\ Goto(s, IF ~ok THEN "restore" ELSE IF rest = <<>> THEN "drop" ELSE "load")
    BY <1>14 DEF UnlinkFile
  <2>4. objects' \in SUBSET Files /\ faults' \in [Sessions -> Nat]
    BY <2>3, S3CallType
  <2>5. [[bat[s] EXCEPT !.gone = @ \cup {f}] EXCEPT !.left = rest] \in Batch
    BY <2>1, <2>2 DEF Batch
  <2>6. bat' \in [Sessions -> Batch] /\ (pc'[s] = "load" => bat'[s].left # <<>>)
    BY <2>1, <2>3, <2>5 DEF Goto, Batch
  <2>7. TypeOK'
    BY <1>14, <2>3, <2>4, <2>6 DEF UnlinkFile, Goto, Steps
  <2>8. \A t \in Sessions \ {s} : bat'[t] = bat[t] /\ pc'[t] = pc[t]
    BY <2>3 DEF Goto
  <2>9. pc'[s] \in {"restore", "drop", "load"}
    BY <2>3 DEF Goto
  <2>10. Loaded'
    BY <1>14, <2>6, <2>8, <2>9 DEF UnlinkFile, Loaded
  <2>11. QED
    BY <2>7, <2>10
<1>15. ASSUME NEW s \in Sessions, DropRows(s) PROVE TypeOK' /\ Loaded'
  <2>1. \A S \in SUBSET Photos :
          [p \in Photos |-> IF p \in S THEN NoRow ELSE pend[s][p]]
            \in [Photos -> MaybeRow \cup {Keep}]
    BY DEF MaybeRow
  <2>2. pend' \in [Sessions -> [Photos -> MaybeRow \cup {Keep}]]
    BY <1>15, <2>1 DEF DropRows, MaybeRow
  <2>3. faults' \in [Sessions -> Nat]
    BY <1>15 DEF DropRows, Fault
  <2>4. TypeOK'
    BY <1>15, <2>2, <2>3 DEF DropRows, Goto, Steps
  <2>5. Loaded'
    BY <1>15 DEF DropRows, Goto, Loaded
  <2>6. QED
    BY <2>4, <2>5
<1>16. ASSUME NEW s \in Sessions, RestoreFile(s) PROVE TypeOK' /\ Loaded'
  <2>1. PICK f \in bat[s].gone, ok \in BOOLEAN :
          /\ S3Call(s, objects \cup {f}, ok)
          /\ bat' = [bat EXCEPT ![s].gone = @ \ {f}]
    BY <1>16 DEF RestoreFile
  <2>2. bat[s] \in Batch /\ f \in Files
    BY <2>1 DEF Batch
  <2>3. objects' \in SUBSET Files /\ faults' \in [Sessions -> Nat]
    BY <2>1, <2>2, S3CallType
  <2>4. [bat[s] EXCEPT !.gone = @ \ {f}] \in Batch
    BY <2>2 DEF Batch
  <2>5. TypeOK'
    BY <1>16, <2>1, <2>3, <2>4 DEF RestoreFile
  <2>6. Loaded'
    BY <1>16, <2>1, <2>2 DEF RestoreFile, Loaded, Batch
  <2>7. QED
    BY <2>5, <2>6
<1>17. ASSUME NEW s \in Sessions, EndSession(s), rows' \in [Photos -> MaybeRow]
       PROVE  TypeOK' /\ Loaded'
  <2>1. TypeOK'
    BY <1>17, EndSessionType
  <2>2. Loaded'
    BY <1>17 DEF EndSession, Goto, Loaded
  <2>3. QED
    BY <2>1, <2>2
<1>18. ASSUME NEW s \in Sessions, Commit(s) PROVE TypeOK' /\ Loaded'
  <2>1. rows' \in [Photos -> MaybeRow]
    BY <1>18 DEF Commit, Seen
  <2>2. QED
    BY <1>17, <1>18, <2>1 DEF Commit
<1>19. ASSUME NEW s \in Sessions, Rollback(s) PROVE TypeOK' /\ Loaded'
  BY <1>17, <1>19 DEF Rollback
<1>20. ASSUME NEW s \in Sessions, Crash(s) PROVE TypeOK' /\ Loaded'
  BY <1>17, <1>20 DEF Crash
<1>21. CASE UNCHANGED vars
  BY <1>21 DEF vars, Loaded
<1>22. QED
  BY <1>1, <1>2, <1>3, <1>4, <1>5, <1>6, <1>7, <1>8, <1>9, <1>10, <1>11, <1>12,
     <1>13, <1>14, <1>15, <1>16, <1>18, <1>19, <1>20, <1>21 DEF Next, Progress

LEMMA InitTypes == Init => TypeInv
  BY BlankTypes DEF Init, TypeInv, TypeOK, Loaded, MaybeRow, Steps

\* Every variable keeps its type in every reachable state.
THEOREM TypeCorrect == Spec => []TypeOK
<1>1. TypeInv => TypeOK
  BY DEF TypeInv
<1>2. QED
  BY <1>1, InitTypes, TypeStep, PTL DEF Spec

(***************************************************************************)
(* own[f] is the photo file f was issued for.  Whatever mentions f - a     *)
(* committed row, an uncommitted one, the entity of a create or update,    *)
(* the work list of a delete - does so on behalf of that photo.            *)
(***************************************************************************)
Owners == [Files -> Photos \cup {NoPhoto}]

Belongs(own, f, p) == f \in issued /\ own[f] = p

RowsOwned(own) ==
    \A p \in Photos : rows[p] # NoRow => Belongs(own, rows[p].path, p)

PendOwned(own) ==
    \A s \in Sessions, p \in Photos :
        pend[s][p] \notin {Keep, NoRow} => Belongs(own, pend[s][p].path, p)

EntityOwned(own) ==
    \A s \in Sessions :
        /\ ent[s].row # NoRow => /\ req[s].photo \in req[s].ids
                                 /\ Belongs(own, ent[s].row.path, req[s].photo)
        /\ ent[s].old # NoFile => /\ req[s].photo \in req[s].ids
                                  /\ Belongs(own, ent[s].old, req[s].photo)
        /\ ent[s].new # NoFile => /\ req[s].photo \in req[s].ids
                                  /\ Belongs(own, ent[s].new, req[s].photo)

FilesOf(own, given, files, ids) ==
    \A i \in 1..Len(files) : files[i] \in given /\ own[files[i]] \in ids

PhotosOf(photos, ids) == \A i \in 1..Len(photos) : photos[i] \in ids

BatchOwned(own) ==
    \A s \in Sessions : /\ FilesOf(own, issued, bat[s].left, req[s].ids)
                        /\ PhotosOf(bat[s].todo, req[s].ids)

OwnedBy(own) == RowsOwned(own) /\ PendOwned(own) /\ EntityOwned(own) /\ BatchOwned(own)

Owned == \E own \in Owners : OwnedBy(own)

OwnInv == TypeInv /\ Owned

\* A fresh file goes to the photo it is issued for; no mention of an older
\* file changes its owner.
LEMMA IssueFile ==
    ASSUME NEW own \in Owners, NEW f \in Files \ issued, NEW p \in Photos
    PROVE  /\ [own EXCEPT ![f] = p] \in Owners
           /\ [own EXCEPT ![f] = p][f] = p
           /\ \A g \in issued : [own EXCEPT ![f] = p][g] = own[g]
  BY DEF Owners

\* The facts about an idle session the first step of a request starts from.
LEMMA IdleBlank ==
    ASSUME TypeInv, NEW s \in Sessions, pc[s] = "idle"
    PROVE  /\ ent[s].row = NoRow /\ ent[s].old = NoFile /\ ent[s].new = NoFile
           /\ Len(bat[s].left) = 0 /\ Len(bat[s].todo) = 0
  BY DEF TypeInv, Loaded, NoEntity, NoBatch

\* Only the lists of the acting session need a look.
LEMMA BatchOwnedAt ==
    ASSUME NEW own, NEW after, BatchOwned(own), NEW s \in Sessions,
           \A t \in Sessions \ {s} : bat'[t] = bat[t] /\ req'[t] = req[t],
           issued \subseteq issued', \A g \in issued : after[g] = own[g],
           FilesOf(after, issued', bat'[s].left, req'[s].ids),
           PhotosOf(bat'[s].todo, req'[s].ids)
    PROVE  BatchOwned(after)'
<1>1. ASSUME NEW t \in Sessions \ {s}
      PROVE  FilesOf(after, issued', bat'[t].left, req'[t].ids)
  <2>1. FilesOf(own, issued, bat[t].left, req[t].ids)
    BY DEF BatchOwned
  <2>2. bat'[t] = bat[t] /\ req'[t] = req[t]
    OBVIOUS
  <2>3. QED
    BY <2>1, <2>2 DEF FilesOf
<1>2. ASSUME NEW t \in Sessions \ {s}
      PROVE  PhotosOf(bat'[t].todo, req'[t].ids)
  BY DEF BatchOwned
<1>3. QED
  BY <1>1, <1>2 DEF BatchOwned

\* The end of a request, whatever rows it leaves.
LEMMA EndSessionOwned ==
    ASSUME NEW own \in Owners, TypeInv, OwnedBy(own), NEW s \in Sessions,
           EndSession(s), RowsOwned(own)'
    PROVE  OwnedBy(own)'
<1>1. PendOwned(own)'
  BY DEF OwnedBy, PendOwned, Belongs, EndSession, NothingWritten, TypeInv, TypeOK
<1>2. EntityOwned(own)'
  BY DEF OwnedBy, EntityOwned, Belongs, EndSession, NoEntity, TypeInv, TypeOK
<1>3. BatchOwned(own)'
  <2>1. \A t \in Sessions : bat'[t] = IF t = s THEN NoBatch ELSE bat[t]
    BY DEF EndSession, TypeInv, TypeOK
  <2>2. \A t \in Sessions : req'[t] = IF t = s THEN NoRequest ELSE req[t]
    BY DEF EndSession, TypeInv, TypeOK
  <2>3. Len(NoBatch.left) = 0 /\ Len(NoBatch.todo) = 0
    BY DEF NoBatch
  <2>4. UNCHANGED issued /\ BatchOwned(own)
    BY DEF EndSession, OwnedBy
  <2>5. FilesOf(own, issued', NoBatch.left, req'[s].ids) /\ PhotosOf(NoBatch.todo, req'[s].ids)
    BY <2>3 DEF FilesOf, PhotosOf
  <2>6. QED
    BY <2>1, <2>2, <2>4, <2>5, BatchOwnedAt
<1>4. QED
  BY <1>1, <1>2, <1>3 DEF OwnedBy

\* A step that leaves the files of every list, row and entity alone.
LEMMA NothingNew ==
    ASSUME NEW own, OwnedBy(own), UNCHANGED <<rows, pend, issued, req, ent, bat>>
    PROVE  OwnedBy(own)'
  BY DEF OwnedBy, RowsOwned, PendOwned, EntityOwned, BatchOwned, Belongs

LEMMA OwnedStep == TypeInv /\ TypeInv' /\ Owned /\ [Next]_vars => Owned'
<1> SUFFICES ASSUME TypeInv, TypeInv', [Next]_vars,
                    NEW own \in Owners, OwnedBy(own)
             PROVE  Owned'
  BY DEF Owned
<1>0. OwnedBy(own)' => Owned'
  BY DEF Owned
<1> USE DEF TypeInv, TypeOK
<1>1. ASSUME NEW s \in Sessions, CreatePhoto(s) PROVE Owned'
  <2>1. PICK p \in Photos \ born, f \in Files \ issued, b \in Bases :
          /\ issued' = issued \cup {f}
          /\ req' = [req EXCEPT ![s] =
                     [op |-> "create", ids |-> {p}, photo |-> p, base |-> b]]
          /\ ent' = [ent EXCEPT ![s] =
                     [row |-> [name |-> Candidates[b][1], path |-> f],
                      attempt |-> 1, old |-> NoFile, new |-> f]]
    BY <1>1 DEF CreatePhoto
  <2> DEFINE after == [own EXCEPT ![f] = p]
  <2>2. after \in Owners /\ after[f] = p /\ \A g \in issued : after[g] = own[g]
    BY IssueFile
  <2> HIDE DEF after
  <2>3. RowsOwned(after)' /\ PendOwned(after)'
    <3>1. UNCHANGED <<rows, pend, bat>>
      BY <1>1 DEF CreatePhoto
    <3>2. RowsOwned(own) /\ PendOwned(own)
      BY DEF OwnedBy
    <3>3. RowsOwned(after)'
      BY <2>1, <2>2, <3>1, <3>2 DEF RowsOwned, Belongs
    <3>4. PendOwned(after)'
      BY <2>1, <2>2, <3>1, <3>2 DEF PendOwned, Belongs
    <3>5. QED
      BY <3>3, <3>4
  <2>4. EntityOwned(after)'
    BY <2>1, <2>2 DEF OwnedBy, EntityOwned, Belongs
  <2>5. Len(bat[s].left) = 0 /\ Len(bat[s].todo) = 0
    BY <1>1, IdleBlank DEF CreatePhoto
  <2>6. BatchOwned(after)'
    <3>1. UNCHANGED bat /\ BatchOwned(own)
      BY <1>1 DEF CreatePhoto, OwnedBy
    <3>2. FilesOf(after, issued', bat'[s].left, req'[s].ids) /\ PhotosOf(bat'[s].todo, req'[s].ids)
      BY <2>5, <3>1 DEF FilesOf, PhotosOf
    <3>3. \A t \in Sessions \ {s} : bat'[t] = bat[t] /\ req'[t] = req[t]
      BY <2>1, <3>1
    <3>4. QED
      BY <2>1, <2>2, <3>1, <3>2, <3>3, BatchOwnedAt
  <2>7. QED
    BY <2>2, <2>3, <2>4, <2>6 DEF Owned, OwnedBy
<1>2. ASSUME NEW s \in Sessions, SaveFile(s) PROVE Owned'
  BY <1>0, <1>2, NothingNew DEF SaveFile
<1>3. ASSUME NEW s \in Sessions, WriteRow(s) PROVE Owned'
  <2> DEFINE written == [ent[s].row EXCEPT !.name = NameToWrite(s)]
  <2>1. /\ ent[s].row \in Row /\ written.path = ent[s].row.path
        /\ ent[s].row # NoRow /\ req[s].photo \in Photos
    BY <1>3, PhotoConstants DEF WriteRow, Loaded, Row
  <2>2. /\ pend' = pend \/ pend' = [pend EXCEPT ![s][req[s].photo] = written]
        /\ ent' = [ent EXCEPT ![s].row = written]
        /\ UNCHANGED <<rows, issued, req, bat>>
    BY <1>3 DEF WriteRow
  <2> HIDE DEF written
  <2>3. RowsOwned(own)' /\ BatchOwned(own)'
    BY <2>2 DEF OwnedBy, RowsOwned, BatchOwned, Belongs
  <2>4. PendOwned(own)'
    BY <2>1, <2>2 DEF OwnedBy, PendOwned, EntityOwned, Belongs
  <2>5. EntityOwned(own)'
    BY <2>1, <2>2 DEF OwnedBy, EntityOwned, Belongs, Entity
  <2>6. QED
    BY <1>0, <2>3, <2>4, <2>5 DEF OwnedBy
<1>4. ASSUME NEW s \in Sessions, NameConflict(s) PROVE Owned'
  <2>1. /\ \A t \in Sessions : /\ ent'[t].row = ent[t].row
                               /\ ent'[t].old = ent[t].old
                               /\ ent'[t].new = ent[t].new
        /\ UNCHANGED <<rows, issued, pend, req, bat>>
    BY <1>4 DEF NameConflict, Entity
  <2>2. QED
    BY <1>0, <2>1 DEF OwnedBy, RowsOwned, PendOwned, EntityOwned, BatchOwned, Belongs
<1>5. ASSUME NEW s \in Sessions, WriteFails(s) PROVE Owned'
  BY <1>0, <1>5, NothingNew DEF WriteFails
<1>6. ASSUME NEW s \in Sessions, CleanUp(s) PROVE Owned'
  BY <1>0, <1>6, NothingNew DEF CleanUp
<1>7. ASSUME NEW s \in Sessions, UpdatePhoto(s) PROVE Owned'
  <2>1. PICK p \in Photos, b \in Bases \cup {NoBase} :
          /\ rows[p] # NoRow
          /\ req' = [req EXCEPT ![s] =
                       [op |-> "update", ids |-> {p}, photo |-> p, base |-> b]]
          /\ \/ /\ ent' = [ent EXCEPT ![s].row = rows[p]]
                /\ UNCHANGED issued
             \/ \E f \in Files \ issued :
                /\ ent' = [ent EXCEPT ![s] =
                             [row |-> [name |-> rows[p].name, path |-> f],
                              attempt |-> 1, old |-> rows[p].path, new |-> f]]
                /\ issued' = issued \cup {f}
    BY <1>7 DEF UpdatePhoto
  <2>2. /\ ent[s].row = NoRow /\ ent[s].old = NoFile /\ ent[s].new = NoFile
        /\ Len(bat[s].left) = 0 /\ Len(bat[s].todo) = 0
    BY <1>7, IdleBlank DEF UpdatePhoto
  <2>3. UNCHANGED <<rows, pend, bat>>
    BY <1>7 DEF UpdatePhoto
  <2>4. Belongs(own, rows[p].path, p)
    BY <2>1 DEF OwnedBy, RowsOwned
  <2>5. CASE ent' = [ent EXCEPT ![s].row = rows[p]] /\ UNCHANGED issued
    <3>1. RowsOwned(own)' /\ PendOwned(own)'
      BY <2>3, <2>5 DEF OwnedBy, RowsOwned, PendOwned, Belongs
    <3>2. EntityOwned(own)'
      BY <2>1, <2>2, <2>4, <2>5 DEF OwnedBy, EntityOwned, Belongs, Entity
    <3>3. BatchOwned(own)'
      <4>1. BatchOwned(own) /\ \A t \in Sessions \ {s} : bat'[t] = bat[t] /\ req'[t] = req[t]
        BY <2>1, <2>3 DEF OwnedBy
      <4>2. FilesOf(own, issued', bat'[s].left, req'[s].ids) /\ PhotosOf(bat'[s].todo, req'[s].ids)
        BY <2>2, <2>3 DEF FilesOf, PhotosOf
      <4>3. QED
        BY <2>5, <4>1, <4>2, BatchOwnedAt
    <3>4. QED
      BY <1>0, <3>1, <3>2, <3>3 DEF OwnedBy
  <2>6. ASSUME NEW f \in Files \ issued,
               ent' = [ent EXCEPT ![s] =
                         [row |-> [name |-> rows[p].name, path |-> f],
                          attempt |-> 1, old |-> rows[p].path, new |-> f]],
               issued' = issued \cup {f}
        PROVE  Owned'
    <3> DEFINE after == [own EXCEPT ![f] = p]
    <3>1. after \in Owners /\ after[f] = p /\ \A g \in issued : after[g] = own[g]
      BY IssueFile
    <3> HIDE DEF after
    <3>2. RowsOwned(after)' /\ PendOwned(after)'
      BY <2>3, <2>6, <3>1 DEF OwnedBy, RowsOwned, PendOwned, Belongs
    <3>3. EntityOwned(after)'
      BY <2>1, <2>4, <2>6, <3>1 DEF OwnedBy, EntityOwned, Belongs
    <3>4. BatchOwned(after)'
      <4>1. BatchOwned(own) /\ \A t \in Sessions \ {s} : bat'[t] = bat[t] /\ req'[t] = req[t]
        BY <2>1, <2>3 DEF OwnedBy
      <4>2. FilesOf(after, issued', bat'[s].left, req'[s].ids) /\ PhotosOf(bat'[s].todo, req'[s].ids)
        BY <2>2, <2>3 DEF FilesOf, PhotosOf
      <4>3. QED
        BY <2>6, <3>1, <4>1, <4>2, BatchOwnedAt
    <3>5. QED
      BY <3>1, <3>2, <3>3, <3>4 DEF Owned, OwnedBy
  <2>7. QED
    BY <2>1, <2>5, <2>6
<1>8. ASSUME NEW s \in Sessions, PurgeOld(s) PROVE Owned'
  <2>1. /\ ent' = ent \/ ent' = [ent EXCEPT ![s].row.path = ent[s].old]
        /\ UNCHANGED <<rows, issued, pend, req, bat>>
        /\ ent[s].row \in Row /\ ent[s].old # NoFile
    BY <1>8, PhotoConstants DEF PurgeOld, Loaded
  <2>2. \A t \in Sessions \ {s} : ent'[t] = ent[t]
    BY <2>1
  <2>3. /\ ent'[s].old = ent[s].old /\ ent'[s].new = ent[s].new
        /\ ent'[s].row.path \in {ent[s].row.path, ent[s].old}
    BY <2>1 DEF Entity, Row
  <2>4. ent[s].row # NoRow
    BY <2>1, PhotoConstants
  <2>5. EntityOwned(own)'
    BY <2>1, <2>2, <2>3, <2>4 DEF OwnedBy, EntityOwned, Belongs
  <2>6. RowsOwned(own)' /\ PendOwned(own)' /\ BatchOwned(own)'
    BY <2>1 DEF OwnedBy, RowsOwned, PendOwned, BatchOwned, Belongs
  <2>7. QED
    BY <1>0, <2>5, <2>6 DEF OwnedBy
<1>9. ASSUME NEW s \in Sessions, RevertRow(s) PROVE Owned'
  <2>1. /\ pend' = pend \/ pend' = [pend EXCEPT ![s][req[s].photo] = ent[s].row]
        /\ UNCHANGED <<rows, issued, ent, req, bat>>
    BY <1>9 DEF RevertRow
  <2>2. PendOwned(own)'
    BY <2>1 DEF OwnedBy, PendOwned, EntityOwned, Belongs
  <2>3. QED
    BY <1>0, <2>1, <2>2 DEF OwnedBy, RowsOwned, EntityOwned, BatchOwned, Belongs
<1>10. ASSUME NEW s \in Sessions, DeletePhoto(s) PROVE Owned'
  <2>1. PICK p \in Photos :
          /\ rows[p] # NoRow
          /\ req' = [req EXCEPT ![s].op = "delete", ![s].ids = {p}]
          /\ bat' = [bat EXCEPT ![s].doomed = {p}, ![s].left = <<rows[p].path>>]
    BY <1>10 DEF DeletePhoto
  <2>2. /\ ent[s].row = NoRow /\ ent[s].old = NoFile /\ ent[s].new = NoFile
        /\ Len(bat[s].todo) = 0
    BY <1>10, IdleBlank DEF DeletePhoto
  <2>3. UNCHANGED <<rows, pend, issued, ent>>
    BY <1>10 DEF DeletePhoto
  <2>4. \A t \in Sessions \ {s} : req'[t] = req[t] /\ bat'[t] = bat[t]
    BY <2>1
  <2>5. /\ req'[s].ids = {p}
        /\ bat'[s].left = <<rows[p].path>> /\ bat'[s].todo = bat[s].todo
    BY <2>1 DEF Request, Batch
  <2>6. EntityOwned(own)'
    BY <2>2, <2>3, <2>4 DEF OwnedBy, EntityOwned, Belongs
  <2>7. BatchOwned(own)'
    <3>1. Belongs(own, rows[p].path, p)
      BY <2>1 DEF OwnedBy, RowsOwned
    <3>2. QED
      <4>1. FilesOf(own, issued', bat'[s].left, req'[s].ids)
        BY <2>3, <2>5, <3>1 DEF FilesOf, Belongs
      <4>2. PhotosOf(bat'[s].todo, req'[s].ids)
        BY <2>2, <2>5 DEF PhotosOf
      <4>3. QED
        BY <2>3, <2>4, <4>1, <4>2, BatchOwnedAt DEF OwnedBy
  <2>8. RowsOwned(own)' /\ PendOwned(own)'
    BY <2>3 DEF OwnedBy, RowsOwned, PendOwned, Belongs
  <2>9. QED
    BY <1>0, <2>6, <2>7, <2>8 DEF OwnedBy
<1>11. ASSUME NEW s \in Sessions, BatchDelete(s) PROVE Owned'
  <2>1. PICK ids \in BatchLists :
          /\ req' = [req EXCEPT ![s].op = "delete",
                                ![s].ids = {ids[i] : i \in DOMAIN ids}]
          /\ bat' = [bat EXCEPT ![s].todo = ids]
    BY <1>11 DEF BatchDelete
  <2>2. /\ ent[s].row = NoRow /\ ent[s].old = NoFile /\ ent[s].new = NoFile
        /\ Len(bat[s].left) = 0
    BY <1>11, IdleBlank DEF BatchDelete
  <2>3. UNCHANGED <<rows, pend, issued, ent>>
    BY <1>11 DEF BatchDelete
  <2>4. \A t \in Sessions \ {s} : req'[t] = req[t] /\ bat'[t] = bat[t]
    BY <2>1
  <2>5. /\ req'[s].ids = {ids[i] : i \in DOMAIN ids}
        /\ bat'[s].left = bat[s].left /\ bat'[s].todo = ids
    <3>1. bat[s] \in Batch /\ bat' = [bat EXCEPT ![s] = [bat[s] EXCEPT !.todo = ids]]
      BY <2>1
    <3>2. bat'[s].left = bat[s].left /\ bat'[s].todo = ids
      BY <3>1 DEF Batch
    <3>3. req'[s].ids = {ids[i] : i \in DOMAIN ids}
      <4> DEFINE named == {ids[i] : i \in DOMAIN ids}
      <4>1. req' = [req EXCEPT ![s].op = "delete", ![s].ids = named]
        BY <2>1
      <4> HIDE DEF named
      <4>2. req'[s].ids = named
        BY <4>1 DEF Request
      <4>3. QED
        BY <4>2 DEF named
    <3>4. QED
      BY <3>2, <3>3
  <2>6. ids \in Seq(Photos)
    BY BatchListsType
  <2>7. EntityOwned(own)'
    BY <2>2, <2>3, <2>4 DEF OwnedBy, EntityOwned, Belongs
  <2>8. BatchOwned(own)'
    <3>1. FilesOf(own, issued', bat'[s].left, req'[s].ids)
      BY <2>2, <2>5 DEF FilesOf
    <3>2. PhotosOf(ids, {ids[i] : i \in DOMAIN ids})
      BY <2>6 DEF PhotosOf
    <3>3. QED
      BY <2>3, <2>4, <2>5, <3>1, <3>2, BatchOwnedAt DEF OwnedBy
  <2>9. RowsOwned(own)' /\ PendOwned(own)'
    BY <2>3 DEF OwnedBy, RowsOwned, PendOwned, Belongs
  <2>10. QED
    BY <1>0, <2>7, <2>8, <2>9 DEF OwnedBy
<1>12. ASSUME NEW s \in Sessions, ReadNext(s) PROVE Owned'
  <2>1. /\ bat[s].todo \in Seq(Photos) /\ bat[s].todo # <<>>
        /\ bat[s].left \in Seq(Files) /\ bat[s] \in Batch
    BY <1>12 DEF ReadNext, Loaded, Batch
  <2> DEFINE p == Head(bat[s].todo)
  <2>2. /\ bat'[s].todo = Tail(bat[s].todo)
        /\ bat'[s].left = IF rows[p] # NoRow THEN Append(bat[s].left, rows[p].path)
                                             ELSE bat[s].left
    BY <1>12, <2>1 DEF ReadNext, Batch
  <2>3. /\ \A t \in Sessions \ {s} : bat'[t] = bat[t]
        /\ UNCHANGED <<rows, pend, issued, req, ent>>
    BY <1>12 DEF ReadNext
  <2>4. p \in Photos /\ p = bat[s].todo[1] /\ 1 \in 1..Len(bat[s].todo)
    BY <2>1
  <2>5. rows[p] # NoRow => rows[p].path \in issued /\ own[rows[p].path] \in req[s].ids
    <3>1. p \in req[s].ids
      BY <2>4 DEF OwnedBy, BatchOwned, PhotosOf
    <3>2. QED
      BY <2>4, <3>1 DEF OwnedBy, RowsOwned, Belongs
  <2> HIDE DEF p
  <2>6. FilesOf(own, issued, bat'[s].left, req[s].ids)
    <3>1. CASE rows[p] = NoRow
      BY <2>2, <3>1 DEF OwnedBy, BatchOwned
    <3>2. CASE rows[p] # NoRow
      <4>1. rows[p].path \in Files
        BY <2>4, <3>2 DEF MaybeRow, Row
      <4>2. /\ bat'[s].left = Append(bat[s].left, rows[p].path)
            /\ Len(bat'[s].left) = Len(bat[s].left) + 1
            /\ \A i \in 1..Len(bat[s].left) : bat'[s].left[i] = bat[s].left[i]
            /\ bat'[s].left[Len(bat[s].left) + 1] = rows[p].path
        BY <2>1, <2>2, <3>2, <4>1
      <4>3. \A i \in 1..Len(bat[s].left) :
              bat[s].left[i] \in issued /\ own[bat[s].left[i]] \in req[s].ids
        BY DEF OwnedBy, BatchOwned, FilesOf
      <4>4. Len(bat[s].left) \in Nat
        BY <2>1
      <4>5. QED
        BY <2>5, <3>2, <4>2, <4>3, <4>4 DEF FilesOf
    <3>3. QED
      BY <3>1, <3>2
  <2>7. PhotosOf(bat'[s].todo, req[s].ids)
    <3>1. \A i \in 1..Len(bat[s].todo) : bat[s].todo[i] \in req[s].ids
      BY DEF OwnedBy, BatchOwned, PhotosOf
    <3>2. \A i \in 1..Len(Tail(bat[s].todo)) :
            i + 1 \in 1..Len(bat[s].todo) /\ Tail(bat[s].todo)[i] = bat[s].todo[i + 1]
      BY <2>1
    <3>3. QED
      BY <2>2, <3>1, <3>2 DEF PhotosOf
  <2>8. BatchOwned(own)'
    BY <2>3, <2>6, <2>7, BatchOwnedAt DEF OwnedBy
  <2>9. RowsOwned(own)' /\ PendOwned(own)' /\ EntityOwned(own)'
    BY <2>3 DEF OwnedBy, RowsOwned, PendOwned, EntityOwned, Belongs
  <2>10. QED
    BY <1>0, <2>8, <2>9 DEF OwnedBy
<1>13. ASSUME NEW s \in Sessions, LoadFile(s) PROVE Owned'
  BY <1>0, <1>13, NothingNew DEF LoadFile
<1>14. ASSUME NEW s \in Sessions, UnlinkFile(s) PROVE Owned'
  <2>1. bat[s].left \in Seq(Files) /\ bat[s].left # <<>> /\ bat[s] \in Batch
    BY <1>14 DEF UnlinkFile, Loaded, Batch
  <2>2. /\ \A t \in Sessions \ {s} : bat'[t] = bat[t]
        /\ bat'[s].todo = bat[s].todo
        /\ bat'[s].left \in {bat[s].left, Tail(bat[s].left)}
        /\ UNCHANGED <<rows, pend, issued, req, ent>>
    BY <1>14, <2>1 DEF UnlinkFile, Batch
  <2>3. \A i \in 1..Len(Tail(bat[s].left)) :
          i + 1 \in 1..Len(bat[s].left) /\ Tail(bat[s].left)[i] = bat[s].left[i + 1]
    BY <2>1
  <2>4. BatchOwned(own)'
    <3>1. FilesOf(own, issued, bat[s].left, req[s].ids) /\ PhotosOf(bat[s].todo, req[s].ids)
      BY DEF OwnedBy, BatchOwned
    <3>2. FilesOf(own, issued, Tail(bat[s].left), req[s].ids)
      BY <2>3, <3>1 DEF FilesOf
    <3>3. QED
      BY <2>2, <3>1, <3>2, BatchOwnedAt DEF OwnedBy
  <2>5. RowsOwned(own)' /\ PendOwned(own)' /\ EntityOwned(own)'
    BY <2>2 DEF OwnedBy, RowsOwned, PendOwned, EntityOwned, Belongs
  <2>6. QED
    BY <1>0, <2>4, <2>5 DEF OwnedBy
<1>15. ASSUME NEW s \in Sessions, DropRows(s) PROVE Owned'
  <2>1. /\ \A t \in Sessions, p \in Photos : pend'[t][p] = NoRow \/ pend'[t][p] = pend[t][p]
        /\ UNCHANGED <<rows, issued, req, ent, bat>>
    BY <1>15 DEF DropRows
  <2>2. PendOwned(own)'
    BY <2>1 DEF OwnedBy, PendOwned, Belongs
  <2>3. QED
    BY <1>0, <2>1, <2>2 DEF OwnedBy, RowsOwned, EntityOwned, BatchOwned, Belongs
<1>16. ASSUME NEW s \in Sessions, RestoreFile(s) PROVE Owned'
  <2>1. /\ \A t \in Sessions : bat'[t].left = bat[t].left /\ bat'[t].todo = bat[t].todo
        /\ UNCHANGED <<rows, pend, issued, req, ent>>
    BY <1>16 DEF RestoreFile, Batch
  <2>2. QED
    BY <1>0, <2>1 DEF OwnedBy, RowsOwned, PendOwned, EntityOwned, BatchOwned, Belongs
<1>17. ASSUME NEW s \in Sessions, Commit(s) PROVE Owned'
  <2>1. RowsOwned(own)'
    BY <1>17 DEF Commit, Seen, EndSession, OwnedBy, RowsOwned, PendOwned, Belongs
  <2>2. QED
    BY <1>0, <1>17, <2>1, EndSessionOwned DEF Commit
<1>18. ASSUME NEW s \in Sessions, EndSession(s), UNCHANGED rows PROVE Owned'
  <2>1. RowsOwned(own)'
    BY <1>18 DEF EndSession, OwnedBy, RowsOwned, Belongs
  <2>2. QED
    BY <1>0, <1>18, <2>1, EndSessionOwned
<1>19. ASSUME NEW s \in Sessions, Rollback(s) PROVE Owned'
  BY <1>18, <1>19 DEF Rollback
<1>20. ASSUME NEW s \in Sessions, Crash(s) PROVE Owned'
  BY <1>18, <1>20 DEF Crash
<1>21. CASE UNCHANGED vars
  BY <1>0, <1>21, NothingNew DEF vars
<1>22. QED
  BY <1>1, <1>2, <1>3, <1>4, <1>5, <1>6, <1>7, <1>8, <1>9, <1>10, <1>11, <1>12,
     <1>13, <1>14, <1>15, <1>16, <1>17, <1>19, <1>20, <1>21 DEF Next, Progress

LEMMA InitOwned == Init => Owned
<1> SUFFICES ASSUME Init PROVE Owned
  OBVIOUS
<1> DEFINE own == [f \in Files |-> NoPhoto]
<1>1. own \in Owners
  BY DEF Owners
<1> HIDE DEF own
<1>2. RowsOwned(own) /\ PendOwned(own) /\ EntityOwned(own)
  BY DEF Init, RowsOwned, PendOwned, EntityOwned, NothingWritten, NoEntity
<1>3. BatchOwned(own)
  BY DEF Init, BatchOwned, FilesOf, PhotosOf, NoBatch
<1> QED
  BY <1>1, <1>2, <1>3 DEF Owned, OwnedBy

LEMMA OwnInvariant == Spec => [](TypeInv /\ Owned)
<1>1. Init => TypeInv /\ Owned
  BY InitTypes, InitOwned
<1>2. TypeInv /\ Owned /\ [Next]_vars => (TypeInv /\ Owned)'
  BY TypeStep, OwnedStep
<1>3. QED
  BY <1>1, <1>2, PTL DEF Spec

\* No two committed photos share an object, for every number of concurrent
\* requests and whatever fails: PhotoService issues a new uuid for every upload
\* and never copies a path from one row to another.
THEOREM NoSharedObject == Spec => []PathsDisjoint
<1>1. TypeInv /\ Owned => PathsDisjoint
  BY DEF Owned, OwnedBy, RowsOwned, Belongs, PathsDisjoint
<1>2. QED
  BY <1>1, OwnInvariant, PTL

\* A step takes an object away from a committed photo only on behalf of a
\* request that was sent to change that photo; so no compensation, however late
\* and in whatever company it runs, hits the file of a bystander.
THEOREM NoBystanderLoses == Spec => OnlyOwnObjectsRemoved
<1>1. ASSUME TypeInv, Owned, [Next]_vars,
             NEW p \in Photos, rows[p] # NoRow, rows[p].path \in objects \ objects'
      PROVE  \E s \in Sessions : pc'[s] # pc[s] /\ p \in req[s].ids
  <2>1. PICK own \in Owners : OwnedBy(own)
    BY <1>1 DEF Owned
  <2> DEFINE f == rows[p].path
  <2>2. own[f] = p
    BY <1>1, <2>1 DEF OwnedBy, RowsOwned, Belongs
  <2>3. f \in Files
    BY <1>1 DEF TypeInv, TypeOK, MaybeRow, Row
  <2> HIDE DEF f
  <2>4. ASSUME NEW s \in Sessions, CleanUp(s) PROVE pc'[s] # pc[s] /\ p \in req[s].ids
    <3>1. f = ent[s].new
      BY <1>1, <2>4 DEF CleanUp, S3Call, f
    <3>2. p \in req[s].ids
      BY <2>1, <2>2, <2>3, <3>1, PhotoConstants DEF OwnedBy, EntityOwned, Belongs
    <3>3. QED
      BY <1>1, <2>4, <3>2 DEF CleanUp, Goto, TypeInv, TypeOK
  <2>5. ASSUME NEW s \in Sessions, PurgeOld(s) PROVE pc'[s] # pc[s] /\ p \in req[s].ids
    <3>1. f = ent[s].old
      BY <1>1, <2>5 DEF PurgeOld, S3Call, f
    <3>2. p \in req[s].ids
      BY <2>1, <2>2, <2>3, <3>1, PhotoConstants DEF OwnedBy, EntityOwned, Belongs
    <3>3. QED
      BY <1>1, <2>5, <3>2 DEF PurgeOld, Goto, TypeInv, TypeOK
  <2>6. ASSUME NEW s \in Sessions, UnlinkFile(s) PROVE pc'[s] # pc[s] /\ p \in req[s].ids
    <3>1. bat[s].left \in Seq(Files) /\ bat[s].left # <<>>
      BY <1>1, <2>6 DEF UnlinkFile, TypeInv, TypeOK, Loaded, Batch
    <3>2. f = Head(bat[s].left)
      BY <1>1, <2>6 DEF UnlinkFile, S3Call, f
    <3>3. f = bat[s].left[1] /\ 1 \in 1..Len(bat[s].left)
      BY <3>1, <3>2
    <3>4. p \in req[s].ids
      BY <2>1, <2>2, <3>3 DEF OwnedBy, BatchOwned, FilesOf
    <3>5. QED
      BY <1>1, <2>6, <3>4 DEF UnlinkFile, Goto, TypeInv, TypeOK
  <2>7. ASSUME NEW s \in Sessions,
               \/ CreatePhoto(s) \/ UpdatePhoto(s) \/ DeletePhoto(s) \/ BatchDelete(s)
               \/ WriteRow(s) \/ NameConflict(s) \/ WriteFails(s) \/ RevertRow(s)
               \/ ReadNext(s) \/ LoadFile(s) \/ DropRows(s)
               \/ Commit(s) \/ Rollback(s) \/ Crash(s)
        PROVE  UNCHANGED objects
    BY <2>7 DEF CreatePhoto, UpdatePhoto, DeletePhoto, BatchDelete, WriteRow,
       NameConflict, WriteFails, RevertRow, ReadNext, LoadFile, DropRows, Commit,
       Rollback, Crash, EndSession
  <2>8. ASSUME NEW s \in Sessions, SaveFile(s) \/ RestoreFile(s)
        PROVE  objects \subseteq objects'
    BY <2>8 DEF SaveFile, RestoreFile, S3Call
  <2>9. CASE UNCHANGED vars
    BY <1>1, <2>9 DEF vars
  <2>10. QED
    BY <1>1, <2>4, <2>5, <2>6, <2>7, <2>8, <2>9 DEF Next, Progress
<1>2. TypeInv /\ Owned /\ [Next]_vars =>
        [\A p \in Photos :
           /\ rows[p] # NoRow /\ rows[p].path \in objects \ objects'
           => \E s \in Sessions : pc'[s] # pc[s] /\ p \in req[s].ids]_vars
  BY <1>1
<1>3. QED
  BY <1>2, OwnInvariant, PTL DEF Spec, OnlyOwnObjectsRemoved

(***************************************************************************)
(* Requests that run at the same time stay out of each other's way, under  *)
(* every failure and interleaving: no two photos get one name, and what a  *)
(* request uploads is known to no other until its row is committed, so it  *)
(* is in the bucket when readers learn of it.                              *)
(***************************************************************************)

(***************************************************************************)
(* Names.  A statement waits for rows and names of other open transactions *)
(* and looks for its name among what it sees; what a transaction sees may  *)
(* be replaced by a commit of another before its own.                      *)
(***************************************************************************)
Writes(s, p) == pend[s][p] \notin {Keep, NoRow}

Creator(s, p) == req[s].op = "create" /\ req[s].photo = p

\* A row is written by one open transaction at a time.
OneWriter ==
    \A s, t \in Sessions, p \in Photos : s # t /\ pend[s][p] # Keep => pend[t][p] = Keep

\* Committed names differ, so do the names a transaction sees, and so do those
\* that two open transactions have written.
SeenDiffer ==
    \A s \in Sessions, p, q \in Photos :
        p # q /\ Seen(s, p) # NoRow /\ Seen(s, q) # NoRow => Seen(s, p).name # Seen(s, q).name

WrittenDiffer ==
    \A s, t \in Sessions, p, q \in Photos :
        s # t /\ Writes(s, p) /\ Writes(t, q) => pend[s][p].name # pend[t][q].name

\* A row that is not there is written by the request that creates it, which no
\* other request knows of.
WritesExisting ==
    \A s \in Sessions, p \in Photos : Writes(s, p) => rows[p] # NoRow \/ Creator(s, p)

CreatedAlone ==
    \A s \in Sessions, p \in Photos : Creator(s, p) =>
        /\ p \in born /\ rows[p] = NoRow
        /\ \A t \in Sessions \ {s} : pend[t][p] = Keep /\ req[t].photo # p

Known ==
    \A p \in Photos :
        /\ rows[p] # NoRow => p \in born
        /\ \A s \in Sessions : pend[s][p] # Keep \/ req[s].photo = p => p \in born

\* A request that goes back to its old path has written its row, or found it
\* gone and finds it gone again.
Reverts(s, p) ==
    \/ Writes(s, p) /\ pend[s][p].name = ent[s].row.name
    \/ pend[s][p] = Keep /\ rows[p] = NoRow /\ req[s].op = "update"

Phases ==
    \A s \in Sessions :
        /\ pc[s] \in {"idle", "save", "write", "read", "load", "unlink", "drop"}
           => \A p \in Photos : pend[s][p] = Keep
        /\ pc[s] \in {"save", "write", "purge", "revert", "cleanup"}
           => req[s].op \in {"create", "update"}
        /\ pc[s] \in {"purge", "revert"} => Reverts(s, req[s].photo)

NameInv ==
    /\ NamesDisjoint /\ SeenDiffer /\ WrittenDiffer
    /\ OneWriter /\ WritesExisting /\ CreatedAlone /\ Known /\ Phases

\* Steps that write no row and create no photo.
LEMMA NameFrame ==
    ASSUME NameInv, UNCHANGED <<rows, pend, born>>, Phases',
           \A t \in Sessions, p \in Photos :
               /\ Creator(t, p)' => Creator(t, p)
               /\ Creator(t, p) => Creator(t, p)' \/ ~Writes(t, p)
               /\ req'[t].photo = p => req[t].photo = p \/ rows[p] # NoRow
    PROVE  NameInv'
<1>1. NamesDisjoint' /\ SeenDiffer' /\ WrittenDiffer' /\ OneWriter'
  BY DEF NameInv, NamesDisjoint, SeenDiffer, WrittenDiffer, OneWriter, Seen, Writes
<1>2. WritesExisting'
  BY DEF NameInv, WritesExisting, Writes
<1>3. CreatedAlone'
  <2>1. SUFFICES ASSUME NEW s \in Sessions, NEW p \in Photos, Creator(s, p)'
                 PROVE  /\ p \in born' /\ rows'[p] = NoRow
                        /\ \A t \in Sessions \ {s} : pend'[t][p] = Keep /\ req'[t].photo # p
    BY DEF CreatedAlone, Creator
  <2>2. Creator(s, p)
    BY <2>1
  <2> QED
    BY <2>2 DEF NameInv, CreatedAlone
<1>4. Known'
  BY DEF NameInv, Known
<1> QED
  BY <1>1, <1>2, <1>3, <1>4 DEF NameInv

\* What the end of a request leaves, photo by photo.
LEMMA EndEffect ==
    ASSUME TypeInv, NEW s \in Sessions, EndSession(s)
    PROVE  /\ \A t \in Sessions, p \in Photos :
                pend'[t][p] = IF t = s THEN Keep ELSE pend[t][p]
           /\ \A t \in Sessions \ {s} : req'[t] = req[t] /\ ent'[t] = ent[t] /\ pc'[t] = pc[t]
           /\ req'[s].op = "none" /\ req'[s].photo \notin Photos /\ pc'[s] = "idle"
           /\ UNCHANGED born
  BY PhotoConstants
     DEF EndSession, Goto, NothingWritten, NoRequest, TypeInv, TypeOK

\* The end of a request that leaves the rows alone.
LEMMA NameEnd ==
    ASSUME TypeInv, NameInv, NEW s \in Sessions, EndSession(s), UNCHANGED rows
    PROVE  NameInv'
<1>3. NamesDisjoint' /\ OneWriter' /\ WrittenDiffer'
  <2>1. NamesDisjoint'
    BY EndEffect DEF NameInv, NamesDisjoint
  <2>2. OneWriter'
    BY EndEffect DEF NameInv, OneWriter
  <2>3. WrittenDiffer'
    BY EndEffect DEF NameInv, WrittenDiffer, Writes
  <2> QED
    BY <2>1, <2>2, <2>3
<1>4. SeenDiffer'
  <2>1. \A p \in Photos : Seen(s, p)' = rows[p]
    BY EndEffect DEF Seen
  <2>2. \A t \in Sessions \ {s}, p \in Photos : Seen(t, p)' = Seen(t, p)
    BY EndEffect DEF Seen
  <2> QED
    BY <2>1, <2>2 DEF NameInv, NamesDisjoint, SeenDiffer
<1>5. WritesExisting' /\ CreatedAlone'
  BY EndEffect DEF NameInv, WritesExisting, CreatedAlone, Creator, Writes
<1>6. Known'
  BY EndEffect DEF NameInv, Known
<1>7. Phases'
  <2>1. ASSUME NEW t \in Sessions \ {s}, pc[t] \in {"purge", "revert"}
        PROVE  Reverts(t, req[t].photo)'
    BY EndEffect, <2>1 DEF NameInv, Phases, Reverts, Writes, TypeInv, Loaded
  <2>2. \A t \in Sessions \ {s} : pc'[t] = pc[t] /\ req'[t] = req[t]
    BY EndEffect
  <2>3. \A t \in Sessions \ {s}, p \in Photos : pend'[t][p] = pend[t][p]
    BY EndEffect
  <2>4. pc'[s] = "idle" /\ \A p \in Photos : pend'[s][p] = Keep
    BY EndEffect
  <2> QED
    BY <2>1, <2>2, <2>3, <2>4 DEF NameInv, Phases
<1> QED
  BY <1>3, <1>4, <1>5, <1>6, <1>7 DEF NameInv

\* A commit makes what the transaction sees what all see.
LEMMA NameCommit ==
    ASSUME TypeInv, NameInv, NEW s \in Sessions, EndSession(s),
           rows' = [p \in Photos |-> Seen(s, p)]
    PROVE  NameInv'
<1>3. \A p \in Photos : rows'[p] = IF pend[s][p] = Keep THEN rows[p] ELSE pend[s][p]
  BY DEF Seen
<1>4. \A t \in Sessions \ {s}, p \in Photos : pend[t][p] # Keep => rows'[p] = rows[p]
  BY <1>3 DEF NameInv, OneWriter
<1>5. NamesDisjoint'
  BY <1>3 DEF NameInv, NamesDisjoint, SeenDiffer, Seen
<1>6. OneWriter' /\ WrittenDiffer'
  <2>1. OneWriter'
    BY EndEffect DEF NameInv, OneWriter
  <2>2. WrittenDiffer'
    BY EndEffect DEF NameInv, WrittenDiffer, Writes
  <2> QED
    BY <2>1, <2>2
<1>7. SeenDiffer'
  <2>1. SUFFICES ASSUME NEW t \in Sessions, NEW p \in Photos, NEW q \in Photos, p # q,
                        Seen(t, p)' # NoRow, Seen(t, q)' # NoRow
                 PROVE  Seen(t, p)'.name # Seen(t, q)'.name
    BY DEF SeenDiffer
  <2>2. CASE t = s
    BY EndEffect, <1>5, <2>1, <2>2 DEF NamesDisjoint, Seen
  <2>3. CASE t # s /\ pend[t][p] = Keep /\ pend[t][q] = Keep
    BY EndEffect, <1>5, <2>1, <2>3 DEF NamesDisjoint, Seen
  <2>4. ASSUME t # s, NEW x \in Photos, NEW y \in Photos, x # y, pend[t][x] # Keep,
               Seen(t, x)' # NoRow, Seen(t, y)' # NoRow
        PROVE  Seen(t, x)'.name # Seen(t, y)'.name
    <3>1. Seen(t, x)' = pend[t][x] /\ Seen(t, x)' = Seen(t, x) /\ Writes(t, x)
      BY EndEffect, <2>4 DEF Seen, Writes
    <3>2. CASE pend[t][y] # Keep
      BY EndEffect, <2>4, <3>1, <3>2 DEF NameInv, SeenDiffer, Seen
    <3>3. CASE pend[t][y] = Keep /\ pend[s][y] = Keep
      BY EndEffect, <1>3, <2>4, <3>1, <3>3 DEF NameInv, SeenDiffer, Seen
    <3>4. CASE pend[t][y] = Keep /\ pend[s][y] # Keep
      <4>1. Seen(t, y)' = pend[s][y] /\ Writes(s, y)
        BY EndEffect, <1>3, <2>4, <3>4 DEF Seen, Writes
      <4> QED
        BY <2>4, <3>1, <4>1 DEF NameInv, WrittenDiffer
    <3> QED
      BY <3>2, <3>3, <3>4
  <2> QED
    BY <2>1, <2>2, <2>3, <2>4
<1>8. WritesExisting'
  <2>1. SUFFICES ASSUME NEW t \in Sessions, NEW p \in Photos, Writes(t, p)'
                 PROVE  rows'[p] # NoRow \/ Creator(t, p)'
    BY DEF WritesExisting
  <2>2. t # s /\ Writes(t, p) /\ pend[t][p] # Keep
    BY EndEffect, <2>1 DEF Writes
  <2> QED
    BY EndEffect, <1>4, <2>2 DEF NameInv, WritesExisting, Creator
<1>9. CreatedAlone'
  <2>1. SUFFICES ASSUME NEW t \in Sessions, NEW p \in Photos, Creator(t, p)'
                 PROVE  /\ p \in born' /\ rows'[p] = NoRow
                        /\ \A u \in Sessions \ {t} : pend'[u][p] = Keep /\ req'[u].photo # p
    BY DEF CreatedAlone, Creator
  <2>2. t # s /\ Creator(t, p)
    BY EndEffect, <2>1 DEF Creator
  <2> QED
    BY EndEffect, <1>3, <2>2 DEF NameInv, CreatedAlone
<1>10. Known'
  BY EndEffect, <1>3 DEF NameInv, Known
<1>11. Phases'
  <2>1. ASSUME NEW t \in Sessions \ {s}, pc[t] \in {"purge", "revert"}
        PROVE  Reverts(t, req[t].photo)'
    <3> DEFINE p == req[t].photo
    <3>1. p \in Photos /\ Reverts(t, p)
      BY <2>1 DEF NameInv, Phases, TypeInv, Loaded
    <3>2. CASE Writes(t, p) /\ pend[t][p].name = ent[t].row.name
      BY EndEffect, <3>1, <3>2 DEF Reverts, Writes
    <3>3. CASE pend[t][p] = Keep /\ rows[p] = NoRow /\ req[t].op = "update"
      <4>1. ~Writes(s, p)
        BY <3>1, <3>3 DEF NameInv, WritesExisting, CreatedAlone, Creator
      <4>2. rows'[p] = NoRow
        BY <1>3, <3>1, <3>3, <4>1 DEF Writes
      <4> QED
        BY EndEffect, <3>1, <3>3, <4>2 DEF Reverts
    <3> QED
      BY <3>1, <3>2, <3>3 DEF Reverts
  <2>2. \A t \in Sessions \ {s} : pc'[t] = pc[t] /\ req'[t] = req[t]
    BY EndEffect
  <2>3. \A t \in Sessions \ {s}, p \in Photos : pend'[t][p] = pend[t][p]
    BY EndEffect
  <2>4. pc'[s] = "idle" /\ \A p \in Photos : pend'[s][p] = Keep
    BY EndEffect
  <2> QED
    BY <2>1, <2>2, <2>3, <2>4 DEF NameInv, Phases
<1> QED
  BY <1>5, <1>6, <1>7, <1>8, <1>9, <1>10, <1>11 DEF NameInv

\* Only the acting session needs a look.
LEMMA PhaseFrame ==
    ASSUME TypeInv, Phases, NEW s \in Sessions, UNCHANGED rows,
           \A t \in Sessions \ {s} :
               pc'[t] = pc[t] /\ req'[t] = req[t] /\ ent'[t] = ent[t] /\ pend'[t] = pend[t],
           pc'[s] \in {"idle", "save", "write", "read", "load", "unlink", "drop"}
               => \A p \in Photos : pend'[s][p] = Keep,
           pc'[s] \in {"save", "write", "purge", "revert", "cleanup"}
               => req'[s].op \in {"create", "update"},
           pc'[s] \in {"purge", "revert"} => Reverts(s, req[s].photo)'
    PROVE  Phases'
<1>1. ASSUME NEW t \in Sessions \ {s}, pc[t] \in {"purge", "revert"}
      PROVE  Reverts(t, req[t].photo)'
  BY <1>1 DEF Phases, Reverts, Writes
<1> QED
  BY <1>1 DEF Phases

LEMMA NameStep == TypeInv /\ TypeInv' /\ NameInv /\ [Next]_vars => NameInv'
<1> SUFFICES ASSUME TypeInv, TypeInv', NameInv, [Next]_vars PROVE NameInv'
  OBVIOUS
<1>0. Phases /\ Known /\ CreatedAlone /\ WritesExisting /\ OneWriter
  BY DEF NameInv
<1>t. TypeOK /\ TypeOK' /\ Loaded
  BY DEF TypeInv
<1>1. ASSUME NEW s \in Sessions, CreatePhoto(s) PROVE NameInv'
  <2>1. PICK p \in Photos \ born, f \in Files \ issued, b \in Bases :
          /\ born' = born \cup {p}
          /\ req' = [req EXCEPT ![s] =
                     [op |-> "create", ids |-> {p}, photo |-> p, base |-> b]]
    BY <1>1 DEF CreatePhoto
  <2>2. /\ UNCHANGED <<rows, pend>> /\ pc[s] = "idle" /\ pc'[s] = "save"
        /\ \A t \in Sessions \ {s} : pc'[t] = pc[t] /\ req'[t] = req[t] /\ ent'[t] = ent[t]
        /\ req'[s].op = "create" /\ req'[s].photo = p
    BY <1>1, <1>t, <2>1 DEF CreatePhoto, Goto, TypeOK
  <2>3. \A q \in Photos : pend[s][q] = Keep
    BY <1>0, <2>2 DEF Phases
  <2>4. Phases'
    BY <1>0, <2>2, <2>3, PhaseFrame
  <2>5. \A t \in Sessions : pend[t][p] = Keep /\ req[t].photo # p /\ rows[p] = NoRow
    BY <1>0, <2>1 DEF Known
  <2>6. NamesDisjoint' /\ SeenDiffer' /\ WrittenDiffer' /\ OneWriter'
    BY <2>2 DEF NameInv, NamesDisjoint, SeenDiffer, WrittenDiffer, OneWriter, Seen, Writes
  <2>7. WritesExisting'
    BY <1>0, <2>2, <2>3 DEF WritesExisting, Writes, Creator
  <2>8. CreatedAlone'
    <3>1. SUFFICES ASSUME NEW t \in Sessions, NEW q \in Photos, Creator(t, q)'
                   PROVE  /\ q \in born' /\ rows'[q] = NoRow
                          /\ \A u \in Sessions \ {t} : pend'[u][q] = Keep /\ req'[u].photo # q
      BY DEF CreatedAlone, Creator
    <3>2. CASE t = s
      BY <2>1, <2>2, <2>5, <3>1, <3>2 DEF Creator
    <3>3. CASE t # s
      <4>1. Creator(t, q)
        BY <2>2, <3>1, <3>3 DEF Creator
      <4>2. q # p
        BY <2>5, <4>1 DEF Creator
      <4> QED
        BY <1>0, <2>1, <2>2, <4>1, <4>2 DEF CreatedAlone
    <3> QED
      BY <3>2, <3>3
  <2>9. Known'
    BY <1>0, <2>1, <2>2 DEF Known
  <2> QED
    BY <2>4, <2>6, <2>7, <2>8, <2>9 DEF NameInv
<1>2. ASSUME NEW s \in Sessions, UNCHANGED <<rows, pend, born, req>>,
             \A t \in Sessions \ {s} : pc'[t] = pc[t] /\ ent'[t] = ent[t],
             pc'[s] \in {"idle", "save", "write", "read", "load", "unlink", "drop"}
               => pc[s] \in {"idle", "save", "write", "read", "load", "unlink", "drop"},
             pc'[s] \in {"save", "write", "purge", "revert", "cleanup"}
               => pc[s] \in {"save", "write", "purge", "revert", "cleanup"},
             pc'[s] \in {"purge", "revert"}
               => pc[s] \in {"purge", "revert"} /\ ent'[s].row.name = ent[s].row.name
      PROVE  NameInv'
  <2>1. pc'[s] \in {"purge", "revert"} => Reverts(s, req[s].photo)'
    BY <1>0, <1>2 DEF Phases, Reverts, Writes
  <2>2. Phases'
    BY <1>0, <1>2, <2>1, PhaseFrame DEF Phases
  <2> QED
    BY <1>2, <2>2, NameFrame DEF Creator
<1>3. ASSUME NEW s \in Sessions,
             SaveFile(s) \/ NameConflict(s) \/ WriteFails(s) \/ CleanUp(s)
             \/ ReadNext(s) \/ LoadFile(s) \/ UnlinkFile(s) \/ RestoreFile(s)
      PROVE  NameInv'
  BY <1>2, <1>3, <1>t
     DEF SaveFile, NameConflict, WriteFails, CleanUp, ReadNext, LoadFile, UnlinkFile,
         RestoreFile, Abandon, Goto, TypeOK
<1>4. ASSUME NEW s \in Sessions, PurgeOld(s) PROVE NameInv'
  <2>1. /\ ent' = ent \/ ent' = [ent EXCEPT ![s].row.path = ent[s].old]
        /\ pc[s] = "purge" /\ pc'[s] \in {"commit", "revert"}
        /\ \A t \in Sessions \ {s} : pc'[t] = pc[t]
        /\ UNCHANGED <<rows, born, pend, req>>
    BY <1>4, <1>t DEF PurgeOld, Goto, TypeOK
  <2>2. ent[s].row \in Row /\ ent[s] \in Entity
    BY <1>t, <2>1 DEF TypeOK, Loaded
  <2>3. /\ ent'[s].row.name = ent[s].row.name
        /\ \A t \in Sessions \ {s} : ent'[t] = ent[t]
    BY <1>t, <2>1, <2>2 DEF TypeOK, Row, Entity
  <2> QED
    BY <1>2, <2>1, <2>3
<1>5. ASSUME NEW s \in Sessions, UpdatePhoto(s) \/ DeletePhoto(s) \/ BatchDelete(s)
      PROVE  NameInv'
  <2>1. /\ pc[s] = "idle" /\ pc'[s] \in {"save", "write", "load", "read"}
        /\ \A t \in Sessions \ {s} : pc'[t] = pc[t] /\ req'[t] = req[t] /\ ent'[t] = ent[t]
        /\ UNCHANGED <<rows, born, pend>>
    BY <1>5, <1>t DEF UpdatePhoto, DeletePhoto, BatchDelete, Goto, TypeOK
  <2>2. req[s].op = "none" /\ req[s].photo = NoPhoto /\ \A p \in Photos : pend[s][p] = Keep
    BY <1>0, <1>t, <2>1 DEF Phases, Loaded, NoRequest
  <2>3. /\ req'[s].op \in {"update", "delete"}
        /\ pc'[s] \in {"save", "write"} => req'[s].op = "update"
        /\ \A p \in Photos : req'[s].photo = p => rows[p] # NoRow
    <3>1. CASE UpdatePhoto(s)
      BY <1>t, <3>1 DEF UpdatePhoto, TypeOK
    <3>2. CASE DeletePhoto(s)
      BY <1>t, <2>2, <3>2, PhotoConstants DEF DeletePhoto, Goto, TypeOK, Request
    <3>3. CASE BatchDelete(s)
      <4>1. PICK ids \in BatchLists :
              req' = [req EXCEPT ![s].op = "delete", ![s].ids = {ids[i] : i \in DOMAIN ids}]
        BY <3>3 DEF BatchDelete
      <4> DEFINE named == {ids[i] : i \in DOMAIN ids}
      <4>2. req' = [req EXCEPT ![s].op = "delete", ![s].ids = named]
        BY <4>1
      <4> HIDE DEF named
      <4>3. req'[s].op = "delete" /\ req'[s].photo = req[s].photo
        BY <1>t, <4>2 DEF TypeOK, Request
      <4> QED
        BY <1>t, <2>2, <3>3, <4>3, PhotoConstants DEF BatchDelete, Goto, TypeOK
    <3> QED
      BY <1>5, <3>1, <3>2, <3>3
  <2>4. Phases'
    BY <1>0, <2>1, <2>2, <2>3, PhaseFrame
  <2>5. \A t \in Sessions, p \in Photos :
            /\ Creator(t, p)' => Creator(t, p)
            /\ Creator(t, p) => Creator(t, p)' \/ ~Writes(t, p)
            /\ req'[t].photo = p => req[t].photo = p \/ rows[p] # NoRow
    BY <2>1, <2>2, <2>3 DEF Creator, Writes
  <2> QED
    BY <2>1, <2>4, <2>5, NameFrame
<1>6. ASSUME NEW s \in Sessions, WriteRow(s) PROVE NameInv'
  <2>0. PICK p \in Photos : p = req[s].photo
    BY <1>6, <1>t DEF WriteRow, Loaded
  <2> DEFINE written == [ent[s].row EXCEPT !.name = NameToWrite(s)]
  <2>1. /\ pc[s] = "write" /\ pc'[s] \in {"commit", "purge"}
        /\ p = req[s].photo /\ req[s].op \in {"create", "update"}
        /\ \A t \in Sessions \ {s} : pc'[t] = pc[t] /\ ent'[t] = ent[t] /\ pend'[t] = pend[t]
        /\ UNCHANGED <<rows, born, req>>
        /\ \A q \in Photos : pend[s][q] = Keep
    BY <1>6, <1>0, <1>t, <2>0 DEF WriteRow, Goto, Loaded, TypeOK, Phases
  <2>2. written \in Row /\ written # NoRow /\ written # Keep
    <3>1. ent[s].row \in Row
      BY <1>t, <2>1 DEF Loaded
    <3>2. NameToWrite(s) \in Names
      BY <1>t, <2>1, <3>1, PhotoConstants DEF NameToWrite, Loaded, Row, Request, TypeOK
    <3> QED
      BY <3>1, <3>2, PhotoConstants DEF Row, MaybeRow
  <2>3. ent'[s].row = written
    BY <1>6, <1>t DEF WriteRow, TypeOK, Entity
  <2> HIDE DEF written
  <2>4. CASE ~HasTarget(s)
    <3>1. pend' = pend /\ rows[p] = NoRow /\ req[s].op = "update"
      BY <1>6, <2>1, <2>4 DEF WriteRow, HasTarget
    <3>2. Phases'
      BY <1>0, <2>1, <3>1, PhaseFrame DEF Reverts
    <3> QED
      BY <2>1, <3>1, <3>2, NameFrame DEF Creator
  <2>5. CASE HasTarget(s)
    <3>1. /\ pend' = [pend EXCEPT ![s][p] = written]
          /\ ~RowLocked(s, p) /\ ~NameLocked(s, written.name) /\ ~NameTaken(s, p, written.name)
      BY <1>6, <2>1, <2>5 DEF WriteRow, written
    <3>2. \A q \in Photos : pend'[s][q] = IF q = p THEN written ELSE Keep
      BY <1>t, <2>1, <3>1 DEF TypeOK
    <3>3. \A t \in Sessions \ {s} : pend[t][p] = Keep
      BY <3>1 DEF RowLocked
    <3>4. \A t \in Sessions \ {s}, q \in Photos : Writes(t, q) => pend[t][q].name # written.name
      BY <3>1 DEF NameLocked, Writes
    <3>5. \A q \in Photos \ {p} : Seen(s, q) # NoRow => Seen(s, q).name # written.name
      BY <3>1 DEF NameTaken
    <3>6. NamesDisjoint' /\ OneWriter'
      BY <1>0, <2>1, <3>2, <3>3 DEF NameInv, NamesDisjoint, OneWriter
    <3>7. WrittenDiffer'
      BY <2>1, <2>2, <3>2, <3>4 DEF NameInv, WrittenDiffer, Writes
    <3>8. SeenDiffer'
      <4>1. \A t \in Sessions \ {s}, q \in Photos : Seen(t, q)' = Seen(t, q)
        BY <2>1 DEF Seen
      <4>2. Seen(s, p)' = written /\ \A q \in Photos \ {p} : Seen(s, q)' = Seen(s, q)
        BY <2>1, <2>2, <3>2 DEF Seen
      <4>3. SeenDiffer
        BY DEF NameInv
      <4>4. \A x, y \in Photos :
              x # y /\ Seen(s, x)' # NoRow /\ Seen(s, y)' # NoRow
              => Seen(s, x)'.name # Seen(s, y)'.name
        BY <2>2, <3>5, <4>2, <4>3 DEF SeenDiffer
      <4>5. \A t \in Sessions \ {s}, x, y \in Photos :
              x # y /\ Seen(t, x)' # NoRow /\ Seen(t, y)' # NoRow
              => Seen(t, x)'.name # Seen(t, y)'.name
        BY <4>1, <4>3 DEF SeenDiffer
      <4> QED
        BY <4>4, <4>5 DEF SeenDiffer
    <3>9. WritesExisting'
      BY <1>0, <2>1, <2>5, <3>2 DEF WritesExisting, Writes, Creator, HasTarget
    <3>10. CreatedAlone'
      <4>1. ASSUME NEW t \in Sessions \ {s}, NEW q \in Photos, Creator(t, q)
            PROVE  q # p
        BY <1>0, <2>1, <4>1 DEF CreatedAlone
      <4> QED
        BY <1>0, <2>1, <3>2, <4>1 DEF CreatedAlone, Creator
    <3>11. Known'
      BY <1>0, <2>1, <3>2 DEF Known
    <3>12. Phases'
      <4>1. Reverts(s, req[s].photo)'
        BY <2>1, <2>2, <2>3, <3>2 DEF Reverts, Writes
      <4> QED
        BY <1>0, <2>1, <4>1, PhaseFrame
    <3> QED
      BY <3>6, <3>7, <3>8, <3>9, <3>10, <3>11, <3>12 DEF NameInv
  <2> QED
    BY <2>4, <2>5
<1>7. ASSUME NEW s \in Sessions, RevertRow(s) PROVE NameInv'
  <2> DEFINE p == req[s].photo
             row == ent[s].row
  <2>1. /\ pc[s] = "revert" /\ pc'[s] = "cleanup" /\ p \in Photos /\ row \in Row
        /\ req[s].op \in {"create", "update"}
        /\ \A t \in Sessions \ {s} : pc'[t] = pc[t] /\ pend'[t] = pend[t]
        /\ UNCHANGED <<rows, born, req, ent>>
    BY <1>7, <1>0, <1>t DEF RevertRow, Goto, Loaded, TypeOK, Phases
  <2>2. Phases'
    BY <1>0, <2>1, PhaseFrame
  <2>3. CASE pend' = pend
    BY <2>1, <2>2, <2>3, NameFrame DEF Creator
  <2>4. CASE pend' = [pend EXCEPT ![s][p] = row] /\ Seen(s, p) # NoRow
    <3>1. Writes(s, p) /\ pend[s][p].name = row.name
      BY <1>0, <2>1, <2>4 DEF Phases, Reverts, Seen
    <3>2. row # NoRow /\ row # Keep
      BY <2>1, PhotoConstants DEF MaybeRow
    <3>3. \A q \in Photos : pend'[s][q] = IF q = p THEN row ELSE pend[s][q]
      BY <1>t, <2>1, <2>4 DEF TypeOK
    <3> HIDE DEF row, p
    <3>4. \A t \in Sessions, q \in Photos :
            /\ (pend'[t][q] = Keep) = (pend[t][q] = Keep)
            /\ Writes(t, q)' = Writes(t, q)
            /\ Writes(t, q) => pend'[t][q].name = pend[t][q].name
            /\ ~Writes(t, q) => pend'[t][q] = pend[t][q]
      BY <2>1, <3>1, <3>2, <3>3 DEF Writes
    <3>5. \A t \in Sessions, q \in Photos :
            /\ (Seen(t, q)' = NoRow) = (Seen(t, q) = NoRow)
            /\ Seen(t, q) # NoRow => Seen(t, q)'.name = Seen(t, q).name
      BY <2>1, <3>4 DEF Seen, Writes
    <3>6. NamesDisjoint' /\ SeenDiffer'
      BY <2>1, <3>5 DEF NameInv, NamesDisjoint, SeenDiffer
    <3>7. WrittenDiffer' /\ OneWriter'
      BY <3>4 DEF NameInv, WrittenDiffer, OneWriter
    <3>8. WritesExisting' /\ CreatedAlone' /\ Known'
      BY <1>0, <2>1, <3>4 DEF WritesExisting, CreatedAlone, Known, Creator
    <3> QED
      BY <2>2, <3>6, <3>7, <3>8 DEF NameInv
  <2> QED
    BY <1>7, <2>3, <2>4 DEF RevertRow
<1>8. ASSUME NEW s \in Sessions, DropRows(s) PROVE NameInv'
  <2>1. /\ pc[s] = "drop" /\ pc'[s] \in {"commit", "restore"}
        /\ \A t \in Sessions \ {s} : pc'[t] = pc[t] /\ pend'[t] = pend[t]
        /\ UNCHANGED <<rows, born, req, ent>>
        /\ \A p \in Photos : pend[s][p] = Keep
    BY <1>8, <1>0, <1>t DEF DropRows, Goto, TypeOK, Phases
  <2>2. Phases'
    BY <1>0, <2>1, PhaseFrame
  <2>3. \A p \in Photos :
          \/ pend'[s][p] = Keep
          \/ pend'[s][p] = NoRow /\ rows[p] # NoRow /\ \A t \in Sessions \ {s} : pend[t][p] = Keep
    BY <1>8, <1>t, <2>1 DEF DropRows, RowLocked, TypeOK
  <2>4. NamesDisjoint' /\ OneWriter' /\ WritesExisting' /\ Known'
    BY <1>0, <2>1, <2>3 DEF NameInv, NamesDisjoint, OneWriter, WritesExisting, Known, Writes, Creator
  <2>5. WrittenDiffer'
    BY <2>1, <2>3 DEF NameInv, WrittenDiffer, Writes
  <2>6. SeenDiffer'
    BY <2>1, <2>3 DEF NameInv, SeenDiffer, Seen
  <2>7. CreatedAlone'
    BY <1>0, <2>1, <2>3 DEF CreatedAlone, Creator
  <2> QED
    BY <2>2, <2>4, <2>5, <2>6, <2>7 DEF NameInv
<1>9. ASSUME NEW s \in Sessions, Commit(s) \/ Rollback(s) \/ Crash(s) PROVE NameInv'
  BY <1>9, NameEnd, NameCommit DEF Commit, Rollback, Crash
<1>10. CASE UNCHANGED vars
  <2>1. Phases'
    BY <1>0, <1>10 DEF vars, Phases, Reverts, Writes
  <2> QED
    BY <1>10, <2>1, NameFrame DEF vars, Creator
<1> QED
  BY <1>1, <1>3, <1>4, <1>5, <1>6, <1>7, <1>8, <1>9, <1>10 DEF Next, Progress

LEMMA InitNames == Init => NameInv
<1> SUFFICES ASSUME Init PROVE NameInv
  OBVIOUS
<1>1. /\ \A p \in Photos : rows[p] = NoRow
      /\ \A s \in Sessions, p \in Photos : pend[s][p] = Keep
      /\ \A s \in Sessions : req[s].op = "none" /\ req[s].photo = NoPhoto /\ pc[s] = "idle"
  BY DEF Init, NothingWritten, NoRequest
<1>2. \A s \in Sessions, p \in Photos : Seen(s, p) = NoRow /\ ~Writes(s, p) /\ ~Creator(s, p)
  BY <1>1 DEF Seen, Writes, Creator
<1>3. NamesDisjoint /\ SeenDiffer /\ WrittenDiffer /\ OneWriter
  BY <1>1, <1>2 DEF NamesDisjoint, SeenDiffer, WrittenDiffer, OneWriter
<1>4. WritesExisting /\ CreatedAlone /\ Known /\ Phases
  BY <1>1, <1>2, PhotoConstants DEF WritesExisting, CreatedAlone, Known, Phases
<1> QED
  BY <1>3, <1>4 DEF NameInv

\* No committed photo has the name of another, for every number of concurrent
\* requests and whatever fails: uq_photos_equestrian_name waits for the open
\* transactions that take a name or give it up, and the loop over candidates
\* looks again after each refusal.
THEOREM NoSharedName == Spec => []NamesDisjoint
<1>1. TypeInv /\ NameInv /\ [Next]_vars => (TypeInv /\ NameInv)'
  BY TypeStep, NameStep
<1>2. NameInv => NamesDisjoint
  BY DEF NameInv
<1> QED
  BY InitTypes, InitNames, <1>1, <1>2, PTL DEF Spec

(***************************************************************************)
(* Uploads.  The file a running request has uploaded is known to no other  *)
(* request and to no committed row, so nothing removes it before its row   *)
(* is committed.                                                           *)
(***************************************************************************)
Public(f) == \E p \in Photos : rows[p] # NoRow /\ rows[p].path = f

Mentions(s, f) ==
    \/ ent[s].new = f \/ ent[s].old = f
    \/ ent[s].row # NoRow /\ ent[s].row.path = f
    \/ \E p \in Photos : Writes(s, p) /\ pend[s][p].path = f
    \/ \E i \in 1..Len(bat[s].left) : bat[s].left[i] = f

UploadPrivate ==
    \A s \in Sessions : ent[s].new # NoFile =>
        /\ ~Public(ent[s].new)
        /\ \A t \in Sessions \ {s} : ~Mentions(t, ent[s].new)
        /\ ent[s].old # ent[s].new
        /\ pc[s] \notin {"idle", "read", "load", "unlink", "drop", "restore"}

Uploaded ==
    \A s \in Sessions :
        pc[s] \in {"write", "purge", "commit"} /\ ent[s].new # NoFile => ent[s].new \in objects

\* Whatever is mentioned has been issued.
LEMMA MentionIssued ==
    ASSUME TypeInv, Owned, NEW f \in Files
    PROVE  /\ Public(f) => f \in issued
           /\ \A s \in Sessions : Mentions(s, f) => f \in issued
<1>1. PICK own \in Owners : OwnedBy(own)
  BY DEF Owned
<1>2. Public(f) => f \in issued
  BY <1>1 DEF OwnedBy, RowsOwned, Belongs, Public
<1>3. ASSUME NEW s \in Sessions, Mentions(s, f) PROVE f \in issued
  <2>1. ent[s].new = f \/ ent[s].old = f \/ (ent[s].row # NoRow /\ ent[s].row.path = f)
        => f \in issued
    BY <1>1, PhotoConstants DEF OwnedBy, EntityOwned, Belongs
  <2>2. (\E p \in Photos : Writes(s, p) /\ pend[s][p].path = f) => f \in issued
    BY <1>1 DEF OwnedBy, PendOwned, Belongs, Writes
  <2>3. (\E i \in 1..Len(bat[s].left) : bat[s].left[i] = f) => f \in issued
    BY <1>1 DEF OwnedBy, BatchOwned, FilesOf
  <2> QED
    BY <1>3, <2>1, <2>2, <2>3 DEF Mentions
<1> QED
  BY <1>2, <1>3

\* A step by which the acting session learns of no file but committed ones,
\* and publishes none but its own.
LEMMA PrivateFrame ==
    ASSUME TypeInv, UploadPrivate, NEW s \in Sessions,
           \A t \in Sessions \ {s} :
               ent'[t] = ent[t] /\ pend'[t] = pend[t] /\ bat'[t] = bat[t] /\ pc'[t] = pc[t],
           ent'[s].new \in {ent[s].new, NoFile},
           ent'[s].new # NoFile =>
               /\ ent'[s].old # ent'[s].new
               /\ pc'[s] \notin {"idle", "read", "load", "unlink", "drop", "restore"},
           \A f \in Files : Mentions(s, f)' => Mentions(s, f) \/ Public(f),
           \A f \in Files : Public(f)' => Public(f) \/ (ent'[s].new = NoFile /\ Mentions(s, f))
    PROVE  UploadPrivate'
<1> SUFFICES ASSUME NEW t \in Sessions, ent'[t].new # NoFile
             PROVE  /\ ~Public(ent[t].new)'
                    /\ \A u \in Sessions \ {t} : ~Mentions(u, ent[t].new)'
                    /\ ent'[t].old # ent'[t].new
                    /\ pc'[t] \notin {"idle", "read", "load", "unlink", "drop", "restore"}
  BY DEF UploadPrivate
<1> DEFINE f == ent[t].new
<1>1. ent'[t].new = ent[t].new /\ ent[t].new # NoFile /\ ent[t].new \in Files
  BY DEF TypeInv, TypeOK, Entity
<1> PICK g \in Files : g = ent[t].new /\ g = ent'[t].new
  BY <1>1
<1>2. /\ ~Public(g)
      /\ \A u \in Sessions \ {t} : ~Mentions(u, g)
      /\ ent[t].old # g
      /\ pc[t] \notin {"idle", "read", "load", "unlink", "drop", "restore"}
  BY <1>1 DEF UploadPrivate
<1>3. ~Public(g)'
  <2>1. CASE t = s
    BY <1>1, <1>2, <2>1
  <2>2. CASE t # s
    BY <1>2, <2>2
  <2> QED
    BY <2>1, <2>2
<1>4. ASSUME NEW u \in Sessions \ {t} PROVE ~Mentions(u, g)'
  <2>1. CASE u = s
    BY <1>2, <2>1
  <2>2. CASE u # s
    <3>1. ent'[u] = ent[u] /\ pend'[u] = pend[u] /\ bat'[u] = bat[u]
      BY <2>2
    <3>2. ~Mentions(u, g)
      BY <1>2
    <3> QED
      BY <3>1, <3>2 DEF Mentions, Writes
  <2> QED
    BY <2>1, <2>2
<1>5. ent'[t].old # g /\ pc'[t] \notin {"idle", "read", "load", "unlink", "drop", "restore"}
  BY <1>1, <1>2
<1> QED
  BY <1>3, <1>4, <1>5 DEF Public, Mentions, Writes

\* A step that issues a file for the acting session.
LEMMA PrivateIssue ==
    ASSUME TypeInv, Owned, UploadPrivate, NEW s \in Sessions, NEW f \in Files \ issued,
           UNCHANGED <<rows, pend, bat>>,
           \A t \in Sessions \ {s} : ent'[t] = ent[t] /\ pc'[t] = pc[t],
           pc[s] = "idle", pc'[s] = "save",
           ent'[s].new = f, ent'[s].row # NoRow, ent'[s].row.path = f,
           ent'[s].old # NoFile => Public(ent'[s].old)
    PROVE  UploadPrivate'
<1>1. ~Public(f) /\ \A t \in Sessions : ~Mentions(t, f)
  BY MentionIssued
<1>2. ASSUME NEW t \in Sessions, NEW g \in Files, t # s \/ g # f, Mentions(t, g)'
      PROVE  Mentions(t, g) \/ Public(g)
  <2>1. CASE t # s
    <3>1. ent'[t] = ent[t] /\ pend'[t] = pend[t] /\ bat'[t] = bat[t]
      BY <2>1
    <3> QED
      BY <1>2, <3>1 DEF Mentions, Writes
  <2>2. CASE t = s
    BY <1>2, <2>2, PhotoConstants DEF Mentions, Writes
  <2> QED
    BY <2>1, <2>2
<1> SUFFICES ASSUME NEW t \in Sessions, ent'[t].new # NoFile
             PROVE  /\ ~Public(ent[t].new)'
                    /\ \A u \in Sessions \ {t} : ~Mentions(u, ent[t].new)'
                    /\ ent'[t].old # ent'[t].new
                    /\ pc'[t] \notin {"idle", "read", "load", "unlink", "drop", "restore"}
  BY DEF UploadPrivate
<1>3. CASE t = s
  <2>1. ~Public(f)'
    BY <1>1 DEF Public
  <2>2. \A u \in Sessions \ {s} : ~Mentions(u, f)'
    BY <1>1, <1>2
  <2>3. ent'[s].old # f
    BY <1>1, PhotoConstants
  <2> QED
    BY <1>3, <2>1, <2>2, <2>3 DEF Public, Mentions, Writes
<1>4. CASE t # s
  <2>1. ent'[t] = ent[t] /\ ent[t].new \in Files /\ ent[t].new # f /\ pc'[t] = pc[t]
    BY <1>1, <1>4 DEF TypeInv, TypeOK, Entity, Mentions
  <2> PICK g \in Files : g = ent[t].new /\ g = ent'[t].new
    BY <2>1
  <2>2. /\ ~Public(g)
        /\ \A u \in Sessions \ {t} : ~Mentions(u, g)
        /\ ent[t].old # g
        /\ pc[t] \notin {"idle", "read", "load", "unlink", "drop", "restore"}
    BY <2>1 DEF UploadPrivate
  <2>3. ~Public(g)'
    BY <2>2 DEF Public
  <2>4. \A u \in Sessions \ {t} : ~Mentions(u, g)'
    BY <1>2, <2>1, <2>2
  <2> QED
    BY <2>1, <2>2, <2>3, <2>4 DEF Public, Mentions, Writes
<1> QED
  BY <1>3, <1>4

\* The end of a request, whether it commits or not.
LEMMA PrivateEnd ==
    ASSUME TypeInv, UploadPrivate, NEW s \in Sessions, EndSession(s),
           rows' = rows \/ rows' = [p \in Photos |-> Seen(s, p)]
    PROVE  UploadPrivate'
<1>1. /\ \A t \in Sessions \ {s} :
            ent'[t] = ent[t] /\ pend'[t] = pend[t] /\ bat'[t] = bat[t] /\ pc'[t] = pc[t]
      /\ ent'[s] = NoEntity /\ pend'[s] = NothingWritten /\ bat'[s] = NoBatch
  BY DEF EndSession, Goto, TypeInv, TypeOK
<1>2. \A f \in Files : ~Mentions(s, f)'
  <2>1. NoEntity.new = NoFile /\ NoEntity.old = NoFile /\ NoEntity.row = NoRow
    BY DEF NoEntity
  <2>2. Len(NoBatch.left) = 0
    BY DEF NoBatch
  <2>3. \A p \in Photos : ~Writes(s, p)'
    BY <1>1 DEF Writes, NothingWritten
  <2> QED
    BY <1>1, <2>1, <2>2, <2>3, PhotoConstants DEF Mentions
<1>3. \A f \in Files : Public(f)' => Public(f) \/ Mentions(s, f)
  <2>1. SUFFICES ASSUME NEW f \in Files, NEW p \in Photos, rows'[p] # NoRow, rows'[p].path = f
                 PROVE  Public(f) \/ Mentions(s, f)
    BY DEF Public
  <2>2. rows'[p] = rows[p] \/ (Writes(s, p) /\ rows'[p] = pend[s][p])
    BY <2>1 DEF Seen, Writes
  <2> QED
    BY <2>1, <2>2 DEF Public, Mentions
<1>4. ent'[s].new = NoFile
  BY <1>1 DEF NoEntity
<1> QED
  BY <1>1, <1>2, <1>3, <1>4, PrivateFrame

LEMMA UploadStep ==
    TypeInv /\ TypeInv' /\ Owned /\ UploadPrivate /\ Uploaded /\ [Next]_vars
        => UploadPrivate' /\ Uploaded'
<1> SUFFICES ASSUME TypeInv, TypeInv', Owned, UploadPrivate, Uploaded, [Next]_vars
             PROVE  UploadPrivate' /\ Uploaded'
  OBVIOUS
<1>t. TypeOK /\ TypeOK' /\ Loaded
  BY DEF TypeInv
\* A step that neither learns of a file nor removes an object.
<1>1. ASSUME NEW s \in Sessions, UNCHANGED <<rows, pend, ent>>,
             \A t \in Sessions \ {s} : bat'[t] = bat[t] /\ pc'[t] = pc[t],
             ent[s].new # NoFile => pc'[s] \notin {"idle", "read", "load", "unlink", "drop", "restore"},
             \A f \in Files : (\E i \in 1..Len(bat'[s].left) : bat'[s].left[i] = f)
                              => Mentions(s, f) \/ Public(f)
      PROVE  UploadPrivate'
  <2>1. \A f \in Files : Mentions(s, f)' => Mentions(s, f) \/ Public(f)
    BY <1>1 DEF Mentions, Writes
  <2>2. \A f \in Files : Public(f)' => Public(f)
    BY <1>1 DEF Public
  <2>3. ent[s].new # NoFile => ent[s].old # ent[s].new
    BY DEF UploadPrivate
  <2> QED
    BY <1>1, <2>1, <2>2, <2>3, PrivateFrame
<1>2. ASSUME NEW s \in Sessions, UNCHANGED <<rows, pend, ent>>, UNCHANGED bat,
             \A t \in Sessions \ {s} : pc'[t] = pc[t],
             ent[s].new # NoFile => pc'[s] \notin {"idle", "read", "load", "unlink", "drop", "restore"}
      PROVE  UploadPrivate'
  BY <1>1, <1>2 DEF Mentions
\* Objects of uploads stay unless the acting session takes away its own.
<1>3. ASSUME NEW s \in Sessions,
             \A t \in Sessions \ {s} : ent'[t].new = ent[t].new /\ pc'[t] = pc[t],
             \A f \in objects : f \in objects' \/ Mentions(s, f),
             pc'[s] \in {"write", "purge", "commit"} /\ ent'[s].new # NoFile
                => ent'[s].new \in objects'
      PROVE  Uploaded'
  <2>1. ASSUME NEW t \in Sessions \ {s}, pc[t] \in {"write", "purge", "commit"}, ent[t].new # NoFile
        PROVE  ent[t].new \in objects'
    <3>1. ent[t].new \in objects /\ ~Mentions(s, ent[t].new)
      BY <2>1 DEF Uploaded, UploadPrivate
    <3> QED
      BY <1>3, <3>1
  <2> QED
    BY <1>3, <2>1 DEF Uploaded
<1>4. ASSUME NEW s \in Sessions, CreatePhoto(s) PROVE UploadPrivate' /\ Uploaded'
  <2>1. PICK p \in Photos \ born, f \in Files \ issued, b \in Bases :
          ent' = [ent EXCEPT ![s] =
                     [row |-> [name |-> Candidates[b][1], path |-> f],
                      attempt |-> 1, old |-> NoFile, new |-> f]]
    BY <1>4 DEF CreatePhoto
  <2>2. /\ pc[s] = "idle" /\ pc'[s] = "save" /\ UNCHANGED <<rows, pend, bat, objects>>
        /\ \A t \in Sessions \ {s} : ent'[t] = ent[t] /\ pc'[t] = pc[t]
        /\ ent'[s].new = f /\ ent'[s].row = [name |-> Candidates[b][1], path |-> f]
        /\ ent'[s].old = NoFile
    BY <1>4, <1>t, <2>1 DEF CreatePhoto, Goto, TypeOK
  <2>3. Candidates[b][1] \in Names
    BY PhotoConstants
  <2>4. ent'[s].row # NoRow /\ ent'[s].row.path = f
    BY <2>2, <2>3, PhotoConstants DEF Row
  <2> QED
    BY <1>3, <2>2, <2>4, PrivateIssue
<1>5. ASSUME NEW s \in Sessions, UpdatePhoto(s) PROVE UploadPrivate' /\ Uploaded'
  <2>1. PICK p \in Photos :
          /\ rows[p] # NoRow
          /\ \/ ent' = [ent EXCEPT ![s].row = rows[p]] /\ Goto(s, "write")
             \/ \E f \in Files \ issued :
                /\ ent' = [ent EXCEPT ![s] =
                             [row |-> [name |-> rows[p].name, path |-> f],
                              attempt |-> 1, old |-> rows[p].path, new |-> f]]
                /\ Goto(s, "save")
    BY <1>5 DEF UpdatePhoto
  <2>2. /\ pc[s] = "idle" /\ UNCHANGED <<rows, pend, bat, objects>>
        /\ ent[s].new = NoFile /\ ent[s].old = NoFile
        /\ rows[p].name \in Names /\ rows[p] \in Row
    BY <1>5, <1>t, <2>1 DEF UpdatePhoto, Loaded, NoEntity, TypeOK, MaybeRow, Row
  <2>3. CASE ent' = [ent EXCEPT ![s].row = rows[p]] /\ Goto(s, "write")
    <3>1. /\ \A t \in Sessions \ {s} : ent'[t] = ent[t] /\ pc'[t] = pc[t]
          /\ ent'[s].new = NoFile /\ ent'[s].old = NoFile /\ ent'[s].row = rows[p]
      BY <1>t, <2>2, <2>3 DEF Goto, TypeOK, Entity
    <3>2. \A f \in Files : Mentions(s, f)' => Mentions(s, f) \/ Public(f)
      BY <2>1, <2>2, <3>1, PhotoConstants DEF Mentions, Writes, Public
    <3>3. \A f \in Files : Public(f)' => Public(f)
      BY <2>2 DEF Public
    <3>4. UploadPrivate'
      BY <2>2, <3>1, <3>2, <3>3, PrivateFrame
    <3> QED
      BY <1>3, <2>2, <3>1, <3>4
  <2>4. ASSUME NEW f \in Files \ issued,
               ent' = [ent EXCEPT ![s] =
                             [row |-> [name |-> rows[p].name, path |-> f],
                              attempt |-> 1, old |-> rows[p].path, new |-> f]],
               Goto(s, "save")
        PROVE  UploadPrivate' /\ Uploaded'
    <3>1. /\ \A t \in Sessions \ {s} : ent'[t] = ent[t] /\ pc'[t] = pc[t]
          /\ ent'[s].new = f /\ ent'[s].row = [name |-> rows[p].name, path |-> f]
          /\ ent'[s].old = rows[p].path /\ pc'[s] = "save"
      BY <1>t, <2>2, <2>4 DEF Goto, TypeOK
    <3>2. ent'[s].row # NoRow /\ ent'[s].row.path = f
      BY <2>2, <3>1, PhotoConstants DEF Row
    <3>3. Public(ent'[s].old)
      BY <2>1, <3>1 DEF Public
    <3> QED
      BY <1>3, <2>2, <3>1, <3>2, <3>3, PrivateIssue
  <2> QED
    BY <2>1, <2>3, <2>4
<1>6. ASSUME NEW s \in Sessions, SaveFile(s) PROVE UploadPrivate' /\ Uploaded'
  <2>1. PICK ok \in BOOLEAN : /\ S3Call(s, objects \cup {ent[s].new}, ok)
                              /\ Goto(s, IF ok THEN "write" ELSE "rollback")
    BY <1>6 DEF SaveFile
  <2>2. /\ UNCHANGED <<rows, pend, ent, bat>>
        /\ pc'[s] = (IF ok THEN "write" ELSE "rollback")
        /\ \A t \in Sessions \ {s} : pc'[t] = pc[t]
        /\ objects \subseteq objects' /\ (ok => ent[s].new \in objects')
    BY <1>6, <1>t, <2>1 DEF SaveFile, Goto, S3Call, TypeOK
  <2> QED
    BY <1>2, <1>3, <2>2
<1>7. ASSUME NEW s \in Sessions, CleanUp(s) PROVE UploadPrivate' /\ Uploaded'
  <2>1. /\ UNCHANGED <<rows, pend, ent, bat>> /\ pc'[s] = "rollback"
        /\ \A t \in Sessions \ {s} : pc'[t] = pc[t]
        /\ objects \ {ent[s].new} \subseteq objects'
    BY <1>7, <1>t DEF CleanUp, Goto, S3Call, TypeOK
  <2> QED
    BY <1>2, <1>3, <2>1 DEF Mentions
<1>8. ASSUME NEW s \in Sessions, WriteFails(s) PROVE UploadPrivate' /\ Uploaded'
  <2>1. /\ UNCHANGED <<rows, pend, ent, bat, objects>> /\ pc'[s] \in {"rollback", "cleanup"}
        /\ \A t \in Sessions \ {s} : pc'[t] = pc[t]
    BY <1>8, <1>t DEF WriteFails, Abandon, Goto, TypeOK
  <2> QED
    BY <1>2, <1>3, <2>1
<1>9. ASSUME NEW s \in Sessions, NameConflict(s) PROVE UploadPrivate' /\ Uploaded'
  <2>1. CASE UNCHANGED ent /\ Abandon(s)
    <3>1. /\ UNCHANGED <<rows, pend, ent, bat, objects>> /\ pc'[s] \in {"rollback", "cleanup"}
          /\ \A t \in Sessions \ {s} : pc'[t] = pc[t]
      BY <1>9, <1>t, <2>1 DEF NameConflict, Abandon, Goto, TypeOK
    <3> QED
      BY <1>2, <1>3, <3>1
  <2>2. CASE ent' = [ent EXCEPT ![s].attempt = @ + 1] /\ UNCHANGED pc
    <3>1. /\ UNCHANGED <<rows, pend, bat, objects, pc>>
          /\ \A t \in Sessions : /\ ent'[t].row = ent[t].row /\ ent'[t].old = ent[t].old
                                 /\ ent'[t].new = ent[t].new
          /\ \A t \in Sessions \ {s} : ent'[t] = ent[t]
      BY <1>9, <1>t, <2>2 DEF NameConflict, TypeOK, Entity
    <3>2. \A f \in Files : Mentions(s, f)' => Mentions(s, f)
      BY <3>1 DEF Mentions, Writes
    <3>3. \A f \in Files : Public(f)' => Public(f)
      BY <3>1 DEF Public
    <3>4. ent[s].new # NoFile =>
            /\ ent[s].old # ent[s].new
            /\ pc[s] \notin {"idle", "read", "load", "unlink", "drop", "restore"}
      BY DEF UploadPrivate
    <3>5. UploadPrivate'
      BY <3>1, <3>2, <3>3, <3>4, PrivateFrame
    <3> QED
      BY <1>3, <3>1, <3>5 DEF Uploaded
  <2> QED
    BY <1>9, <2>1, <2>2 DEF NameConflict
<1>10. ASSUME NEW s \in Sessions, WriteRow(s) PROVE UploadPrivate' /\ Uploaded'
  <2> DEFINE written == [ent[s].row EXCEPT !.name = NameToWrite(s)]
  <2>1. PICK p \in Photos : p = req[s].photo
    BY <1>10, <1>t DEF WriteRow, Loaded
  <2>2. ent[s].row \in Row /\ pc[s] = "write" /\ ent[s].row # NoRow
    BY <1>10, <1>t, PhotoConstants DEF WriteRow, Loaded
  <2>3. written.path = ent[s].row.path
    BY <2>2 DEF Row
  <2> HIDE DEF written
  <2>4. /\ UNCHANGED <<rows, objects, bat>> /\ ent' = [ent EXCEPT ![s].row = written]
        /\ pend' = pend \/ pend' = [pend EXCEPT ![s][p] = written]
        /\ pc'[s] \in {"commit", "purge"}
        /\ \A t \in Sessions \ {s} : pc'[t] = pc[t]
    BY <1>10, <1>t, <2>1 DEF WriteRow, Goto, TypeOK, written
  <2>5. /\ \A t \in Sessions \ {s} : ent'[t] = ent[t] /\ pend'[t] = pend[t]
        /\ ent'[s].row = written /\ ent'[s].old = ent[s].old /\ ent'[s].new = ent[s].new
        /\ \A q \in Photos : pend'[s][q] \in {pend[s][q], written}
    BY <1>t, <2>4 DEF TypeOK, Entity
  <2>6. \A f \in Files : Mentions(s, f)' => Mentions(s, f)
    BY <2>2, <2>3, <2>4, <2>5 DEF Mentions, Writes
  <2>7. \A f \in Files : Public(f)' => Public(f)
    BY <2>4 DEF Public
  <2>8. ent[s].new # NoFile => ent[s].old # ent[s].new /\ ent[s].new \in objects
    BY <2>2 DEF UploadPrivate, Uploaded
  <2>9. UploadPrivate'
    BY <2>4, <2>5, <2>6, <2>7, <2>8, PrivateFrame
  <2> QED
    BY <1>3, <2>4, <2>5, <2>8, <2>9
<1>11. ASSUME NEW s \in Sessions, PurgeOld(s) PROVE UploadPrivate' /\ Uploaded'
  <2>1. PICK ok \in BOOLEAN :
          /\ S3Call(s, objects \ {ent[s].old}, ok)
          /\ Goto(s, IF ok THEN "commit" ELSE "revert")
          /\ ent' = IF ok THEN ent ELSE [ent EXCEPT ![s].row.path = ent[s].old]
    BY <1>11 DEF PurgeOld
  <2>2. ent[s].row \in Row /\ pc[s] = "purge" /\ ent[s].row # NoRow
    BY <1>11, <1>t, PhotoConstants DEF PurgeOld, Loaded
  <2>3. /\ UNCHANGED <<rows, pend, bat>> /\ objects \ {ent[s].old} \subseteq objects'
        /\ pc'[s] \in {"commit", "revert"}
        /\ \A t \in Sessions \ {s} : pc'[t] = pc[t]
    BY <1>11, <1>t, <2>1 DEF PurgeOld, Goto, S3Call, TypeOK
  <2>4. /\ \A t \in Sessions \ {s} : ent'[t] = ent[t]
        /\ ent'[s].old = ent[s].old /\ ent'[s].new = ent[s].new
        /\ ent'[s].row.path \in {ent[s].row.path, ent[s].old}
    BY <1>t, <2>1, <2>2 DEF TypeOK, Entity, Row
  <2>5. \A f \in Files : Mentions(s, f)' => Mentions(s, f)
    BY <2>2, <2>3, <2>4 DEF Mentions, Writes
  <2>6. \A f \in Files : Public(f)' => Public(f)
    BY <2>3 DEF Public
  <2>7. ent[s].new # NoFile => ent[s].old # ent[s].new /\ ent[s].new \in objects
    BY <2>2 DEF UploadPrivate, Uploaded
  <2>8. UploadPrivate'
    BY <2>3, <2>4, <2>5, <2>6, <2>7, PrivateFrame
  <2>9. \A f \in objects : f \in objects' \/ Mentions(s, f)
    BY <2>3 DEF Mentions
  <2> QED
    BY <1>3, <2>3, <2>4, <2>7, <2>8, <2>9
<1>12. ASSUME NEW s \in Sessions, RevertRow(s) PROVE UploadPrivate' /\ Uploaded'
  <2>1. PICK p \in Photos : p = req[s].photo
    BY <1>12, <1>t DEF RevertRow, Loaded
  <2>2. /\ UNCHANGED <<rows, objects, bat, ent>> /\ pc[s] = "revert" /\ pc'[s] = "cleanup"
        /\ pend' = pend \/ pend' = [pend EXCEPT ![s][p] = ent[s].row]
        /\ \A t \in Sessions \ {s} : pc'[t] = pc[t]
        /\ ent[s].row # NoRow
    BY <1>12, <1>t, <2>1, PhotoConstants DEF RevertRow, Goto, Loaded, TypeOK
  <2>3. /\ \A t \in Sessions \ {s} : pend'[t] = pend[t]
        /\ \A q \in Photos : pend'[s][q] \in {pend[s][q], ent[s].row}
    BY <1>t, <2>2 DEF TypeOK
  <2>4. \A f \in Files : Mentions(s, f)' => Mentions(s, f)
    BY <2>2, <2>3 DEF Mentions, Writes
  <2>5. \A f \in Files : Public(f)' => Public(f)
    BY <2>2 DEF Public
  <2>6. ent[s].new # NoFile => ent[s].old # ent[s].new
    BY DEF UploadPrivate
  <2>7. UploadPrivate'
    BY <2>2, <2>3, <2>4, <2>5, <2>6, PrivateFrame
  <2> QED
    BY <1>3, <2>2, <2>7
<1>13. ASSUME NEW s \in Sessions, DeletePhoto(s) \/ BatchDelete(s)
       PROVE  UploadPrivate' /\ Uploaded'
  <2>1. /\ UNCHANGED <<rows, objects, pend, ent>> /\ pc[s] = "idle" /\ pc'[s] \in {"load", "read"}
        /\ \A t \in Sessions \ {s} : pc'[t] = pc[t] /\ bat'[t] = bat[t]
        /\ ent[s].new = NoFile
    <3>1. CASE DeletePhoto(s)
      BY <1>t, <3>1 DEF DeletePhoto, Goto, Loaded, NoEntity, TypeOK
    <3>2. CASE BatchDelete(s)
      <4>1. PICK ids \in BatchLists : bat' = [bat EXCEPT ![s].todo = ids]
        BY <3>2 DEF BatchDelete
      <4>2. /\ UNCHANGED <<rows, objects, pend, ent>> /\ pc[s] = "idle"
            /\ pc' = [pc EXCEPT ![s] = "read"]
        BY <3>2 DEF BatchDelete, Goto
      <4> QED
        BY <1>t, <4>1, <4>2 DEF Loaded, NoEntity, TypeOK
    <3> QED
      BY <1>13, <3>1, <3>2
  <2>2. \A f \in Files : (\E i \in 1..Len(bat'[s].left) : bat'[s].left[i] = f)
                         => Mentions(s, f) \/ Public(f)
    <3>1. CASE DeletePhoto(s)
      <4>1. PICK p \in Photos : rows[p] # NoRow /\ bat'[s].left = <<rows[p].path>>
        BY <1>t, <3>1 DEF DeletePhoto, TypeOK, Batch
      <4> QED
        BY <4>1 DEF Public
    <3>2. CASE BatchDelete(s)
      <4>1. bat'[s].left = bat[s].left
        BY <1>t, <3>2 DEF BatchDelete, TypeOK, Batch
      <4> QED
        BY <4>1 DEF Mentions
    <3> QED
      BY <1>13, <3>1, <3>2
  <2> QED
    BY <1>1, <1>3, <2>1, <2>2
<1>14. ASSUME NEW s \in Sessions, ReadNext(s) PROVE UploadPrivate' /\ Uploaded'
  <2> DEFINE p == Head(bat[s].todo)
  <2>1. /\ UNCHANGED <<rows, objects, pend, ent>> /\ pc[s] = "read"
        /\ pc'[s] \in {"read", "load", "commit"}
        /\ \A t \in Sessions \ {s} : pc'[t] = pc[t] /\ bat'[t] = bat[t]
        /\ bat[s].todo \in Seq(Photos) /\ bat[s].todo # <<>> /\ bat[s].left \in Seq(Files)
    BY <1>14, <1>t DEF ReadNext, Goto, Loaded, TypeOK, Batch
  <2>2. ent[s].new = NoFile
    BY <2>1 DEF UploadPrivate
  <2>3. /\ p \in Photos
        /\ bat'[s].left = IF rows[p] # NoRow THEN Append(bat[s].left, rows[p].path)
                                             ELSE bat[s].left
    <3>1. bat \in [Sessions -> Batch] /\ bat[s] \in Batch
      BY <1>t DEF TypeOK
    <3>2. bat'[s].left = IF rows[p] # NoRow THEN Append(bat[s].left, rows[p].path)
                                            ELSE bat[s].left
      BY <1>14, <3>1 DEF ReadNext, Batch
    <3> QED
      BY <2>1, <3>2
  <2> HIDE DEF p
  <2>4. rows[p] # NoRow => rows[p].path \in Files
    BY <1>t, <2>3 DEF TypeOK, MaybeRow, Row
  <2>5. \A f \in Files : (\E i \in 1..Len(bat'[s].left) : bat'[s].left[i] = f)
                         => Mentions(s, f) \/ Public(f)
    <3>1. CASE rows[p] = NoRow
      BY <2>3, <3>1 DEF Mentions
    <3>2. CASE rows[p] # NoRow
      <4>1. \A i \in 1..Len(bat'[s].left) :
              \/ i \in 1..Len(bat[s].left) /\ bat'[s].left[i] = bat[s].left[i]
              \/ bat'[s].left[i] = rows[p].path
        BY <2>1, <2>3, <2>4, <3>2
      <4> QED
        BY <2>3, <3>2, <4>1 DEF Mentions, Public
    <3> QED
      BY <3>1, <3>2
  <2> QED
    BY <1>1, <1>3, <2>1, <2>2, <2>5
<1>15. ASSUME NEW s \in Sessions, LoadFile(s) \/ DropRows(s) PROVE UploadPrivate' /\ Uploaded'
  <2>1. /\ UNCHANGED <<rows, objects, ent, bat>> /\ pc[s] \in {"load", "drop"}
        /\ \A t \in Sessions \ {s} : pc'[t] = pc[t] /\ pend'[t] = pend[t]
        /\ \A p \in Photos : pend'[s][p] \in {pend[s][p], NoRow}
    BY <1>15, <1>t DEF LoadFile, DropRows, Goto, TypeOK
  <2>2. ent[s].new = NoFile
    BY <2>1 DEF UploadPrivate
  <2>3. \A f \in Files : Mentions(s, f)' => Mentions(s, f)
    BY <2>1 DEF Mentions, Writes
  <2>4. \A f \in Files : Public(f)' => Public(f)
    BY <2>1 DEF Public
  <2>5. UploadPrivate'
    BY <2>1, <2>2, <2>3, <2>4, PrivateFrame
  <2> QED
    BY <1>3, <2>1, <2>2, <2>5
<1>16. ASSUME NEW s \in Sessions, UnlinkFile(s) PROVE UploadPrivate' /\ Uploaded'
  <2>1. /\ UNCHANGED <<rows, pend, ent>> /\ pc[s] = "unlink"
        /\ \A t \in Sessions \ {s} : pc'[t] = pc[t] /\ bat'[t] = bat[t]
        /\ bat[s].left \in Seq(Files) /\ bat[s].left # <<>>
        /\ objects \ {Head(bat[s].left)} \subseteq objects'
    BY <1>16, <1>t DEF UnlinkFile, S3Call, Goto, Loaded, TypeOK, Batch
  <2>2. ent[s].new = NoFile
    BY <2>1 DEF UploadPrivate
  <2>3. bat'[s].left \in {bat[s].left, Tail(bat[s].left)}
    BY <1>16, <1>t, <2>1 DEF UnlinkFile, TypeOK, Batch
  <2>4. \A i \in 1..Len(Tail(bat[s].left)) :
          i + 1 \in 1..Len(bat[s].left) /\ Tail(bat[s].left)[i] = bat[s].left[i + 1]
    BY <2>1
  <2>5. \A f \in Files : (\E i \in 1..Len(bat'[s].left) : bat'[s].left[i] = f)
                         => Mentions(s, f) \/ Public(f)
    BY <2>3, <2>4 DEF Mentions
  <2>6. Head(bat[s].left) = bat[s].left[1] /\ 1 \in 1..Len(bat[s].left)
    BY <2>1
  <2>7. \A f \in objects : f \in objects' \/ Mentions(s, f)
    BY <2>1, <2>6 DEF Mentions
  <2> QED
    BY <1>1, <1>3, <2>1, <2>2, <2>5, <2>7
<1>17. ASSUME NEW s \in Sessions, RestoreFile(s) PROVE UploadPrivate' /\ Uploaded'
  <2>1. /\ UNCHANGED <<rows, pend, ent, pc>> /\ pc[s] = "restore" /\ objects \subseteq objects'
        /\ \A t \in Sessions \ {s} : bat'[t] = bat[t]
        /\ bat'[s].left = bat[s].left
    BY <1>17, <1>t DEF RestoreFile, S3Call, TypeOK, Batch
  <2>2. ent[s].new = NoFile
    BY <2>1 DEF UploadPrivate
  <2>3. UploadPrivate'
    BY <1>1, <2>1, <2>2 DEF Mentions
  <2> QED
    BY <1>3, <2>1, <2>2, <2>3
<1>18. ASSUME NEW s \in Sessions, Commit(s) \/ Rollback(s) \/ Crash(s)
       PROVE  UploadPrivate' /\ Uploaded'
  <2>1. /\ EndSession(s) /\ (rows' = rows \/ rows' = [p \in Photos |-> Seen(s, p)])
    BY <1>18 DEF Commit, Rollback, Crash
  <2>2. /\ UNCHANGED objects /\ pc'[s] = "idle"
        /\ \A t \in Sessions \ {s} : ent'[t] = ent[t] /\ pc'[t] = pc[t]
    BY <1>t, <2>1 DEF EndSession, Goto, TypeOK
  <2> QED
    BY <1>3, <2>1, <2>2, PrivateEnd
<1>19. CASE UNCHANGED vars
  BY <1>19 DEF vars, UploadPrivate, Uploaded, Mentions, Public, Writes
<1> QED
  BY <1>4, <1>5, <1>6, <1>7, <1>8, <1>9, <1>10, <1>11, <1>12, <1>13, <1>14, <1>15,
     <1>16, <1>17, <1>18, <1>19 DEF Next, Progress

\* A file that becomes visible with a commit is in the bucket, whatever else
\* goes on and fails: PhotoService uploads before it writes the row, and no
\* other request can have learnt of the key.
THEOREM UploadedBeforePublished == Spec => PublishedIsStored
<1>1. Init => UploadPrivate /\ Uploaded
  BY DEF Init, NoEntity, UploadPrivate, Uploaded
<1>2. TypeInv /\ Owned /\ UploadPrivate /\ Uploaded /\ [Next]_vars /\ (TypeInv /\ Owned)'
        => (UploadPrivate /\ Uploaded)'
  BY UploadStep
<1>3. ASSUME TypeInv, UploadPrivate, Uploaded, [Next]_vars,
             NEW p \in Photos, rows'[p] # rows[p], rows'[p] # NoRow,
             NEW s \in Sessions, ent[s].new = rows'[p].path
      PROVE  rows'[p].path \in objects'
  <2>1. PICK t \in Sessions : Commit(t)
    <3>1. ASSUME NEW t \in Sessions,
                 \/ CreatePhoto(t) \/ UpdatePhoto(t) \/ DeletePhoto(t)
                 \/ SaveFile(t) \/ WriteRow(t) \/ NameConflict(t) \/ WriteFails(t) \/ CleanUp(t)
                 \/ PurgeOld(t) \/ RevertRow(t) \/ ReadNext(t) \/ LoadFile(t) \/ UnlinkFile(t)
                 \/ DropRows(t) \/ RestoreFile(t) \/ Rollback(t) \/ Crash(t)
          PROVE  UNCHANGED rows
      BY <3>1 DEF CreatePhoto, UpdatePhoto, DeletePhoto, SaveFile, WriteRow, NameConflict,
         WriteFails, CleanUp, PurgeOld, RevertRow, ReadNext, LoadFile, UnlinkFile, DropRows,
         RestoreFile, Rollback, Crash
    <3>2. ASSUME NEW t \in Sessions, BatchDelete(t) PROVE UNCHANGED rows
      BY <3>2 DEF BatchDelete
    <3>3. ~UNCHANGED vars
      BY <1>3 DEF vars
    <3> QED
      BY <1>3, <3>1, <3>2, <3>3 DEF Next, Progress
  <2>2. Writes(t, p) /\ rows'[p] = pend[t][p] /\ pc[t] = "commit" /\ UNCHANGED objects
    BY <1>3, <2>1 DEF Commit, EndSession, Seen, Writes
  <2>3. Mentions(t, ent[s].new)
    BY <1>3, <2>2 DEF Mentions
  <2>4. ent[s].new # NoFile
    BY <1>3, <2>2, PhotoConstants DEF TypeInv, TypeOK, Writes, MaybeRow, Row
  <2>5. s = t
    BY <1>3, <2>3, <2>4 DEF UploadPrivate
  <2> QED
    BY <1>3, <2>2, <2>4, <2>5 DEF Uploaded
<1>4. TypeInv /\ UploadPrivate /\ Uploaded /\ [Next]_vars =>
        [\A p \in Photos :
            /\ rows'[p] # rows[p] /\ rows'[p] # NoRow
            /\ \E s \in Sessions : ent[s].new = rows'[p].path
            => rows'[p].path \in objects']_vars
  BY <1>3
<1> QED
  BY <1>1, <1>2, <1>4, OwnInvariant, PTL DEF Spec, PublishedIsStored

(***************************************************************************)
(* PhotoService's compensations work: in a mild environment, where at most *)
(* one call to the bucket or one statement of a request fails, rows and    *)
(* bucket agree again when the request is over, for every number of        *)
(* concurrent requests on different photos.                                *)
(***************************************************************************)

MildEnvironment == mild /\ MaxFaults <= 1

There(p) == rows[p] # NoRow

\* The files of the photos a request works on, and its upload.
PathsOf(s) == {rows[p].path : p \in {q \in req[s].ids : There(q)}}

OwnFiles(s) == PathsOf(s) \cup ({ent[s].new} \ {NoFile})

Apart == \A s, t \in Sessions : s # t => req[s].ids \cap req[t].ids = {}

Changing == {"save", "write", "purge", "revert", "cleanup"}

\* The path an update or create leaves in the row.
PathToWrite(s) == IF ent[s].new = NoFile THEN rows[req[s].photo].path ELSE ent[s].new

\* An update that leaves the name as it is.
KeepsName(s) == req[s].op = "update" /\ req[s].base = NoBase

\* A failed create or update has left the old file where it was and takes its
\* upload away; one that succeeds has its file stored and the old one removed.
Updating(s) ==
    /\ pc[s] \in {"revert", "cleanup", "restore"} => faults[s] >= 1
    /\ pc[s] \in Changing \cup {"read", "rollback"} => PathsOf(s) \subseteq objects
    /\ pc[s] \in {"save", "rollback"} => ent[s].new \notin objects
    /\ pc[s] \in Changing \/ (pc[s] = "commit" /\ req[s].op # "delete") =>
        /\ req[s].ids = {req[s].photo} /\ req[s].photo \in Photos
        /\ \/ req[s].op = "create" /\ ~There(req[s].photo) /\ ent[s].old = NoFile
              /\ ent[s].new # NoFile
           \/ req[s].op = "update" /\ There(req[s].photo)
              /\ ent[s].old = (IF ent[s].new = NoFile THEN NoFile ELSE rows[req[s].photo].path)
    /\ pc[s] \in {"save", "write"} =>
        /\ ent[s].row.path = PathToWrite(s)
        /\ KeepsName(s) => ent[s].row.name = rows[req[s].photo].name
    /\ pc[s] = "purge" \/ (pc[s] = "commit" /\ req[s].op # "delete") =>
        /\ Writes(s, req[s].photo) /\ pend[s][req[s].photo].path = PathToWrite(s)
        /\ KeepsName(s) => pend[s][req[s].photo].name = rows[req[s].photo].name
    /\ pc[s] = "commit" /\ req[s].op # "delete" =>
        ent[s].old \notin objects /\ PathToWrite(s) \in objects

\* What a delete has removed it can put back: files are in the bucket or among
\* those it holds, until it drops the rows of all of them.
Deleting(s) ==
    \/ pc[s] \in {"read", "load", "unlink", "drop", "restore"}
    \/ pc[s] = "commit" /\ req[s].op = "delete"
    =>  /\ req[s].op = "delete" /\ ent[s].new = NoFile
        /\ bat[s].gone \subseteq PathsOf(s) /\ PathsOf(s) \subseteq objects \cup bat[s].gone
        /\ bat[s].gone \cap objects = {}
        /\ \A i \in 1..Len(bat[s].left) : bat[s].left[i] \in PathsOf(s)
        /\ pc[s] = "read" =>
            /\ bat[s].gone = {}
            /\ \A i \in 1..Len(bat[s].todo) : bat[s].todo[i] \in req[s].ids
            /\ \A p \in req[s].ids : There(p) =>
                  p \in bat[s].doomed \/ \E i \in 1..Len(bat[s].todo) : bat[s].todo[i] = p
        /\ pc[s] \in {"read", "load", "unlink"} =>
            \A p \in bat[s].doomed : There(p) =>
                \/ rows[p].path \in bat[s].gone
                \/ \E i \in 1..Len(bat[s].left) : bat[s].left[i] = rows[p].path
        /\ bat[s].doomed \subseteq req[s].ids
        /\ pc[s] \in {"load", "unlink", "drop"} =>
            \A p \in req[s].ids : There(p) => p \in bat[s].doomed
        /\ pc[s] = "drop" => PathsOf(s) \subseteq bat[s].gone
        /\ pc[s] = "commit" =>
            PathsOf(s) \subseteq bat[s].gone /\ \A p \in req[s].ids : Seen(s, p) = NoRow

Busy(s) ==
    /\ \A p \in Photos : pend[s][p] # Keep => p \in req[s].ids
    /\ Updating(s) /\ Deleting(s)

\* The inductive invariant of a worker whose requests for one photo do not
\* meet, and in which at most one step of a request fails.
Kept == Apart /\ StoredWhenIdle /\ NoOrphans /\ \A s \in Sessions : Busy(s)

Ground == TypeInv /\ Owned /\ NameInv /\ UploadPrivate /\ Uploaded

LEMMA FileFacts ==
    ASSUME Ground
    PROVE  /\ \A p \in Photos : There(p) => rows[p] \in Row /\ rows[p].path \in Files /\ rows[p].path # NoFile
           /\ \A s \in Sessions : PathsOf(s) \subseteq Files /\ NoFile \notin objects
           /\ \A p, q \in Photos : p # q /\ There(p) /\ There(q) => rows[p].path # rows[q].path
<1>t. TypeOK
  BY DEF Ground, TypeInv
<1>1. \A p \in Photos : There(p) => rows[p] \in Row /\ rows[p].path \in Files /\ rows[p].path # NoFile
  BY <1>t, PhotoConstants DEF TypeOK, MaybeRow, Row, There
<1>2. \A s \in Sessions : req[s].ids \subseteq Photos
  BY <1>t DEF TypeOK, Request
<1>3. \A s \in Sessions : PathsOf(s) \subseteq Files
  BY <1>1, <1>2 DEF PathsOf
<1>4. NoFile \notin objects
  BY <1>t, PhotoConstants DEF TypeOK
<1>5. \A p, q \in Photos : p # q /\ There(p) /\ There(q) => rows[p].path # rows[q].path
  BY DEF Ground, Owned, OwnedBy, RowsOwned, Belongs, There
<1> QED
  BY <1>1, <1>3, <1>4, <1>5

\* Requests that are kept apart have no file in common.
LEMMA OwnFilesApart ==
    ASSUME Ground, Apart, NEW s \in Sessions, NEW t \in Sessions, s # t
    PROVE  OwnFiles(s) \cap OwnFiles(t) = {}
<1>t. TypeOK
  BY DEF Ground, TypeInv
<1>1. \A r \in Sessions : req[r].ids \subseteq Photos
  BY <1>t DEF TypeOK, Request
<1>2. PathsOf(s) \cap PathsOf(t) = {}
  BY <1>1, FileFacts DEF PathsOf, Apart
<1>3. \A r \in Sessions, u \in Sessions : ent[r].new # NoFile => ent[r].new \notin PathsOf(u)
  BY <1>1 DEF Ground, UploadPrivate, Public, PathsOf, There
<1>4. ent[s].new # NoFile => ent[s].new # ent[t].new
  BY DEF Ground, UploadPrivate, Mentions
<1> QED
  BY <1>2, <1>3, <1>4 DEF OwnFiles

\* A request another one does not touch is where it was.
LEMMA BusyFrame ==
    ASSUME Ground, NEW t \in Sessions, Busy(t),
           req'[t] = req[t], ent'[t] = ent[t], bat'[t] = bat[t], pend'[t] = pend[t],
           pc'[t] = pc[t], faults'[t] = faults[t], objects' \subseteq Files,
           \A p \in req[t].ids : rows'[p] = rows[p],
           \A f \in OwnFiles(t) : f \in objects' <=> f \in objects
    PROVE  Busy(t)'
<1>1. PathsOf(t)' = PathsOf(t)
  BY DEF PathsOf, There
<1>2. PathsOf(t) \subseteq OwnFiles(t) /\ NoFile \notin objects /\ NoFile \notin objects'
  BY FileFacts, PhotoConstants DEF OwnFiles
<1>3. \A p \in req[t].ids : There(p)' = There(p) /\ Seen(t, p)' = Seen(t, p)
  BY DEF There, Seen
<1>4. Updating(t)'
  <2>1. pc[t] \in Changing \cup {"read", "rollback"} => PathsOf(t) \subseteq objects'
    BY <1>2 DEF Busy, Updating
  <2>2. pc[t] \in {"save", "rollback"} => ent[t].new \notin objects'
    BY <1>2 DEF Busy, Updating, OwnFiles
  <2>3. ASSUME pc[t] \in Changing \/ (pc[t] = "commit" /\ req[t].op # "delete")
        PROVE  /\ req[t].photo \in req[t].ids /\ rows'[req[t].photo] = rows[req[t].photo]
               /\ There(req[t].photo)' = There(req[t].photo) /\ PathToWrite(t)' = PathToWrite(t)
               /\ ent[t].old \in OwnFiles(t) \cup {NoFile}
    <3>1. req[t].photo \in req[t].ids
      BY <2>3 DEF Busy, Updating
    <3>2. There(req[t].photo) => rows[req[t].photo].path \in PathsOf(t)
      BY <3>1 DEF PathsOf
    <3>3. ent[t].old \in OwnFiles(t) \cup {NoFile}
      BY <1>2, <2>3, <3>2 DEF Busy, Updating
    <3> QED
      BY <1>3, <3>1, <3>3 DEF PathToWrite, There
  <2>4. pc[t] = "commit" /\ req[t].op # "delete" =>
          ent[t].old \notin objects' /\ PathToWrite(t) \in objects'
    <3>1. SUFFICES ASSUME pc[t] = "commit", req[t].op # "delete"
                   PROVE  ent[t].old \notin objects' /\ PathToWrite(t) \in objects'
      OBVIOUS
    <3>2. ent[t].old \notin objects /\ PathToWrite(t) \in objects
      BY <3>1 DEF Busy, Updating
    <3>3. PathToWrite(t) \in OwnFiles(t)
      <4>1. CASE ent[t].new # NoFile
        BY <4>1 DEF PathToWrite, OwnFiles
      <4>2. CASE ent[t].new = NoFile
        BY <1>2, <2>3, <3>1, <4>2 DEF PathToWrite, PathsOf, Busy, Updating
      <4> QED
        BY <4>1, <4>2
    <3> QED
      BY <1>2, <2>3, <3>1, <3>2, <3>3
  <2> QED
    BY <1>1, <2>1, <2>2, <2>3, <2>4 DEF Busy, Updating, Writes, Changing, There, PathToWrite, KeepsName
<1>5. Deleting(t)'
  <2>1. PathsOf(t) \cap objects' = PathsOf(t) \cap objects
    BY <1>2
  <2>2. SUFFICES ASSUME \/ pc[t] \in {"read", "load", "unlink", "drop", "restore"}
                        \/ pc[t] = "commit" /\ req[t].op = "delete"
                 PROVE  Deleting(t)'
    BY DEF Deleting
  <2>3. /\ bat[t].gone \subseteq PathsOf(t) /\ PathsOf(t) \subseteq objects \cup bat[t].gone
        /\ bat[t].gone \cap objects = {} /\ bat[t].doomed \subseteq req[t].ids
    BY <2>2 DEF Busy, Deleting
  <2>4. /\ PathsOf(t) \subseteq objects' \cup bat[t].gone
        /\ bat[t].gone \cap objects' = {}
    BY <2>1, <2>3
  <2> QED
    BY <1>1, <1>3, <2>2, <2>3, <2>4 DEF Busy, Deleting, There
<1> QED
  BY <1>4, <1>5 DEF Busy

\* A step of one request that touches no file of another, keeps its own
\* business in order, and leaves neither a gap nor an orphan behind.
LEMMA KeptFrame ==
    ASSUME Ground, TypeInv', Kept, NEW s \in Sessions,
           \A t \in Sessions \ {s} :
               /\ req'[t] = req[t] /\ ent'[t] = ent[t] /\ bat'[t] = bat[t]
               /\ pend'[t] = pend[t] /\ pc'[t] = pc[t] /\ faults'[t] = faults[t],
           \A p \in Photos \ req[s].ids : rows'[p] = rows[p],
           \A f \in Files \ OwnFiles(s) : f \in objects' <=> f \in objects,
           Apart', Busy(s)',
           \A p \in req[s].ids \ req'[s].ids : There(p)' => rows'[p].path \in objects',
           \A f \in OwnFiles(s) : f \in objects' => Public(f)' \/ f = ent'[s].new
    PROVE  Kept'
<1>t. TypeOK /\ TypeOK'
  BY DEF Ground, TypeInv
<1>k. Apart /\ StoredWhenIdle /\ NoOrphans /\ \A t \in Sessions : Busy(t)
  BY DEF Kept
<1>i. \A t \in Sessions : req[t].ids \subseteq Photos
  BY <1>t DEF TypeOK, Request
<1>o. objects' \subseteq Files /\ objects \subseteq Files
  BY <1>t DEF TypeOK
<1>1. ASSUME NEW t \in Sessions \ {s} PROVE Busy(t)'
  <2>1. \A p \in req[t].ids : rows'[p] = rows[p]
    BY <1>k, <1>i DEF Apart
  <2>2. OwnFiles(t) \subseteq Files
    BY <1>t, FileFacts DEF OwnFiles, TypeOK, Entity
  <2>3. \A f \in OwnFiles(t) : f \in objects' <=> f \in objects
    BY <1>k, <2>2, OwnFilesApart
  <2> QED
    BY <1>k, <1>o, <2>1, <2>3, BusyFrame
<1>2. StoredWhenIdle'
  <2>1. SUFFICES ASSUME NEW p \in Photos, There(p)', \A t \in Sessions : p \notin req'[t].ids
                 PROVE  rows'[p].path \in objects'
    BY DEF StoredWhenIdle, There
  <2>2. CASE p \in req[s].ids
    BY <2>1, <2>2
  <2>3. CASE p \notin req[s].ids
    <3>1. rows'[p] = rows[p] /\ There(p) /\ \A t \in Sessions : p \notin req[t].ids
      BY <2>1, <2>3 DEF There
    <3>2. rows[p].path \in objects
      BY <1>k, <3>1 DEF StoredWhenIdle, There
    <3>3. rows[p].path \notin PathsOf(s)
      BY <1>i, <2>3, <3>1, FileFacts DEF PathsOf
    <3>4. ent[s].new # NoFile => rows[p].path # ent[s].new
      BY <3>1 DEF Ground, UploadPrivate, Public, There
    <3> QED
      BY <1>o, <3>1, <3>2, <3>3, <3>4 DEF OwnFiles
  <2> QED
    BY <2>2, <2>3
<1>3. NoOrphans'
  <2>1. SUFFICES ASSUME NEW f \in objects'
                 PROVE  f \in Referenced' \/ \E t \in Sessions : ent'[t].new = f
    BY DEF NoOrphans
  <2>2. CASE f \in OwnFiles(s)
    BY <2>2 DEF Public, Referenced
  <2>3. CASE f \notin OwnFiles(s)
    <3>1. f \in objects /\ f # NoFile
      BY <1>o, <2>3, PhotoConstants
    <3>2. CASE f \in Referenced
      <4>1. PICK p \in Photos : rows[p] # NoRow /\ rows[p].path = f
        BY <3>2 DEF Referenced
      <4>2. p \notin req[s].ids
        BY <2>3, <4>1 DEF OwnFiles, PathsOf, There
      <4> QED
        BY <4>1, <4>2 DEF Referenced
    <3>3. CASE \E t \in Sessions : ent[t].new = f
      <4>1. PICK t \in Sessions : ent[t].new = f
        BY <3>3
      <4>2. t # s
        BY <2>3, <3>1, <4>1 DEF OwnFiles
      <4> QED
        BY <4>1, <4>2
    <3> QED
      BY <1>k, <3>1, <3>2, <3>3 DEF NoOrphans
  <2> QED
    BY <2>2, <2>3
<1> QED
  BY <1>1, <1>2, <1>3 DEF Kept

\* A step in the middle of a request.
LEMMA KeptInside ==
    ASSUME Ground, TypeInv', Kept, NEW s \in Sessions, UNCHANGED <<rows, req>>,
           ent'[s].new = ent[s].new,
           \A t \in Sessions \ {s} :
               /\ ent'[t] = ent[t] /\ bat'[t] = bat[t]
               /\ pend'[t] = pend[t] /\ pc'[t] = pc[t] /\ faults'[t] = faults[t],
           \A f \in Files \ OwnFiles(s) : f \in objects' <=> f \in objects,
           Busy(s)'
    PROVE  Kept'
<1>1. Apart'
  BY DEF Kept, Apart
<1>2. req[s].ids \subseteq Photos
  BY DEF Ground, TypeInv, TypeOK, Request
<1>3. \A f \in OwnFiles(s) : Public(f)' \/ f = ent'[s].new
  BY <1>2 DEF OwnFiles, PathsOf, Public, There
<1> QED
  BY <1>1, <1>3, KeptFrame

\* Nothing fails twice in a request, and no answer of the bucket is lost.
LEMMA MildCall ==
    ASSUME MildEnvironment, TypeOK, NEW s \in Sessions, NEW effect, NEW ok \in BOOLEAN,
           S3Call(s, effect, ok)
    PROVE  /\ ok => objects' = effect /\ faults' = faults
           /\ ~ok => /\ objects' = objects /\ faults[s] = 0
                     /\ faults' = [faults EXCEPT ![s] = 1]
<1>1. faults[s] \in Nat /\ MaxFaults \in Nat /\ MaxFaults <= 1
  BY PhotoConstants DEF TypeOK, MildEnvironment
<1>2. CASE ok
  BY <1>2 DEF S3Call
<1>3. CASE ~ok
  <2>1. MayFail(s, "s3") /\ objects' = objects /\ faults' = [faults EXCEPT ![s] = @ + 1]
    BY <1>3 DEF S3Call, MayFail, Kinds, Fault, MildEnvironment
  <2>2. faults[s] = 0
    BY <1>1, <2>1 DEF MayFail
  <2> QED
    BY <1>3, <2>1, <2>2
<1> QED
  BY <1>2, <1>3

LEMMA KeptStep ==
    ASSUME MildEnvironment, Ground, Ground', Kept, [Next]_vars
    PROVE  Kept'
<1>t. TypeOK /\ TypeOK' /\ Loaded /\ TypeInv'
  BY DEF Ground, TypeInv
<1>k. Apart /\ StoredWhenIdle /\ NoOrphans /\ \A t \in Sessions : Busy(t)
  BY DEF Kept
<1>g. Phases /\ UploadPrivate /\ Uploaded
  BY DEF Ground, NameInv
<1>e. MaxFaults <= 1 /\ mild /\ {"s3lost", "commit", "crash"} \cap Kinds = {}
  BY DEF MildEnvironment, Kinds
<1>n. \A f \in objects : f \in issued
  <2>1. ASSUME NEW f \in objects PROVE f \in issued
    <3>1. f \in Files /\ (f \in Referenced \/ \E t \in Sessions : ent[t].new = f)
      BY <1>k, <1>t DEF NoOrphans, TypeOK
    <3> QED
      BY <3>1, MentionIssued DEF Ground, Public, Mentions, Referenced
  <2> QED
    BY <2>1
\* The first step of a request for the photos named.
<1>1. ASSUME NEW s \in Sessions, NEW named \in SUBSET Photos, pc[s] = "idle", Admitted(s, named),
             UNCHANGED <<rows, objects, pend, faults>>, req'[s].ids = named,
             \A t \in Sessions \ {s} :
               req'[t] = req[t] /\ ent'[t] = ent[t] /\ bat'[t] = bat[t] /\ pc'[t] = pc[t],
             Updating(s)', Deleting(s)'
      PROVE  Kept'
  <2>1. /\ req[s].ids = {} /\ ent[s].new = NoFile
        /\ \A p \in Photos : pend[s][p] = Keep
    BY <1>1, <1>t, <1>g DEF Loaded, NoRequest, NoEntity, Phases
  <2>2. OwnFiles(s) = {}
    BY <2>1 DEF OwnFiles, PathsOf
  <2>3. Apart'
    BY <1>1, <1>e, <1>k DEF Admitted, Apart
  <2>4. Busy(s)'
    BY <1>1, <2>1 DEF Busy
  <2> QED
    BY <1>1, <1>t, <2>1, <2>2, <2>3, <2>4, KeptFrame
<1>2. ASSUME NEW s \in Sessions, CreatePhoto(s) PROVE Kept'
  <2>1. PICK p \in Photos \ born, f \in Files \ issued, b \in Bases :
          /\ Admitted(s, {p})
          /\ req' = [req EXCEPT ![s] =
                     [op |-> "create", ids |-> {p}, photo |-> p, base |-> b]]
          /\ ent' = [ent EXCEPT ![s] =
                     [row |-> [name |-> Candidates[b][1], path |-> f],
                      attempt |-> 1, old |-> NoFile, new |-> f]]
    BY <1>2 DEF CreatePhoto
  <2>2. /\ pc[s] = "idle" /\ pc'[s] = "save" /\ UNCHANGED <<rows, objects, pend, bat, faults>>
        /\ \A t \in Sessions \ {s} : req'[t] = req[t] /\ ent'[t] = ent[t] /\ pc'[t] = pc[t]
        /\ req'[s] = [op |-> "create", ids |-> {p}, photo |-> p, base |-> b]
        /\ ent'[s] = [row |-> [name |-> Candidates[b][1], path |-> f],
                      attempt |-> 1, old |-> NoFile, new |-> f]
    BY <1>2, <1>t, <2>1 DEF CreatePhoto, Goto, TypeOK
  <2>3. ~There(p) /\ f \notin objects /\ f # NoFile
    BY <1>n, <2>1, PhotoConstants DEF Ground, NameInv, Known, There
  <2>4. PathsOf(s)' = {} /\ PathToWrite(s)' = f
    BY <2>2, <2>3 DEF PathsOf, There, PathToWrite
  <2>5. Updating(s)'
    BY <2>2, <2>3, <2>4 DEF Updating, Changing, There, KeepsName
  <2>6. Deleting(s)'
    BY <2>2 DEF Deleting
  <2> QED
    BY <1>1, <2>1, <2>2, <2>5, <2>6
<1>3. ASSUME NEW s \in Sessions, UpdatePhoto(s) PROVE Kept'
  <2>1. PICK p \in Photos, b \in Bases \cup {NoBase} :
          /\ rows[p] # NoRow
          /\ Admitted(s, {p})
          /\ req' = [req EXCEPT ![s] =
                       [op |-> "update", ids |-> {p}, photo |-> p, base |-> b]]
          /\ \/ ent' = [ent EXCEPT ![s].row = rows[p]] /\ Goto(s, "write")
             \/ \E f \in Files \ issued :
                /\ ent' = [ent EXCEPT ![s] =
                             [row |-> [name |-> rows[p].name, path |-> f],
                              attempt |-> 1, old |-> rows[p].path, new |-> f]]
                /\ Goto(s, "save")
    BY <1>3 DEF UpdatePhoto
  <2>2. /\ pc[s] = "idle" /\ UNCHANGED <<rows, objects, pend, bat, faults>>
        /\ \A t \in Sessions \ {s} : req'[t] = req[t] /\ ent'[t] = ent[t] /\ pc'[t] = pc[t]
        /\ req'[s] = [op |-> "update", ids |-> {p}, photo |-> p, base |-> b]
        /\ pc'[s] \in {"save", "write"}
        /\ ent[s].new = NoFile /\ ent[s].old = NoFile
    <3>1. /\ pc[s] = "idle" /\ UNCHANGED <<rows, objects, pend, bat, faults>>
          /\ ent[s].new = NoFile /\ ent[s].old = NoFile
      BY <1>3, <1>t DEF UpdatePhoto, Loaded, NoEntity
    <3>2. /\ \A t \in Sessions \ {s} : ent'[t] = ent[t] /\ pc'[t] = pc[t]
          /\ pc'[s] \in {"save", "write"}
      BY <1>t, <2>1 DEF Goto, TypeOK
    <3> QED
      BY <1>t, <2>1, <3>1, <3>2 DEF TypeOK
  <2>3. \A t \in Sessions : p \notin req[t].ids
    BY <1>e, <1>t, <2>1, <2>2 DEF Admitted, Loaded, NoRequest
  <2>4. There(p) /\ rows[p].path \in objects /\ rows[p].path # NoFile
    BY <1>k, <2>1, <2>3, FileFacts DEF StoredWhenIdle, There
  <2>5. PathsOf(s)' = {rows[p].path}
    BY <2>2, <2>4 DEF PathsOf, There
  <2>6. Deleting(s)'
    BY <2>2 DEF Deleting
  <2>7. /\ ent'[s].old = (IF ent'[s].new = NoFile THEN NoFile ELSE rows[p].path)
        /\ ent'[s].row.path = (IF ent'[s].new = NoFile THEN rows[p].path ELSE ent'[s].new)
        /\ ent'[s].row.name = rows[p].name
        /\ pc'[s] = "save" => ent'[s].new \notin objects
    <3>1. CASE ent' = [ent EXCEPT ![s].row = rows[p]] /\ Goto(s, "write")
      <4>1. ent'[s].old = NoFile /\ ent'[s].new = NoFile /\ ent'[s].row = rows[p] /\ pc'[s] = "write"
        BY <1>t, <2>2, <3>1 DEF TypeOK, Entity, Goto
      <4> QED
        BY <4>1
    <3>2. CASE \E f \in Files \ issued :
                ent' = [ent EXCEPT ![s] =
                             [row |-> [name |-> rows[p].name, path |-> f],
                              attempt |-> 1, old |-> rows[p].path, new |-> f]]
      <4>1. PICK f \in Files \ issued :
              ent'[s] = [row |-> [name |-> rows[p].name, path |-> f],
                              attempt |-> 1, old |-> rows[p].path, new |-> f]
        BY <1>t, <3>2 DEF TypeOK
      <4> QED
        BY <1>n, <4>1, PhotoConstants
    <3> QED
      BY <2>1, <3>1, <3>2
  <2>8. Updating(s)'
    BY <2>2, <2>4, <2>5, <2>7 DEF Updating, Changing, There, PathToWrite, KeepsName
  <2> QED
    BY <1>1, <2>1, <2>2, <2>6, <2>8
<1>4. ASSUME NEW s \in Sessions, DeletePhoto(s) PROVE Kept'
  <2>1. PICK p \in Photos :
          /\ rows[p] # NoRow
          /\ Admitted(s, {p})
          /\ req' = [req EXCEPT ![s].op = "delete", ![s].ids = {p}]
          /\ bat' = [bat EXCEPT ![s].doomed = {p}, ![s].left = <<rows[p].path>>]
    BY <1>4 DEF DeletePhoto
  <2>2. /\ pc[s] = "idle" /\ pc'[s] = "load" /\ UNCHANGED <<rows, objects, pend, ent, faults>>
        /\ \A t \in Sessions \ {s} : req'[t] = req[t] /\ bat'[t] = bat[t] /\ pc'[t] = pc[t]
        /\ ent[s].new = NoFile /\ bat[s] = NoBatch
    BY <1>4, <1>t, <2>1 DEF DeletePhoto, Goto, Loaded, NoEntity, TypeOK
  <2>3. req'[s].op = "delete" /\ req'[s].ids = {p}
    BY <1>t, <2>1 DEF TypeOK, Request
  <2>4. bat'[s].doomed = {p} /\ bat'[s].left = <<rows[p].path>> /\ bat'[s].gone = {}
    <3>1. bat' = [bat EXCEPT ![s] = [bat[s] EXCEPT !.doomed = {p}, !.left = <<rows[p].path>>]]
      BY <2>1
    <3> QED
      BY <1>t, <2>2, <3>1 DEF TypeOK, NoBatch
  <2>5. \A t \in Sessions : p \notin req[t].ids
    BY <1>e, <1>t, <2>1, <2>2 DEF Admitted, Loaded, NoRequest
  <2>6. There(p) /\ rows[p].path \in objects
    BY <1>k, <2>1, <2>5 DEF StoredWhenIdle, There
  <2>7. PathsOf(s)' = {rows[p].path}
    BY <2>2, <2>3, <2>6 DEF PathsOf, There
  <2>8. Updating(s)'
    BY <2>2, <2>3 DEF Updating, Changing
  <2>9. Deleting(s)'
    <3>1. 1 \in 1..Len(bat'[s].left) /\ bat'[s].left[1] = rows[p].path
          /\ \A i \in 1..Len(bat'[s].left) : bat'[s].left[i] = rows[p].path
      BY <2>4
    <3> QED
      BY <2>2, <2>3, <2>4, <2>6, <2>7, <3>1 DEF Deleting
  <2> QED
    BY <1>1, <2>1, <2>2, <2>3, <2>8, <2>9
<1>5. ASSUME NEW s \in Sessions, BatchDelete(s) PROVE Kept'
  <2>1. PICK ids \in BatchLists :
          /\ Admitted(s, {ids[i] : i \in DOMAIN ids})
          /\ req' = [req EXCEPT ![s].op = "delete",
                                ![s].ids = {ids[i] : i \in DOMAIN ids}]
          /\ bat' = [bat EXCEPT ![s].todo = ids]
    BY <1>5 DEF BatchDelete
  <2> DEFINE named == {ids[i] : i \in DOMAIN ids}
  <2>2. /\ ids \in Seq(Photos) /\ named \subseteq Photos
        /\ \A p \in named : \E i \in 1..Len(ids) : ids[i] = p
        /\ \A i \in 1..Len(ids) : ids[i] \in named
    <3>1. ids \in Seq(Photos) /\ named \subseteq Photos
      BY BatchListsType
    <3>2. DOMAIN ids = 1..Len(ids)
      BY <3>1
    <3>3. \A i \in 1..Len(ids) : ids[i] \in named
      BY <3>2
    <3>4. \A p \in named : \E i \in 1..Len(ids) : ids[i] = p
      BY <3>2
    <3> QED
      BY <3>1, <3>3, <3>4
  <2>3. Admitted(s, named) /\ req' = [req EXCEPT ![s].op = "delete", ![s].ids = named]
    BY <2>1
  <2>b. bat' = [bat EXCEPT ![s].todo = ids]
    BY <2>1
  <2> HIDE DEF named
  <2>a. pc[s] = "idle" /\ pc' = [pc EXCEPT ![s] = "read"] /\ UNCHANGED <<rows, objects, pend, ent, faults>>
    BY <1>5 DEF BatchDelete, Goto
  <2>4. /\ \A t \in Sessions \ {s} : req'[t] = req[t] /\ bat'[t] = bat[t] /\ pc'[t] = pc[t]
        /\ req'[s].op = "delete" /\ req'[s].ids = named /\ pc'[s] = "read"
        /\ ent[s].new = NoFile /\ bat[s] = NoBatch
    BY <1>t, <2>3, <2>a, <2>b DEF Loaded, NoEntity, TypeOK, Request
  <2>5. bat'[s].todo = ids /\ bat'[s].gone = {} /\ bat'[s].doomed = {} /\ Len(bat'[s].left) = 0
    BY <1>t, <2>b, <2>4 DEF TypeOK, NoBatch
  <2>6. \A t \in Sessions, p \in named : p \notin req[t].ids
    BY <1>e, <1>t, <2>3, <2>a DEF Admitted, Loaded, NoRequest
  <2>7. PathsOf(s)' \subseteq objects
    BY <1>k, <2>2, <2>a, <2>4, <2>6 DEF PathsOf, There, StoredWhenIdle
  <2>8. Updating(s)'
    BY <2>a, <2>4, <2>7 DEF Updating, Changing
  <2>9. Deleting(s)'
    BY <2>2, <2>a, <2>4, <2>5, <2>7 DEF Deleting
  <2> QED
    BY <1>1, <2>2, <2>3, <2>a, <2>4, <2>8, <2>9
\* A step of a create or update after its first.
<1>6. ASSUME NEW s \in Sessions, UNCHANGED <<rows, req, bat>>, ent'[s].new = ent[s].new,
             pc[s] \in Changing, pc'[s] \in Changing \cup {"rollback", "commit"},
             \A t \in Sessions \ {s} :
               ent'[t] = ent[t] /\ pend'[t] = pend[t] /\ pc'[t] = pc[t] /\ faults'[t] = faults[t],
             \A p \in Photos : pend'[s][p] # Keep => pend[s][p] # Keep \/ p = req[s].photo,
             \A f \in Files \ OwnFiles(s) : f \in objects' <=> f \in objects,
             Updating(s)'
      PROVE  Kept'
  <2>1. req[s].op # "delete" /\ req[s].ids = {req[s].photo}
    BY <1>6, <1>k, <1>g DEF Phases, Changing, Busy, Updating
  <2>2. Deleting(s)'
    BY <1>6, <2>1 DEF Deleting, Changing
  <2>3. Busy(s)'
    BY <1>6, <1>k, <2>1, <2>2 DEF Busy
  <2> QED
    BY <1>6, <1>t, <2>3, KeptInside
<1>7. ASSUME NEW s \in Sessions, pc[s] \in Changing
      PROVE  /\ Updating(s) /\ req[s].op \in {"create", "update"} /\ req[s].ids = {req[s].photo}
             /\ req[s].photo \in Photos
             /\ ent[s].new \in Files \cup {NoFile} /\ ent[s].new \notin PathsOf(s)
             /\ NoFile \notin objects /\ PathsOf(s) \subseteq objects
             /\ ent[s].new # NoFile => ent[s].new \in OwnFiles(s)
             /\ ent[s].old # NoFile => ent[s].old \in PathsOf(s) /\ ent[s].new # NoFile
  <2>1. Updating(s) /\ req[s].op \in {"create", "update"}
    BY <1>7, <1>k, <1>g DEF Busy, Phases, Changing
  <2>2. req[s].ids = {req[s].photo} /\ req[s].photo \in Photos /\ PathsOf(s) \subseteq objects
    BY <1>7, <2>1 DEF Updating
  <2>3. ent[s].new \in Files \cup {NoFile}
    BY <1>t DEF TypeOK, Entity
  <2>4. ent[s].new \notin PathsOf(s)
    <3>1. CASE ent[s].new = NoFile
      BY <3>1, FileFacts, PhotoConstants
    <3>2. CASE ent[s].new # NoFile
      BY <1>g, <2>2, <3>2 DEF UploadPrivate, Public, PathsOf, There
    <3> QED
      BY <3>1, <3>2
  <2>5. ent[s].old # NoFile => ent[s].old \in PathsOf(s) /\ ent[s].new # NoFile
    BY <1>7, <2>1, <2>2 DEF Updating, PathsOf
  <2> QED
    BY <2>1, <2>2, <2>3, <2>4, <2>5, FileFacts DEF OwnFiles
<1>8. ASSUME NEW s \in Sessions, SaveFile(s) PROVE Kept'
  <2>1. PICK ok \in BOOLEAN : /\ S3Call(s, objects \cup {ent[s].new}, ok)
                              /\ Goto(s, IF ok THEN "write" ELSE "rollback")
    BY <1>8 DEF SaveFile
  <2>2. /\ UNCHANGED <<rows, pend, req, ent, bat>> /\ pc[s] = "save"
        /\ pc'[s] = (IF ok THEN "write" ELSE "rollback")
        /\ \A t \in Sessions \ {s} : pc'[t] = pc[t] /\ faults'[t] = faults[t]
        /\ objects' = IF ok THEN objects \cup {ent[s].new} ELSE objects
    BY <1>8, <1>t, <2>1, MildCall DEF SaveFile, Goto, TypeOK
  <2>3. pc[s] \in Changing /\ pc'[s] \in Changing \cup {"rollback", "commit"}
    BY <2>2 DEF Changing
  <2>4. ent[s].new # NoFile
    BY <1>t, <2>2, PhotoConstants DEF Loaded
  <2>5. PathsOf(s)' = PathsOf(s) /\ There(req[s].photo)' = There(req[s].photo)
        /\ PathToWrite(s)' = PathToWrite(s)
    BY <2>2 DEF PathsOf, There, PathToWrite
  <2>6. Updating(s)'
    BY <1>7, <2>2, <2>3, <2>5 DEF Updating, Changing, KeepsName
  <2> QED
    BY <1>6, <1>7, <2>2, <2>3, <2>4, <2>6
<1>9. ASSUME NEW s \in Sessions, WriteRow(s) PROVE Kept'
  <2> DEFINE written == [ent[s].row EXCEPT !.name = NameToWrite(s)]
  <2>1. PICK p \in Photos : p = req[s].photo
    BY <1>9, <1>t DEF WriteRow, Loaded
  <2>2. ent[s].row \in Row /\ pc[s] = "write" /\ pc[s] \in Changing
    BY <1>9, <1>t DEF WriteRow, Loaded, Changing
  <2>3. written \in Row /\ written.path = ent[s].row.path
    <3>1. NameToWrite(s) \in Names
      BY <1>t, <2>2, PhotoConstants DEF NameToWrite, Loaded, Row, Request, TypeOK
    <3> QED
      BY <2>2, <3>1 DEF Row
  <2>4. HasTarget(s)
    BY <1>7, <2>2 DEF HasTarget, Updating, There
  <2> HIDE DEF written
  <2>5. /\ UNCHANGED <<rows, req, objects, bat, faults>> /\ ent' = [ent EXCEPT ![s].row = written]
        /\ pend' = [pend EXCEPT ![s][p] = written]
        /\ pc'[s] = (IF ent[s].old = NoFile THEN "commit" ELSE "purge")
        /\ \A t \in Sessions \ {s} : pc'[t] = pc[t]
    BY <1>9, <1>t, <2>1, <2>4 DEF WriteRow, Goto, TypeOK, written
  <2>6. /\ \A t \in Sessions \ {s} : ent'[t] = ent[t] /\ pend'[t] = pend[t]
        /\ ent'[s].row = written /\ ent'[s].old = ent[s].old /\ ent'[s].new = ent[s].new
        /\ \A q \in Photos : pend'[s][q] = IF q = p THEN written ELSE pend[s][q]
    BY <1>t, <2>5 DEF TypeOK, Entity
  <2>7. PathsOf(s)' = PathsOf(s) /\ There(p)' = There(p)
        /\ PathToWrite(s)' = PathToWrite(s)
    BY <2>5, <2>6 DEF PathsOf, There, PathToWrite
  <2>8. Writes(s, req[s].photo)' /\ pend'[s][req[s].photo].path = PathToWrite(s)
    <3>1. ent[s].row.path = PathToWrite(s)
      BY <1>7, <2>2 DEF Updating
    <3>2. written # Keep /\ written # NoRow
      BY <2>3, PhotoConstants DEF MaybeRow
    <3> QED
      BY <2>1, <2>3, <2>5, <2>6, <3>1, <3>2 DEF Writes
  <2>k. KeepsName(s) => written.name = rows[p].name
    <3>1. NameToWrite(s) \in Names
      BY <1>t, <2>2, PhotoConstants DEF NameToWrite, Loaded, Row, Request, TypeOK
    <3>2. written.name = NameToWrite(s)
      BY <2>2, <3>1 DEF Row, written
    <3> QED
      BY <1>7, <2>1, <2>2, <3>2 DEF KeepsName, NameToWrite, Updating
  <2>9. PathToWrite(s) \in objects
    <3>1. CASE ent[s].new # NoFile
      BY <1>g, <2>2, <3>1 DEF PathToWrite, Uploaded
    <3>2. CASE ent[s].new = NoFile
      <4>1. There(p) /\ p \in req[s].ids
        BY <1>7, <2>1, <2>2, <3>2 DEF Updating
      <4> QED
        BY <1>7, <2>1, <2>2, <3>2, <4>1 DEF PathToWrite, PathsOf
    <3> QED
      BY <3>1, <3>2
  <2>10. Updating(s)'
    BY <1>7, <2>1, <2>2, <2>5, <2>6, <2>7, <2>8, <2>9, <2>k
      DEF Updating, Changing, There, KeepsName
  <2>11. pc'[s] \in Changing \cup {"rollback", "commit"}
    BY <2>5 DEF Changing
  <2> QED
    BY <1>6, <2>1, <2>2, <2>5, <2>6, <2>10, <2>11
\* The handler gives up before anything of the bucket was lost.
<1>10. ASSUME NEW s \in Sessions, pc[s] = "write", Abandon(s), Fault(s),
              UNCHANGED <<rows, objects, pend, req, ent, bat>>
       PROVE  Kept'
  <2>1. /\ pc'[s] = (IF ent[s].new = NoFile THEN "rollback" ELSE "cleanup")
        /\ \A t \in Sessions \ {s} : pc'[t] = pc[t] /\ faults'[t] = faults[t]
        /\ faults'[s] >= 1 /\ pc[s] \in Changing /\ pc'[s] \in Changing \cup {"rollback", "commit"}
    BY <1>10, <1>t DEF Abandon, Goto, Fault, TypeOK, Changing
  <2>2. PathsOf(s)' = PathsOf(s) /\ There(req[s].photo)' = There(req[s].photo)
        /\ PathToWrite(s)' = PathToWrite(s)
    BY <1>10 DEF PathsOf, There, PathToWrite
  <2>3. Updating(s)'
    BY <1>7, <1>10, <2>1, <2>2 DEF Updating, Changing
  <2> QED
    BY <1>6, <1>10, <2>1, <2>3
<1>11. ASSUME NEW s \in Sessions, WriteFails(s) PROVE Kept'
  BY <1>10, <1>11 DEF WriteFails
<1>12. ASSUME NEW s \in Sessions, NameConflict(s) PROVE Kept'
  <2>1. CASE UNCHANGED ent /\ Abandon(s) /\ Fault(s)
    BY <1>10, <1>12, <2>1 DEF NameConflict
  <2>2. CASE ent' = [ent EXCEPT ![s].attempt = @ + 1] /\ UNCHANGED <<pc, faults>>
    <3>1. /\ UNCHANGED <<rows, pend, req, bat, objects, pc, faults>> /\ pc[s] = "write"
          /\ ent'[s].row = ent[s].row /\ ent'[s].old = ent[s].old /\ ent'[s].new = ent[s].new
          /\ \A t \in Sessions \ {s} : ent'[t] = ent[t]
      BY <1>12, <1>t, <2>2 DEF NameConflict, TypeOK, Entity
    <3>2. PathsOf(s)' = PathsOf(s) /\ There(req[s].photo)' = There(req[s].photo)
          /\ PathToWrite(s)' = PathToWrite(s) /\ pc[s] \in Changing
      BY <3>1 DEF PathsOf, There, PathToWrite, Changing
    <3>3. Updating(s)'
      BY <1>7, <3>1, <3>2 DEF Updating, Changing, KeepsName
    <3> QED
      BY <1>6, <3>1, <3>2, <3>3
  <2> QED
    BY <1>12, <2>1, <2>2 DEF NameConflict
<1>13. ASSUME NEW s \in Sessions, CleanUp(s) PROVE Kept'
  <2>1. PICK ok \in BOOLEAN : S3Call(s, objects \ {ent[s].new}, ok)
    BY <1>13 DEF CleanUp
  <2>2. pc[s] = "cleanup" /\ pc[s] \in Changing /\ faults[s] >= 1
    BY <1>13, <1>k DEF CleanUp, Changing, Busy, Updating
  <2>3. objects' = objects \ {ent[s].new} /\ faults' = faults
    BY <1>t, <2>1, <2>2, MildCall
  <2>4. /\ UNCHANGED <<rows, pend, req, ent, bat>> /\ pc'[s] = "rollback"
        /\ \A t \in Sessions \ {s} : pc'[t] = pc[t]
    BY <1>13, <1>t DEF CleanUp, Goto, TypeOK
  <2>5. PathsOf(s)' = PathsOf(s)
    BY <2>4 DEF PathsOf, There
  <2>6. Updating(s)'
    BY <1>7, <2>2, <2>3, <2>4, <2>5 DEF Updating, Changing
  <2>7. \A f \in Files \ OwnFiles(s) : f \in objects' <=> f \in objects
    BY <1>7, <2>2, <2>3, PhotoConstants
  <2> QED
    BY <1>6, <2>2, <2>3, <2>4, <2>6, <2>7
<1>14. ASSUME NEW s \in Sessions, PurgeOld(s) PROVE Kept'
  <2>1. PICK ok \in BOOLEAN :
          /\ S3Call(s, objects \ {ent[s].old}, ok)
          /\ Goto(s, IF ok THEN "commit" ELSE "revert")
          /\ ent' = IF ok THEN ent ELSE [ent EXCEPT ![s].row.path = ent[s].old]
    BY <1>14 DEF PurgeOld
  <2>2. /\ pc[s] = "purge" /\ pc[s] \in Changing /\ ent[s].old # NoFile
        /\ UNCHANGED <<rows, pend, req, bat>>
    BY <1>14, <1>t, PhotoConstants DEF PurgeOld, Loaded, Changing
  <2>3. /\ pc'[s] = (IF ok THEN "commit" ELSE "revert")
        /\ \A t \in Sessions \ {s} : pc'[t] = pc[t] /\ ent'[t] = ent[t] /\ faults'[t] = faults[t]
        /\ ent'[s].old = ent[s].old /\ ent'[s].new = ent[s].new
        /\ objects' = (IF ok THEN objects \ {ent[s].old} ELSE objects)
        /\ ~ok => faults'[s] = 1
    <3>1. ent'[s].old = ent[s].old /\ ent'[s].new = ent[s].new
      BY <1>t, <2>1 DEF TypeOK, Entity
    <3>2. \A t \in Sessions \ {s} : ent'[t] = ent[t]
      BY <1>t, <2>1 DEF TypeOK
    <3>3. pc'[s] = (IF ok THEN "commit" ELSE "revert") /\ \A t \in Sessions \ {s} : pc'[t] = pc[t]
      BY <1>t, <2>1 DEF Goto, TypeOK
    <3>4. /\ objects' = (IF ok THEN objects \ {ent[s].old} ELSE objects)
          /\ \A t \in Sessions \ {s} : faults'[t] = faults[t]
          /\ ~ok => faults'[s] = 1
      BY <1>t, <2>1, MildCall DEF TypeOK
    <3> QED
      BY <3>1, <3>2, <3>3, <3>4
  <2>4. PathsOf(s)' = PathsOf(s) /\ There(req[s].photo)' = There(req[s].photo)
        /\ PathToWrite(s)' = PathToWrite(s) /\ PathToWrite(s) = ent[s].new
        /\ Writes(s, req[s].photo)' = Writes(s, req[s].photo)
    BY <1>7, <2>2, <2>3 DEF PathsOf, There, PathToWrite, Writes
  <2>5. ent[s].new \in objects /\ ent[s].new # ent[s].old
    BY <1>7, <1>g, <2>2 DEF Uploaded, UploadPrivate
  <2>6. Updating(s)'
    BY <1>7, <2>2, <2>3, <2>4, <2>5 DEF Updating, Changing, KeepsName
  <2>7. \A f \in Files \ OwnFiles(s) : f \in objects' <=> f \in objects
    BY <1>7, <2>2, <2>3 DEF OwnFiles
  <2>8. pc'[s] \in Changing \cup {"rollback", "commit"}
    BY <2>3 DEF Changing
  <2> QED
    BY <1>6, <2>2, <2>3, <2>6, <2>7, <2>8
<1>15. ASSUME NEW s \in Sessions, RevertRow(s) PROVE Kept'
  <2>1. PICK p \in Photos : p = req[s].photo
    BY <1>15, <1>t DEF RevertRow, Loaded
  <2>2. /\ UNCHANGED <<rows, req, objects, bat, ent>> /\ pc[s] = "revert" /\ pc'[s] = "cleanup"
        /\ pend' = pend \/ pend' = [pend EXCEPT ![s][p] = ent[s].row]
        /\ \A t \in Sessions \ {s} : pc'[t] = pc[t]
        /\ pc[s] \in Changing /\ pc'[s] \in Changing
    BY <1>15, <1>t, <2>1 DEF RevertRow, Goto, TypeOK, Changing
  <2>3. /\ \A t \in Sessions \ {s} : pend'[t] = pend[t]
        /\ \A q \in Photos \ {p} : pend'[s][q] = pend[s][q]
    BY <1>t, <2>2 DEF TypeOK
  <2>4. faults[s] >= 1
    BY <1>k, <2>2 DEF Busy, Updating
  <2>5. faults' = faults
    <3>1. faults[s] \in Nat /\ MaxFaults \in Nat
      BY <1>t, PhotoConstants DEF TypeOK
    <3>2. ~MayFail(s, "db")
      BY <1>e, <2>4, <3>1 DEF MayFail
    <3> QED
      BY <1>15, <3>2 DEF RevertRow
  <2>6. PathsOf(s)' = PathsOf(s) /\ There(p)' = There(p)
    BY <2>2 DEF PathsOf, There
  <2>7. Updating(s)'
    BY <1>7, <2>1, <2>2, <2>4, <2>5, <2>6 DEF Updating, Changing, There
  <2> QED
    BY <1>6, <2>1, <2>2, <2>3, <2>5, <2>7
\* A step of a delete after its first.
<1>16. ASSUME NEW s \in Sessions, UNCHANGED <<rows, req, ent>>,
              pc[s] \in {"read", "load", "unlink", "drop", "restore"},
              pc'[s] \in {"read", "load", "unlink", "drop", "restore", "commit"},
              pc'[s] = "restore" => faults'[s] >= 1,
              pc'[s] = "read" => PathsOf(s) \subseteq objects',
              \A t \in Sessions \ {s} :
                bat'[t] = bat[t] /\ pend'[t] = pend[t] /\ pc'[t] = pc[t] /\ faults'[t] = faults[t],
              \A p \in Photos : pend'[s][p] # Keep => pend[s][p] # Keep \/ p \in req[s].ids,
              \A f \in Files \ PathsOf(s) : f \in objects' <=> f \in objects,
              Deleting(s)'
       PROVE  Kept'
  <2>1. req[s].op = "delete"
    BY <1>16, <1>k DEF Busy, Deleting
  <2>2. PathsOf(s)' = PathsOf(s)
    BY <1>16 DEF PathsOf, There
  <2>3. Updating(s)'
    BY <1>16, <2>1, <2>2 DEF Updating, Changing
  <2>4. Busy(s)'
    BY <1>16, <1>k, <2>3 DEF Busy
  <2>5. \A f \in Files \ OwnFiles(s) : f \in objects' <=> f \in objects
    BY <1>16 DEF OwnFiles
  <2> QED
    BY <1>16, <1>t, <2>4, <2>5, KeptInside
<1>17. ASSUME NEW s \in Sessions, pc[s] \in {"read", "load", "unlink", "drop", "restore"}
       PROVE  /\ Deleting(s) /\ req[s].op = "delete" /\ ent[s].new = NoFile
              /\ bat[s].gone \subseteq PathsOf(s) /\ PathsOf(s) \subseteq objects \cup bat[s].gone
              /\ bat[s].gone \cap objects = {}
              /\ \A i \in 1..Len(bat[s].left) : bat[s].left[i] \in PathsOf(s)
              /\ bat[s].doomed \subseteq req[s].ids
              /\ bat[s] \in Batch /\ req[s].ids \subseteq Photos
              /\ bat[s].todo \in Seq(Photos) /\ bat[s].left \in Seq(Files)
  <2>1. Deleting(s)
    BY <1>k DEF Busy
  <2>2. bat[s] \in Batch /\ req[s].ids \subseteq Photos
    BY <1>t DEF TypeOK, Request
  <2>3. bat[s].todo \in Seq(Photos) /\ bat[s].left \in Seq(Files)
    BY <2>2 DEF Batch
  <2> QED
    BY <1>17, <2>1, <2>2, <2>3 DEF Deleting
<1>18. ASSUME NEW s \in Sessions, LoadFile(s) PROVE Kept'
  <2> DEFINE f == Head(bat[s].left)
  <2>1. /\ UNCHANGED <<rows, objects, pend, req, ent, bat>> /\ pc[s] = "load"
        /\ \A t \in Sessions \ {s} : pc'[t] = pc[t]
        /\ \/ pc'[s] = "unlink" /\ faults' = faults
           \/ pc'[s] = "restore" /\ Fault(s)
    BY <1>18, <1>t DEF LoadFile, Goto, TypeOK
  <2>2. \A t \in Sessions \ {s} : faults'[t] = faults[t]
    BY <1>t, <2>1 DEF Fault, TypeOK
  <2>3. pc'[s] = "restore" => faults'[s] >= 1
    BY <1>t, <2>1 DEF Fault, TypeOK
  <2>4. PathsOf(s)' = PathsOf(s) /\ \A p \in req[s].ids : There(p)' = There(p)
    BY <2>1 DEF PathsOf, There
  <2>5. Deleting(s)'
    BY <1>17, <2>1, <2>4 DEF Deleting, There
  <2> QED
    BY <1>16, <2>1, <2>2, <2>3, <2>5
<1>19. ASSUME NEW s \in Sessions, UnlinkFile(s) PROVE Kept'
  <2> DEFINE f == Head(bat[s].left)
             rest == Tail(bat[s].left)
  <2>1. pc[s] = "unlink" /\ bat[s].left # <<>>
    BY <1>19, <1>t DEF UnlinkFile, Loaded
  <2>2. /\ f = bat[s].left[1] /\ 1 \in 1..Len(bat[s].left) /\ f \in PathsOf(s)
        /\ \A i \in 1..Len(rest) : i + 1 \in 1..Len(bat[s].left) /\ rest[i] = bat[s].left[i + 1]
        /\ \A i \in 2..Len(bat[s].left) : i - 1 \in 1..Len(rest) /\ rest[i - 1] = bat[s].left[i]
    <3>1. bat[s].left \in Seq(Files) /\ \A i \in 1..Len(bat[s].left) : bat[s].left[i] \in PathsOf(s)
      BY <1>17, <2>1
    <3>2. f = bat[s].left[1] /\ 1 \in 1..Len(bat[s].left) /\ Len(rest) = Len(bat[s].left) - 1
      BY <2>1, <3>1
    <3>3. \A i \in 1..Len(rest) : rest[i] = bat[s].left[i + 1]
      BY <2>1, <3>1
    <3>4. Len(bat[s].left) \in Nat
      BY <3>1
    <3>5. f \in PathsOf(s)
      BY <3>1, <3>2
    <3>6. \A i \in 1..Len(rest) : i + 1 \in 1..Len(bat[s].left) /\ rest[i] = bat[s].left[i + 1]
      BY <3>2, <3>3, <3>4
    <3> HIDE DEF rest, f
    <3>7. \A i \in 2..Len(bat[s].left) : i - 1 \in 1..Len(rest) /\ rest[i - 1] = bat[s].left[i]
      <4>1. ASSUME NEW i \in 2..Len(bat[s].left)
            PROVE  i - 1 \in 1..Len(rest) /\ rest[i - 1] = bat[s].left[i]
        <5>1. i - 1 \in 1..Len(rest) /\ (i - 1) + 1 = i
          BY <3>2, <3>4
        <5>2. rest[i - 1] = bat[s].left[(i - 1) + 1]
          BY <3>3, <5>1
        <5> QED
          BY <5>1, <5>2
      <4> QED
        BY <4>1
    <3> QED
      BY <3>2, <3>5, <3>6, <3>7
  <2>3. PICK ok \in BOOLEAN :
          /\ S3Call(s, objects \ {f}, ok)
          /\ bat' = IF ok THEN [bat EXCEPT ![s].gone = @ \cup {f}, ![s].left = rest]
                          ELSE bat
          /\ Goto(s, IF ~ok THEN "restore" ELSE IF rest = <<>> THEN "drop" ELSE "load")
    BY <1>19 DEF UnlinkFile
  <2>4. UNCHANGED <<rows, pend, req, ent>>
    BY <1>19 DEF UnlinkFile
  <2> HIDE DEF f, rest
  <2>5. /\ objects' = (IF ok THEN objects \ {f} ELSE objects)
        /\ \A t \in Sessions \ {s} : faults'[t] = faults[t]
        /\ ~ok => faults'[s] = 1
    BY <1>t, <2>3, MildCall DEF TypeOK
  <2>6. /\ pc'[s] = (IF ~ok THEN "restore" ELSE IF rest = <<>> THEN "drop" ELSE "load")
        /\ \A t \in Sessions \ {s} : pc'[t] = pc[t] /\ bat'[t] = bat[t]
    BY <1>t, <2>3 DEF Goto, TypeOK
  <2>7. /\ bat'[s].gone = (IF ok THEN bat[s].gone \cup {f} ELSE bat[s].gone)
        /\ bat'[s].left = (IF ok THEN rest ELSE bat[s].left)
        /\ bat'[s].doomed = bat[s].doomed
    <3>1. bat \in [Sessions -> Batch] /\ bat[s] \in Batch
      BY <1>t DEF TypeOK
    <3> QED
      BY <2>3, <3>1 DEF Batch
  <2>8. PathsOf(s)' = PathsOf(s) /\ \A p \in req[s].ids : There(p)' = There(p)
    BY <2>4 DEF PathsOf, There
  <2>9. \A p \in bat[s].doomed : There(p) =>
          \/ rows[p].path \in bat[s].gone
          \/ \E i \in 1..Len(bat[s].left) : bat[s].left[i] = rows[p].path
    BY <1>17, <2>1 DEF Deleting
  <2>10. \A p \in req[s].ids : There(p) => p \in bat[s].doomed
    BY <1>17, <2>1 DEF Deleting
  <2>11. CASE ~ok
    <3>1. Deleting(s)'
      BY <1>17, <2>1, <2>4, <2>5, <2>6, <2>7, <2>8, <2>11 DEF Deleting
    <3> QED
      BY <1>16, <2>1, <2>4, <2>5, <2>6, <2>11, <3>1
  <2>12. CASE ok
    <3>1. \A p \in bat[s].doomed : There(p) =>
            rows[p].path \in bat'[s].gone \/ \E i \in 1..Len(rest) : rest[i] = rows[p].path
      <4>1. SUFFICES ASSUME NEW p \in bat[s].doomed, There(p), rows[p].path \notin bat'[s].gone
                     PROVE  \E i \in 1..Len(rest) : rest[i] = rows[p].path
        OBVIOUS
      <4>2. PICK i \in 1..Len(bat[s].left) : bat[s].left[i] = rows[p].path
        BY <2>7, <2>9, <2>12, <4>1
      <4>3. i # 1
        BY <2>2, <2>7, <2>12, <4>1, <4>2
      <4>4. i \in 2..Len(bat[s].left)
        BY <1>17, <2>1, <4>3
      <4> QED
        BY <2>2, <4>2, <4>4
    <3>2. rest = <<>> => Len(rest) = 0
      OBVIOUS
    <3>3. rest = <<>> => PathsOf(s) \subseteq bat'[s].gone
      BY <2>10, <3>1, <3>2 DEF PathsOf
    <3>4. /\ bat'[s].gone \subseteq PathsOf(s) /\ bat'[s].gone \cap objects' = {}
          /\ PathsOf(s) \subseteq objects' \cup bat'[s].gone
          /\ \A i \in 1..Len(rest) : rest[i] \in PathsOf(s)
      BY <1>17, <2>1, <2>2, <2>5, <2>7, <2>12
    <3>5. pc'[s] \in {"load", "drop"} /\ (pc'[s] = "drop" => rest = <<>>)
      BY <2>6, <2>12
    <3>6. Deleting(s)'
      BY <1>17, <2>1, <2>4, <2>7, <2>8, <2>10, <2>12, <3>1, <3>3, <3>4, <3>5 DEF Deleting
    <3> QED
      BY <1>16, <2>1, <2>2, <2>4, <2>5, <2>6, <2>12, <3>5, <3>6
  <2> QED
    BY <2>11, <2>12
<1>20. ASSUME NEW s \in Sessions, DropRows(s) PROVE Kept'
  <2> DEFINE present == {p \in bat[s].doomed : rows[p] # NoRow}
  <2>1. /\ UNCHANGED <<rows, objects, req, ent, bat>> /\ pc[s] = "drop"
        /\ \A t \in Sessions \ {s} : pc'[t] = pc[t]
        /\ \A p \in Photos : pend[s][p] = Keep
    BY <1>20, <1>t, <1>g DEF DropRows, Goto, TypeOK, Phases
  <2>2. PathsOf(s)' = PathsOf(s) /\ \A p \in req[s].ids : There(p)' = There(p)
    BY <2>1 DEF PathsOf, There
  <2>3. CASE pc' = [pc EXCEPT ![s] = "restore"] /\ Fault(s) /\ pend' = pend
    <3>1. /\ faults'[s] >= 1 /\ \A t \in Sessions \ {s} : faults'[t] = faults[t]
          /\ pc'[s] = "restore"
      BY <1>t, <2>3 DEF Fault, TypeOK
    <3>2. Deleting(s)'
      BY <1>17, <2>1, <2>2, <3>1 DEF Deleting
    <3> QED
      BY <1>16, <2>1, <2>3, <3>1, <3>2
  <2>4. CASE /\ pend' = [pend EXCEPT ![s] =
                            [p \in Photos |-> IF p \in present THEN NoRow ELSE @[p]]]
             /\ pc' = [pc EXCEPT ![s] = "commit"] /\ faults' = faults
    <3>1. /\ \A p \in Photos : pend'[s][p] = IF p \in present THEN NoRow ELSE Keep
          /\ \A t \in Sessions \ {s} : pend'[t] = pend[t]
          /\ pc'[s] = "commit"
      BY <1>t, <2>1, <2>4 DEF TypeOK
    <3>2. present \subseteq req[s].ids
      BY <1>17, <2>1
    <3>3. \A p \in req[s].ids : Seen(s, p)' = NoRow
      <4>1. ASSUME NEW p \in req[s].ids PROVE Seen(s, p)' = NoRow
        <5>1. There(p) => p \in present
          BY <1>17, <2>1 DEF Deleting, There
        <5>2. p \in Photos
          BY <1>17, <2>1
        <5>3. CASE p \in present
          BY <3>1, <5>2, <5>3, PhotoConstants DEF Seen, MaybeRow
        <5>4. CASE p \notin present
          BY <2>1, <3>1, <5>1, <5>2, <5>4 DEF Seen, There
        <5> QED
          BY <5>3, <5>4
      <4> QED
        BY <4>1
    <3>4. PathsOf(s) \subseteq bat[s].gone
      BY <1>17, <2>1 DEF Deleting
    <3>5. Deleting(s)'
      BY <1>17, <2>1, <2>2, <3>1, <3>3, <3>4 DEF Deleting
    <3> QED
      BY <1>16, <2>1, <2>4, <3>1, <3>2, <3>5
  <2> QED
    BY <1>20, <2>3, <2>4 DEF DropRows, Goto
<1>21. ASSUME NEW s \in Sessions, RestoreFile(s) PROVE Kept'
  <2>1. PICK f \in bat[s].gone, ok \in BOOLEAN :
          S3Call(s, objects \cup {f}, ok) /\ bat' = [bat EXCEPT ![s].gone = @ \ {f}]
    BY <1>21 DEF RestoreFile
  <2>2. /\ UNCHANGED <<rows, pend, pc, req, ent>> /\ pc[s] = "restore" /\ faults[s] >= 1
    BY <1>21, <1>k DEF RestoreFile, Busy, Updating
  <2>3. objects' = objects \cup {f} /\ faults' = faults
    BY <1>t, <2>1, <2>2, MildCall
  <2>4. /\ bat'[s].gone = bat[s].gone \ {f} /\ bat'[s].left = bat[s].left
        /\ bat'[s].doomed = bat[s].doomed
        /\ \A t \in Sessions \ {s} : bat'[t] = bat[t]
    BY <1>t, <2>1 DEF TypeOK, Batch
  <2>5. PathsOf(s)' = PathsOf(s) /\ f \in PathsOf(s)
    BY <1>17, <2>1, <2>2 DEF PathsOf, There
  <2>6. Deleting(s)'
    BY <1>17, <2>2, <2>3, <2>4, <2>5 DEF Deleting
  <2> QED
    BY <1>16, <2>2, <2>3, <2>4, <2>5, <2>6
<1>22. ASSUME NEW s \in Sessions, ReadNext(s) PROVE Kept'
  <2> DEFINE p == Head(bat[s].todo)
             rest == Tail(bat[s].todo)
             left == IF rows[p] # NoRow THEN Append(bat[s].left, rows[p].path) ELSE bat[s].left
             doomed == IF rows[p] # NoRow THEN bat[s].doomed \cup {p} ELSE bat[s].doomed
  <2>1. /\ UNCHANGED <<rows, objects, pend, req, ent, faults>> /\ pc[s] = "read"
        /\ bat[s].todo # <<>> /\ \A q \in Photos : pend[s][q] = Keep
    BY <1>22, <1>t, <1>g DEF ReadNext, Loaded, Phases
  <2>2. /\ bat' = [bat EXCEPT ![s] = [bat[s] EXCEPT !.todo = rest, !.left = left, !.doomed = doomed]]
        /\ pc' = [pc EXCEPT ![s] = IF rest # <<>> THEN "read"
                                   ELSE IF left = <<>> THEN "commit" ELSE "load"]
    BY <1>22 DEF ReadNext, Goto
  <2>3. /\ bat[s].todo \in Seq(Photos) /\ bat[s].left \in Seq(Files) /\ bat[s] \in Batch
        /\ bat[s].gone = {}
        /\ \A q \in req[s].ids : There(q) =>
             q \in bat[s].doomed \/ \E i \in 1..Len(bat[s].todo) : bat[s].todo[i] = q
        /\ \A i \in 1..Len(bat[s].todo) : bat[s].todo[i] \in req[s].ids
        /\ \A q \in bat[s].doomed : There(q) =>
             \E i \in 1..Len(bat[s].left) : bat[s].left[i] = rows[q].path
        /\ PathsOf(s) \subseteq objects
    BY <1>17, <1>k, <2>1 DEF Deleting, Busy, Updating
  <2>p. p \in Photos /\ p = bat[s].todo[1] /\ 1 \in 1..Len(bat[s].todo)
    BY <2>1, <2>3
  <2>r. /\ rest \in Seq(Photos) /\ Len(rest) = Len(bat[s].todo) - 1
        /\ \A i \in 1..Len(rest) : rest[i] = bat[s].todo[i + 1]
    BY <2>1, <2>3
  <2>4. \A i \in 1..Len(bat[s].todo) : bat[s].todo[i] # p => \E j \in 1..Len(rest) : rest[j] = bat[s].todo[i]
    <3>1. SUFFICES ASSUME NEW i \in 1..Len(bat[s].todo), bat[s].todo[i] # p
                   PROVE  \E j \in 1..Len(rest) : rest[j] = bat[s].todo[i]
      OBVIOUS
    <3> HIDE DEF p, rest
    <3>2. i - 1 \in 1..Len(rest) /\ (i - 1) + 1 = i
      BY <2>3, <2>p, <2>r, <3>1
    <3> QED
      BY <2>r, <3>2
  <2>5. p \in req[s].ids
    BY <2>3, <2>p
  <2>q. \A i \in 1..Len(rest) : rest[i] \in req[s].ids
    <3> HIDE DEF p, rest
    <3>1. \A i \in 1..Len(rest) : i + 1 \in 1..Len(bat[s].todo)
      BY <2>3, <2>p, <2>r
    <3> QED
      BY <2>3, <2>r, <3>1
  <2>6. /\ left \in Seq(Files)
        /\ \A i \in 1..Len(left) : left[i] \in PathsOf(s)
        /\ There(p) => \E i \in 1..Len(left) : left[i] = rows[p].path
        /\ \A i \in 1..Len(bat[s].left) : \E j \in 1..Len(left) : left[j] = bat[s].left[i]
    <3>1. \A i \in 1..Len(bat[s].left) : bat[s].left[i] \in PathsOf(s)
      BY <1>17, <2>1
    <3> HIDE DEF p
    <3>2. CASE There(p)
      <4>1. rows[p].path \in Files /\ rows[p].path \in PathsOf(s) /\ left = Append(bat[s].left, rows[p].path)
        BY <2>p, <2>5, <3>2, FileFacts DEF PathsOf, There
      <4> DEFINE path == rows[p].path
      <4> HIDE DEF path, left
      <4>2. path \in Files /\ path \in PathsOf(s) /\ left = Append(bat[s].left, path)
        BY <4>1 DEF path
      <4>3. /\ left \in Seq(Files) /\ Len(left) = Len(bat[s].left) + 1 /\ left[Len(left)] = path
            /\ \A i \in 1..Len(bat[s].left) : left[i] = bat[s].left[i]
        BY <2>3, <4>2
      <4>4. \A i \in 1..Len(left) : left[i] \in PathsOf(s)
        BY <2>3, <3>1, <4>2, <4>3
      <4>5. Len(left) \in 1..Len(left) /\ \A i \in 1..Len(bat[s].left) : i \in 1..Len(left)
        BY <2>3, <4>3
      <4> QED
        BY <4>3, <4>4, <4>5 DEF path
    <3>3. CASE ~There(p)
      BY <2>3, <3>1, <3>3 DEF There
    <3> QED
      BY <3>2, <3>3
  <2>7. /\ doomed \subseteq req[s].ids
        /\ \A q \in doomed : There(q) => \E i \in 1..Len(left) : left[i] = rows[q].path
        /\ \A q \in req[s].ids : There(q) => q \in doomed \/ \E j \in 1..Len(rest) : rest[j] = q
    <3>1. bat[s].doomed \subseteq req[s].ids
      BY <1>17, <2>1
    <3> HIDE DEF p, rest, left
    <3>2. ASSUME NEW q \in doomed, There(q) PROVE \E i \in 1..Len(left) : left[i] = rows[q].path
      BY <2>3, <2>6, <3>2
    <3>3. ASSUME NEW q \in req[s].ids, There(q) PROVE q \in doomed \/ \E j \in 1..Len(rest) : rest[j] = q
      BY <2>3, <2>4, <3>3 DEF There
    <3> QED
      BY <2>5, <3>1, <3>2, <3>3
  <2> HIDE DEF p, rest, left, doomed
  <2>8. /\ bat'[s].todo = rest /\ bat'[s].left = left /\ bat'[s].doomed = doomed /\ bat'[s].gone = {}
        /\ pc'[s] = (IF rest # <<>> THEN "read" ELSE IF left = <<>> THEN "commit" ELSE "load")
        /\ \A t \in Sessions \ {s} : bat'[t] = bat[t] /\ pc'[t] = pc[t]
    BY <1>t, <2>2, <2>3 DEF TypeOK, Batch
  <2>9. PathsOf(s)' = PathsOf(s) /\ \A q \in req[s].ids : There(q)' = There(q) /\ Seen(s, q)' = rows[q]
    BY <1>17, <2>1 DEF PathsOf, There, Seen
  <2>10. pc'[s] # "read" => \A q \in req[s].ids : There(q) => q \in doomed
    BY <2>7, <2>8
  <2>11. pc'[s] = "commit" => PathsOf(s) = {} /\ \A q \in req[s].ids : rows[q] = NoRow
    <3>1. pc'[s] = "commit" => Len(left) = 0
      BY <2>8
    <3>2. pc'[s] = "commit" => \A q \in req[s].ids : ~There(q)
      BY <2>7, <2>10, <3>1
    <3> QED
      BY <3>2 DEF PathsOf, There
  <2>12. Deleting(s)'
    BY <1>17, <2>1, <2>3, <2>6, <2>7, <2>8, <2>9, <2>10, <2>11, <2>q DEF Deleting, There
  <2>13. pc'[s] \in {"read", "load", "commit"}
    BY <2>8
  <2> QED
    BY <1>16, <2>1, <2>3, <2>8, <2>12, <2>13
\* The end of a request whose files are where the rows say.
<1>23. ASSUME NEW s \in Sessions, EndSession(s),
              \A p \in Photos \ req[s].ids : rows'[p] = rows[p],
              \A p \in req[s].ids : There(p)' => rows'[p].path \in objects,
              \A f \in OwnFiles(s) : f \in objects => Public(f)'
       PROVE  Kept'
  <2>1. /\ objects' = objects /\ pc'[s] = "idle" /\ req'[s].ids = {}
        /\ \A p \in Photos : pend'[s][p] = Keep
        /\ \A t \in Sessions \ {s} :
             /\ req'[t] = req[t] /\ ent'[t] = ent[t] /\ bat'[t] = bat[t]
             /\ pend'[t] = pend[t] /\ pc'[t] = pc[t] /\ faults'[t] = faults[t]
    BY <1>23, <1>t DEF EndSession, Goto, TypeOK, NoRequest, NothingWritten
  <2>2. Busy(s)'
    BY <2>1 DEF Busy, Updating, Deleting, Changing
  <2>3. Apart'
    BY <1>k, <2>1 DEF Apart
  <2> QED
    BY <1>23, <1>t, <2>1, <2>2, <2>3, KeptFrame
<1>24. ASSUME NEW s \in Sessions, Rollback(s) PROVE Kept'
  <2>1. EndSession(s) /\ rows' = rows
        /\ (pc[s] = "rollback" \/ (pc[s] = "restore" /\ bat[s].gone = {}))
    BY <1>24, <1>e DEF Rollback, MayFail
  <2>2. PathsOf(s) \subseteq objects /\ (ent[s].new = NoFile \/ ent[s].new \notin objects)
    BY <1>17, <1>k, <2>1 DEF Busy, Updating
  <2>3. req[s].ids \subseteq Photos
    BY <1>t DEF TypeOK, Request
  <2>4. \A p \in req[s].ids : There(p)' => rows'[p].path \in objects
    BY <2>1, <2>2 DEF PathsOf, There
  <2>5. \A f \in OwnFiles(s) : f \in objects => Public(f)'
    BY <2>1, <2>2, <2>3 DEF OwnFiles, PathsOf, There, Public
  <2> QED
    BY <1>23, <2>1, <2>4, <2>5
<1>25. ASSUME NEW s \in Sessions, Commit(s) PROVE Kept'
  <2>1. EndSession(s) /\ pc[s] = "commit" /\ Busy(s) /\ \A p \in Photos : rows'[p] = Seen(s, p)
    BY <1>25, <1>k DEF Commit
  <2>2. req[s].ids \subseteq Photos
    BY <1>t DEF TypeOK, Request
  <2>3. \A p \in Photos \ req[s].ids : rows'[p] = rows[p]
    BY <2>1 DEF Busy, Seen
  <2>4. CASE req[s].op = "delete"
    <3>1. /\ PathsOf(s) \cap objects = {} /\ ent[s].new = NoFile
          /\ \A p \in req[s].ids : rows'[p] = NoRow
      BY <2>1, <2>2, <2>4 DEF Busy, Deleting
    <3> QED
      BY <1>23, <2>1, <2>3, <3>1 DEF OwnFiles, There
  <2>5. CASE req[s].op # "delete"
    <3>1. PICK p \in Photos : p = req[s].photo /\ req[s].ids = {p}
      BY <2>1, <2>5 DEF Busy, Updating
    <3>2. rows'[p] = pend[s][p] /\ There(p)' /\ rows'[p].path = PathToWrite(s)
          /\ PathToWrite(s) \in objects /\ ent[s].old \notin objects
      BY <2>1, <2>5, <3>1 DEF Busy, Updating, Writes, Seen, There
    <3>3. \A f \in OwnFiles(s) : f \in objects => f = PathToWrite(s)
      <4>1. There(p) => rows[p].path = PathToWrite(s) \/ rows[p].path \notin objects
        BY <2>1, <2>5, <3>1, <3>2 DEF Busy, Updating, PathToWrite
      <4>2. ent[s].new # NoFile => ent[s].new = PathToWrite(s)
        BY DEF PathToWrite
      <4> QED
        BY <3>1, <4>1, <4>2 DEF OwnFiles, PathsOf
    <3>4. \A f \in OwnFiles(s) : f \in objects => Public(f)'
      BY <3>2, <3>3 DEF Public, There
    <3> QED
      BY <1>23, <2>1, <2>3, <3>1, <3>2, <3>4
  <2> QED
    BY <2>4, <2>5
<1>26. ASSUME NEW s \in Sessions, Crash(s) PROVE Kept'
  BY <1>26, <1>e DEF Crash
<1>27. CASE UNCHANGED vars
  BY <1>27 DEF vars, Kept, Apart, StoredWhenIdle, NoOrphans, Referenced, Busy, Updating, Deleting,
    PathsOf, PathToWrite, There, Writes, Seen, Changing, KeepsName
<1> QED
  BY <1>2, <1>3, <1>4, <1>5, <1>8, <1>9, <1>11, <1>12, <1>13, <1>14, <1>15, <1>18, <1>19, <1>20,
     <1>21, <1>22, <1>24, <1>25, <1>26, <1>27 DEF Next, Progress

LEMMA KeptInit == Init => Ground /\ Kept
<1> SUFFICES ASSUME Init PROVE Ground /\ Kept
  OBVIOUS
<1>1. TypeInv /\ Owned /\ NameInv
  BY InitTypes, InitOwned, InitNames
<1>2. UploadPrivate /\ Uploaded
  BY DEF Init, NoEntity, UploadPrivate, Uploaded
<1>3. Apart /\ StoredWhenIdle /\ NoOrphans /\ \A s \in Sessions : Busy(s)
  BY DEF Init, Apart, StoredWhenIdle, NoOrphans, Busy, Updating, Deleting, Changing,
     NoRequest, NothingWritten
<1> QED
  BY <1>1, <1>2, <1>3 DEF Ground, Kept

LEMMA KeptNext ==
    ASSUME MaxFaults <= 1, Ground, mild => Kept, [Next]_vars
    PROVE  Ground' /\ (mild' => Kept')
<1>1. TypeInv'
  BY TypeStep DEF Ground
<1>2. Ground'
  BY <1>1, OwnedStep, NameStep, UploadStep DEF Ground
<1>3. mild' = mild
  BY DEF Next, vars
<1>4. mild => Kept'
  BY <1>2, KeptStep DEF MildEnvironment
<1> QED
  BY <1>2, <1>3, <1>4

\* Whatever single S3 call or statement of each request failed, row and bucket
\* agree for every photo no request is working on, and no object is left that
\* neither a row nor a request knows of: the except branches of PhotoService
\* undo what was done before them.
THEOREM CompensationsWork ==
    ASSUME MaxFaults <= 1 PROVE Spec => []MildStorageMatches
<1>1. Ground /\ (mild => Kept) /\ [Next]_vars => Ground' /\ (mild' => Kept')
  BY KeptNext
<1>2. Ground /\ (mild => Kept) => MildStorageMatches
  BY DEF Ground, TypeInv, Kept, MildStorageMatches
<1>3. Init => Ground /\ (mild => Kept)
  BY KeptInit
<1> QED
  BY <1>1, <1>2, <1>3, PTL DEF Spec

\* The end of an update that commits.
LEMMA UpdateCommits ==
    ASSUME Ground, Kept, Next, NEW s \in Sessions, NEW p \in Photos,
           pc[s] = "commit", pc'[s] = "idle", req[s].op = "update",
           rows'[p] # rows[p], rows[p] # NoRow, rows'[p] # NoRow
    PROVE  /\ rows'[p].path # rows[p].path => ent[s].new # NoFile
           /\ rows'[p].name # rows[p].name => req[s].base # NoBase
<1>1. Commit(s)
  <2>1. PICK t \in Sessions : \/ CreatePhoto(t) \/ UpdatePhoto(t) \/ DeletePhoto(t)
                              \/ BatchDelete(t) \/ Progress(t) \/ Crash(t)
    BY DEF Next
  <2>2. ASSUME NEW step PROVE Goto(t, step) /\ t # s => pc'[s] = pc[s]
    BY DEF Goto, Ground, TypeInv, TypeOK
  <2>3. t # s => pc'[s] = pc[s]
    BY <2>1, <2>2 DEF CreatePhoto, UpdatePhoto, DeletePhoto, BatchDelete, Progress, Crash, SaveFile,
       WriteRow, NameConflict, WriteFails, CleanUp, PurgeOld, RevertRow, ReadNext, LoadFile,
       UnlinkFile, DropRows, RestoreFile, Commit, Rollback, Abandon, EndSession
  <2>4. Commit(s) \/ Rollback(s) \/ Crash(s)
    BY <2>1, <2>3 DEF CreatePhoto, UpdatePhoto, DeletePhoto, BatchDelete, Progress, SaveFile,
       WriteRow, NameConflict, WriteFails, CleanUp, PurgeOld, RevertRow, ReadNext, LoadFile,
       UnlinkFile, DropRows, RestoreFile
  <2> QED
    BY <2>4 DEF Rollback, Crash
<1>2. Busy(s) /\ rows'[p] = Seen(s, p)
  BY <1>1 DEF Kept, Commit
<1>3. pend[s][p] # Keep /\ p = req[s].photo /\ rows'[p] = pend[s][p]
  BY <1>2 DEF Busy, Updating, Seen
<1> QED
  BY <1>2, <1>3 DEF Busy, Updating, PathToWrite, KeepsName

\* An update changes the path only for a request that brought a file and the
\* name only for one that asked for it, as long as no other request works on
\* its photo: the row it writes is the row it read.
THEOREM ChangesWhatIsAsked ==
    ASSUME MaxFaults <= 1 PROVE Spec => MildOnlyProvidedFields
<1>1. Ground /\ (mild => Kept) /\ [Next]_vars => Ground' /\ (mild' => Kept')
  BY KeptNext
<1>2. Ground /\ (mild => Kept) /\ [Next]_vars => [mild => ProvidedFieldsStep]_vars
  BY UpdateCommits DEF ProvidedFieldsStep
<1>3. Init => Ground /\ (mild => Kept)
  BY KeptInit
<1> QED
  BY <1>1, <1>2, <1>3, PTL DEF Spec, MildOnlyProvidedFields
================================================================================
