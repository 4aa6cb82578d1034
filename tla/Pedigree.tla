------------------------------- MODULE Pedigree -------------------------------
(***************************************************************************)
(* The pedigree of the horses: table horse_children, one row per parent    *)
(* and child, with no constraint but its foreign keys.  Whether a parent   *)
(* is the sire or the dam is not stored: it follows from the sex in the    *)
(* parent's row of table horse.                                            *)
(*                                                                         *)
(* The module models HorseService.create_horse, update_horse (as far as    *)
(* sex and dates go), delete_horse, get_available_pedigree and             *)
(* set_horse_pedigree, with the statements of HorseChildrenRepository, in  *)
(* requests that run concurrently on PostgreSQL at READ COMMITTED: a       *)
(* request is validated against what is committed when it starts and then  *)
(* executes its plan, statement by statement.                              *)
(*                                                                         *)
(* Definitions named Bug... are mutated forms of the one that follows      *)
(* them; no specification uses them, they show what a property would catch.*)
(***************************************************************************)
EXTENDS Integers, Sequences, FiniteSets

CONSTANTS
    Sessions,    \* concurrent requests
    Horses,      \* horse ids
    Copies,      \* numbers that tell apart rows for one parent and child
    Infos,       \* what a row of table horse may hold
    NoRow, Nobody,
    Overlap,     \* do requests run at the same time?
    OffersOnly,  \* do clients pick parents and foals from the offered lists?
    Redate,      \* are sex and dates changed while a horse has relatives?
    MaxFoals,    \* longest list of foals in a request
    MaxFields    \* how many of sire, dam and foals a request sets

Unknown == 0     \* a date that is NULL
Info == {i \in [sex: {"male", "female", "geld"}, born: Nat, died: Nat] :
            i.born # Unknown /\ i.died # Unknown => i.born <= i.died}

\* A row of horse_children: parent, child, and which of the rows for them.
Rows == Horses \X Horses \X Copies
ParentOf(r) == r[1]
ChildOf(r) == r[2]

ASSUME PedigreeConstants ==
    /\ Infos \subseteq Info
    /\ NoRow \notin Infos
    /\ Nobody \notin Horses
    /\ Copies \subseteq Nat
    /\ Overlap \in BOOLEAN /\ OffersOnly \in BOOLEAN /\ Redate \in BOOLEAN
    /\ MaxFoals \in Nat /\ MaxFields \in Nat

VARIABLES
    horses,   \* committed table horse
    links,    \* committed table horse_children
    added,    \* added[s]: rows s has inserted and not committed
    removed,  \* removed[s]: committed rows s has deleted and not committed
    mark,     \* what s has written to its target's row of table horse
    req,      \* what was asked
    plan,     \* plan[s]: the statements still to execute
    waiting,  \* sessions whose DELETE has started and waits
    found     \* the rows it found at its start

vars == <<horses, links, added, removed, mark, req, plan, waiting, found>>

Clears == {"sire", "dam", "foals"}   \* the fields of a request, and the
                                     \* DELETE that clears each of them
Statement == [op: Clears \cup {"put", "write", "erase", "commit"},
              pairs: SUBSET (Horses \X Horses)]

Request == [
    op     : {"none", "set", "update", "redate", "delete"},
    target : Horses \cup {Nobody},
    fields : SUBSET Clears,              \* model_fields_set
    sire   : Horses \cup {Nobody},
    dam    : Horses \cup {Nobody},
    foals  : SUBSET Horses,
    info   : Infos \cup {NoRow} ]        \* update: the row to write

NoRequest == [op |-> "none", target |-> Nobody, fields |-> {}, sire |-> Nobody,
              dam |-> Nobody, foals |-> {}, info |-> NoRow]
SetRequest(t, fields, sire, dam, foals) ==
    [op |-> "set", target |-> t, fields |-> fields, sire |-> sire, dam |-> dam,
     foals |-> foals, info |-> NoRow]
Do(op) == [op |-> op, pairs |-> {}]
Put(pairs) == [op |-> "put", pairs |-> pairs]

Present == {h \in Horses : horses[h] # NoRow}
Idle(s) == req[s].op = "none"
Target(s) == req[s].target
Visible(s) == (links \ removed[s]) \cup added[s]

(***************************************************************************)
(* Reading the pedigree                                                    *)
(***************************************************************************)

SireSexes == {"male", "geld"}
DamSexes == {"female"}

ParentsIn(table, h, sexes) ==
    {p \in Present : horses[p].sex \in sexes /\ \E r \in table : ParentOf(r) = p /\ ChildOf(r) = h}
FoalsIn(table, h) == {c \in Horses : \E r \in table : ParentOf(r) = h /\ ChildOf(r) = c}

\* The id the pedigree shows: of several parents of one role, whichever row
\* comes last.
Shown(parents) == IF parents = {} THEN {Nobody} ELSE parents

(***************************************************************************)
(* set_horse_pedigree: validation                                          *)
(***************************************************************************)

Known(date) == date # Unknown

\* _validate_parent_candidate
Related(t, p, other, foals) == p = t \/ p = other \/ p \in foals
Older(p, t) ==
    Known(horses[t].born) /\ Known(horses[p].born) => horses[p].born < horses[t].born
SireOk(t, p, other, foals) ==
    ~Related(t, p, other, foals) /\ horses[p].sex = "male" /\ Older(p, t)

\* The date of death of the dam is not looked at.
BugDamOk(t, p, other, foals) ==
    ~Related(t, p, other, foals) /\ horses[p].sex = "female" /\ Older(p, t)

DamOk(t, p, other, foals) ==
    /\ ~Related(t, p, other, foals) /\ horses[p].sex = "female" /\ Older(p, t)
    /\ Known(horses[t].born) /\ Known(horses[p].died) => horses[p].died >= horses[t].born

\* Horses of one age may be parent and foal.
BugFoalOk(t, c, parents) ==
    /\ c # t /\ c \notin parents
    /\ Known(horses[t].born) /\ Known(horses[c].born) => horses[t].born <= horses[c].born
    /\ horses[t].sex = "female" /\ Known(horses[t].died) /\ Known(horses[c].born)
       => horses[c].born <= horses[t].died

\* _validate_child_candidate
FoalOk(t, c, parents) ==
    /\ c # t /\ c \notin parents /\ Older(t, c)
    /\ horses[t].sex = "female" /\ Known(horses[t].died) /\ Known(horses[c].born)
       => horses[c].born <= horses[t].died

\* The checks of set_horse_pedigree for request q, given the sire, the dam and
\* the foals the target has now.
Accepted(q, sire, dam, foals) ==
    LET finalSire  == IF "sire" \in q.fields THEN q.sire ELSE sire
        finalDam   == IF "dam" \in q.fields THEN q.dam ELSE dam
        finalFoals == IF "foals" \in q.fields THEN q.foals ELSE foals
    IN  /\ q.fields # {}
        /\ ({q.target, q.sire, q.dam} \cup q.foals) \ {Nobody} \subseteq Present
        /\ finalSire # Nobody => finalSire # finalDam
        /\ q.sire # Nobody => SireOk(q.target, q.sire, finalDam, finalFoals)
        /\ q.dam # Nobody => DamOk(q.target, q.dam, finalSire, finalFoals)
        /\ \A c \in q.foals : FoalOk(q.target, c, {finalSire, finalDam})

(***************************************************************************)
(* get_available_pedigree                                                  *)
(***************************************************************************)

\* Nobody is offered that the pedigree already shows.
NotShown(t, sire, dam) == Present \ ({t, sire, dam} \cup FoalsIn(links, t))

OfferedSires(t, sire, dam) ==
    {p \in NotShown(t, sire, dam) : horses[p].sex = "male" /\ Older(p, t)}

\* The filter by the date of death is missing.
BugOfferedDams(t, sire, dam) ==
    {p \in NotShown(t, sire, dam) : horses[p].sex = "female" /\ Older(p, t)}

OfferedDams(t, sire, dam) ==
    {p \in NotShown(t, sire, dam) :
        /\ horses[p].sex = "female" /\ Older(p, t)
        /\ Known(horses[t].born) /\ Known(horses[p].died) => horses[p].died >= horses[t].born}

\* A gelding's foals are looked for among the children of no gelding.
BugOfferedFoals(t, sire, dam) ==
    LET bornLate(c) == horses[t].sex = "female" /\ Known(horses[t].died)
                          /\ Known(horses[c].born) /\ horses[c].born > horses[t].died
    IN  {c \in NotShown(t, sire, dam) :
            Older(t, c) /\ ~bornLate(c) /\ ParentsIn(links, c, {horses[t].sex}) = {}}

\* Horses that have a parent of the target's role are left out.
OfferedFoals(t, sire, dam) ==
    LET role == IF horses[t].sex = "female" THEN DamSexes ELSE SireSexes
        bornLate(c) == horses[t].sex = "female" /\ Known(horses[t].died)
                          /\ Known(horses[c].born) /\ horses[c].born > horses[t].died
    IN  {c \in NotShown(t, sire, dam) :
            Older(t, c) /\ ~bornLate(c) /\ ParentsIn(links, c, role) = {}}

\* A client that picks from the lists: parents from theirs, foals from theirs
\* or from those the horse already has.
Offered(q, sire, dam) ==
    /\ q.sire # Nobody => q.sire \in OfferedSires(q.target, sire, dam) \cup {sire}
    /\ q.dam # Nobody => q.dam \in OfferedDams(q.target, sire, dam) \cup {dam}
    /\ q.foals \subseteq OfferedFoals(q.target, sire, dam) \cup FoalsIn(links, q.target)

(***************************************************************************)
(* Requests                                                                *)
(***************************************************************************)

\* Requests that are kept apart: all of them without Overlap; and without
\* Redate, a change of sex or dates runs alone.
Admitted(s) ==
    \A t \in Sessions \ {s} : Idle(t) \/ (Overlap /\ req[t].op # "redate")

Start(s, q, statements) ==
    /\ req' = [req EXCEPT ![s] = q]
    /\ plan' = [plan EXCEPT ![s] = statements]
    /\ UNCHANGED <<horses, links, added, removed, mark, waiting, found>>

\* An INSERT of the missing parent as well.
BugStatements(q) ==
    LET clear(f) == IF f \in q.fields THEN <<Do(f)>> ELSE <<>>
        parent(f, p) == IF f \notin q.fields THEN <<>>
                        ELSE <<Do(f), Put({<<p, q.target>>})>>
    IN  clear("sire") \o clear("dam") \o clear("foals")
            \o parent("sire", q.sire) \o parent("dam", q.dam)
            \o (IF "foals" \notin q.fields THEN <<>>
                ELSE <<Do("foals"), Put({<<q.target, c>> : c \in q.foals})>>)
            \o <<Do("commit")>>

\* clear_pedigree for the fields of the request, then set_pedigree, which
\* clears each of them once more before it inserts.
Statements(q) ==
    LET clear(f) == IF f \in q.fields THEN <<Do(f)>> ELSE <<>>
        parent(f, p) == IF p = Nobody THEN <<>> ELSE <<Do(f), Put({<<p, q.target>>})>>
        foals == IF "foals" \notin q.fields THEN <<>>
                 ELSE <<Do("foals"), Put({<<q.target, c>> : c \in q.foals})>>
    IN  clear("sire") \o (clear("dam") \o (clear("foals")
            \o (parent("sire", q.sire) \o (parent("dam", q.dam) \o (foals \o <<Do("commit")>>)))))

SetPedigree(s) ==
    /\ Idle(s) /\ Admitted(s)
    /\ \E t \in Present, fields \in SUBSET Clears,
          newSire, newDam \in Present \cup {Nobody}, newFoals \in SUBSET Present :
        LET q == SetRequest(t, fields, newSire, newDam, newFoals)
        IN  /\ "sire" \notin fields => newSire = Nobody
            /\ "dam" \notin fields => newDam = Nobody
            /\ "foals" \notin fields => newFoals = {}
            /\ Cardinality(newFoals) <= MaxFoals /\ Cardinality(fields) <= MaxFields
            /\ \E sire \in Shown(ParentsIn(links, t, SireSexes)),
                  dam \in Shown(ParentsIn(links, t, DamSexes)) :
                /\ Accepted(q, sire, dam, FoalsIn(links, t))
                /\ OffersOnly => Offered(q, sire, dam)
            /\ Start(s, q, Statements(q))

\* The row a request has read is written back whole, with new data or without.
UpdateHorse(s) ==
    /\ Idle(s) /\ Admitted(s)
    /\ \E h \in Present, info \in Infos :
        LET same == info = horses[h]
        IN  /\ same \/ Redate
                 \/ /\ \A t \in Sessions \ {s} : Idle(t)
                    /\ \A r \in links : h \notin {ParentOf(r), ChildOf(r)}
            /\ Start(s, [NoRequest EXCEPT !.op = IF same \/ Redate THEN "update" ELSE "redate",
                                          !.target = h, !.info = info],
                     <<Do("write"), Do("commit")>>)

DeleteHorse(s) ==
    /\ Idle(s) /\ Admitted(s)
    /\ \E h \in Present :
        Start(s, [NoRequest EXCEPT !.op = "delete", !.target = h],
              <<Do("erase"), Do("commit")>>)

\* A new uuid: nothing in the system mentions it.
Fresh(h) ==
    /\ h \notin Present
    /\ \A r \in links \cup UNION {added[s] : s \in Sessions} : h \notin {ParentOf(r), ChildOf(r)}
    /\ \A s \in Sessions : h \notin {req[s].target, req[s].sire, req[s].dam} \cup req[s].foals

\* One INSERT and its commit; nobody can see or miss the row in between.
CreateHorse(s) ==
    /\ Idle(s) /\ Admitted(s)
    /\ \E h \in Horses, info \in Infos :
        /\ Fresh(h)
        /\ horses' = [horses EXCEPT ![h] = info]
    /\ UNCHANGED <<links, added, removed, mark, req, plan, waiting, found>>

(***************************************************************************)
(* Statements                                                              *)
(***************************************************************************)

\* Geldings are not taken for sires.
BugMatching(s) ==
    LET t == Target(s)
    IN  CASE Head(plan[s]).op = "sire" ->
                {r \in Visible(s) : ChildOf(r) = t /\ ParentOf(r) \in ParentsIn(Visible(s), t, {"male"})}
          [] Head(plan[s]).op = "dam" ->
                {r \in Visible(s) : ChildOf(r) = t /\ ParentOf(r) \in ParentsIn(Visible(s), t, DamSexes)}
          [] Head(plan[s]).op = "foals" -> {r \in Visible(s) : ParentOf(r) = t}
          [] OTHER -> {}

\* The rows the DELETE of clear_pedigree finds.
Matching(s) ==
    LET t == Target(s)
    IN  CASE Head(plan[s]).op = "sire" ->
                {r \in Visible(s) : ChildOf(r) = t /\ ParentOf(r) \in ParentsIn(Visible(s), t, SireSexes)}
          [] Head(plan[s]).op = "dam" ->
                {r \in Visible(s) : ChildOf(r) = t /\ ParentOf(r) \in ParentsIn(Visible(s), t, DamSexes)}
          [] Head(plan[s]).op = "foals" -> {r \in Visible(s) : ParentOf(r) = t}
          [] OTHER -> {}

\* The rows it deletes: those it found at its start and that are still there.
Doomed(s) == IF s \in waiting THEN found[s] \cap Visible(s) ELSE Matching(s)

Mentions(R, h) == \E r \in R : h \in {ParentOf(r), ChildOf(r)}
Others(s) == Sessions \ {s}
Holds(t, h, marks) == Target(t) = h /\ mark[t] \in marks

\* The next statement of s has to wait for another transaction to end: one
\* that has deleted a row it wants to delete, or one whose lock on a horse
\* (changed, deleted, or referenced by a new or deleted link) is in its way.
Blocked(s) ==
    LET st == Head(plan[s])
        t == Target(s)
    IN  CASE st.op \in Clears -> \E o \in Others(s) : removed[o] \cap Doomed(s) # {}
          [] st.op = "put" -> \E o \in Others(s), p \in st.pairs, h \in Horses :
                                h \in {p[1], p[2]} /\ Holds(o, h, {"gone"})
          [] st.op = "write" -> \E o \in Others(s) : Holds(o, t, {"written", "gone"})
          [] st.op = "erase" -> \E o \in Others(s) :
                                \/ Holds(o, t, {"written", "gone"})
                                \/ Mentions(added[o] \cup removed[o], t)
          [] OTHER -> FALSE

Busy(s) == ~Idle(s) /\ plan[s] # <<>>
Runs(s, ops) == Busy(s) /\ Head(plan[s]).op \in ops /\ ~Blocked(s)
Advance(s) ==
    /\ plan' = [plan EXCEPT ![s] = Tail(@)]
    /\ waiting' = waiting \ {s}
    /\ found' = [found EXCEPT ![s] = {}]

Delete(s, R) ==
    /\ added' = [added EXCEPT ![s] = @ \ R]
    /\ removed' = [removed EXCEPT ![s] = @ \cup (R \cap links)]

\* A DELETE starts and has to wait.
Wait(s) ==
    /\ Busy(s) /\ Head(plan[s]).op \in Clears /\ Blocked(s)
    /\ s \notin waiting
    /\ waiting' = waiting \cup {s}
    /\ found' = [found EXCEPT ![s] = Matching(s)]
    /\ UNCHANGED <<horses, links, added, removed, mark, req, plan>>

ClearLinks(s) ==
    /\ Runs(s, Clears)
    /\ Delete(s, Doomed(s))
    /\ Advance(s)
    /\ UNCHANGED <<horses, links, mark, req>>

\* The foreign keys ask for both horses; which free row is taken makes no
\* difference.
PutLinks(s) ==
    LET pairs == Head(plan[s]).pairs
        taken == links \cup UNION {added[o] : o \in Sessions}
        free(p) == {c \in Copies : <<p[1], p[2], c>> \notin taken}
    IN  /\ Runs(s, {"put"})
        /\ \A p \in pairs : {p[1], p[2]} \subseteq Present /\ free(p) # {}
        /\ added' = [added EXCEPT ![s] = @ \cup
              {<<p[1], p[2], CHOOSE c \in free(p) : \A d \in free(p) : c <= d>> : p \in pairs}]
        /\ Advance(s)
        /\ UNCHANGED <<horses, links, removed, mark, req>>

\* An UPDATE of a row that is gone changes nothing and nobody notices.
WriteHorse(s) ==
    /\ Runs(s, {"write"})
    /\ mark' = [mark EXCEPT ![s] = IF Target(s) \in Present THEN "written" ELSE "none"]
    /\ Advance(s)
    /\ UNCHANGED <<horses, links, added, removed, req>>

\* ON DELETE CASCADE takes the links of the horse along.
EraseHorse(s) ==
    /\ Runs(s, {"erase"})
    /\ mark' = [mark EXCEPT ![s] = IF Target(s) \in Present THEN "gone" ELSE "none"]
    /\ Delete(s, {r \in Visible(s) : Target(s) \in {ParentOf(r), ChildOf(r)}})
    /\ Advance(s)
    /\ UNCHANGED <<horses, links, req>>

EndSession(s) ==
    /\ added' = [added EXCEPT ![s] = {}]
    /\ removed' = [removed EXCEPT ![s] = {}]
    /\ mark' = [mark EXCEPT ![s] = "none"]
    /\ req' = [req EXCEPT ![s] = NoRequest]
    /\ plan' = [plan EXCEPT ![s] = <<>>]
    /\ waiting' = waiting \ {s}
    /\ found' = [found EXCEPT ![s] = {}]

Commit(s) ==
    /\ Runs(s, {"commit"})
    /\ links' = Visible(s)
    /\ horses' = CASE mark[s] = "written" -> [horses EXCEPT ![Target(s)] = req[s].info]
                   [] mark[s] = "gone" -> [horses EXCEPT ![Target(s)] = NoRow]
                   [] OTHER -> horses
    /\ EndSession(s)

\* A statement or the commit fails, PostgreSQL breaks a deadlock, the worker
\* dies: the transaction leaves nothing.
Rollback(s) ==
    /\ ~Idle(s)
    /\ EndSession(s)
    /\ UNCHANGED <<horses, links>>

-----------------------------------------------------------------------------

Init ==
    /\ horses = [h \in Horses |-> NoRow]
    /\ links = {}
    /\ added = [s \in Sessions |-> {}]
    /\ removed = [s \in Sessions |-> {}]
    /\ mark = [s \in Sessions |-> "none"]
    /\ req = [s \in Sessions |-> NoRequest]
    /\ plan = [s \in Sessions |-> <<>>]
    /\ waiting = {}
    /\ found = [s \in Sessions |-> {}]

Next ==
    \E s \in Sessions :
        \/ CreateHorse(s) \/ UpdateHorse(s) \/ DeleteHorse(s) \/ SetPedigree(s)
        \/ ClearLinks(s) \/ Wait(s) \/ PutLinks(s) \/ WriteHorse(s) \/ EraseHorse(s)
        \/ Commit(s) \/ Rollback(s)

Spec == Init /\ [][Next]_vars

(***************************************************************************)
(* Properties                                                              *)
(***************************************************************************)

\* Every variable stays in its type.
TypeOK ==
    /\ horses \in [Horses -> Infos \cup {NoRow}]
    /\ links \in SUBSET Rows
    /\ added \in [Sessions -> SUBSET Rows]
    /\ removed \in [Sessions -> SUBSET Rows]
    /\ mark \in [Sessions -> {"none", "written", "gone"}]
    /\ req \in [Sessions -> Request]
    /\ plan \in [Sessions -> Seq(Statement)]
    /\ waiting \in SUBSET Sessions
    /\ found \in [Sessions -> SUBSET Rows]

\* The birth of a parent comes before that of its child wherever both are
\* known, so that no horse with known dates is an ancestor of its own.  It
\* holds however requests interleave, although each is validated before the
\* others commit: what a pair of horses is checked for does not depend on
\* other links.
ParentsOlder ==
    \A r \in links :
        {ParentOf(r), ChildOf(r)} \subseteq Present => Older(ParentOf(r), ChildOf(r))

\* No foal is born after the death of its dam, by whichever end the link was
\* made: as the dam of the foal or as a foal of the dam.
DamAlive ==
    \A r \in links :
        LET p == ParentOf(r)
            c == ChildOf(r)
        IN  /\ {p, c} \subseteq Present
            /\ horses[p].sex = "female" /\ Known(horses[p].died) /\ Known(horses[c].born)
            => horses[c].born <= horses[p].died

OneParent(table, h) ==
    /\ Cardinality(ParentsIn(table, h, SireSexes)) <= 1
    /\ Cardinality(ParentsIn(table, h, DamSexes)) <= 1

\* The lists of get_available_pedigree and the checks of set_horse_pedigree,
\* written in different places, agree: whoever is offered is accepted, also
\* for a horse with several parents of one role, whichever of them is shown.
OfferedIsAccepted ==
    \A t \in Present :
        \A sire \in Shown(ParentsIn(links, t, SireSexes)),
           dam \in Shown(ParentsIn(links, t, DamSexes)) :
            LET foals == FoalsIn(links, t)
            IN  /\ \A p \in OfferedSires(t, sire, dam) :
                        Accepted(SetRequest(t, {"sire"}, p, Nobody, {}), sire, dam, foals)
                /\ \A p \in OfferedDams(t, sire, dam) :
                        Accepted(SetRequest(t, {"dam"}, Nobody, p, {}), sire, dam, foals)
                /\ \A c \in OfferedFoals(t, sire, dam) :
                        Accepted(SetRequest(t, {"foals"}, Nobody, Nobody, {c}), sire, dam, foals)

\* Clients that pick from the lists never give a horse a second sire or dam,
\* though neither the table nor set_horse_pedigree keeps them from it.
OffersKeepOneParentStep ==
    \A s \in Sessions, h \in Horses :
        Commit(s) /\ req[s].op = "set" /\ OneParent(links, h) => OneParent(links', h)

OffersKeepOneParent == [][OffersKeepOneParentStep]_vars

\* When a pedigree has been set, the target has the parents and the foals the
\* request named in the fields it had, and keeps the others: also when the sex
\* of an earlier parent was changed after it had been linked.
RolesAsRequestedStep ==
    \A s \in Sessions :
        Commit(s) /\ req[s].op = "set" =>
            LET t == Target(s)
                Want(field, named, old) == IF field \in req[s].fields THEN named \ {Nobody} ELSE old
            IN  /\ ParentsIn(links', t, SireSexes)
                        = Want("sire", {req[s].sire}, ParentsIn(links, t, SireSexes))
                /\ ParentsIn(links', t, DamSexes)
                        = Want("dam", {req[s].dam}, ParentsIn(links, t, DamSexes))
                /\ FoalsIn(links', t) = Want("foals", req[s].foals, FoalsIn(links, t))

RolesAsRequested == [][RolesAsRequestedStep]_vars
=============================================================================
