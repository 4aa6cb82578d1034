------------------------------- MODULE Catalogue -------------------------------
(***************************************************************************)
(* Names and slugs of the tables of the site.  A request looks the name    *)
(* up, chooses a slug nobody has, and writes; another request may commit   *)
(* in between, and then the keys of the table decide.  Every service does  *)
(* it in its own way.  The slug of a site setting is its key; a link of a  *)
(* horse to a service has the service for a name.  The rows are those of   *)
(* one tenant, or of one horse; permissions, texts and the rows that refer *)
(* to these are left out.                                                  *)
(***************************************************************************)
EXTENDS Naturals, FiniteSets, SequencesExt

CONSTANTS Sessions, Ids,
          Names,        \* names requests give, as sequences of characters
          Slugs,        \* slugs requests give
          MaxLength,    \* of a name or slug column
          Unset, Blank, \* a field that is not given, or given empty
          NoRow, Refused,
          Overlap       \* whether requests are handled at the same time

VARIABLES table,     \* the table this tenant's requests are about
          rows,      \* committed rows
          session

vars == <<table, rows, session>>

Slugged == {"breeds", "coat_color", "breed_groups", "horse_service", "horse", "prices", "site_settings"}

\* Rows of these may have equal names.
Homonymous == {"horse", "horse_owner"}

Tables == Slugged \cup Homonymous \cup {"price_groups", "horse_service_relations"}

\* Tables with a unique index per tenant on the name, and on the slug or key.
NameKeys == {"breeds", "coat_color", "breed_groups", "horse_service", "site_settings"}

SlugKeys == Slugged

\* Repositories that turn a violated key into an answer.
Translated == {"breed_groups", "horse"}

(***************************************************************************)
(* Slugs                                                                   *)
(***************************************************************************)

\* A character in Latin letters; punctuation is dropped.
Latin(c) ==
    CASE c = "A" -> <<"a">>
      [] c = "shch" -> <<"s", "c", "h">>
      [] c = "!" -> <<>>
      [] OTHER -> <<c>>

\* Spaces and hyphens between letters become one hyphen.
GenerateSlug(text) ==
    LET t == FlattenSeq([i \in DOMAIN text |-> Latin(text[i])])
        letters == {i \in DOMAIN t : t[i] \notin {" ", "-"}}
        hyphens == {i \in DOMAIN t \ letters : i - 1 \in letters /\ \E j \in letters : i < j}
    IN  FlattenSeq([i \in DOMAIN t |->
            IF i \in letters THEN <<t[i]>> ELSE IF i \in hyphens THEN <<"-">> ELSE <<>>])

NameTaken(name, id) == \E i \in Ids \ {id} : rows[i] # NoRow /\ rows[i].name = name

SlugTaken(slug, id) == \E i \in Ids \ {id} : rows[i] # NoRow /\ rows[i].slug = slug

NewNameTaken(id, name) == name # Unset /\ NameTaken(name, id)

Occupied(id, slug) == slug \in Slugs /\ SlugTaken(slug, id)

Suffix(k) == IF k = 0 THEN <<>> ELSE <<"-", ToString(k)>>

FirstFree(candidates, id) ==
    candidates[Min({k \in DOMAIN candidates : ~SlugTaken(candidates[k], id)})]

Attempts == 0 .. Cardinality(Ids)

\* What names and slugs are; numbers are written differently.
SlugConstants ==
    /\ IsFiniteSet(Ids)
    /\ MaxLength \in Nat /\ MaxLength >= 2
    /\ Unset # Blank
    /\ Names \subseteq Seq(STRING) /\ Slugs \subseteq Seq(STRING)
    /\ \A i, j \in Attempts : ToString(i) = ToString(j) => i = j

\* base, base-1, base-2, however long.
Suffixed(base, id) == FirstFree([k \in Attempts |-> base \o Suffix(k)], id)

\* The base is cut to the column, with no room left for the suffix.
BugFitted(base, id) ==
    FirstFree([k \in Attempts |-> SubSeq(base, 1, Min({Len(base), MaxLength})) \o Suffix(k)], id)

\* The base is cut to make room for the suffix.
Fitted(base, id) ==
    FirstFree([k \in Attempts |->
        SubSeq(base, 1, Min({Len(base), MaxLength - Len(Suffix(k))})) \o Suffix(k)], id)

(***************************************************************************)
(* What the services make of a request: the row to write, or Refused       *)
(***************************************************************************)

Row(name, slug) == [name |-> name, slug |-> slug]

NewName(id, name) == IF name = Unset THEN rows[id].name ELSE name

CreateBreed(id, name, slug) ==
    IF NameTaken(name, id) THEN Refused
    ELSE Row(name, Suffixed(IF slug \in Slugs THEN slug ELSE GenerateSlug(name), id))

UpdateBreed(id, name, slug) ==
    IF NewNameTaken(id, name) THEN Refused
    ELSE Row(NewName(id, name),
             IF slug \in Slugs THEN Suffixed(slug, id)
             ELSE IF name # Unset THEN Suffixed(GenerateSlug(name), id)
             ELSE rows[id].slug)

CreateCoatColor(id, name, slug) ==
    IF NameTaken(name, id) \/ Occupied(id, slug) THEN Refused
    ELSE Row(name, IF slug \in Slugs THEN slug ELSE Suffixed(GenerateSlug(name), id))

UpdateCoatColor(id, name, slug) ==
    IF Occupied(id, slug) THEN Refused
    ELSE UpdateBreed(id, name, slug)

Unfit(slug) == Len(slug) \notin 1 .. MaxLength

CreateBreedGroup(id, name, slug) ==
    LET base == IF slug \in Slugs THEN slug ELSE GenerateSlug(name)
    IN  IF NameTaken(name, id) \/ Unfit(base) THEN Refused
        ELSE Row(name, Suffixed(base, id))

UpdateBreedGroup(id, name, slug) ==
    IF slug = Blank THEN Refused
    ELSE UpdateBreed(id, name, slug)

CreateHorseService(id, name, slug) == CreateBreed(id, name, slug)

UpdateHorseService(id, name, slug) ==
    LET row == UpdateBreed(id, name, slug)
    IN  IF row # Refused /\ slug = Blank
        THEN [row EXCEPT !.slug = Suffixed(GenerateSlug(row.name), id)]
        ELSE row

\* A slug that is given is normalised, and refused if another horse has it.
GivenHorseSlug(id, name, slug) ==
    LET given == GenerateSlug(slug)
    IN  IF given = <<>> \/ SlugTaken(given, id) THEN Refused ELSE Row(name, given)

AvailableHorseSlug(id, name) ==
    LET base == GenerateSlug(name)
    IN  IF base = <<>> THEN Refused ELSE Row(name, Fitted(base, id))

CreateHorse(id, name, slug) ==
    IF slug \in Slugs THEN GivenHorseSlug(id, name, slug) ELSE AvailableHorseSlug(id, name)

UpdateHorse(id, name, slug) ==
    CASE slug = Unset -> Row(NewName(id, name), rows[id].slug)
      [] slug = Blank -> AvailableHorseSlug(id, NewName(id, name))
      [] OTHER -> GivenHorseSlug(id, NewName(id, name), slug)

PriceSlug(id, name, base) == IF Unfit(base) THEN Refused ELSE Row(name, Fitted(base, id))

CreatePrice(id, name, slug) ==
    IF slug = Blank \/ NameTaken(name, id) THEN Refused
    ELSE PriceSlug(id, name, IF slug = Unset THEN GenerateSlug(name) ELSE slug)

UpdatePrice(id, name, slug) ==
    IF slug = Blank \/ NewNameTaken(id, name) THEN Refused
    ELSE IF slug \in Slugs THEN PriceSlug(id, NewName(id, name), slug)
    ELSE IF name = Unset THEN rows[id]
    ELSE PriceSlug(id, name, GenerateSlug(name))

CreatePriceGroup(id, name) == IF NameTaken(name, id) THEN Refused ELSE Row(name, <<>>)

\* A new name is not looked up.
BugUpdatePriceGroup(id, name) == Row(NewName(id, name), <<>>)

UpdatePriceGroup(id, name) ==
    IF NewNameTaken(id, name) THEN Refused ELSE Row(NewName(id, name), <<>>)

\* An empty key is a key.
Key(slug) == IF slug = Blank THEN <<>> ELSE slug

CreateSiteSetting(id, name, slug) ==
    IF slug = Unset \/ SlugTaken(Key(slug), id) \/ NameTaken(name, id) THEN Refused
    ELSE Row(name, Key(slug))

UpdateSiteSetting(id, name, slug) ==
    IF slug # Unset /\ SlugTaken(Key(slug), id) THEN Refused
    ELSE IF NewNameTaken(id, name) THEN Refused
    ELSE Row(NewName(id, name), IF slug = Unset THEN rows[id].slug ELSE Key(slug))

CreateHorseOwner(id, name) == Row(name, <<>>)

UpdateHorseOwner(id, name) == Row(NewName(id, name), <<>>)

\* A service is attached to a horse once; an update changes what it overrides.
AttachService(id, name) == IF NameTaken(name, id) THEN Refused ELSE Row(name, <<>>)

UpdateAttached(id) == rows[id]

Created(id, name, slug) ==
    CASE table = "breeds" -> CreateBreed(id, name, slug)
      [] table = "coat_color" -> CreateCoatColor(id, name, slug)
      [] table = "breed_groups" -> CreateBreedGroup(id, name, slug)
      [] table = "horse_service" -> CreateHorseService(id, name, slug)
      [] table = "horse" -> CreateHorse(id, name, slug)
      [] table = "prices" -> CreatePrice(id, name, slug)
      [] table = "price_groups" -> CreatePriceGroup(id, name)
      [] table = "site_settings" -> CreateSiteSetting(id, name, slug)
      [] table = "horse_owner" -> CreateHorseOwner(id, name)
      [] table = "horse_service_relations" -> AttachService(id, name)

Updated(id, name, slug) ==
    CASE table = "breeds" -> UpdateBreed(id, name, slug)
      [] table = "coat_color" -> UpdateCoatColor(id, name, slug)
      [] table = "breed_groups" -> UpdateBreedGroup(id, name, slug)
      [] table = "horse_service" -> UpdateHorseService(id, name, slug)
      [] table = "horse" -> UpdateHorse(id, name, slug)
      [] table = "prices" -> UpdatePrice(id, name, slug)
      [] table = "price_groups" -> UpdatePriceGroup(id, name)
      [] table = "site_settings" -> UpdateSiteSetting(id, name, slug)
      [] table = "horse_owner" -> UpdateHorseOwner(id, name)
      [] table = "horse_service_relations" -> UpdateAttached(id)

(***************************************************************************)
(* Requests                                                                *)
(***************************************************************************)

Ended(slug, raced, answer) ==
    [pc |-> "idle", id |-> Unset, found |-> FALSE, new |-> NoRow,
     slug |-> slug, raced |-> raced, answer |-> answer]

Idle == Ended(Unset, FALSE, "none")

Init ==
    /\ table \in Tables
    /\ rows = [i \in Ids |-> NoRow]
    /\ session = [s \in Sessions |-> Idle]

Free(s) ==
    /\ session[s].pc = "idle"
    /\ Overlap \/ \A t \in Sessions : session[t].pc = "idle"

\* The lookups of a request: what it will write, from the rows as they are now.
Ask(s, id, slug, new) ==
    /\ session' = [session EXCEPT ![s] =
           IF new = Refused
           THEN [Idle EXCEPT !.answer = "refused"]
           ELSE [Idle EXCEPT !.pc = "write", !.id = id, !.found = rows[id] # NoRow, !.new = new, !.slug = slug]]
    /\ UNCHANGED <<table, rows>>

\* Only requests about tables with slugs carry one.
Given == IF table \in Slugged THEN Slugs \cup {Unset, Blank} ELSE {Unset}

Create(s) ==
    /\ Free(s)
    /\ \E id \in {i \in Ids : rows[i] = NoRow /\ \A t \in Sessions : session[t].id # i},
          name \in Names, slug \in Given :
           Ask(s, id, slug, Created(id, name, slug))

Update(s) ==
    /\ Free(s)
    /\ \E id \in {i \in Ids : rows[i] # NoRow}, name \in Names \cup {Unset}, slug \in Given :
           Ask(s, id, slug, Updated(id, name, slug))

Delete(s) ==
    /\ Free(s)
    /\ \E id \in {i \in Ids : rows[i] # NoRow} : Ask(s, id, Unset, NoRow)

Clash(r, q) ==
    /\ r # NoRow /\ q # NoRow
    /\ \/ table \in NameKeys /\ r.name = q.name
       \/ table \in SlugKeys /\ r.slug = q.slug

\* Another transaction has written this row, or a key this one needs.
Waits(s) ==
    \E t \in Sessions \ {s} :
        /\ session[t].pc = "end"
        /\ \/ session[t].id = session[s].id
           \/ Clash(session[t].new, session[s].new)
           \/ Clash(rows[session[t].id], session[s].new)

\* The request ends with an answer and leaves nothing behind.
Answered(s, answer) ==
    session' = [session EXCEPT ![s] = Ended(session[s].slug, session[s].raced, answer)]

Written(s) ==
    \* An UPDATE of a row deleted meanwhile finds nothing to change.
    LET gone == session[s].found /\ rows[session[s].id] = NoRow
    IN  session' = [session EXCEPT ![s].pc = "end", ![s].new = IF gone THEN NoRow ELSE @]

TooLong(row) == row # NoRow /\ Len(row.slug) > MaxLength

Refusal == IF table \in Translated THEN "refused" ELSE "key error"

\* The whole row is inserted, updated or deleted.
Write(s) ==
    LET id == session[s].id
        new == session[s].new
    IN  /\ session[s].pc = "write"
        /\ ~Waits(s)
        /\ IF session[s].found /\ rows[id] = NoRow THEN Written(s)
           ELSE IF TooLong(new) THEN Answered(s, "too long")
           ELSE IF \E i \in Ids \ {id} : Clash(rows[i], new) THEN Answered(s, Refusal)
           ELSE Written(s)
        /\ UNCHANGED <<table, rows>>

Commit(s) ==
    /\ session[s].pc = "end"
    /\ rows' = [rows EXCEPT ![session[s].id] = session[s].new]
    /\ session' = [t \in Sessions |->
           IF t = s THEN [Idle EXCEPT !.answer = "ok"]
           ELSE [session[t] EXCEPT !.raced = session[t].pc # "idle" \/ @]]
    /\ UNCHANGED table

Next == \E s \in Sessions : Create(s) \/ Update(s) \/ Delete(s) \/ Write(s) \/ Commit(s)

Spec == Init /\ [][Next]_vars

(***************************************************************************)
(* Properties                                                              *)
(***************************************************************************)

\* The only server errors are those of a request that lost a race for a name or
\* a slug, where the repository does not answer for it, and those of a slug
\* longer than its column, where the service does not cut it: the lookups of a
\* request foresee every other violated key.
OnlyRacesFail ==
    \A s \in Sessions :
        /\ session[s].answer = "key error" => session[s].raced /\ table \notin Translated
        /\ session[s].answer = "too long" =>
               table # "prices" /\ (table = "horse" => session[s].slug \in Slugs)

\* Rows have names that differ, in the tables without a key as in the others;
\* only two requests that look the same name up at the same time can both store
\* it where there is no key.
NamesDiffer ==
    table \in NameKeys \/ (table \notin Homonymous /\ ~Overlap) =>
        \A i, j \in Ids : i # j /\ rows[i] # NoRow /\ rows[j] # NoRow => rows[i].name # rows[j].name
================================================================================
