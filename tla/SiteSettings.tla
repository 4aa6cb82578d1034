------------------------------ MODULE SiteSettings ------------------------------
(***************************************************************************)
(* Types and values of site settings.  An update validates what it is      *)
(* given against the row it has read, and writes the whole row; others may *)
(* commit in between.  Keys and names are in Catalogue.                    *)
(***************************************************************************)
EXTENDS Naturals, FiniteSets

CONSTANTS Sessions, Settings,
          Unset,         \* a field that is not given
          NoSetting      \* no row

VARIABLES settings,      \* committed rows
          editor

vars == <<settings, editor>>

Types == {"string", "number", "boolean", "object"}

Texts == {" 5", "5", "1", "true", "on", "{ }", "{}", "text"}

\* The value a text has as a setting of a type, in its normal form, if it has one.
Valid(text, type) ==
    CASE type = "string" -> {text}
      [] type = "number" -> CASE text \in {" 5", "5"} -> {"5"} [] text = "1" -> {"1"} [] OTHER -> {}
      [] type = "boolean" -> IF text \in {"1", "true", "on"} THEN {"true"} ELSE {}
      [] type = "object" ->
           CASE text \in {" 5", "5"} -> {"5"} [] text \in {"{ }", "{}"} -> {"{}"}
             [] text \in {"1", "true"} -> {text} [] OTHER -> {}

Resting == [pc |-> "idle", id |-> Unset, found |-> FALSE, row |-> NoSetting]

Init ==
    /\ settings = [i \in Settings |-> NoSetting]
    /\ editor = [s \in Sessions |-> Resting]

Resume(s, id, row) ==
    /\ editor' = [editor EXCEPT ![s] =
           [pc |-> "write", id |-> id, found |-> settings[id] # NoSetting, row |-> row]]
    /\ UNCHANGED settings

Unused == {i \in Settings : settings[i] = NoSetting /\ \A s \in Sessions : editor[s].id # i}

Stored == {i \in Settings : settings[i] # NoSetting}

Create(s) ==
    /\ editor[s].pc = "idle"
    /\ \E id \in Unused, text \in Texts, type \in Types : \E value \in Valid(text, type) :
           Resume(s, id, [type |-> type, value |-> value])

\* A type that is given alone is not held against the value.
BugChanged(row, text, type) ==
    LET kind == IF type = Unset THEN row.type ELSE type
    IN  IF text = Unset THEN {[row EXCEPT !.type = kind]}
        ELSE {[type |-> kind, value |-> v] : v \in Valid(text, kind)}

\* The row to write, if the value that is given or kept has the type.
Changed(row, text, type) ==
    LET kind == IF type = Unset THEN row.type ELSE type
    IN  IF text = Unset /\ type = Unset THEN {row}
        ELSE {[type |-> kind, value |-> v] :
                  v \in Valid(IF text = Unset THEN row.value ELSE text, kind)}

Update(s) ==
    /\ editor[s].pc = "idle"
    /\ \E id \in Stored, text \in Texts \cup {Unset}, type \in Types \cup {Unset} :
           \E row \in Changed(settings[id], text, type) : Resume(s, id, row)

Delete(s) ==
    /\ editor[s].pc = "idle"
    /\ \E id \in Stored : Resume(s, id, NoSetting)

\* The statement waits for another transaction that has written the row.  It
\* puts every column, or changes nothing if the row is gone.
Write(s) ==
    LET id == editor[s].id IN
    /\ editor[s].pc = "write"
    /\ \A t \in Sessions \ {s} : editor[t].pc = "end" => editor[t].id # id
    /\ editor' = [editor EXCEPT ![s] = [editor[s] EXCEPT
           !.pc = "end",
           !.row = IF editor[s].found /\ settings[id] = NoSetting THEN NoSetting ELSE editor[s].row]]
    /\ UNCHANGED settings

Commit(s) ==
    /\ editor[s].pc = "end"
    /\ settings' = [settings EXCEPT ![editor[s].id] = editor[s].row]
    /\ editor' = [editor EXCEPT ![s] = Resting]

Next == \E s \in Sessions : Create(s) \/ Update(s) \/ Delete(s) \/ Write(s) \/ Commit(s)

Spec == Init /\ [][Next]_vars

\* Every setting has a value of its type, in normal form, whatever requests
\* change its type and its value at the same time.
ValueFitsType ==
    \A i \in Stored : settings[i].value \in Valid(settings[i].value, settings[i].type)
================================================================================
