------------------------------ MODULE NameProofs ------------------------------
(***************************************************************************)
(* Names differ: where a table has a key for them, whatever requests       *)
(* interleave, by the locks and checks of the key; where it has none, by   *)
(* the lookups of the services, as long as requests do not overlap.  And   *)
(* the lookups, with the slugs they choose, leave nothing for the keys to  *)
(* refuse but what another request has taken in between.                   *)
(***************************************************************************)
EXTENDS Catalogue, FiniteSetTheorems, SequenceTheorems, WellFoundedInduction, TLAPS

Keyed == table \in NameKeys

\* Tables whose names only the services keep apart, in requests one by one.
LookedUp == table \notin NameKeys /\ table \notin Homonymous /\ ~Overlap

Working(s) == session[s].pc # "idle"

\* The rows and the requests are what they are built as.
Shaped ==
    /\ rows = [i \in Ids |-> rows[i]]
    /\ session = [s \in Sessions |->
            [pc |-> session[s].pc, id |-> session[s].id, found |-> session[s].found,
             new |-> session[s].new, slug |-> session[s].slug, raced |-> session[s].raced,
             answer |-> session[s].answer]]

\* No other row has the name of the row that s writes.
Unlike(s) ==
    session[s].new # NoRow =>
        \A i \in Ids \ {session[s].id} : rows[i] # NoRow => rows[i].name # session[s].new.name

\* Transactions that have written are about different rows and different names.
Separate(s, t) ==
    /\ session[s].id # session[t].id
    /\ session[s].new # NoRow /\ session[t].new # NoRow => session[s].new.name # session[t].new.name

Distinct ==
    \A i, j \in Ids : i # j /\ rows[i] # NoRow /\ rows[j] # NoRow => rows[i].name # rows[j].name

NameInv ==
    /\ Shaped
    /\ table \in Tables
    /\ \A s \in Sessions : Working(s) => session[s].pc \in {"write", "end"} /\ session[s].id \in Ids
    /\ Keyed =>
           /\ Distinct
           /\ \A s \in Sessions : session[s].pc = "end" => Unlike(s)
           /\ \A s, t \in Sessions :
                  s # t /\ session[s].pc = "end" /\ session[t].pc = "end" => Separate(s, t)
    /\ LookedUp =>
           /\ Distinct
           /\ \A s \in Sessions : Working(s) => Unlike(s)
           /\ \A s, t \in Sessions : Working(s) /\ Working(t) => s = t

\* What a service makes of a name that it looks up is no other row's.
NewNameFree(id, new) ==
    new # Refused /\ new # NoRow =>
        \A i \in Ids \ {id} : rows[i] # NoRow => rows[i].name # new.name

LEMMA CreatedFree ==
    ASSUME LookedUp, table \in Tables, NEW id \in Ids, NEW name, NEW slug
    PROVE  NewNameFree(id, Created(id, name, slug))
<1>1. table \in {"prices", "price_groups", "horse_service_relations"}
  BY DEF LookedUp, Tables, Slugged, Homonymous, NameKeys
<1>2. ~NameTaken(name, id) => \A i \in Ids \ {id} : rows[i] # NoRow => rows[i].name # name
  BY DEF NameTaken
<1>3. CASE table = "prices"
  <2> DEFINE base == IF slug = Unset THEN GenerateSlug(name) ELSE slug
  <2>1. PriceSlug(id, name, base) = Refused \/ PriceSlug(id, name, base).name = name
    BY DEF PriceSlug, Row
  <2>2. Created(id, name, slug) =
            IF slug = Blank \/ NameTaken(name, id) THEN Refused ELSE PriceSlug(id, name, base)
    BY <1>3 DEF Created, CreatePrice
  <2> HIDE DEF base
  <2> QED
    BY <1>2, <2>1, <2>2 DEF NewNameFree
<1>4. CASE table = "price_groups"
  BY <1>2, <1>4 DEF Created, CreatePriceGroup, Row, NewNameFree
<1>5. CASE table = "horse_service_relations"
  BY <1>2, <1>5 DEF Created, AttachService, Row, NewNameFree
<1> QED
  BY <1>1, <1>3, <1>4, <1>5

LEMMA UpdatedFree ==
    ASSUME LookedUp, table \in Tables, Distinct, NEW id \in Ids, rows[id] # NoRow, NEW name, NEW slug
    PROVE  NewNameFree(id, Updated(id, name, slug))
<1>1. table \in {"prices", "price_groups", "horse_service_relations"}
  BY DEF LookedUp, Tables, Slugged, Homonymous, NameKeys
<1>2. \A i \in Ids \ {id} : rows[i] # NoRow => rows[i].name # rows[id].name
  BY DEF Distinct
<1>3. ~NewNameTaken(id, name) =>
          \A i \in Ids \ {id} : rows[i] # NoRow => rows[i].name # NewName(id, name)
  BY <1>2 DEF NewNameTaken, NameTaken, NewName
<1>4. CASE table = "prices"
  <2>1. \A n, base : PriceSlug(id, n, base) = Refused \/ PriceSlug(id, n, base).name = n
    BY DEF PriceSlug, Row
  <2>2. \/ Updated(id, name, slug) = Refused
        \/ /\ ~NewNameTaken(id, name)
           /\ \/ Updated(id, name, slug) = PriceSlug(id, NewName(id, name), slug)
              \/ Updated(id, name, slug) = rows[id]
              \/ /\ Updated(id, name, slug) = PriceSlug(id, name, GenerateSlug(name))
                 /\ name # Unset
    BY <1>4 DEF Updated, UpdatePrice
  <2> QED
    BY <1>2, <1>3, <2>1, <2>2 DEF NewNameFree, NewName
<1>5. CASE table = "price_groups"
  BY <1>3, <1>5 DEF Updated, UpdatePriceGroup, Row, NewNameFree
<1>6. CASE table = "horse_service_relations"
  BY <1>2, <1>6 DEF Updated, UpdateAttached, NewNameFree
<1> QED
  BY <1>1, <1>4, <1>5, <1>6

\* A request that has looked up what it needs, or is refused.
LEMMA AskNames ==
    ASSUME NameInv, NEW s \in Sessions, Free(s), NEW id \in Ids, NEW slug, NEW new,
           LookedUp => NewNameFree(id, new), Ask(s, id, slug, new)
    PROVE  NameInv'
<1> DEFINE asked == IF new = Refused
                    THEN [Idle EXCEPT !.answer = "refused"]
                    ELSE [Idle EXCEPT !.pc = "write", !.id = id, !.found = rows[id] # NoRow,
                                      !.new = new, !.slug = slug]
<1>1. rows' = rows /\ table' = table /\ session' = [session EXCEPT ![s] = asked]
  BY DEF Ask
<1>2. /\ asked = [pc |-> asked.pc, id |-> asked.id, found |-> asked.found, new |-> asked.new,
                  slug |-> asked.slug, raced |-> asked.raced, answer |-> asked.answer]
      /\ asked.pc # "idle" => asked.pc = "write" /\ asked.id = id /\ asked.new = new /\ new # Refused
  BY DEF Idle, Ended
<1> HIDE DEF asked
<1>3. session'[s] = asked /\ \A t \in Sessions \ {s} : session'[t] = session[t]
  BY <1>1 DEF NameInv, Shaped
<1>4. Shaped'
  BY <1>1, <1>2, <1>3 DEF NameInv, Shaped
<1>5. \A t \in Sessions : Working(t)' => session'[t].pc \in {"write", "end"} /\ session'[t].id \in Ids
  BY <1>2, <1>3 DEF NameInv, Working
<1>6. Keyed' => /\ Distinct'
                /\ \A t \in Sessions : session'[t].pc = "end" => Unlike(t)'
                /\ \A t, u \in Sessions :
                      t # u /\ session'[t].pc = "end" /\ session'[u].pc = "end" => Separate(t, u)'
  BY <1>1, <1>2, <1>3 DEF NameInv, Keyed, Distinct, Unlike, Separate
<1>7. LookedUp' => /\ Distinct'
                   /\ \A t \in Sessions : Working(t)' => Unlike(t)'
                   /\ \A t, u \in Sessions : Working(t)' /\ Working(u)' => t = u
  <2> SUFFICES ASSUME LookedUp'
               PROVE  /\ Distinct'
                      /\ \A t \in Sessions : Working(t)' => Unlike(t)'
                      /\ \A t, u \in Sessions : Working(t)' /\ Working(u)' => t = u
    OBVIOUS
  <2>1. LookedUp /\ \A t \in Sessions : ~Working(t)
    BY <1>1 DEF LookedUp, Free, Working
  <2>2. \A t \in Sessions : Working(t)' => t = s
    BY <1>3, <2>1 DEF Working
  <2>3. Working(s)' => Unlike(s)'
    BY <1>1, <1>2, <1>3, <2>1 DEF Working, Unlike, NewNameFree
  <2> QED
    BY <1>1, <2>1, <2>2, <2>3 DEF NameInv, Distinct
<1> QED
  BY <1>1, <1>4, <1>5, <1>6, <1>7 DEF NameInv

LEMMA FieldsKept ==
    ASSUME NEW r, NEW p, NEW n,
           r = [pc |-> r.pc, id |-> r.id, found |-> r.found, new |-> r.new, slug |-> r.slug,
                raced |-> r.raced, answer |-> r.answer]
    PROVE  [r EXCEPT !.pc = p, !.new = n] =
               [pc |-> p, id |-> r.id, found |-> r.found, new |-> n, slug |-> r.slug,
                raced |-> r.raced, answer |-> r.answer]
<1> DEFINE first == [pc |-> p, id |-> r.id, found |-> r.found, new |-> r.new, slug |-> r.slug,
                     raced |-> r.raced, answer |-> r.answer]
<1>1. [r EXCEPT !.pc = p] = first
  <2>1. PICK id, found, slug, raced, answer, new, pc :
            r = [pc |-> pc, id |-> id, found |-> found, new |-> new, slug |-> slug, raced |-> raced,
                 answer |-> answer]
    OBVIOUS
  <2> QED
    BY <2>1
<1>2. [first EXCEPT !.new = n] =
          [pc |-> p, id |-> r.id, found |-> r.found, new |-> n, slug |-> r.slug,
           raced |-> r.raced, answer |-> r.answer]
  OBVIOUS
<1>3. [r EXCEPT !.pc = p, !.new = n] = [[r EXCEPT !.pc = p] EXCEPT !.new = n]
  OBVIOUS
<1> HIDE DEF first
<1> QED
  BY <1>1, <1>2, <1>3, Zenon

LEMMA WriteNames == ASSUME NameInv, NEW s \in Sessions, Write(s) PROVE NameInv'
<1> DEFINE id == session[s].id
           new == session[s].new
<1>1. session[s].pc = "write" /\ ~Waits(s) /\ id \in Ids /\ rows' = rows /\ table' = table
  BY DEF Write, NameInv, Working
<1>2. CASE \E answer : Answered(s, answer)
  <2>1. PICK answer : Answered(s, answer)
    BY <1>2
  <2>2. /\ session' = [session EXCEPT ![s] =
            [pc |-> "idle", id |-> Unset, found |-> FALSE, new |-> NoRow, slug |-> session[s].slug,
             raced |-> session[s].raced, answer |-> answer]]
    BY <2>1 DEF Answered, Ended
  <2>3. session'[s].pc = "idle" /\ \A t \in Sessions \ {s} : session'[t] = session[t]
    BY <2>2 DEF NameInv, Shaped
  <2>4. Shaped'
    BY <1>1, <2>2, <2>3 DEF NameInv, Shaped
  <2> QED
    BY <1>1, <2>3, <2>4 DEF NameInv, Working, Keyed, LookedUp, Distinct, Unlike, Separate
<1>3. CASE Written(s) /\ (\/ session[s].found /\ rows[id] = NoRow
                          \/ ~\E i \in Ids \ {id} : Clash(rows[i], new))
  <2> DEFINE kept == IF session[s].found /\ rows[id] = NoRow THEN NoRow ELSE new
             done == [session[s] EXCEPT !.pc = "end", !.new = kept]
  <2>1. session' = [session EXCEPT ![s] = done]
    BY <1>3 DEF Written
  <2>2. session[s] = [pc |-> session[s].pc, id |-> session[s].id, found |-> session[s].found,
             new |-> session[s].new, slug |-> session[s].slug, raced |-> session[s].raced,
             answer |-> session[s].answer]
    BY DEF NameInv, Shaped
  <2>3. done = [pc |-> "end", id |-> id, found |-> session[s].found,
             new |-> kept, slug |-> session[s].slug, raced |-> session[s].raced,
             answer |-> session[s].answer]
    <3> HIDE DEF kept
    <3> QED
      BY <2>2, FieldsKept
  <2>4. kept # NoRow => kept = new /\ ~\E i \in Ids \ {id} : Clash(rows[i], new)
    BY <1>3
  <2> HIDE DEF kept, done
  <2>5. /\ session'[s].pc = "end" /\ session'[s].id = id /\ session'[s].new = kept
        /\ \A t \in Sessions \ {s} : session'[t] = session[t]
    BY <2>1, <2>3 DEF NameInv, Shaped
  <2>6. Shaped'
    BY <1>1, <2>1, <2>3, <2>5 DEF NameInv, Shaped
  <2>7. ASSUME Keyed
        PROVE  /\ Distinct'
               /\ \A t \in Sessions : session'[t].pc = "end" => Unlike(t)'
               /\ \A t, u \in Sessions :
                      t # u /\ session'[t].pc = "end" /\ session'[u].pc = "end" => Separate(t, u)'
    <3>1. Unlike(s)'
      BY <1>1, <2>4, <2>5, <2>7 DEF Unlike, Clash, Keyed
    <3>2. \A t \in Sessions \ {s} : session[t].pc = "end" =>
             /\ session[t].id # id
             /\ kept # NoRow /\ session[t].new # NoRow => session[t].new.name # kept.name
      BY <1>1, <2>4, <2>7 DEF Waits, Clash, Keyed
    <3> QED
      BY <1>1, <2>5, <2>7, <3>1, <3>2 DEF NameInv, Distinct, Unlike, Separate
  <2>8. ASSUME LookedUp
        PROVE  /\ Distinct'
               /\ \A t \in Sessions : Working(t)' => Unlike(t)'
               /\ \A t, u \in Sessions : Working(t)' /\ Working(u)' => t = u
    <3>1. Unlike(s)'
      BY <1>1, <2>4, <2>5, <2>8 DEF NameInv, Unlike, Working
    <3> QED
      BY <1>1, <2>5, <2>8, <3>1 DEF NameInv, Distinct, Unlike, Working
  <2> QED
    BY <1>1, <2>5, <2>6, <2>7, <2>8 DEF NameInv, Working, Keyed, LookedUp
<1> QED
  BY <1>2, <1>3 DEF Write

LEMMA CommitNames == ASSUME NameInv, NEW s \in Sessions, Commit(s) PROVE NameInv'
<1> DEFINE id == session[s].id
           new == session[s].new
<1>1. session[s].pc = "end" /\ id \in Ids /\ table' = table
  BY DEF Commit, NameInv, Working
<1>2. rows' = [rows EXCEPT ![id] = new]
  BY DEF Commit
<1>3. rows'[id] = new /\ \A i \in Ids \ {id} : rows'[i] = rows[i]
  BY <1>1, <1>2 DEF NameInv, Shaped
<1>4. session'[s].pc = "idle"
  BY DEF Commit, Idle, Ended
<1>5. ASSUME NEW t \in Sessions \ {s}
      PROVE  \E raced :
                session'[t] = [pc |-> session[t].pc, id |-> session[t].id, found |-> session[t].found,
                               new |-> session[t].new, slug |-> session[t].slug, raced |-> raced,
                               answer |-> session[t].answer]
  <2>1. PICK raced : session'[t] = [session[t] EXCEPT !.raced = raced]
    BY DEF Commit
  <2>2. session[t] = [pc |-> session[t].pc, id |-> session[t].id, found |-> session[t].found,
             new |-> session[t].new, slug |-> session[t].slug, raced |-> session[t].raced,
             answer |-> session[t].answer]
    BY DEF NameInv, Shaped
  <2> QED
    BY <2>1, <2>2
<1>6. ASSUME NEW t \in Sessions \ {s}
      PROVE  session'[t].pc = session[t].pc /\ session'[t].id = session[t].id
             /\ session'[t].new = session[t].new
  <2>1. PICK raced :
            session'[t] = [pc |-> session[t].pc, id |-> session[t].id, found |-> session[t].found,
                           new |-> session[t].new, slug |-> session[t].slug, raced |-> raced,
                           answer |-> session[t].answer]
    BY <1>5
  <2> QED
    BY <2>1
<1>7. Shaped'
  <2>1. rows' = [i \in Ids |-> rows'[i]]
    BY <1>2 DEF NameInv, Shaped
  <2>2. session' = [t \in Sessions |-> session'[t]]
    BY DEF Commit
  <2>3. session'[s] = [pc |-> session'[s].pc, id |-> session'[s].id, found |-> session'[s].found,
             new |-> session'[s].new, slug |-> session'[s].slug, raced |-> session'[s].raced,
             answer |-> session'[s].answer]
    BY DEF Commit, Idle, Ended
  <2>4. \A t \in Sessions : session'[t] =
            [pc |-> session'[t].pc, id |-> session'[t].id, found |-> session'[t].found,
             new |-> session'[t].new, slug |-> session'[t].slug, raced |-> session'[t].raced,
             answer |-> session'[t].answer]
    <3> SUFFICES ASSUME NEW t \in Sessions \ {s}
                 PROVE  session'[t] =
            [pc |-> session'[t].pc, id |-> session'[t].id, found |-> session'[t].found,
             new |-> session'[t].new, slug |-> session'[t].slug, raced |-> session'[t].raced,
             answer |-> session'[t].answer]
      BY <2>3
    <3>1. PICK raced :
            session'[t] = [pc |-> session[t].pc, id |-> session[t].id, found |-> session[t].found,
                           new |-> session[t].new, slug |-> session[t].slug, raced |-> raced,
                           answer |-> session[t].answer]
      BY <1>5
    <3> QED
      BY <3>1
  <2> QED
    BY <2>1, <2>2, <2>4 DEF Shaped
<1> HIDE DEF id, new
<1>8. ASSUME Keyed \/ LookedUp
      PROVE  Distinct'
  <2>1. Distinct /\ (new # NoRow => \A i \in Ids \ {id} : rows[i] # NoRow => rows[i].name # new.name)
    BY <1>1, <1>8 DEF NameInv, Unlike, Working, id, new
  <2> QED
    BY <1>1, <1>3, <2>1 DEF Distinct
<1>9. ASSUME Keyed, NEW t \in Sessions, session'[t].pc = "end"
      PROVE  Unlike(t)'
  <2>1. t # s /\ session[t].pc = "end"
    BY <1>4, <1>6, <1>9
  <2>2. Unlike(t) /\ Separate(s, t)
    BY <1>1, <1>9, <2>1 DEF NameInv
  <2> QED
    BY <1>1, <1>3, <1>6, <2>1, <2>2 DEF Unlike, Separate, id, new
<1>10. ASSUME Keyed, NEW t \in Sessions, NEW u \in Sessions, t # u,
              session'[t].pc = "end", session'[u].pc = "end"
       PROVE  Separate(t, u)'
  BY <1>4, <1>6, <1>10 DEF NameInv, Separate
<1>11. ASSUME LookedUp
       PROVE  \A t \in Sessions : ~Working(t)'
  BY <1>1, <1>4, <1>6, <1>11 DEF NameInv, Working
<1>12. \A t \in Sessions : Working(t)' => session'[t].pc \in {"write", "end"} /\ session'[t].id \in Ids
  BY <1>4, <1>6 DEF NameInv, Working
<1> QED
  BY <1>1, <1>7, <1>8, <1>9, <1>10, <1>11, <1>12 DEF NameInv, Keyed, LookedUp

LEMMA NamesStep == NameInv /\ [Next]_vars => NameInv'
<1> SUFFICES ASSUME NameInv, [Next]_vars PROVE NameInv'
  OBVIOUS
<1>1. ASSUME NEW s \in Sessions, Create(s)
      PROVE  NameInv'
  <2>1. PICK id \in Ids, name \in Names, slug \in Given : Ask(s, id, slug, Created(id, name, slug))
    BY <1>1 DEF Create
  <2>2. Free(s) /\ (LookedUp => NewNameFree(id, Created(id, name, slug)))
    BY <1>1, CreatedFree DEF Create, NameInv
  <2> QED
    BY <2>1, <2>2, AskNames
<1>2. ASSUME NEW s \in Sessions, Update(s)
      PROVE  NameInv'
  <2>1. PICK id \in {i \in Ids : rows[i] # NoRow}, name \in Names \cup {Unset}, slug \in Given :
            Ask(s, id, slug, Updated(id, name, slug))
    BY <1>2 DEF Update
  <2>2. Free(s) /\ (LookedUp => NewNameFree(id, Updated(id, name, slug)))
    BY <1>2, UpdatedFree DEF Update, NameInv
  <2> QED
    BY <2>1, <2>2, AskNames
<1>3. ASSUME NEW s \in Sessions, Delete(s)
      PROVE  NameInv'
  <2>1. PICK id \in {i \in Ids : rows[i] # NoRow} : Ask(s, id, Unset, NoRow)
    BY <1>3 DEF Delete
  <2> QED
    BY <1>3, <2>1, AskNames DEF Delete, NewNameFree
<1>4. ASSUME UNCHANGED vars
      PROVE  NameInv'
  BY <1>4 DEF vars, NameInv, Shaped, Keyed, LookedUp, Working, Unlike, Separate, Distinct
<1> QED
  BY <1>1, <1>2, <1>3, <1>4, WriteNames, CommitNames DEF Next

LEMMA NamesInit == Init => NameInv
<1> SUFFICES ASSUME Init PROVE NameInv
  OBVIOUS
<1>1. Shaped
  BY DEF Init, Shaped, Idle, Ended
<1>2. \A s \in Sessions : session[s].pc = "idle"
  BY DEF Init, Idle, Ended
<1>3. Distinct
  BY DEF Init, Distinct
<1> QED
  BY <1>1, <1>2, <1>3 DEF Init, NameInv, Working

LEMMA NamesKept == NameInv => NamesDiffer
BY DEF NameInv, NamesDiffer, Keyed, LookedUp, Distinct

\* Two requests that look a name up at the same time are told apart by the
\* key of their table, one after the other by their lookups: NamesDiffer
\* always holds.
THEOREM NamesStayDifferent == Spec => []NamesDiffer
BY NamesInit, NamesStep, NamesKept, PTL DEF Spec

(***************************************************************************)
(* Sets of numbers                                                         *)
(***************************************************************************)

LEMMA LeastNumber ==
    ASSUME NEW S \in SUBSET Nat, S # {}
    PROVE  \E c \in S : \A d \in S : c <= d
<1> DEFINE Less == {ss \in Nat \X Nat : ss[1] < ss[2]}
<1>1. IsWellFoundedOn(Less, Nat)
  BY NatLessThanWellFounded DEF OpToRel
<1>2. PICK c \in S : \A d \in S : ~(<<d, c>> \in Less)
  BY <1>1, WFMin
<1>3. \A d \in S : ~(d < c)
  BY <1>2
<1> QED
  BY <1>2, <1>3

(***************************************************************************)
(* Slugs are sequences                                                     *)
(***************************************************************************)

Joined(a, m, s) == a = [i \in 1 .. m |-> IF i = 1 THEN s[i] ELSE a[i-1] \o s[i]]

\* FlattenSeq is what its recursion says, by least counterexample.
LEMMA Joins == ASSUME NEW s, NEW m \in Nat PROVE \E a : Joined(a, m, s)
<1> DEFINE Bad == {k \in Nat : \A a : ~Joined(a, k, s)}
<1> SUFFICES ASSUME Bad # {} PROVE FALSE
  OBVIOUS
<1>1. PICK k \in Bad : \A d \in Bad : k <= d
  BY LeastNumber
<1>2. CASE k = 0
  <2> DEFINE a == [i \in 1 .. 0 |-> s[i]]
  <2>1. \A i \in 1 .. 0 : FALSE
    OBVIOUS
  <2>2. a = [i \in 1 .. 0 |-> IF i = 1 THEN s[i] ELSE a[i-1] \o s[i]]
    BY <2>1, Zenon
  <2>3. Joined(a, 0, s)
    BY <2>2 DEF Joined
  <2> QED
    BY <1>1, <1>2, <2>3
<1>3. CASE k # 0
  <2>1. k \in Nat /\ k - 1 \in Nat /\ k - 1 \notin Bad
    BY <1>1, <1>3
  <2>2. PICK b : Joined(b, k - 1, s)
    BY <2>1
  <2> DEFINE Then(i) == IF i = 1 THEN s[i] ELSE b[i-1] \o s[i]
             a == [i \in 1 .. k |-> Then(i)]
  <2>3. b = [i \in 1 .. (k - 1) |-> Then(i)]
    BY <2>2 DEF Joined
  <2>4. \A i \in 1 .. (k - 1) : a[i] = b[i]
    <3> HIDE DEF Then
    <3> QED
      BY <2>1, <2>3
  <2>5. \A i \in 1 .. k : i # 1 => i - 1 \in 1 .. (k - 1) /\ a[i-1] = b[i-1]
    <3>1. \A i \in 1 .. k : i # 1 => i - 1 \in 1 .. (k - 1)
      BY <2>1
    <3> HIDE DEF a
    <3> QED
      BY <2>4, <3>1
  <2>6. a = [i \in 1 .. k |-> IF i = 1 THEN s[i] ELSE a[i-1] \o s[i]]
    BY <2>5
  <2>7. Joined(a, k, s)
    BY <2>6 DEF Joined
  <2> QED
    BY <1>1, <2>7
<1> QED
  BY <1>2, <1>3

LEMMA FlattenedSeq ==
    ASSUME NEW C, NEW s \in Seq(Seq(C))
    PROVE  FlattenSeq(s) \in Seq(C)
<1>1. CASE Len(s) = 0
  <2>1. s = <<>>
    BY <1>1
  <2> QED
    BY <1>1, <2>1 DEF FlattenSeq
<1>2. CASE Len(s) # 0
  <2> DEFINE n == Len(s)
             a == CHOOSE b : Joined(b, n, s)
             Bad == {i \in 1 .. n : a[i] \notin Seq(C)}
  <2>1. n \in Nat /\ n # 0
    BY <1>2
  <2>2. Joined(a, n, s)
    BY <2>1, Joins
  <2>3. FlattenSeq(s) = a[n]
    BY <1>2 DEF FlattenSeq, Joined
  <2> HIDE DEF a
  <2>4. a = [i \in 1 .. n |-> IF i = 1 THEN s[i] ELSE a[i-1] \o s[i]]
    BY <2>2 DEF Joined
  <2>5. \A i \in 1 .. n : s[i] \in Seq(C)
    BY <2>1
  <2> HIDE DEF n
  <2>6. CASE Bad # {}
    <3>1. PICK i \in Bad : \A j \in Bad : i <= j
      <4>1. Bad \in SUBSET Nat
        BY <2>1
      <4> HIDE DEF Bad
      <4> QED
        BY <2>6, <4>1, LeastNumber
    <3>2. i \in 1 .. n /\ a[i] = IF i = 1 THEN s[i] ELSE a[i-1] \o s[i]
      <4> DEFINE Then(j) == IF j = 1 THEN s[j] ELSE a[j-1] \o s[j]
      <4>1. a = [j \in 1 .. n |-> Then(j)]
        BY <2>4
      <4> HIDE DEF Then
      <4>2. \A j \in 1 .. n : a[j] = Then(j)
        BY <4>1
      <4> QED
        BY <4>2 DEF Then
    <3>3. i # 1 => a[i-1] \in Seq(C)
      <4>1. i # 1 => i - 1 \in 1 .. n /\ ~(i <= i - 1)
        BY <2>1, <3>2
      <4>2. i # 1 => i - 1 \notin Bad
        BY <3>1, <4>1
      <4> QED
        BY <4>1, <4>2
    <3>4. a[i] \in Seq(C)
      BY <2>5, <3>2, <3>3
    <3> QED
      BY <3>4
  <2>7. CASE Bad = {}
    BY <2>1, <2>3, <2>7
  <2> QED
    BY <2>6, <2>7
<1> QED
  BY <1>1, <1>2

\* The provers do not know that these are strings.
Char == STRING \cup {"a", "s", "c", "h", "-"}

LEMMA Singletons == \A C : <<>> \in Seq(C) /\ \A c \in C : <<c>> \in Seq(C)
OBVIOUS

LEMMA Triples == ASSUME NEW C, NEW c \in C, NEW d \in C, NEW e \in C PROVE <<c, d, e>> \in Seq(C)
OBVIOUS

LEMMA Tuples ==
    ASSUME NEW C, NEW n \in Nat, NEW f, f = [i \in 1 .. n |-> f[i]], \A i \in 1 .. n : f[i] \in C
    PROVE  f \in Seq(C)
OBVIOUS

LEMMA LatinSeq == ASSUME NEW c \in Char PROVE Latin(c) \in Seq(Char)
<1>1. <<c>> \in Seq(Char) /\ <<"a">> \in Seq(Char) /\ <<>> \in Seq(Char)
  BY Singletons DEF Char
<1>2. <<"s", "c", "h">> \in Seq(Char)
  <2>1. "s" \in Char /\ "c" \in Char /\ "h" \in Char
    BY DEF Char
  <2> QED
    BY <2>1, Triples
<1> QED
  BY <1>1, <1>2 DEF Latin

LEMMA GeneratedSeq ==
    ASSUME NEW text \in Seq(Char)
    PROVE  GenerateSlug(text) \in Seq(Char)
<1> DEFINE latin == [i \in DOMAIN text |-> Latin(text[i])]
           t == FlattenSeq(latin)
           letters == {i \in DOMAIN t : t[i] \notin {" ", "-"}}
           hyphens == {i \in DOMAIN t \ letters : i - 1 \in letters /\ \E j \in letters : i < j}
           kept == [i \in DOMAIN t |->
                       IF i \in letters THEN <<t[i]>> ELSE IF i \in hyphens THEN <<"-">> ELSE <<>>]
<1>1. DOMAIN text = 1 .. Len(text) /\ Len(text) \in Nat /\ \A i \in 1 .. Len(text) : text[i] \in Char
  OBVIOUS
<1>2. latin \in Seq(Seq(Char))
  <2>1. \A i \in 1 .. Len(text) : latin[i] \in Seq(Char)
    BY <1>1, LatinSeq
  <2>2. latin = [i \in 1 .. Len(text) |-> latin[i]]
    BY <1>1
  <2> HIDE DEF latin
  <2> QED
    BY <1>1, <2>1, <2>2, Tuples
<1>3. GenerateSlug(text) = FlattenSeq(kept)
  BY DEF GenerateSlug
<1> HIDE DEF latin
<1>4. t \in Seq(Char)
  BY <1>2, FlattenedSeq
<1> HIDE DEF t, letters, hyphens
<1>5. DOMAIN t = 1 .. Len(t) /\ Len(t) \in Nat /\ \A i \in 1 .. Len(t) : t[i] \in Char
  BY <1>4
<1>6. kept \in Seq(Seq(Char))
  <2>1. \A i \in 1 .. Len(t) : kept[i] \in Seq(Char)
    <3>1. "-" \in Char
      BY DEF Char
    <3> QED
      BY <1>5, <3>1, Singletons
  <2>2. kept = [i \in 1 .. Len(t) |-> kept[i]]
    BY <1>5
  <2> HIDE DEF kept
  <2> QED
    BY <1>5, <2>1, <2>2, Tuples
<1> HIDE DEF kept
<1> QED
  BY <1>3, <1>6, FlattenedSeq

(***************************************************************************)
(* The search for a slug ends with one that no other row has               *)
(***************************************************************************)

\* Among more candidates that differ than there are other rows, one is free.
LEMMA OneIsFree ==
    ASSUME IsFiniteSet(Ids), NEW id \in Ids, NEW candidates, DOMAIN candidates = Attempts,
           \A j, k \in 1 .. Cardinality(Ids) : candidates[j] = candidates[k] => j = k
    PROVE  \E k \in Attempts : FirstFree(candidates, id) = candidates[k] /\ ~SlugTaken(candidates[k], id)
<1> DEFINE n == Cardinality(Ids)
           Others == Ids \ {id}
           Untaken == {k \in DOMAIN candidates : ~SlugTaken(candidates[k], id)}
<1>1. n \in Nat /\ IsFiniteSet(Others) /\ Cardinality(Others) = n - 1
  BY FS_CardinalityType, FS_RemoveElement
<1>2. IsFiniteSet(1 .. n) /\ Cardinality(1 .. n) = n
  BY <1>1, FS_Interval
<1>3. \E k \in 1 .. n : ~SlugTaken(candidates[k], id)
  <2> SUFFICES ASSUME \A k \in 1 .. n : SlugTaken(candidates[k], id) PROVE FALSE
    OBVIOUS
  <2> DEFINE holder == [k \in 1 .. n |-> CHOOSE i \in Others : rows[i] # NoRow /\ rows[i].slug = candidates[k]]
  <2>1. \A k \in 1 .. n : \E i \in Others : rows[i] # NoRow /\ rows[i].slug = candidates[k]
    BY DEF SlugTaken
  <2>2. \A k \in 1 .. n : holder[k] \in Others /\ rows[holder[k]].slug = candidates[k]
    BY <2>1
  <2>3. holder \in [1 .. n -> Others]
    BY <2>2
  <2> HIDE DEF holder, Others, n
  <2>4. Cardinality(Others) < Cardinality(1 .. n)
    BY <1>1, <1>2
  <2>5. \E j, k \in 1 .. n : j # k /\ holder[j] = holder[k]
    BY <1>1, <1>2, <2>3, <2>4, FS_PigeonHole
  <2> QED
    BY <2>2, <2>5 DEF n
<1>4. Untaken \in SUBSET Nat /\ Untaken # {}
  BY <1>1, <1>3 DEF Attempts
<1> HIDE DEF Untaken
<1>5. PICK least \in Untaken : \A d \in Untaken : least <= d
  BY <1>4, LeastNumber
<1>6. Min(Untaken) \in Untaken
  BY <1>5 DEF Min
<1>7. FirstFree(candidates, id) = candidates[Min(Untaken)]
  BY DEF FirstFree, Untaken
<1>8. \A k \in Untaken : k \in Attempts /\ ~SlugTaken(candidates[k], id)
  BY DEF Untaken
<1> QED
  BY <1>6, <1>7, <1>8

LEMMA EndsWithPair ==
    ASSUME NEW C, NEW s \in Seq(C), NEW t \in Seq(C), Len(t) = 2
    PROVE  Len(s \o t) = Len(s) + 2 /\ (s \o t)[Len(s) + 2] = t[2]
<1>1. Len(s) \in Nat
  OBVIOUS
<1>2. PICK n : n = Len(s)
  OBVIOUS
<1>3. n + 2 \in 1 .. n + 2 /\ ~(n + 2 <= n) /\ (n + 2) - n = 2
  BY <1>1, <1>2
<1>4. /\ Len(s \o t) = n + Len(t)
      /\ \A i \in 1 .. n + Len(t) : (s \o t)[i] = IF i <= n THEN s[i] ELSE t[i - n]
  BY <1>2, ConcatProperties, Zenon
<1>5. (s \o t)[n + 2] = IF n + 2 <= n THEN s[n + 2] ELSE t[(n + 2) - n]
  BY <1>3, <1>4, Zenon
<1>6. (s \o t)[n + 2] = t[2]
  BY <1>3, <1>5, Zenon
<1> QED
  BY <1>2, <1>4, <1>6, Zenon

LEMMA SuffixEnds ==
    ASSUME NEW C, NEW base \in Seq(C), NEW k \in Nat, k # 0
    PROVE  /\ Len(base \o Suffix(k)) = Len(base) + 2
           /\ (base \o Suffix(k))[Len(base) + 2] = ToString(k)
<1> DEFINE last == ToString(k)
           All == C \cup {"-", last}
<1>1. Suffix(k) = <<"-", last>>
  BY DEF Suffix
<1> HIDE DEF last
<1>2. base \in Seq(All)
  OBVIOUS
<1>3. <<"-", last>> \in Seq(All) /\ Len(<<"-", last>>) = 2 /\ <<"-", last>>[2] = last
  OBVIOUS
<1> HIDE DEF All
<1>4. /\ Len(base \o <<"-", last>>) = Len(base) + 2
      /\ (base \o <<"-", last>>)[Len(base) + 2] = last
  BY <1>2, <1>3, EndsWithPair
<1> QED
  BY <1>1, <1>4 DEF last

LEMMA MinOfTwo ==
    ASSUME NEW a \in Nat, NEW b \in Nat
    PROVE  Min({a, b}) \in {a, b} /\ Min({a, b}) <= a /\ Min({a, b}) <= b
<1>1. \E x \in {a, b} : \A y \in {a, b} : x =< y
  OBVIOUS
<1>2. Min({a, b}) \in {a, b} /\ \A y \in {a, b} : Min({a, b}) =< y
  BY <1>1 DEF Min
<1> QED
  BY <1>2

\* A slug of any length ends up free.
LEMMA SuffixedFree ==
    ASSUME SlugConstants, NEW id \in Ids, NEW C, NEW base \in Seq(C)
    PROVE  ~SlugTaken(Suffixed(base, id), id)
<1> DEFINE candidates == [k \in Attempts |-> base \o Suffix(k)]
<1>1. Cardinality(Ids) \in Nat
  BY FS_CardinalityType DEF SlugConstants
<1>2. DOMAIN candidates = Attempts
  OBVIOUS
<1>3. \A j, k \in 1 .. Cardinality(Ids) : candidates[j] = candidates[k] => j = k
  <2>1. \A k \in 1 .. Cardinality(Ids) : /\ k \in Attempts
                                         /\ candidates[k][Len(base) + 2] = ToString(k)
    BY <1>1, SuffixEnds DEF Attempts
  <2> HIDE DEF candidates
  <2> QED
    BY <2>1 DEF SlugConstants
<1>4. Suffixed(base, id) = FirstFree(candidates, id)
  BY DEF Suffixed
<1> HIDE DEF candidates
<1> QED
  BY <1>2, <1>3, <1>4, OneIsFree DEF SlugConstants

\* A slug that is cut for its suffix ends up free and fits its column.
LEMMA FittedFree ==
    ASSUME SlugConstants, NEW id \in Ids, NEW C, NEW base \in Seq(C)
    PROVE  /\ ~SlugTaken(Fitted(base, id), id)
           /\ ~(Len(Fitted(base, id)) > MaxLength)
<1> DEFINE Cut(k) == SubSeq(base, 1, Min({Len(base), MaxLength - Len(Suffix(k))}))
           candidates == [k \in Attempts |-> Cut(k) \o Suffix(k)]
           m == Min({Len(base), MaxLength - 2})
<1>1. Cardinality(Ids) \in Nat /\ MaxLength \in Nat /\ MaxLength - 2 \in Nat
  BY FS_CardinalityType DEF SlugConstants
<1>2. \A a, b \in Nat : Min({a, b}) \in {a, b} /\ Min({a, b}) <= a /\ Min({a, b}) <= b
  BY MinOfTwo
<1>3. DOMAIN candidates = Attempts
  OBVIOUS
<1>4. m \in Nat /\ m <= Len(base) /\ m + 2 <= MaxLength
  BY <1>1, <1>2
<1>5. SubSeq(base, 1, m) \in Seq(C) /\ Len(SubSeq(base, 1, m)) = m
  <2> HIDE DEF m
  <2> QED
    BY <1>4
<1>6. \A k \in 1 .. Cardinality(Ids) : candidates[k] = SubSeq(base, 1, m) \o Suffix(k)
  <2>1. \A k \in 1 .. Cardinality(Ids) : k \in Attempts /\ Len(Suffix(k)) = 2
    BY <1>1 DEF Attempts, Suffix
  <2> QED
    BY <2>1
<1>7. \A k \in 1 .. Cardinality(Ids) : candidates[k][m + 2] = ToString(k) /\ Len(candidates[k]) = m + 2
  <2>1. \A k \in 1 .. Cardinality(Ids) : k \in Nat /\ k # 0
    BY <1>1
  <2> HIDE DEF m, candidates
  <2> QED
    BY <1>5, <1>6, <2>1, SuffixEnds
<1>8. Len(candidates[0]) <= MaxLength
  <2>1. candidates[0] = SubSeq(base, 1, Min({Len(base), MaxLength})) \o <<>>
    <3>1. 0 \in Attempts /\ Suffix(0) = <<>> /\ MaxLength - Len(Suffix(0)) = MaxLength
      BY <1>1 DEF Attempts, Suffix
    <3> QED
      BY <3>1
  <2>2. PICK k : k = Min({Len(base), MaxLength})
    OBVIOUS
  <2>3. k \in Nat /\ k <= MaxLength /\ k <= Len(base)
    BY <1>1, <1>2, <2>2
  <2>4. SubSeq(base, 1, k) \in Seq(C) /\ Len(SubSeq(base, 1, k)) = k
    BY <2>3
  <2>5. SubSeq(base, 1, k) \o <<>> = SubSeq(base, 1, k)
    BY <2>4, ConcatEmptySeq
  <2> QED
    BY <2>1, <2>2, <2>3, <2>4, <2>5
<1>9. Fitted(base, id) = FirstFree(candidates, id)
  BY DEF Fitted
<1> HIDE DEF candidates, m
<1>10. \A j, k \in 1 .. Cardinality(Ids) : candidates[j] = candidates[k] => j = k
  BY <1>1, <1>7 DEF SlugConstants, Attempts
<1>11. \A k \in Attempts : ~(Len(candidates[k]) > MaxLength)
  <2>1. \A k \in Attempts : k = 0 \/ k \in 1 .. Cardinality(Ids)
    BY <1>1 DEF Attempts
  <2>2. \A k \in 1 .. Cardinality(Ids) : ~(Len(candidates[k]) > MaxLength)
    BY <1>1, <1>4, <1>7
  <2>3. ~(Len(candidates[0]) > MaxLength)
    BY <1>1, <1>8
  <2> QED
    BY <2>1, <2>2, <2>3
<1> QED
  BY <1>3, <1>9, <1>10, <1>11, OneIsFree DEF SlugConstants

(***************************************************************************)
(* What a service has looked up it can write                               *)
(***************************************************************************)

\* Where the service cuts a slug that it makes.
Cuts(slug) == table = "prices" \/ (table = "horse" /\ slug \notin Slugs)

Stored(row) == row # NoRow => row.name \in Names /\ ~TooLong(row)

RowsKept ==
    /\ \A i \in Ids : Stored(rows[i])
    /\ \A i, j \in Ids : i # j => ~Clash(rows[i], rows[j])

Foreseen(id, slug, new) ==
    new # Refused /\ new # NoRow =>
        /\ new.name \in Names
        /\ table \in NameKeys => ~NameTaken(new.name, id)
        /\ table \in SlugKeys => ~SlugTaken(new.slug, id)
        /\ Cuts(slug) => ~(Len(new.slug) > MaxLength)

LEMMA BasesAreSeqs ==
    ASSUME SlugConstants
    PROVE  /\ \A name \in Names : GenerateSlug(name) \in Seq(Char)
           /\ \A slug \in Slugs : slug \in Seq(Char)
<1>1. Seq(STRING) \subseteq Seq(Char)
  BY DEF Char
<1>2. Names \subseteq Seq(Char) /\ Slugs \subseteq Seq(Char)
  BY <1>1 DEF SlugConstants
<1> QED
  BY <1>2, GeneratedSeq

LEMMA ForeseenRow ==
    ASSUME NEW id, NEW slug, NEW name, NEW base, name \in Names,
           table \in NameKeys => ~NameTaken(name, id), table \in SlugKeys => ~SlugTaken(base, id),
           Cuts(slug) => ~(Len(base) > MaxLength)
    PROVE  Foreseen(id, slug, Row(name, base))
BY DEF Foreseen, Row

LEMMA CreatedForeseen ==
    ASSUME SlugConstants, table \in Tables, NEW id \in Ids, NEW name \in Names, NEW slug \in Given
    PROVE  Foreseen(id, slug, Created(id, name, slug))
<1>1. GenerateSlug(name) \in Seq(Char) /\ (slug \in Slugs => slug \in Seq(Char))
  BY BasesAreSeqs
<1>2. \A base \in Seq(Char) : /\ ~SlugTaken(Suffixed(base, id), id)
                              /\ ~SlugTaken(Fitted(base, id), id)
                              /\ ~(Len(Fitted(base, id)) > MaxLength)
  BY SuffixedFree, FittedFree
<1> DEFINE base == IF slug \in Slugs THEN slug ELSE GenerateSlug(name)
<1>3. base \in Seq(Char)
  BY <1>1
<1>4. Foreseen(id, slug, Refused)
  BY DEF Foreseen
<1> HIDE DEF base
<1>5. ASSUME table \in {"breeds", "horse_service"}
      PROVE  Foreseen(id, slug, Created(id, name, slug))
  <2>1. Created(id, name, slug) = IF NameTaken(name, id) THEN Refused ELSE Row(name, Suffixed(base, id))
    BY <1>5 DEF Created, CreateHorseService, CreateBreed, base
  <2>2. ~Cuts(slug)
    BY <1>5 DEF Cuts
  <2> QED
    BY <1>2, <1>3, <1>4, <2>1, <2>2, ForeseenRow
<1>6. CASE table = "coat_color"
  <2>1. Created(id, name, slug) =
            IF NameTaken(name, id) \/ Occupied(id, slug) THEN Refused
            ELSE Row(name, IF slug \in Slugs THEN slug ELSE Suffixed(GenerateSlug(name), id))
    BY <1>6 DEF Created, CreateCoatColor
  <2>2. ~Cuts(slug) /\ (~Occupied(id, slug) /\ slug \in Slugs => ~SlugTaken(slug, id))
    BY <1>6 DEF Cuts, Occupied
  <2> QED
    BY <1>1, <1>2, <1>4, <2>1, <2>2, ForeseenRow
<1>7. CASE table = "breed_groups"
  <2>1. Created(id, name, slug) =
            IF NameTaken(name, id) \/ Unfit(base) THEN Refused ELSE Row(name, Suffixed(base, id))
    BY <1>7 DEF Created, CreateBreedGroup, base
  <2>2. ~Cuts(slug)
    BY <1>7 DEF Cuts
  <2> QED
    BY <1>2, <1>3, <1>4, <2>1, <2>2, ForeseenRow
<1>8. CASE table = "horse"
  <2>1. table \notin NameKeys
    BY <1>8 DEF NameKeys
  <2>2. CASE slug \in Slugs
    <3> DEFINE given == GenerateSlug(slug)
    <3>1. Created(id, name, slug) = IF given = <<>> \/ SlugTaken(given, id) THEN Refused ELSE Row(name, given)
      BY <1>8, <2>2 DEF Created, CreateHorse, GivenHorseSlug
    <3>2. ~Cuts(slug)
      BY <1>8, <2>2 DEF Cuts
    <3> HIDE DEF given
    <3> QED
      BY <1>4, <2>1, <3>1, <3>2, ForeseenRow
  <2>3. CASE slug \notin Slugs
    <3> DEFINE made == GenerateSlug(name)
    <3>1. Created(id, name, slug) = IF made = <<>> THEN Refused ELSE Row(name, Fitted(made, id))
      BY <1>8, <2>3 DEF Created, CreateHorse, AvailableHorseSlug
    <3> HIDE DEF made
    <3> QED
      BY <1>1, <1>2, <1>4, <2>1, <3>1, ForeseenRow DEF made
  <2> QED
    BY <2>2, <2>3
<1>9. CASE table = "prices"
  <2> DEFINE given == IF slug = Unset THEN GenerateSlug(name) ELSE slug
  <2>1. table \notin NameKeys
    BY <1>9 DEF NameKeys
  <2>2. Created(id, name, slug) =
            IF slug = Blank \/ NameTaken(name, id) THEN Refused
            ELSE IF Unfit(given) THEN Refused ELSE Row(name, Fitted(given, id))
    BY <1>9 DEF Created, CreatePrice, PriceSlug
  <2>3. slug # Blank => given \in Seq(Char)
    BY <1>1, <1>9 DEF Given, Slugged
  <2> HIDE DEF given
  <2> QED
    BY <1>2, <1>4, <2>1, <2>2, <2>3, ForeseenRow
<1>10. CASE table = "site_settings"
  <2>1. Created(id, name, slug) =
            IF slug = Unset \/ SlugTaken(Key(slug), id) \/ NameTaken(name, id) THEN Refused
            ELSE Row(name, Key(slug))
    BY <1>10 DEF Created, CreateSiteSetting
  <2>2. ~Cuts(slug)
    BY <1>10 DEF Cuts
  <2> QED
    BY <1>4, <2>1, <2>2, ForeseenRow
<1>11. ASSUME table \in {"price_groups", "horse_owner", "horse_service_relations"}
       PROVE  Foreseen(id, slug, Created(id, name, slug))
  <2>1. Created(id, name, slug) = Refused \/ Created(id, name, slug) = Row(name, <<>>)
    BY <1>11 DEF Created, CreatePriceGroup, CreateHorseOwner, AttachService
  <2>2. table \notin NameKeys /\ table \notin SlugKeys /\ ~Cuts(slug)
    BY <1>11 DEF NameKeys, SlugKeys, Slugged, Cuts
  <2> QED
    BY <1>4, <2>1, <2>2, ForeseenRow
<1> QED
  BY <1>5, <1>6, <1>7, <1>8, <1>9, <1>10, <1>11 DEF Tables, Slugged, Homonymous

LEMMA UpdatedForeseen ==
    ASSUME SlugConstants, table \in Tables, RowsKept, NEW id \in Ids, rows[id] # NoRow,
           NEW name \in Names \cup {Unset}, NEW slug \in Given
    PROVE  Foreseen(id, slug, Updated(id, name, slug))
<1> DEFINE old == rows[id]
           n == NewName(id, name)
<1>1. /\ old.name \in Names /\ ~(Len(old.slug) > MaxLength)
      /\ table \in NameKeys => ~NameTaken(old.name, id)
      /\ table \in SlugKeys => ~SlugTaken(old.slug, id)
  BY DEF RowsKept, Stored, TooLong, Clash, NameTaken, SlugTaken
<1>2. n \in Names /\ (table \in NameKeys /\ ~NewNameTaken(id, name) => ~NameTaken(n, id))
      /\ (name # Unset => n = name /\ name \in Names)
  BY <1>1 DEF NewName, NewNameTaken
<1>3. /\ \A m \in Names : GenerateSlug(m) \in Seq(Char)
      /\ slug \in Slugs => slug \in Seq(Char)
  BY BasesAreSeqs
<1>4. \A base \in Seq(Char) : /\ ~SlugTaken(Suffixed(base, id), id)
                              /\ ~SlugTaken(Fitted(base, id), id)
                              /\ ~(Len(Fitted(base, id)) > MaxLength)
  BY SuffixedFree, FittedFree
<1>5. Foreseen(id, slug, Refused) /\ Foreseen(id, slug, old)
  BY <1>1 DEF Foreseen
<1>6. ASSUME ~Cuts(slug)
      PROVE  /\ Foreseen(id, slug, UpdateBreed(id, name, slug))
             /\ ~NewNameTaken(id, name) => \E base : UpdateBreed(id, name, slug) = Row(n, base)
  <2>1. UpdateBreed(id, name, slug) =
            IF NewNameTaken(id, name) THEN Refused
            ELSE Row(n, IF slug \in Slugs THEN Suffixed(slug, id)
                        ELSE IF name # Unset THEN Suffixed(GenerateSlug(name), id)
                        ELSE old.slug)
    BY DEF UpdateBreed
  <2> HIDE DEF n, old
  <2>2. ASSUME ~NewNameTaken(id, name)
        PROVE  \E base : /\ UpdateBreed(id, name, slug) = Row(n, base)
                         /\ table \in SlugKeys => ~SlugTaken(base, id)
    <3>1. CASE slug \in Slugs
      BY <1>3, <1>4, <2>1, <2>2, <3>1
    <3>2. CASE slug \notin Slugs /\ name # Unset
      BY <1>2, <1>3, <1>4, <2>1, <2>2, <3>2
    <3>3. CASE slug \notin Slugs /\ name = Unset
      BY <1>1, <2>1, <2>2, <3>3
    <3> QED
      BY <3>1, <3>2, <3>3
  <2> QED
    BY <1>2, <1>5, <1>6, <2>1, <2>2, ForeseenRow
<1>7. CASE table = "breeds"
  <2>1. Updated(id, name, slug) = UpdateBreed(id, name, slug) /\ ~Cuts(slug)
    BY <1>7 DEF Updated, Cuts
  <2> QED
    BY <1>6, <2>1
<1>8. CASE table = "coat_color"
  <2>1. /\ Updated(id, name, slug) = IF Occupied(id, slug) THEN Refused ELSE UpdateBreed(id, name, slug)
        /\ ~Cuts(slug)
    BY <1>8 DEF Updated, UpdateCoatColor, Cuts
  <2> QED
    BY <1>5, <1>6, <2>1
<1>9. CASE table = "breed_groups"
  <2>1. /\ Updated(id, name, slug) = IF slug = Blank THEN Refused ELSE UpdateBreed(id, name, slug)
        /\ ~Cuts(slug)
    BY <1>9 DEF Updated, UpdateBreedGroup, Cuts
  <2> QED
    BY <1>5, <1>6, <2>1
<1>10. CASE table = "horse_service"
  <2> DEFINE row == UpdateBreed(id, name, slug)
  <2>1. Updated(id, name, slug) =
            IF row # Refused /\ slug = Blank
            THEN [row EXCEPT !.slug = Suffixed(GenerateSlug(row.name), id)]
            ELSE row
    BY <1>10 DEF Updated, UpdateHorseService
  <2>2. ~Cuts(slug)
    BY <1>10 DEF Cuts
  <2>3. NewNameTaken(id, name) => row = Refused
    BY DEF UpdateBreed
  <2>4. ASSUME ~NewNameTaken(id, name), row # Refused, slug = Blank
        PROVE  Foreseen(id, slug, [row EXCEPT !.slug = Suffixed(GenerateSlug(row.name), id)])
    <3>1. PICK base : row = Row(n, base)
      BY <1>6, <2>2, <2>4
    <3> HIDE DEF row, n
    <3>2. row.name = n
      BY <3>1 DEF Row
    <3>3. [row EXCEPT !.slug = Suffixed(GenerateSlug(row.name), id)] = Row(n, Suffixed(GenerateSlug(n), id))
      BY <3>1, <3>2 DEF Row
    <3>4. ~SlugTaken(Suffixed(GenerateSlug(n), id), id)
      BY <1>2, <1>3, <1>4
    <3> QED
      BY <1>2, <2>2, <2>4, <3>3, <3>4, ForeseenRow
  <2> HIDE DEF row
  <2> QED
    BY <1>6, <2>1, <2>2, <2>3, <2>4 DEF row
<1> HIDE DEF old
<1>11. CASE table = "horse"
  <2>1. table \notin NameKeys
    BY <1>11 DEF NameKeys
  <2>2. CASE slug = Unset
    <3>1. Updated(id, name, slug) = Row(n, old.slug)
      <4>1. Updated(id, name, slug) = UpdateHorse(id, name, slug)
        BY <1>11 DEF Updated
      <4>2. UpdateHorse(id, name, slug) = Row(NewName(id, name), rows[id].slug)
        BY <2>2 DEF UpdateHorse, SlugConstants
      <4> QED
        BY <4>1, <4>2 DEF old
    <3> HIDE DEF n
    <3> QED
      BY <1>1, <1>2, <2>1, <3>1, ForeseenRow
  <2>3. CASE slug # Unset /\ slug = Blank
    <3> DEFINE made == GenerateSlug(n)
    <3>1. Updated(id, name, slug) = IF made = <<>> THEN Refused ELSE Row(n, Fitted(made, id))
      BY <1>11, <2>3 DEF Updated, UpdateHorse, AvailableHorseSlug
    <3> HIDE DEF n
    <3>2. made \in Seq(Char)
      BY <1>2, <1>3
    <3> HIDE DEF made
    <3> QED
      BY <1>2, <1>4, <1>5, <2>1, <3>1, <3>2, ForeseenRow
  <2>4. CASE slug # Unset /\ slug # Blank
    <3> DEFINE given == GenerateSlug(slug)
    <3>1. Updated(id, name, slug) = IF given = <<>> \/ SlugTaken(given, id) THEN Refused ELSE Row(n, given)
      BY <1>11, <2>4 DEF Updated, UpdateHorse, GivenHorseSlug
    <3>2. ~Cuts(slug)
      BY <1>11, <2>4 DEF Cuts, Given, Slugged
    <3> HIDE DEF given, n
    <3> QED
      BY <1>2, <1>5, <2>1, <3>1, <3>2, ForeseenRow
  <2> QED
    BY <2>2, <2>3, <2>4
<1>12. CASE table = "prices"
  <2>1. table \notin NameKeys
    BY <1>12 DEF NameKeys
  <2>2. \/ Updated(id, name, slug) = Refused
        \/ Updated(id, name, slug) = old
        \/ slug \in Slugs /\ Updated(id, name, slug) = Row(n, Fitted(slug, id))
        \/ name # Unset /\ Updated(id, name, slug) = Row(name, Fitted(GenerateSlug(name), id))
    BY <1>12 DEF Updated, UpdatePrice, PriceSlug, old
  <2> HIDE DEF n
  <2>3. ASSUME slug \in Slugs PROVE Foreseen(id, slug, Row(n, Fitted(slug, id)))
    BY <1>2, <1>3, <1>4, <2>1, <2>3, ForeseenRow
  <2>4. ASSUME name # Unset PROVE Foreseen(id, slug, Row(name, Fitted(GenerateSlug(name), id)))
    BY <1>2, <1>3, <1>4, <2>1, <2>4, ForeseenRow
  <2> QED
    BY <1>5, <2>2, <2>3, <2>4
<1>13. CASE table = "site_settings"
  <2>1. \/ Updated(id, name, slug) = Refused
        \/ /\ ~NewNameTaken(id, name)
           /\ \/ slug = Unset /\ Updated(id, name, slug) = Row(n, old.slug)
              \/ ~SlugTaken(Key(slug), id) /\ Updated(id, name, slug) = Row(n, Key(slug))
    BY <1>13 DEF Updated, UpdateSiteSetting, old
  <2>2. ~Cuts(slug)
    BY <1>13 DEF Cuts
  <2> HIDE DEF n
  <2> QED
    BY <1>1, <1>2, <1>5, <2>1, <2>2, ForeseenRow
<1>14. ASSUME table \in {"price_groups", "horse_owner", "horse_service_relations"}
       PROVE  Foreseen(id, slug, Updated(id, name, slug))
  <2>1. Updated(id, name, slug) \in {Refused, Row(n, <<>>), old}
    BY <1>14 DEF Updated, UpdatePriceGroup, UpdateHorseOwner, UpdateAttached, old
  <2>2. table \notin NameKeys /\ table \notin SlugKeys /\ ~Cuts(slug)
    BY <1>14 DEF NameKeys, SlugKeys, Slugged, Cuts
  <2> HIDE DEF n
  <2> QED
    BY <1>2, <1>5, <2>1, <2>2, ForeseenRow
<1> QED
  BY <1>7, <1>8, <1>9, <1>10, <1>11, <1>12, <1>13, <1>14 DEF Tables, Slugged, Homonymous

(***************************************************************************)
(* Requests that fail                                                      *)
(***************************************************************************)

\* What a request that works on a row is about to store.
Sound(s) ==
    LET new == session[s].new
        others == Ids \ {session[s].id}
    IN  /\ Working(s) /\ new # NoRow => new.name \in Names
        /\ session[s].pc = "write" /\ ~session[s].raced => \A i \in others : ~Clash(rows[i], new)
        /\ session[s].pc = "write" /\ Cuts(session[s].slug) => ~TooLong(new)
        /\ session[s].pc = "end" => ~TooLong(new) /\ \A i \in others : ~Clash(rows[i], new)

\* Transactions that have written are about different rows and different keys.
Apart(s, t) ==
    s # t /\ session[s].pc = "end" /\ session[t].pc = "end" =>
        /\ session[s].id # session[t].id
        /\ ~Clash(session[s].new, session[t].new)

FailsOnlyIf(s) ==
    /\ session[s].raced \in BOOLEAN
    /\ session[s].answer = "key error" => session[s].raced /\ table \notin Translated
    /\ session[s].answer = "too long" => ~Cuts(session[s].slug)

KeysInv ==
    /\ RowsKept
    /\ \A s \in Sessions : Sound(s) /\ FailsOnlyIf(s)
    /\ \A s, t \in Sessions : Apart(s, t)

\* A request that takes no step, of rows that stay, stays as it is.
LEMMA Untouched ==
    ASSUME KeysInv, NEW t \in Sessions, session'[t] = session[t], rows' = rows, table' = table
    PROVE  Sound(t)' /\ FailsOnlyIf(t)'
<1>1. Sound(t) /\ FailsOnlyIf(t)
  BY DEF KeysInv
<1>2. Sound(t)'
  BY <1>1 DEF Sound, TooLong, Clash, Cuts, Working
<1>3. FailsOnlyIf(t)'
  BY <1>1 DEF FailsOnlyIf, Cuts
<1> QED
  BY <1>2, <1>3

LEMMA AskKeys ==
    ASSUME NameInv, KeysInv, NEW s \in Sessions, NEW id \in Ids, NEW slug, NEW new,
           Foreseen(id, slug, new), Ask(s, id, slug, new)
    PROVE  KeysInv'
<1> DEFINE asked == IF new = Refused
                    THEN [Idle EXCEPT !.answer = "refused"]
                    ELSE [Idle EXCEPT !.pc = "write", !.id = id, !.found = rows[id] # NoRow,
                                      !.new = new, !.slug = slug]
<1>1. rows' = rows /\ table' = table /\ session' = [session EXCEPT ![s] = asked]
  BY DEF Ask
<1>2. /\ asked.raced = FALSE /\ asked.answer \in {"refused", "none"}
      /\ asked.pc \in {"idle", "write"}
      /\ asked.pc # "idle" => asked.id = id /\ asked.new = new /\ new # Refused /\ asked.slug = slug
  BY DEF Idle, Ended
<1> HIDE DEF asked
<1>3. session'[s] = asked /\ \A t \in Sessions \ {s} : session'[t] = session[t]
  BY <1>1 DEF NameInv, Shaped
<1>4. RowsKept'
  BY <1>1 DEF KeysInv, RowsKept, Stored, TooLong, Clash
<1>5. new # Refused => \A i \in Ids \ {id} : ~Clash(rows[i], new)
  BY DEF Foreseen, Clash, NameTaken, SlugTaken
<1>6. ~Working(s)' \/ (Working(s)' /\ session'[s].id = id /\ session'[s].new = new /\ new # Refused
                       /\ session'[s].slug = slug /\ session'[s].pc = "write")
  BY <1>2, <1>3 DEF Working
<1>7. Sound(s)'
  BY <1>1, <1>5, <1>6 DEF Sound, Foreseen, TooLong, Cuts, Clash, Working
<1>8. FailsOnlyIf(s)'
  BY <1>2, <1>3 DEF FailsOnlyIf
<1>9. \A t \in Sessions \ {s} : Sound(t)' /\ FailsOnlyIf(t)'
  BY <1>1, <1>3, Untouched
<1>10. \A t, u \in Sessions : Apart(t, u)'
  BY <1>1, <1>3, <1>6 DEF KeysInv, Apart, Clash, Working
<1> QED
  BY <1>4, <1>7, <1>8, <1>9, <1>10 DEF KeysInv

\* The violated key of a repository that answers is no server error.
LEMMA WriteKeys == ASSUME NameInv, KeysInv, NEW s \in Sessions, Write(s) PROVE KeysInv'
<1> DEFINE id == session[s].id
           new == session[s].new
<1>1. session[s].pc = "write" /\ ~Waits(s) /\ id \in Ids /\ rows' = rows /\ table' = table
  BY DEF Write, NameInv, Working
<1>2. RowsKept'
  BY <1>1 DEF KeysInv, RowsKept, Stored, TooLong, Clash
<1>3. session[s] = [pc |-> session[s].pc, id |-> session[s].id, found |-> session[s].found,
             new |-> session[s].new, slug |-> session[s].slug, raced |-> session[s].raced,
             answer |-> session[s].answer]
  BY DEF NameInv, Shaped
<1>4. ASSUME NEW answer, Answered(s, answer),
             answer = "key error" => session[s].raced /\ table \notin Translated,
             answer = "too long" => ~Cuts(session[s].slug)
      PROVE  KeysInv'
  <2>1. session' = [session EXCEPT ![s] =
            [pc |-> "idle", id |-> Unset, found |-> FALSE, new |-> NoRow, slug |-> session[s].slug,
             raced |-> session[s].raced, answer |-> answer]]
    BY <1>4 DEF Answered, Ended
  <2>2. /\ session'[s].pc = "idle" /\ session'[s].answer = answer
        /\ session'[s].raced = session[s].raced /\ session'[s].slug = session[s].slug
        /\ \A t \in Sessions \ {s} : session'[t] = session[t]
    BY <2>1 DEF NameInv, Shaped
  <2>3. Sound(s)' /\ FailsOnlyIf(s)'
    BY <1>1, <1>4, <2>2 DEF KeysInv, Sound, FailsOnlyIf, Working, Cuts
  <2>4. \A t \in Sessions \ {s} : Sound(t)' /\ FailsOnlyIf(t)'
    BY <1>1, <2>2, Untouched
  <2>5. \A t, u \in Sessions : Apart(t, u)'
    BY <1>1, <2>2 DEF KeysInv, Apart, Clash
  <2> QED
    BY <1>2, <2>3, <2>4, <2>5 DEF KeysInv
<1>5. CASE Written(s) /\ (\/ session[s].found /\ rows[id] = NoRow
                          \/ ~TooLong(new) /\ ~\E i \in Ids \ {id} : Clash(rows[i], new))
  <2> DEFINE kept == IF session[s].found /\ rows[id] = NoRow THEN NoRow ELSE new
             done == [session[s] EXCEPT !.pc = "end", !.new = kept]
  <2>1. session' = [session EXCEPT ![s] = done]
    BY <1>5 DEF Written
  <2>2. done = [pc |-> "end", id |-> id, found |-> session[s].found,
             new |-> kept, slug |-> session[s].slug, raced |-> session[s].raced,
             answer |-> session[s].answer]
    <3> HIDE DEF kept
    <3> QED
      BY <1>3, FieldsKept
  <2>3. kept = NoRow \/ (kept = new /\ ~TooLong(new) /\ ~\E i \in Ids \ {id} : Clash(rows[i], new))
    BY <1>5
  <2> HIDE DEF kept, done
  <2>4. /\ session'[s].pc = "end" /\ session'[s].id = id /\ session'[s].new = kept
        /\ session'[s].answer = session[s].answer
        /\ session'[s].raced = session[s].raced /\ session'[s].slug = session[s].slug
        /\ \A t \in Sessions \ {s} : session'[t] = session[t]
    BY <2>1, <2>2 DEF NameInv, Shaped
  <2>5. ~TooLong(kept) /\ \A i \in Ids \ {id} : ~Clash(rows[i], kept)
    BY <2>3 DEF TooLong, Clash
  <2>6. Sound(s)'
    <3>1. kept # NoRow => kept.name \in Names
      BY <1>1, <2>3 DEF KeysInv, Sound, Working
    <3> QED
      BY <1>1, <2>4, <2>5, <3>1 DEF Sound, Clash, TooLong, Working
  <2>7. FailsOnlyIf(s)'
    BY <1>1, <2>4 DEF KeysInv, FailsOnlyIf, Cuts
  <2>8. \A t \in Sessions \ {s} : Sound(t)' /\ FailsOnlyIf(t)'
    BY <1>1, <2>4, Untouched
  <2>9. \A t \in Sessions \ {s} : session[t].pc = "end" =>
             session[t].id # id /\ ~Clash(session[t].new, kept) /\ ~Clash(kept, session[t].new)
    BY <1>1, <2>3 DEF Waits, Clash
  <2>10. \A t, u \in Sessions : Apart(t, u)'
    BY <1>1, <2>4, <2>9 DEF KeysInv, Apart, Clash
  <2> QED
    BY <1>2, <2>6, <2>7, <2>8, <2>10 DEF KeysInv
<1>6. \/ Answered(s, "too long") /\ TooLong(new)
      \/ Answered(s, Refusal) /\ \E i \in Ids \ {id} : Clash(rows[i], new)
      \/ Written(s) /\ (\/ session[s].found /\ rows[id] = NoRow
                        \/ ~TooLong(new) /\ ~\E i \in Ids \ {id} : Clash(rows[i], new))
  BY DEF Write
<1>7. CASE Answered(s, "too long") /\ TooLong(new)
  <2>1. ~Cuts(session[s].slug)
    BY <1>1, <1>7 DEF KeysInv, Sound
  <2> QED
    BY <1>4, <1>7, <2>1
<1>8. CASE Answered(s, Refusal) /\ \E i \in Ids \ {id} : Clash(rows[i], new)
  <2>1. session[s].raced
    BY <1>1, <1>8 DEF KeysInv, Sound
  <2>2. Refusal # "too long" /\ (Refusal = "key error" => table \notin Translated)
    BY DEF Refusal
  <2> QED
    BY <1>4, <1>8, <2>1, <2>2
<1> QED
  BY <1>5, <1>6, <1>7, <1>8

LEMMA CommitKeys == ASSUME NameInv, KeysInv, NEW s \in Sessions, Commit(s) PROVE KeysInv'
<1> DEFINE id == session[s].id
           new == session[s].new
<1>1. session[s].pc = "end" /\ id \in Ids /\ table' = table /\ rows' = [rows EXCEPT ![id] = new]
  BY DEF Commit, NameInv, Working
<1>2. rows'[id] = new /\ \A i \in Ids \ {id} : rows'[i] = rows[i]
  BY <1>1 DEF NameInv, Shaped
<1>3. session'[s].pc = "idle" /\ session'[s].answer = "ok" /\ session'[s].raced = FALSE
  BY DEF Commit, Idle, Ended
<1>4. ASSUME NEW t \in Sessions \ {s}
      PROVE  /\ session'[t].pc = session[t].pc /\ session'[t].id = session[t].id
             /\ session'[t].new = session[t].new /\ session'[t].slug = session[t].slug
             /\ session'[t].answer = session[t].answer
             /\ session'[t].raced = (session[t].pc # "idle" \/ session[t].raced)
  <2> DEFINE flag == session[t].pc # "idle" \/ session[t].raced
  <2>1. session'[t] = [session[t] EXCEPT !.raced = flag]
    BY DEF Commit
  <2>2. session[t] = [pc |-> session[t].pc, id |-> session[t].id, found |-> session[t].found,
             new |-> session[t].new, slug |-> session[t].slug, raced |-> session[t].raced,
             answer |-> session[t].answer]
    BY DEF NameInv, Shaped
  <2> HIDE DEF flag
  <2>3. session'[t] = [pc |-> session[t].pc, id |-> session[t].id, found |-> session[t].found,
             new |-> session[t].new, slug |-> session[t].slug, raced |-> flag,
             answer |-> session[t].answer]
    BY <2>1, <2>2
  <2> QED
    BY <2>3 DEF flag
<1>5. /\ ~TooLong(new) /\ (new # NoRow => new.name \in Names)
      /\ \A i \in Ids \ {id} : ~Clash(rows[i], new) /\ ~Clash(new, rows[i])
  <2>1. Sound(s)
    BY DEF KeysInv
  <2> QED
    BY <1>1, <2>1 DEF Sound, Working, Clash
<1>6. RowsKept'
  <2>1. \A i \in Ids : Stored(rows[i])'
    BY <1>1, <1>2, <1>5 DEF KeysInv, RowsKept, Stored, TooLong
  <2>2. \A i, j \in Ids : i # j => ~Clash(rows[i], rows[j])'
    <3> SUFFICES ASSUME NEW i \in Ids, NEW j \in Ids, i # j PROVE ~Clash(rows[i], rows[j])'
      OBVIOUS
    <3>1. ~Clash(rows'[i], rows'[j])
      BY <1>2, <1>5 DEF KeysInv, RowsKept
    <3> QED
      BY <1>1, <3>1 DEF Clash
  <2> QED
    BY <2>1, <2>2 DEF RowsKept
<1>7. Sound(s)' /\ FailsOnlyIf(s)'
  BY <1>3 DEF Sound, FailsOnlyIf, Working
<1> HIDE DEF id, new
<1>8. ASSUME NEW t \in Sessions \ {s}
      PROVE  Sound(t)' /\ FailsOnlyIf(t)'
  <2>1. Sound(t) /\ FailsOnlyIf(t) /\ Apart(s, t)
    BY DEF KeysInv
  <2>2. FailsOnlyIf(t)'
    BY <1>1, <1>4, <2>1 DEF FailsOnlyIf, Cuts
  <2>3. session[t].pc = "write" => session'[t].raced
    BY <1>4
  <2>4. session[t].pc = "end" => \A i \in Ids \ {session[t].id} : ~Clash(rows'[i], session[t].new)
    <3> SUFFICES ASSUME session[t].pc = "end", NEW i \in Ids \ {session[t].id}
                 PROVE  ~Clash(rows'[i], session[t].new)
      OBVIOUS
    <3>1. CASE i = id
      BY <1>1, <1>2, <2>1, <3>1 DEF Apart, id, new
    <3>2. CASE i # id
      BY <1>2, <2>1, <3>2 DEF Sound
    <3> QED
      BY <3>1, <3>2
  <2>5. Sound(t)'
    BY <1>1, <1>4, <2>1, <2>3, <2>4 DEF Sound, TooLong, Cuts, Clash, Working
  <2> QED
    BY <2>2, <2>5
<1>9. \A t, u \in Sessions : Apart(t, u)'
  BY <1>1, <1>3, <1>4 DEF KeysInv, Apart, Clash
<1> QED
  BY <1>6, <1>7, <1>8, <1>9 DEF KeysInv

LEMMA KeysStep == SlugConstants /\ NameInv /\ KeysInv /\ [Next]_vars => KeysInv'
<1> SUFFICES ASSUME SlugConstants, NameInv, KeysInv, [Next]_vars PROVE KeysInv'
  OBVIOUS
<1>1. table \in Tables /\ RowsKept
  BY DEF NameInv, KeysInv
<1>2. ASSUME NEW s \in Sessions, Create(s)
      PROVE  KeysInv'
  <2>1. PICK id \in Ids, name \in Names, slug \in Given : Ask(s, id, slug, Created(id, name, slug))
    BY <1>2 DEF Create
  <2> QED
    BY <1>1, <2>1, CreatedForeseen, AskKeys
<1>3. ASSUME NEW s \in Sessions, Update(s)
      PROVE  KeysInv'
  <2>1. PICK id \in {i \in Ids : rows[i] # NoRow}, name \in Names \cup {Unset}, slug \in Given :
            Ask(s, id, slug, Updated(id, name, slug))
    BY <1>3 DEF Update
  <2> QED
    BY <1>1, <2>1, UpdatedForeseen, AskKeys
<1>4. ASSUME NEW s \in Sessions, Delete(s)
      PROVE  KeysInv'
  <2>1. PICK id \in {i \in Ids : rows[i] # NoRow} : Ask(s, id, Unset, NoRow)
    BY <1>4 DEF Delete
  <2>2. Foreseen(id, Unset, NoRow)
    BY DEF Foreseen
  <2> QED
    BY <2>1, <2>2, AskKeys
<1>5. ASSUME UNCHANGED vars
      PROVE  KeysInv'
  BY <1>5 DEF vars, KeysInv, RowsKept, Stored, TooLong, Clash, Sound, FailsOnlyIf, Apart, Cuts, Working
<1> QED
  BY <1>2, <1>3, <1>4, <1>5, WriteKeys, CommitKeys DEF Next

LEMMA KeysInit == Init => KeysInv
<1> SUFFICES ASSUME Init PROVE KeysInv
  OBVIOUS
<1>1. \A s \in Sessions : /\ session[s].pc = "idle" /\ session[s].answer = "none"
                          /\ session[s].raced = FALSE
  BY DEF Init, Idle, Ended
<1>2. \A i \in Ids : rows[i] = NoRow
  BY DEF Init
<1>3. RowsKept
  BY <1>2 DEF RowsKept, Stored, Clash
<1>4. \A s \in Sessions : Sound(s) /\ FailsOnlyIf(s)
  BY <1>1 DEF Sound, FailsOnlyIf, Working
<1>5. \A s, t \in Sessions : Apart(s, t)
  BY <1>1 DEF Apart
<1> QED
  BY <1>3, <1>4, <1>5 DEF KeysInv

LEMMA KeysForeseen == KeysInv => OnlyRacesFail
BY DEF KeysInv, FailsOnlyIf, OnlyRacesFail, Cuts

\* Whoever asks for whatever names and slugs, in whatever order: the lookups of
\* a service foresee every key it would violate, unless another request
\* commits in between, and a slug that a service makes fits its column.
THEOREM OnlyLosersFail == ASSUME SlugConstants PROVE Spec => []OnlyRacesFail
<1>1. Init => NameInv /\ KeysInv
  BY NamesInit, KeysInit
<1>2. NameInv /\ KeysInv /\ [Next]_vars => (NameInv /\ KeysInv)'
  BY NamesStep, KeysStep
<1> QED
  BY <1>1, <1>2, KeysForeseen, PTL DEF Spec
================================================================================
