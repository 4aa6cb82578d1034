--------------------------- MODULE PriceOrderProofs ---------------------------
(***************************************************************************)
(* The links of prices to groups, for every number of prices, groups and   *)
(* concurrent requests: no price is linked to a group twice, and a create  *)
(* or update leaves the price in the groups it lists.  Locks of rows keep  *)
(* two transactions from writing one link, and the lock of the price keeps *)
(* its links to one request; so the proof follows which links are there,   *)
(* whatever their orders.  Then, what the changes of a reorder request do  *)
(* to the order of a group of any size.  At the end, requests one after    *)
(* the other: no order is missing or given twice, and the unique index     *)
(* refuses none of the statements that number a group.                     *)
(***************************************************************************)
EXTENDS PriceOrder, FiniteSetTheorems, SequenceTheorems, WellFoundedInduction, TLAPS

(***************************************************************************)
(* Sets of numbers                                                         *)
(***************************************************************************)

LEMMA LeastNumber ==
    ASSUME NEW S \in SUBSET Nat, S # {}
    PROVE  \E c \in S : \A d \in S : c <= d
<1> DEFINE Less == {ss \in Nat \X Nat : ss[1] < ss[2]}
<1>1. IsWellFoundedOn(Less, Nat)
  BY NatLessThanWellFounded DEF OpToRel
<1>2. PICK c \in S : \A d \in S : ~(<<d, c>> \in Less)
  BY <1>1, WFMin
<1>3. \A d \in S : ~(d < c)
  BY <1>2
<1> QED
  BY <1>2, <1>3

\* A smallest counterexample would have an element whose removal leaves a set
\* that has a maximum.
LEMMA GreatestNumber ==
    ASSUME NEW S \in SUBSET Nat, IsFiniteSet(S), S # {}
    PROVE  MaxOf(S) \in S /\ \A k \in S : k <= MaxOf(S)
<1> DEFINE HasMax(U) == \E m \in U : \A k \in U : k <= m
           Bad == {n \in Nat : \E U \in SUBSET S :
                        U # {} /\ IsFiniteSet(U) /\ Cardinality(U) = n /\ ~HasMax(U)}
<1>1. /\ Bad \subseteq Nat
      /\ \A n \in Bad : \E U \in SUBSET S :
            U # {} /\ IsFiniteSet(U) /\ Cardinality(U) = n /\ ~HasMax(U)
      /\ \A U \in SUBSET S : U # {} /\ IsFiniteSet(U) /\ ~HasMax(U) => Cardinality(U) \in Bad
  BY FS_CardinalityType
<1> HIDE DEF Bad
<1>2. Bad = {}
  <2> SUFFICES ASSUME Bad # {} PROVE FALSE
    OBVIOUS
  <2>1. PICK n \in Bad : \A d \in Bad : n <= d
    BY <1>1, LeastNumber
  <2>2. PICK U \in SUBSET S : U # {} /\ IsFiniteSet(U) /\ Cardinality(U) = n /\ ~HasMax(U)
    BY <1>1, <2>1
  <2>3. PICK x \in U : TRUE
    BY <2>2
  <2>4. IsFiniteSet(U \ {x}) /\ Cardinality(U \ {x}) = n - 1
    BY <2>2, <2>3, FS_RemoveElement
  <2>5. n \in Nat /\ n - 1 \in Nat
    BY <1>1, <2>4, FS_CardinalityType
  <2>6. U \ {x} # {} => HasMax(U \ {x})
    <3> SUFFICES ASSUME U \ {x} # {}, ~HasMax(U \ {x}) PROVE FALSE
      OBVIOUS
    <3>1. n - 1 \in Bad
      BY <1>1, <2>4
    <3> QED
      BY <2>1, <2>5, <3>1
  <2>7. \A k \in U : k \in Nat
    BY <2>2
  <2>8. HasMax(U)
    <3>1. CASE U \ {x} = {}
      BY <2>3, <2>7, <3>1
    <3>2. CASE U \ {x} # {}
      <4>1. PICK m \in U \ {x} : \A k \in U \ {x} : k <= m
        BY <2>6, <3>2
      <4>2. CASE x <= m
        BY <2>3, <2>7, <4>1, <4>2
      <4>3. CASE ~(x <= m)
        <5>1. \A k \in U : k <= x
          BY <2>3, <2>7, <4>1, <4>3
        <5> QED
          BY <2>3, <5>1
      <4> QED
        BY <4>2, <4>3
    <3> QED
      BY <3>1, <3>2
  <2> QED
    BY <2>2, <2>8
<1>3. HasMax(S)
  BY <1>1, <1>2
<1> QED
  BY <1>3 DEF MaxOf

(***************************************************************************)
(* The inductive invariant                                                 *)
(***************************************************************************)

Linking(s) == req[s].op \in {"create", "update"}

\* The request has no links of its price but those it has inserted itself.
After == {"max", "insert", "number", "null", "put", "commit"}
Fixed(s) == Linking(s) /\ pc[s] \in After

\* s writes the row and leaves it in the table.
Written(s, r) == pend[s][r] \notin {Keep, Absent}

\* The steps of every kind of request, and the groups it still has to link.
Stepping(s) ==
    /\ req[s].op = "none" <=> pc[s] = "idle"
    /\ pc[s] = "idle" => mark[s] = "none" /\ job[s] = NoJob /\ pend[s] = NothingWritten
    /\ req[s].op = "create" => pc[s] \in {"max", "insert", "commit"}
    /\ req[s].op = "update" => pc[s] \in {"touch", "old", "drop"} \cup After
    /\ req[s].op = "delete" => pc[s] \in {"erase", "number", "null", "put", "commit"}
    /\ req[s].op = "reorder" => pc[s] \in {"null", "put", "commit"}
    /\ req[s].op = "deletegroup" => pc[s] \in {"erasegroup", "commit"}
    /\ Linking(s) \/ req[s].op = "delete" => req[s].price \in Prices
    /\ req[s].op = "deletegroup" => req[s].price = NoPrice
    /\ job[s].add \subseteq req[s].groups
    /\ pc[s] \in {"touch", "old", "drop"} => job[s].add = req[s].groups
    /\ pc[s] \in {"number", "null", "put", "commit"} => job[s].add = {}
    /\ pc[s] = "insert" => job[s].group \in job[s].add /\ job[s].top < MaxOrder
    /\ Linking(s) \/ req[s].groups = {}
    /\ req[s].op \in {"create", "reorder"} => job[s].fix = {}
    /\ pc[s] \in {"null", "put"} => job[s].plan # <<>>

\* The lock on the row of the price: whoever is past "touch" has it, unless
\* the price is gone or nobody else is there.
Marked(s) ==
    /\ mark[s] = "new" <=> req[s].op = "create"
    /\ mark[s] = "held" => req[s].op = "update" /\ pc[s] # "touch"
    /\ mark[s] = "gone" => req[s].op \in {"delete", "deletegroup"}
    /\ mark[s] \in {"held", "gone"} /\ req[s].price # NoPrice => req[s].price \in prices
    /\ req[s].op = "update" /\ pc[s] # "touch" /\ mark[s] # "held"
       => req[s].price \notin prices \/ ~Overlap
    /\ req[s].op = "create" =>
        /\ req[s].price \notin prices
        /\ \A t \in Sessions \ {s} : req[t].price # req[s].price

OneMarks(s, t) ==
    s # t /\ mark[s] # "none" /\ mark[t] # "none" /\ req[s].price # NoPrice
        => req[s].price # req[t].price

\* Rows are written by one transaction at a time, ...
OneWrites(s, t) == s # t => \A r \in Rows : pend[s][r] = Keep \/ pend[t][r] = Keep

\* ... and new ones only for the price a request sets the groups of.
NewIsOwn(s) ==
    \A r \in Rows : pend[s][r] # Keep =>
        links[r] # Absent \/ (Fixed(s) /\ PriceOf(r) = req[s].price)

\* The links of a deleted price are deleted, and nobody else has to do with them.
Cleared(s) ==
    mark[s] = "gone" /\ req[s].op = "delete" =>
        \A r \in Rows : PriceOf(r) = req[s].price =>
            /\ Seen(s, r) = Absent
            /\ \A t \in Sessions \ {s} : pend[t][r] = Keep

\* A DELETE that waits has found all the links of the price.
FoundAll(s) ==
    s \in waiting /\ pc[s] = "drop" => OfPrice(s, req[s].price) \subseteq found[s]

\* The links of the price are those the request has inserted, one for each
\* group but those that are still to be linked.
LinkedOnce(s) ==
    Fixed(s) => \A r \in Rows : PriceOf(r) = req[s].price =>
        /\ pend[s][r] = Keep => links[r] = Absent
        /\ Written(s, r) =>
            /\ GroupOf(r) \in req[s].groups \ job[s].add
            /\ req[s].op = "update" => req[s].price \in prices
            /\ \A q \in Rows : Written(s, q) /\ PriceOf(q) = PriceOf(r)
                                /\ GroupOf(q) = GroupOf(r) => q = r
LinkedAll(s) ==
    Fixed(s) => \A g \in req[s].groups \ job[s].add :
        \E r \in Rows : PriceOf(r) = req[s].price /\ GroupOf(r) = g /\ Written(s, r)

\* The foreign key to table prices.
PricesExist == \A r \in Rows : links[r] # Absent => PriceOf(r) \in prices

Apart == ~Overlap => \A s, t \in Sessions : s = t \/ pc[s] = "idle" \/ pc[t] = "idle"

Inv ==
    /\ TypeOK
    /\ NoDuplicateLink
    /\ PricesExist
    /\ Apart
    /\ \A s \in Sessions :
        /\ Stepping(s) /\ Marked(s)
        /\ NewIsOwn(s) /\ Cleared(s) /\ FoundAll(s) /\ LinkedOnce(s) /\ LinkedAll(s)
        /\ \A t \in Sessions : OneMarks(s, t) /\ OneWrites(s, t)

Own(s) ==
    /\ Stepping(s) /\ Marked(s)
    /\ NewIsOwn(s) /\ Cleared(s) /\ FoundAll(s) /\ LinkedOnce(s) /\ LinkedAll(s)

LEMMA Names == /\ \A x \in Orders : x # Absent /\ x # Keep
               /\ Absent # Keep /\ NoPrice \notin Prices /\ NoGroup \notin Groups
               /\ MaxOrder \in Nat /\ Null \in Orders
  BY PriceConstants DEF Orders, Null

LEMMA NothingTyped == NoRequest \in Request /\ NoJob \in Job /\ NothingWritten \in [Rows -> Orders \cup {Absent, Keep}]
<1>1. NoRequest \in Request
  BY Names DEF NoRequest, Request, Null
<1>2. <<>> \in Seq([price: Prices, ord: Orders])
  OBVIOUS
<1>3. NoJob \in Job
  BY Names, <1>2 DEF NoJob, Job, Null
<1> QED
  BY <1>1, <1>3 DEF NothingWritten

LEMMA FirstCopyIsCopy == FirstCopy \in Copies
<1>1. \E c \in Copies : \A d \in Copies : c <= d
  BY LeastNumber, PriceConstants
<1> QED
  BY <1>1 DEF FirstCopy

LEMMA InvInit == Init => Inv
<1> SUFFICES ASSUME Init PROVE Inv
  OBVIOUS
<1>1. PICK g \in Groups, order \in [Prices -> 1..Cardinality(Prices)] :
        links = [r \in Rows |-> IF GroupOf(r) = g /\ r[3] = FirstCopy THEN order[PriceOf(r)]
                                                                     ELSE Absent]
  BY DEF Init
<1>2. /\ prices = Prices /\ groups = Groups
      /\ pend = [s \in Sessions |-> NothingWritten] /\ mark = [s \in Sessions |-> "none"]
      /\ pc = [s \in Sessions |-> "idle"] /\ req = [s \in Sessions |-> NoRequest]
      /\ job = [s \in Sessions |-> NoJob] /\ waiting = {} /\ found = [s \in Sessions |-> {}]
  BY DEF Init
<1>3. \A r \in Rows : PriceOf(r) \in Prices /\ order[PriceOf(r)] \in Orders
  <2>1. Cardinality(Prices) \in Nat /\ Cardinality(Prices) <= MaxOrder
    BY PriceConstants, FS_CardinalityType
  <2>2. \A n \in 1..Cardinality(Prices) : n \in Orders
    BY <2>1, Names DEF Orders
  <2> QED
    BY <2>2 DEF Rows, PriceOf
<1>4. links \in [Rows -> Orders \cup {Absent}]
  BY <1>1, <1>3
<1>5. TypeOK
  BY <1>2, <1>4, NothingTyped DEF TypeOK, Steps
<1>6. NoDuplicateLink
  <2> SUFFICES ASSUME NEW q \in Rows, NEW r \in Rows, links[q] # Absent, links[r] # Absent,
                      PriceOf(q) = PriceOf(r), GroupOf(q) = GroupOf(r)
               PROVE  q = r
    BY DEF NoDuplicateLink, Linked
  <2>1. q[3] = FirstCopy /\ r[3] = FirstCopy
    BY <1>1
  <2> QED
    BY <2>1 DEF Rows, PriceOf, GroupOf
<1>7. PricesExist
  BY <1>2, <1>3 DEF PricesExist
<1>8. Apart
  BY <1>2 DEF Apart
<1>9. ASSUME NEW s \in Sessions PROVE Own(s) /\ \A t \in Sessions : OneMarks(s, t) /\ OneWrites(s, t)
  <2>1. /\ pc[s] = "idle" /\ req[s] = NoRequest /\ mark[s] = "none" /\ job[s] = NoJob
        /\ pend[s] = NothingWritten /\ req[s].op = "none"
        /\ req[s].groups = {} /\ job[s].add = {}
    BY <1>2 DEF NoRequest, NoJob
  <2>2. \A r \in Rows : pend[s][r] = Keep
    BY <2>1 DEF NothingWritten
  <2>3. Stepping(s) /\ Marked(s)
    BY <2>1 DEF Stepping, Marked, Linking
  <2>4. NewIsOwn(s) /\ Cleared(s) /\ FoundAll(s) /\ LinkedOnce(s) /\ LinkedAll(s)
    BY <1>2, <2>1, <2>2 DEF NewIsOwn, Cleared, FoundAll, LinkedOnce, LinkedAll, Fixed, Linking, After
  <2>5. \A t \in Sessions : OneMarks(s, t) /\ OneWrites(s, t)
    BY <2>1, <2>2 DEF OneMarks, OneWrites
  <2> QED
    BY <2>3, <2>4, <2>5 DEF Own
<1> QED
  BY <1>5, <1>6, <1>7, <1>8, <1>9 DEF Inv, Own

(***************************************************************************)
(* What a step leaves alone                                                *)
(***************************************************************************)

\* s takes a step that commits nothing.
OnlyOf(s) ==
    /\ UNCHANGED <<links, prices>>
    /\ \A t \in Sessions \ {s} :
        /\ pc'[t] = pc[t] /\ req'[t] = req[t] /\ job'[t] = job[t] /\ mark'[t] = mark[t]
        /\ pend'[t] = pend[t] /\ found'[t] = found[t]
        /\ t \in waiting' <=> t \in waiting

LEMMA OthersKept ==
    ASSUME Inv, NEW s \in Sessions, OnlyOf(s), TypeOK', Apart', Own(s)',
           \A t \in Sessions : OneMarks(s, t)' /\ OneWrites(s, t)',
           \A t \in Sessions \ {s} :
                /\ req[t].op = "create" => req'[s].price # req[t].price
                /\ mark[t] = "gone" /\ req[t].op = "delete" =>
                     \A r \in Rows : PriceOf(r) = req[t].price => pend'[s][r] = Keep
    PROVE  Inv'
<1>1. NoDuplicateLink' /\ PricesExist'
  BY DEF Inv, OnlyOf, NoDuplicateLink, Linked, PricesExist
<1>2. ASSUME NEW t \in Sessions \ {s}
      PROVE  Own(t)' /\ \A u \in Sessions : OneMarks(t, u)' /\ OneWrites(t, u)'
  <2>1. /\ pc'[t] = pc[t] /\ req'[t] = req[t] /\ job'[t] = job[t] /\ mark'[t] = mark[t]
        /\ pend'[t] = pend[t] /\ found'[t] = found[t] /\ (t \in waiting' <=> t \in waiting)
        /\ links' = links /\ prices' = prices
    BY DEF OnlyOf
  <2>2. /\ Stepping(t) /\ Marked(t)
        /\ NewIsOwn(t) /\ Cleared(t) /\ FoundAll(t) /\ LinkedOnce(t) /\ LinkedAll(t)
    BY DEF Inv
  <2>3. Stepping(t)'
    BY <2>1, <2>2 DEF Stepping, Linking
  <2>4. Marked(t)'
    BY <2>1, <2>2 DEF Marked, OnlyOf
  <2>5. NewIsOwn(t)'
    BY <2>1, <2>2 DEF NewIsOwn, Fixed, Linking
  <2>6. Cleared(t)'
    BY <2>1, <2>2 DEF Cleared, Seen, OnlyOf
  <2>7. FoundAll(t)'
    BY <2>1, <2>2 DEF FoundAll, OfPrice, Visible, Seen
  <2>8. LinkedOnce(t)'
    BY <2>1, <2>2 DEF LinkedOnce, Fixed, Linking, Written
  <2>9. LinkedAll(t)'
    BY <2>1, <2>2 DEF LinkedAll, Fixed, Linking, Written
  <2>10. ASSUME NEW u \in Sessions PROVE OneMarks(t, u)' /\ OneWrites(t, u)'
    <3>1. CASE u # s
      BY <3>1 DEF Inv, OnlyOf, OneMarks, OneWrites
    <3>2. CASE u = s
      <4>1. OneMarks(s, t)' /\ OneWrites(s, t)'
        OBVIOUS
      <4> QED
        BY <3>2, <4>1 DEF OneMarks, OneWrites
    <3> QED
      BY <3>1, <3>2
  <2> QED
    BY <2>3, <2>4, <2>5, <2>6, <2>7, <2>8, <2>9, <2>10 DEF Own
<1>3. \A t \in Sessions : Own(t)' /\ \A u \in Sessions : OneMarks(t, u)' /\ OneWrites(t, u)'
  BY <1>2
<1> QED
  BY <1>1, <1>3 DEF Inv, Own

\* A step of a request keeps requests apart that were, and a request starts
\* only when that does.
LEMMA StillApart ==
    ASSUME Inv, NEW s \in Sessions, pc[s] # "idle" \/ Admitted(s),
           \A t \in Sessions \ {s} : pc'[t] = pc[t]
    PROVE  Apart'
<1> SUFFICES ASSUME ~Overlap, NEW t \in Sessions, NEW u \in Sessions, t # u
             PROVE  pc'[t] = "idle" \/ pc'[u] = "idle"
  BY DEF Apart
<1>1. pc[t] = "idle" \/ pc[u] = "idle"
  BY DEF Inv, Apart
<1>2. \A v \in Sessions \ {s} : pc[v] = "idle" \/ (t # s /\ u # s)
  BY DEF Inv, Apart, Admitted
<1> QED
  BY <1>1, <1>2

(***************************************************************************)
(* Requests start                                                          *)
(***************************************************************************)

LEMMA LinkRequest ==
    ASSUME NEW op, NEW p, NEW gs
    PROVE  [NoRequest EXCEPT !.op = op, !.price = p, !.groups = gs]
           = [op |-> op, price |-> p, group |-> NoGroup, groups |-> gs, moved |-> {}, to |-> 0]
<1> DEFINE q1 == [NoRequest EXCEPT !.op = op]
           q2 == [q1 EXCEPT !.price = p]
           q3 == [q2 EXCEPT !.groups = gs]
<1>1. [NoRequest EXCEPT !.op = op, !.price = p, !.groups = gs] = q3
  OBVIOUS
<1>2. q1 = [op |-> op, price |-> NoPrice, group |-> NoGroup, groups |-> {}, moved |-> {}, to |-> 0]
  BY DEF NoRequest
<1> HIDE DEF q1
<1>3. q2 = [op |-> op, price |-> p, group |-> NoGroup, groups |-> {}, moved |-> {}, to |-> 0]
  BY <1>2
<1> HIDE DEF q2
<1>4. q3 = [op |-> op, price |-> p, group |-> NoGroup, groups |-> gs, moved |-> {}, to |-> 0]
  BY <1>3
<1> HIDE DEF q3
<1> QED
  BY <1>1, <1>4

LEMMA StartKeepsInv ==
    ASSUME Inv, NEW s \in Sessions, pc[s] = "idle", Admitted(s),
           NEW q \in Request, q.op # "none", NEW step \in Steps, NEW work \in Job,
           NEW m \in {"none", "new"}, m = "new" <=> q.op = "create",
           Goto(s, step), req' = [req EXCEPT ![s] = q], job' = [job EXCEPT ![s] = work],
           mark' = [mark EXCEPT ![s] = m], UNCHANGED <<links, prices, groups, pend>>,
           Stepping(s)',
           q.op = "create" => /\ q.price \notin prices /\ work.add = q.groups
                              /\ \A t \in Sessions : req[t].price # q.price,
           q.op # "create" => q.price \in prices \cup {NoPrice},
           q.op = "update" /\ step # "touch" => ~Overlap,
           q.op = "update" => step \notin After
    PROVE  Inv'
<1>1. TypeOK'
  BY DEF Goto, Inv, TypeOK
<1>2. /\ pc'[s] = step /\ req'[s] = q /\ job'[s] = work /\ mark'[s] = m
      /\ OnlyOf(s) /\ s \notin waiting'
  BY DEF Goto, Inv, TypeOK, OnlyOf
<1>3. \A r \in Rows : pend'[s][r] = Keep
  BY DEF Inv, Stepping, NothingWritten
<1>4. Apart'
  BY <1>2, StillApart DEF OnlyOf
<1>5. Marked(s)'
  <2>1. \A t \in Sessions \ {s} : q.op = "create" => req'[t].price # q.price
    BY <1>2 DEF OnlyOf
  <2> QED
    BY <1>2, <2>1 DEF Marked
<1>6. NewIsOwn(s)' /\ Cleared(s)' /\ FoundAll(s)'
  BY <1>2, <1>3 DEF NewIsOwn, Cleared, FoundAll
<1>7. ASSUME Fixed(s)'
      PROVE  /\ q.op = "create"
             /\ \A r \in Rows : PriceOf(r) = q.price => links'[r] = Absent
  <2>1. q.op = "create"
    BY <1>2, <1>7 DEF Fixed, Linking
  <2> QED
    BY <2>1 DEF Inv, PricesExist
<1>8. LinkedOnce(s)'
  BY <1>2, <1>3, <1>7 DEF LinkedOnce, Written
<1>9. LinkedAll(s)'
  BY <1>2, <1>7 DEF LinkedAll
<1>10. ASSUME NEW t \in Sessions PROVE OneMarks(s, t)' /\ OneWrites(s, t)'
  <2>1. OneWrites(s, t)'
    BY <1>3 DEF OneWrites
  <2>2. OneMarks(s, t)'
    BY <1>2 DEF OneMarks, OnlyOf
  <2> QED
    BY <2>1, <2>2
<1>11. ASSUME NEW t \in Sessions \ {s}, req[t].op = "create" PROVE req'[s].price # req[t].price
  <2>1. req[t].price \notin prices /\ req[t].price \in Prices
    BY <1>11 DEF Inv, Marked, Stepping, Linking
  <2> QED
    BY <1>2, <2>1, Names
<1>12. Own(s)'
  BY <1>5, <1>6, <1>8, <1>9 DEF Own
<1> QED
  BY <1>1, <1>2, <1>3, <1>4, <1>10, <1>11, <1>12, OthersKept

LEMMA Job1 ==
    ASSUME Inv, NEW s \in Sessions, pc[s] = "idle", NEW gs \in SUBSET Groups
    PROVE  LET work == [add |-> gs, fix |-> {}, group |-> NoGroup, top |-> 0, plan |-> <<>>]
           IN  work \in Job /\ [job EXCEPT ![s].add = gs] = [job EXCEPT ![s] = work]
<1> DEFINE work == [add |-> gs, fix |-> {}, group |-> NoGroup, top |-> 0, plan |-> <<>>]
<1>1. job[s] = NoJob
  BY DEF Inv, Stepping
<1>2. work \in Job
  BY NothingTyped DEF NoJob, Job
<1> DEFINE none == <<>>
<1>3. NoJob = [add |-> {}, fix |-> {}, group |-> NoGroup, top |-> 0, plan |-> none]
  BY DEF NoJob
<1>4. work = [add |-> gs, fix |-> {}, group |-> NoGroup, top |-> 0, plan |-> none]
  OBVIOUS
<1> HIDE DEF none, work
<1>5. [NoJob EXCEPT !.add = gs] = work
  BY <1>3, <1>4
<1>6. [job EXCEPT ![s].add = gs] = [job EXCEPT ![s] = work]
  BY <1>1, <1>5
<1> QED
  BY <1>2, <1>6 DEF work

LEMMA CreatePriceKeepsInv == ASSUME Inv, NEW s \in Sessions, CreatePrice(s) PROVE Inv'
<1>1. PICK p \in Prices, gs \in SUBSET groups :
        /\ FreshPrice(p)
        /\ req' = [req EXCEPT ![s] = [NoRequest EXCEPT !.op = "create", !.price = p,
                                                       !.groups = gs]]
        /\ job' = [job EXCEPT ![s].add = gs]
        /\ Goto(s, IF gs = {} THEN "commit" ELSE "max")
  BY DEF CreatePrice
<1>2. /\ pc[s] = "idle" /\ Admitted(s) /\ mark' = [mark EXCEPT ![s] = "new"]
      /\ UNCHANGED <<links, prices, groups, pend>>
  BY DEF CreatePrice
<1> DEFINE q == [op |-> "create", price |-> p, group |-> NoGroup, groups |-> gs,
                 moved |-> {}, to |-> 0]
           work == [add |-> gs, fix |-> {}, group |-> NoGroup, top |-> 0, plan |-> <<>>]
           step == IF gs = {} THEN "commit" ELSE "max"
<1>3. gs \in SUBSET Groups
  BY DEF Inv, TypeOK
<1>4. q \in Request
  BY <1>3, Names DEF Request, Null
<1>5. work \in Job /\ job' = [job EXCEPT ![s] = work]
  BY <1>1, <1>2, <1>3, Job1
<1>6. req' = [req EXCEPT ![s] = q]
  BY <1>1, LinkRequest
<1>7. req'[s] = q /\ job'[s] = work /\ pc'[s] = step /\ step \in Steps
  BY <1>1, <1>5, <1>6 DEF Goto, Inv, TypeOK, Steps
<1>8. Stepping(s)'
  BY <1>7 DEF Stepping, Linking
<1>9. p \notin prices /\ \A t \in Sessions : req[t].price # p
  BY <1>1 DEF FreshPrice
<1>10. Goto(s, step)
  BY <1>1
<1>11. q.op = "create" /\ q.price = p /\ q.groups = gs /\ work.add = gs
  OBVIOUS
<1> HIDE DEF q, work, step
<1> QED
  BY <1>2, <1>4, <1>5, <1>6, <1>7, <1>8, <1>9, <1>10, <1>11, StartKeepsInv

LEMMA UpdatePriceKeepsInv ==
    ASSUME ~Overlap \/ Touches = {TRUE}, Inv, NEW s \in Sessions, UpdatePrice(s) PROVE Inv'
<1>1. PICK p \in prices, gs \in SUBSET groups, touch \in Touches :
        /\ req' = [req EXCEPT ![s] = [NoRequest EXCEPT !.op = "update", !.price = p,
                                                       !.groups = gs]]
        /\ job' = [job EXCEPT ![s].add = gs]
        /\ Goto(s, IF touch THEN "touch" ELSE "old")
  BY DEF UpdatePrice
<1>2. /\ pc[s] = "idle" /\ Admitted(s)
      /\ UNCHANGED <<links, prices, groups, pend, mark>>
  BY DEF UpdatePrice
<1> DEFINE q == [op |-> "update", price |-> p, group |-> NoGroup, groups |-> gs,
                 moved |-> {}, to |-> 0]
           work == [add |-> gs, fix |-> {}, group |-> NoGroup, top |-> 0, plan |-> <<>>]
           step == IF touch THEN "touch" ELSE "old"
<1>3. gs \in SUBSET Groups /\ p \in Prices
  BY DEF Inv, TypeOK
<1>4. q \in Request
  BY <1>3, Names DEF Request, Null
<1>5. work \in Job /\ job' = [job EXCEPT ![s] = work]
  BY <1>1, <1>2, <1>3, Job1
<1>6. req' = [req EXCEPT ![s] = q]
  BY <1>1, LinkRequest
<1>7. req'[s] = q /\ job'[s] = work /\ pc'[s] = step /\ step \in Steps
  BY <1>1, <1>5, <1>6 DEF Goto, Inv, TypeOK, Steps
<1>8. Stepping(s)'
  BY <1>3, <1>7 DEF Stepping, Linking
<1>9. mark' = [mark EXCEPT ![s] = "none"]
  BY <1>2 DEF Inv, TypeOK, Stepping
<1>10. Goto(s, step) /\ step \notin After
  BY <1>1 DEF After
<1>12. step # "touch" => ~Overlap
  <2>1. Touches = {TRUE} => touch = TRUE
    OBVIOUS
  <2>2. touch = TRUE => step = "touch"
    OBVIOUS
  <2> QED
    BY <2>1, <2>2
<1>11. q.op = "update" /\ q.price = p
  OBVIOUS
<1> HIDE DEF q, work, step
<1> QED
  BY <1>2, <1>4, <1>5, <1>6, <1>7, <1>8, <1>9, <1>10, <1>11, <1>12, StartKeepsInv

LEMMA RowsFinite == IsFiniteSet(Rows)
<1> DEFINE Triples == (Prices \X Groups) \X Copies
           f == [x \in Triples |-> <<x[1][1], x[1][2], x[2]>>]
<1>1. IsFiniteSet(Triples)
  BY PriceConstants, FS_Product
<1>2. f \in [Triples -> Rows]
  BY DEF Rows
<1>3. ASSUME NEW r \in Rows PROVE \E x \in Triples : f[x] = r
  <2>1. <<<<r[1], r[2]>>, r[3]>> \in Triples
    BY DEF Rows
  <2>2. f[<<<<r[1], r[2]>>, r[3]>>] = r
    BY <2>1 DEF Rows
  <2> QED
    BY <2>1, <2>2
<1>4. f \in Surjection(Triples, Rows)
  BY <1>2, <1>3 DEF Surjection
<1> QED
  BY <1>1, <1>4, FS_Surjection

\* The entries of order_map are prices and orders of the listing, and there is
\* one if the listing is not empty.
LEMMA OrderMapEntries ==
    ASSUME NEW n \in Nat, NEW q, q \in [1..n -> Rows], NEW val,
           NEW P, \A i \in 1..n : PriceOf(q[i]) \in P, NEW O, \A i \in 1..n : val[i] \in O,
           NEW entries, entries \in OrderMaps(q, val)
    PROVE  \E m \in Nat : entries \in [1..m -> [price: P, ord: O]] /\ (n > 0 => m > 0)
<1> DEFINE price(i) == PriceOf(q[i])
           Again(i) == {j \in DOMAIN q : price(j) = price(i)}
           firsts == {i \in DOMAIN q : \A j \in Again(i) : i <= j}
           m == Cardinality(firsts)
<1>1. PICK f \in [1..m -> firsts] :
        entries = [k \in 1..m |-> [price |-> price(f[k]), ord |-> val[MaxOf(Again(f[k]))]]]
  BY DEF OrderMaps
<1>2. IsFiniteSet(1..n) /\ DOMAIN q = 1..n /\ 1..n \subseteq Nat
  BY FS_Interval
<1>3. firsts \subseteq 1..n
  BY <1>2
<1>4. m \in Nat /\ (firsts # {} => m > 0)
  <2> HIDE DEF firsts
  <2>1. IsFiniteSet(firsts)
    BY <1>2, <1>3, FS_Subset
  <2> QED
    BY <2>1, FS_CardinalityType, FS_EmptySet
<1>5. ASSUME NEW i \in firsts PROVE i \in 1..n /\ MaxOf(Again(i)) \in 1..n
  <2>1. i \in 1..n /\ i \in Again(i) /\ Again(i) \subseteq 1..n
    BY <1>2
  <2>2. MaxOf(Again(i)) \in 1..n
    <3> DEFINE A == Again(i)
    <3>1. IsFiniteSet(A) /\ A # {} /\ A \in SUBSET Nat
      <4> HIDE DEF A
      <4> QED
        BY <1>2, <2>1, FS_Subset DEF A
    <3>2. MaxOf(A) \in A
      <4> HIDE DEF A
      <4> QED
        BY <3>1, GreatestNumber
    <3> QED
      BY <2>1, <3>2
  <2> QED
    BY <2>1, <2>2
<1>6. n > 0 => firsts # {}
  <2> SUFFICES ASSUME n > 0 PROVE 1 \in firsts
    OBVIOUS
  <2> QED
    BY <1>2
<1>7. ASSUME NEW k \in 1..m
      PROVE  [price |-> price(f[k]), ord |-> val[MaxOf(Again(f[k]))]] \in [price: P, ord: O]
  <2> HIDE DEF firsts, Again
  <2>1. f[k] \in firsts
    BY <1>1
  <2>2. f[k] \in 1..n /\ MaxOf(Again(f[k])) \in 1..n
    BY <1>5, <2>1
  <2> QED
    BY <2>2
<1>8. entries \in [1..m -> [price: P, ord: O]]
  <2> HIDE DEF firsts, Again, price
  <2> QED
    BY <1>1, <1>7
<1> QED
  BY <1>4, <1>6, <1>8

Entries == Seq([price: Prices, ord: Orders])

LEMMA PlanIsSeq ==
    ASSUME NEW m \in Nat, NEW plan \in [1..m -> [price: Prices, ord: Orders]]
    PROVE  plan \in Entries /\ (m > 0 => plan # <<>>)
<1>1. plan \in Entries
  BY SeqDef DEF Entries
<1>2. DOMAIN plan = 1..m /\ DOMAIN <<>> = {}
  OBVIOUS
<1>3. m > 0 => 1 \in 1..m
  OBVIOUS
<1> QED
  BY <1>1, <1>2, <1>3

LEMMA ListingRows ==
    ASSUME NEW s, NEW R \in SUBSET Rows, NEW q \in Listings(s, R)
    PROVE  /\ Cardinality(R) \in Nat /\ q \in [1..Cardinality(R) -> R]
           /\ Len(q) = Cardinality(R)
           /\ R # {} \/ q # <<>> => Cardinality(R) > 0
<1>1. IsFiniteSet(R)
  BY RowsFinite, FS_Subset
<1>2. Cardinality(R) \in Nat /\ (R # {} => Cardinality(R) > 0)
  BY <1>1, FS_CardinalityType, FS_EmptySet
<1>3. q \in [1..Cardinality(R) -> R]
  BY DEF Listings
<1>4. q \in Seq(R) /\ Len(q) = Cardinality(R)
  BY <1>2, <1>3, SeqDef
<1>5. q # <<>> => Cardinality(R) > 0
  BY <1>4, <1>2
<1> QED
  BY <1>2, <1>3, <1>4, <1>5

\* One field of the local variables is assigned.
LEMMA OneField ==
    ASSUME NEW w \in Job
    PROVE  /\ w.add \in SUBSET Groups /\ w.fix \in SUBSET Groups
           /\ w.group \in Groups \cup {NoGroup} /\ w.top \in Orders /\ w.plan \in Entries
           /\ \A x \in SUBSET Groups : LET e == [w EXCEPT !.add = x] IN
                /\ e \in Job /\ e.add = x /\ e.fix = w.fix /\ e.group = w.group
                /\ e.top = w.top /\ e.plan = w.plan
           /\ \A x \in SUBSET Groups : LET e == [w EXCEPT !.fix = x] IN
                /\ e \in Job /\ e.add = w.add /\ e.fix = x /\ e.group = w.group
                /\ e.top = w.top /\ e.plan = w.plan
           /\ \A x \in Groups \cup {NoGroup} : LET e == [w EXCEPT !.group = x] IN
                /\ e \in Job /\ e.add = w.add /\ e.fix = w.fix /\ e.group = x
                /\ e.top = w.top /\ e.plan = w.plan
           /\ \A x \in Orders : LET e == [w EXCEPT !.top = x] IN
                /\ e \in Job /\ e.add = w.add /\ e.fix = w.fix /\ e.group = w.group
                /\ e.top = x /\ e.plan = w.plan
           /\ \A x \in Entries : LET e == [w EXCEPT !.plan = x] IN
                /\ e \in Job /\ e.add = w.add /\ e.fix = w.fix /\ e.group = w.group
                /\ e.top = w.top /\ e.plan = x
<1> DEFINE E == Seq([price: Prices, ord: Orders])
<1>1. Job = [add: SUBSET Groups, fix: SUBSET Groups, group: Groups \cup {NoGroup},
             top: Orders, plan: E]
  BY DEF Job
<1>2. Entries = E
  BY DEF Entries
<1> HIDE DEF E
<1> QED
  BY <1>1, <1>2

LEMMA DeleteRequest ==
    ASSUME NEW op, NEW p, NEW g
    PROVE  /\ [NoRequest EXCEPT !.op = op, !.price = p]
              = [op |-> op, price |-> p, group |-> NoGroup, groups |-> {}, moved |-> {}, to |-> 0]
           /\ [NoRequest EXCEPT !.op = op, !.group = g]
              = [op |-> op, price |-> NoPrice, group |-> g, groups |-> {}, moved |-> {}, to |-> 0]
<1> DEFINE q1 == [NoRequest EXCEPT !.op = op]
           q2 == [q1 EXCEPT !.price = p]
           q3 == [q1 EXCEPT !.group = g]
<1>1. /\ [NoRequest EXCEPT !.op = op, !.price = p] = q2
      /\ [NoRequest EXCEPT !.op = op, !.group = g] = q3
  OBVIOUS
<1>2. q1 = [op |-> op, price |-> NoPrice, group |-> NoGroup, groups |-> {}, moved |-> {}, to |-> 0]
  BY DEF NoRequest
<1> HIDE DEF q1
<1>3. q2 = [op |-> op, price |-> p, group |-> NoGroup, groups |-> {}, moved |-> {}, to |-> 0]
  BY <1>2
<1>4. q3 = [op |-> op, price |-> NoPrice, group |-> g, groups |-> {}, moved |-> {}, to |-> 0]
  BY <1>2
<1> HIDE DEF q2, q3
<1> QED
  BY <1>1, <1>3, <1>4

LEMMA ReorderRequest ==
    ASSUME NEW p, NEW g, NEW moves, NEW to
    PROVE  [NoRequest EXCEPT !.op = "reorder", !.price = p, !.group = g, !.moved = moves, !.to = to]
           = [op |-> "reorder", price |-> p, group |-> g, groups |-> {}, moved |-> moves, to |-> to]
<1> DEFINE q1 == [NoRequest EXCEPT !.op = "reorder"]
           q2 == [q1 EXCEPT !.price = p]
           q3 == [q2 EXCEPT !.group = g]
           q4 == [q3 EXCEPT !.moved = moves]
           q5 == [q4 EXCEPT !.to = to]
<1>1. [NoRequest EXCEPT !.op = "reorder", !.price = p, !.group = g, !.moved = moves, !.to = to] = q5
  OBVIOUS
<1>2. q1 = [op |-> "reorder", price |-> NoPrice, group |-> NoGroup, groups |-> {},
            moved |-> {}, to |-> 0]
  BY DEF NoRequest
<1> HIDE DEF q1
<1>3. q2 = [op |-> "reorder", price |-> p, group |-> NoGroup, groups |-> {}, moved |-> {}, to |-> 0]
  BY <1>2
<1> HIDE DEF q2
<1>4. q3 = [op |-> "reorder", price |-> p, group |-> g, groups |-> {}, moved |-> {}, to |-> 0]
  BY <1>3
<1> HIDE DEF q3
<1>5. q4 = [op |-> "reorder", price |-> p, group |-> g, groups |-> {}, moved |-> moves, to |-> 0]
  BY <1>4
<1> HIDE DEF q4
<1>6. q5 = [op |-> "reorder", price |-> p, group |-> g, groups |-> {}, moved |-> moves, to |-> to]
  BY <1>5
<1> HIDE DEF q5
<1> QED
  BY <1>1, <1>6

LEMMA DeletePriceKeepsInv == ASSUME Inv, NEW s \in Sessions, DeletePrice(s) PROVE Inv'
<1>1. PICK p \in prices :
        /\ req' = [req EXCEPT ![s] = [NoRequest EXCEPT !.op = "delete", !.price = p]]
        /\ job' = [job EXCEPT ![s].fix = {GroupOf(r) : r \in OfPrice(s, p)}]
  BY DEF DeletePrice
<1>2. /\ pc[s] = "idle" /\ Admitted(s) /\ Goto(s, "erase")
      /\ UNCHANGED <<links, prices, groups, pend, mark>>
  BY DEF DeletePrice
<1> DEFINE q == [op |-> "delete", price |-> p, group |-> NoGroup, groups |-> {},
                 moved |-> {}, to |-> 0]
           left == {GroupOf(r) : r \in OfPrice(s, p)}
           work == [NoJob EXCEPT !.fix = left]
<1>3. p \in Prices
  BY DEF Inv, TypeOK
<1>4. q \in Request
  BY <1>3, Names DEF Request, Null
<1>5. left \in SUBSET Groups
  BY DEF OfPrice, Visible, Rows, GroupOf
<1>6. work \in Job /\ work.add = {}
  <2> HIDE DEF left
  <2> QED
    BY <1>5, NothingTyped, OneField DEF NoJob
<1>7. job' = [job EXCEPT ![s] = work]
  <2>1. job[s] = NoJob
    BY <1>2 DEF Inv, Stepping
  <2> HIDE DEF left
  <2> QED
    BY <1>1, <2>1 DEF left
<1>8. req' = [req EXCEPT ![s] = q]
  BY <1>1, DeleteRequest
<1>9. mark' = [mark EXCEPT ![s] = "none"] /\ mark[s] = "none"
  BY <1>2 DEF Inv, TypeOK, Stepping
<1> HIDE DEF work
<1>10. req'[s] = q /\ job'[s] = work /\ pc'[s] = "erase" /\ mark'[s] = "none"
  BY <1>2, <1>7, <1>8, <1>9 DEF Goto, Inv, TypeOK, Steps
<1>11. Stepping(s)'
  BY <1>3, <1>6, <1>10 DEF Stepping, Linking
<1>12. q.op = "delete" /\ q.price = p /\ "erase" \in Steps
  BY DEF Steps
<1> HIDE DEF q
<1> QED
  BY <1>2, <1>4, <1>6, <1>7, <1>8, <1>9, <1>11, <1>12, StartKeepsInv

LEMMA DeleteGroupKeepsInv == ASSUME Inv, NEW s \in Sessions, DeleteGroup(s) PROVE Inv'
<1>1. PICK g \in groups :
        req' = [req EXCEPT ![s] = [NoRequest EXCEPT !.op = "deletegroup", !.group = g]]
  BY DEF DeleteGroup
<1>2. /\ pc[s] = "idle" /\ Admitted(s) /\ Goto(s, "erasegroup")
      /\ UNCHANGED <<links, prices, groups, pend, mark, job>>
  BY DEF DeleteGroup
<1> DEFINE q == [op |-> "deletegroup", price |-> NoPrice, group |-> g, groups |-> {},
                 moved |-> {}, to |-> 0]
<1>3. g \in Groups
  BY DEF Inv, TypeOK
<1>4. q \in Request
  BY <1>3, Names DEF Request, Null
<1>5. job[s] = NoJob /\ mark[s] = "none" /\ NoJob \in Job /\ NoJob.add = {}
  BY <1>2, NothingTyped DEF Inv, Stepping, NoJob
<1>6. mark' = [mark EXCEPT ![s] = "none"] /\ job' = [job EXCEPT ![s] = NoJob]
  BY <1>2, <1>5 DEF Inv, TypeOK
<1>7. req' = [req EXCEPT ![s] = q]
  BY <1>1, DeleteRequest
<1>8. req'[s] = q /\ job'[s] = NoJob /\ pc'[s] = "erasegroup" /\ mark'[s] = "none"
  BY <1>2, <1>5, <1>7 DEF Goto, Inv, TypeOK, Steps
<1>9. Stepping(s)'
  BY <1>3, <1>5, <1>8 DEF Stepping, Linking
<1>10. q.op = "deletegroup" /\ q.price = NoPrice /\ "erasegroup" \in Steps
  BY DEF Steps
<1> HIDE DEF q
<1> QED
  BY <1>2, <1>4, <1>5, <1>6, <1>7, <1>9, <1>10, StartKeepsInv

LEMMA ReorderKeepsInv == ASSUME Inv, NEW s \in Sessions, Reorder(s) PROVE Inv'
<1> DEFINE Val(q) == [i \in 1..Len(q) |-> IF Seen(s, q[i]) # Null THEN Seen(s, q[i]) ELSE i]
<1> DEFINE Chosen(g, n, q, entries) ==
        LET named == {entries[k].price : k \in DOMAIN entries}
            cur == [p \in named |-> (CHOOSE e \in {entries[k] : k \in DOMAIN entries} :
                                        e.price = p).ord]
        IN  /\ q # <<>>
            /\ \E changes \in [1..n -> [price: named, to: 1..MaxOrder]] :
                LET final == AfterChanges(cur, Len(q), changes)
                IN  /\ final \in [named -> Orders]
                    /\ req' = [req EXCEPT ![s] = [NoRequest EXCEPT !.op = "reorder",
                                     !.price = changes[n].price, !.group = g,
                                     !.moved = {changes[i].price : i \in 1..n},
                                     !.to = changes[n].to]]
                    /\ job' = [job EXCEPT ![s].group = g, ![s].plan =
                                 [k \in DOMAIN entries |->
                                    [price |-> entries[k].price,
                                     ord   |-> final[entries[k].price]]]]
<1>20. PICK g \in groups, n \in 1..MaxChanges :
          \E q \in Listings(s, InGroup(s, g)) : \E entries \in OrderMaps(q, Val(q)) :
            Chosen(g, n, q, entries)
  BY DEF Reorder
<1>21. PICK q \in Listings(s, InGroup(s, g)) :
          \E entries \in OrderMaps(q, Val(q)) : Chosen(g, n, q, entries)
  BY <1>20
<1>1. PICK entries \in OrderMaps(q, Val(q)) : Chosen(g, n, q, entries)
  BY <1>21
<1>2. /\ pc[s] = "idle" /\ Admitted(s) /\ Goto(s, "null")
      /\ UNCHANGED <<links, prices, groups, pend, mark>>
  BY DEF Reorder
<1> DEFINE named == {entries[k].price : k \in DOMAIN entries}
<1>3. PICK changes \in [1..n -> [price: named, to: 1..MaxOrder]], final \in [named -> Orders] :
        /\ req' = [req EXCEPT ![s] = [NoRequest EXCEPT !.op = "reorder",
                         !.price = changes[n].price, !.group = g,
                         !.moved = {changes[i].price : i \in 1..n},
                         !.to = changes[n].to]]
        /\ job' = [job EXCEPT ![s].group = g, ![s].plan =
                     [k \in DOMAIN entries |->
                        [price |-> entries[k].price,
                         ord   |-> final[entries[k].price]]]]
  BY <1>1
<1>4. q # <<>>
  BY <1>1
<1> HIDE DEF Val
<1> DEFINE R == InGroup(s, g)
<1>5. R \in SUBSET Rows /\ \A r \in R : PriceOf(r) \in prices
  <2>1. \A r \in Rows : pend[s][r] = Keep
    BY <1>2 DEF Inv, Stepping, NothingWritten
  <2> QED
    BY <2>1 DEF InGroup, Visible, Seen, Inv, PricesExist
<1>6. PICK m \in Nat : m > 0 /\ DOMAIN entries = 1..m /\ \A k \in 1..m : entries[k].price \in prices
  <2> DEFINE n0 == Cardinality(R)
             val == Val(q)
             O == {val[i] : i \in 1..n0}
  <2>1. n0 \in Nat /\ q \in [1..n0 -> R] /\ n0 > 0
    BY <1>4, <1>5, ListingRows
  <2>2. q \in [1..n0 -> Rows] /\ \A i \in 1..n0 : PriceOf(q[i]) \in prices
    BY <1>5, <2>1
  <2>3. entries \in OrderMaps(q, val) /\ \A i \in 1..n0 : val[i] \in O
    OBVIOUS
  <2> HIDE DEF R, n0, val, O
  <2>4. PICK m \in Nat : m > 0 /\ entries \in [1..m -> [price: prices, ord: O]]
    BY <2>1, <2>2, <2>3, OrderMapEntries
  <2>5. DOMAIN entries = 1..m /\ \A k \in 1..m : entries[k].price \in prices
    BY <2>4
  <2> QED
    BY <2>4, <2>5
<1>7. DOMAIN entries = 1..m /\ named \subseteq prices /\ \A k \in 1..m : entries[k].price \in named
  <2>1. DOMAIN entries = 1..m
    BY <1>6
  <2> QED
    BY <1>6, <2>1
<1> DEFINE p == changes[n].price
           plan == [k \in DOMAIN entries |-> [price |-> entries[k].price,
                                              ord   |-> final[entries[k].price]]]
           moves == {changes[i].price : i \in 1..n}
           new == [op |-> "reorder", price |-> p, group |-> g, groups |-> {},
                   moved |-> moves, to |-> changes[n].to]
           j1 == [NoJob EXCEPT !.group = g]
           work == [j1 EXCEPT !.plan = plan]
<1>8. prices \subseteq Prices /\ g \in Groups
  BY DEF Inv, TypeOK
<1>9. p \in prices /\ moves \subseteq Prices /\ changes[n].to \in Orders
  <2>1. n \in 1..n /\ MaxOrder \in Nat
    BY Names, PriceConstants
  <2>2. \A i \in 1..n : changes[i].price \in named /\ changes[i].to \in 1..MaxOrder
    BY <1>3
  <2> HIDE DEF named
  <2> QED
    BY <1>7, <1>8, <2>1, <2>2 DEF Orders
<1>10. plan \in Entries /\ plan # <<>>
  <2>1. DOMAIN entries = 1..m
    BY <1>7
  <2>2. \A k \in 1..m : [price |-> entries[k].price, ord |-> final[entries[k].price]] \in
                            [price: Prices, ord: Orders]
    <3> HIDE DEF named
    <3> QED
      BY <1>3, <1>7, <1>8
  <2>3. plan \in [1..m -> [price: Prices, ord: Orders]]
    BY <2>1, <2>2
  <2> HIDE DEF plan
  <2> QED
    BY <1>6, <2>3, PlanIsSeq
<1>11. new \in Request
  <2> HIDE DEF p, moves
  <2> QED
    BY <1>8, <1>9 DEF Request
<1>12. req' = [req EXCEPT ![s] = new]
  <2> DEFINE dest == changes[n].to
  <2>1. req' = [req EXCEPT ![s] = [NoRequest EXCEPT !.op = "reorder", !.price = p, !.group = g,
                                                    !.moved = moves, !.to = dest]]
    BY <1>3, Zenon
  <2> HIDE DEF p, moves, dest
  <2>2. [NoRequest EXCEPT !.op = "reorder", !.price = p, !.group = g, !.moved = moves, !.to = dest]
        = [op |-> "reorder", price |-> p, group |-> g, groups |-> {}, moved |-> moves, to |-> dest]
    BY ReorderRequest
  <2> QED
    BY <2>1, <2>2, Zenon DEF dest
<1>13. job[s] = NoJob /\ mark[s] = "none" /\ NoJob \in Job
  BY <1>2, NothingTyped DEF Inv, Stepping
<1> HIDE DEF plan
<1>14. work \in Job /\ work.add = {} /\ work.fix = {} /\ work.plan = plan
  <2>1. j1 \in Job /\ j1.add = {} /\ j1.fix = {}
    BY <1>8, <1>13, OneField DEF NoJob
  <2> HIDE DEF j1
  <2> QED
    BY <1>10, <2>1, OneField
<1>15. job' = [job EXCEPT ![s] = work]
  <2>1. job' = [job EXCEPT ![s].group = g, ![s].plan = plan]
    BY <1>3 DEF plan
  <2> QED
    BY <1>13, <2>1
<1>16. mark' = [mark EXCEPT ![s] = "none"]
  BY <1>2, <1>13 DEF Inv, TypeOK
<1> HIDE DEF work
<1>17. req'[s] = new /\ job'[s] = work /\ pc'[s] = "null" /\ mark'[s] = "none"
  BY <1>2, <1>12, <1>15, <1>16 DEF Goto, Inv, TypeOK, Steps
<1>18. new.op = "reorder" /\ new.price = p /\ new.groups = {} /\ "null" \in Steps
  BY DEF Steps
<1> HIDE DEF p, new, moves
<1>19. Stepping(s)'
  BY <1>10, <1>14, <1>17, <1>18 DEF Stepping, Linking
<1> QED
  BY <1>2, <1>9, <1>11, <1>12, <1>14, <1>15, <1>16, <1>18, <1>19, StartKeepsInv

(***************************************************************************)
(* Statements run                                                          *)
(***************************************************************************)

\* A statement that writes rows of price_groups_relations, or none: what it
\* changes nobody else writes, and no deletion of the price has passed it.
LEMMA WriteKeepsInv ==
    ASSUME Inv, NEW s \in Sessions, pc[s] \notin {"idle", "touch"},
           NEW step \in Steps, step \notin {"idle", "touch"}, Goto(s, step),
           NEW w \in Job, job' = [job EXCEPT ![s] = w],
           NEW ps \in [Rows -> Orders \cup {Absent, Keep}], pend' = [pend EXCEPT ![s] = ps],
           UNCHANGED <<links, prices, groups, mark, req>>,
           \A r \in Rows : ps[r] # pend[s][r] => \A t \in Sessions \ {s} :
                /\ pend[t][r] = Keep
                /\ ~(mark[t] = "gone" /\ req[t].op = "delete" /\ req[t].price = PriceOf(r)),
           Stepping(s)', NewIsOwn(s)', Cleared(s)', LinkedOnce(s)', LinkedAll(s)'
    PROVE  Inv'
<1>1. TypeOK'
  BY DEF Goto, Inv, TypeOK
<1>2. /\ pc'[s] = step /\ job'[s] = w /\ pend'[s] = ps /\ req'[s] = req[s] /\ mark'[s] = mark[s]
      /\ OnlyOf(s) /\ s \notin waiting'
  BY DEF Goto, Inv, TypeOK, OnlyOf
<1>3. Apart'
  BY <1>2, StillApart DEF OnlyOf
<1>4. Marked(s)'
  <2>1. Marked(s) /\ prices' = prices /\ \A t \in Sessions : req'[t] = req[t]
    BY DEF Inv
  <2> QED
    BY <1>2, <2>1 DEF Marked
<1>5. FoundAll(s)'
  BY <1>2 DEF FoundAll
<1>6. ASSUME NEW t \in Sessions PROVE OneMarks(s, t)' /\ OneWrites(s, t)'
  <2>1. OneMarks(s, t)'
    BY DEF Inv, OneMarks
  <2>2. CASE t # s
    BY <1>2, <2>1, <2>2 DEF Inv, OneWrites, OnlyOf
  <2> QED
    BY <2>1, <2>2 DEF OneWrites
<1>7. ASSUME NEW t \in Sessions \ {s}
      PROVE  /\ req[t].op = "create" => req'[s].price # req[t].price
             /\ mark[t] = "gone" /\ req[t].op = "delete" =>
                  \A r \in Rows : PriceOf(r) = req[t].price => pend'[s][r] = Keep
  <2>1. Marked(t) /\ Cleared(t)
    BY DEF Inv
  <2>2. req[t].op = "create" => req'[s].price # req[t].price
    BY <1>2, <2>1 DEF Marked
  <2>3. ASSUME mark[t] = "gone", req[t].op = "delete", NEW r \in Rows, PriceOf(r) = req[t].price
        PROVE  pend'[s][r] = Keep
    BY <1>2, <2>1, <2>3 DEF Cleared
  <2> QED
    BY <2>2, <2>3
<1>8. Own(s)'
  BY <1>4, <1>5 DEF Own
<1> QED
  BY <1>1, <1>2, <1>3, <1>6, <1>7, <1>8, OthersKept

\* A statement that only reads.
LEMMA ReadKeepsInv ==
    ASSUME Inv, NEW s \in Sessions, pc[s] \notin {"idle", "touch"},
           NEW step \in Steps, step \notin {"idle", "touch"}, Goto(s, step),
           NEW w \in Job, job' = [job EXCEPT ![s] = w], w.add = job[s].add,
           UNCHANGED <<links, prices, groups, pend, mark, req>>,
           Stepping(s)', Linking(s) => (pc[s] \in After <=> step \in After)
    PROVE  Inv'
<1>1. /\ pc'[s] = step /\ job'[s] = w
  BY DEF Goto, Inv, TypeOK
<1>2. pend[s] \in [Rows -> Orders \cup {Absent, Keep}] /\ pend' = [pend EXCEPT ![s] = pend[s]]
  BY DEF Inv, TypeOK
<1>3. NewIsOwn(s) /\ Cleared(s) /\ LinkedOnce(s) /\ LinkedAll(s)
  BY DEF Inv
<1>4. Fixed(s)' <=> Fixed(s)
  BY <1>1 DEF Fixed, Linking
<1>5. NewIsOwn(s)' /\ Cleared(s)'
  BY <1>3, <1>4 DEF NewIsOwn, Cleared, Seen
<1>6. LinkedOnce(s)' /\ LinkedAll(s)'
  BY <1>1, <1>3, <1>4 DEF LinkedOnce, LinkedAll, Written
<1> QED
  BY <1>2, <1>5, <1>6, WriteKeepsInv

LEMMA ReadOldGroupsKeepsInv == ASSUME Inv, NEW s \in Sessions, ReadOldGroups(s) PROVE Inv'
<1> DEFINE left == {GroupOf(r) : r \in OfPrice(s, req[s].price)} \ req[s].groups
           w == [job[s] EXCEPT !.fix = left]
<1>1. /\ pc[s] = "old" /\ Goto(s, "drop") /\ UNCHANGED <<links, prices, groups, pend, mark, req>>
      /\ job' = [job EXCEPT ![s].fix = left]
  BY DEF ReadOldGroups, Runs
<1>2. left \in SUBSET Groups
  BY DEF OfPrice, Visible, Rows, GroupOf
<1> HIDE DEF left
<1>3. job[s] \in Job
  BY DEF Inv, TypeOK
<1>4. w \in Job /\ w.add = job[s].add /\ w.group = job[s].group /\ w.top = job[s].top
      /\ w.plan = job[s].plan
  BY <1>2, <1>3, OneField
<1>5. job' = [job EXCEPT ![s] = w]
  BY <1>1
<1> HIDE DEF w
<1>6. "drop" \in Steps \ {"idle", "touch"} /\ "drop" \notin After /\ "old" \notin After
  BY DEF Steps, After
<1>7. job'[s] = w /\ pc'[s] = "drop" /\ req'[s] = req[s]
  BY <1>1, <1>5 DEF Goto, Inv, TypeOK
<1>8. Stepping(s)'
  <2>1. Stepping(s)
    BY DEF Inv
  <2> QED
    BY <1>1, <1>4, <1>7, <2>1 DEF Stepping, Linking
<1> QED
  BY <1>1, <1>4, <1>5, <1>6, <1>8, ReadKeepsInv

LEMMA ReadMaxKeepsInv == ASSUME Inv, NEW s \in Sessions, ReadMax(s) PROVE Inv'
<1> DEFINE Held(g) == {Null} \cup {Seen(s, r) : r \in InGroup(s, g)}
<1>1. /\ pc[s] = "max" /\ Goto(s, "insert") /\ UNCHANGED <<links, prices, groups, pend, mark, req>>
  BY DEF ReadMax, Runs
<1>2. PICK g \in job[s].add : /\ MaxOf(Held(g)) < MaxOrder
                              /\ job' = [job EXCEPT ![s].group = g, ![s].top = MaxOf(Held(g))]
  BY DEF ReadMax
<1> DEFINE H == Held(g)
           top == MaxOf(Held(g))
           j1 == [job[s] EXCEPT !.group = g]
           w == [j1 EXCEPT !.top = top]
<1>3. job[s] \in Job
  BY DEF Inv, TypeOK
<1>4. g \in Groups
  BY <1>3, OneField
<1>5. top \in Orders /\ top < MaxOrder
  <2>1. H \subseteq Orders
    <3>1. \A r \in InGroup(s, g) : Seen(s, r) \in Orders
      BY DEF InGroup, Visible, Seen, Inv, TypeOK
    <3> QED
      BY <3>1, Names
  <2>2. H # {}
    OBVIOUS
  <2>3. IsFiniteSet(Orders) /\ Orders \subseteq Nat
    BY Names, FS_Interval DEF Orders
  <2> HIDE DEF H
  <2>4. IsFiniteSet(H)
    BY <2>1, <2>3, FS_Subset
  <2>5. MaxOf(H) \in H
    BY <2>1, <2>2, <2>3, <2>4, GreatestNumber
  <2>6. top \in Orders
    BY <2>1, <2>5 DEF H
  <2> QED
    BY <1>2, <2>6
<1>6. job' = [job EXCEPT ![s] = w]
  <2>1. job' = [job EXCEPT ![s].group = g, ![s].top = top]
    BY <1>2
  <2> HIDE DEF top
  <2> QED
    BY <2>1, <1>3 DEF Inv, TypeOK
<1> HIDE DEF top
<1>7. j1 \in Job /\ j1.add = job[s].add /\ j1.fix = job[s].fix /\ j1.group = g
  BY <1>3, <1>4, OneField
<1> HIDE DEF j1
<1>8. w \in Job /\ w.add = job[s].add /\ w.fix = job[s].fix /\ w.group = g /\ w.top = top
  BY <1>5, <1>7, OneField
<1> HIDE DEF w
<1>9. "insert" \in Steps \ {"idle", "touch"} /\ "insert" \in After /\ "max" \in After
  BY DEF Steps, After
<1>10. job'[s] = w /\ pc'[s] = "insert" /\ req'[s] = req[s]
  BY <1>1, <1>6 DEF Goto, Inv, TypeOK
<1>11. Stepping(s)'
  <2>1. Stepping(s)
    BY DEF Inv
  <2> QED
    BY <1>1, <1>2, <1>5, <1>8, <1>9, <1>10, <2>1 DEF Stepping, Linking
<1> QED
  BY <1>1, <1>6, <1>8, <1>9, <1>11, ReadKeepsInv

LEMMA RenumberKeepsInv == ASSUME Inv, NEW s \in Sessions, Renumber(s) PROVE Inv'
<1> DEFINE Rest(g) == IF GroupSeen(s, g) THEN InGroup(s, g) ELSE {}
           Left(g) == [job[s] EXCEPT !.fix = @ \ {g}]
<1>1. pc[s] = "number" /\ UNCHANGED <<links, prices, groups, pend, mark, req>>
  BY DEF Renumber, Runs
<1>2. PICK g \in job[s].fix :
        IF Rest(g) = {}
        THEN job' = [job EXCEPT ![s] = Left(g)] /\ Goto(s, NextStep(Left(g)))
        ELSE /\ Cardinality(Rest(g)) <= MaxOrder
             /\ \E q \in Listings(s, Rest(g)) :
                \E plan \in OrderMaps(q, [i \in 1..Len(q) |-> i]) :
                    job' = [job EXCEPT ![s] = [Left(g) EXCEPT !.group = g, !.plan = plan]]
             /\ Goto(s, "null")
  BY DEF Renumber
<1> DEFINE work == Left(g)
           R == Rest(g)
<1>3. job[s] \in Job /\ Stepping(s)
  BY DEF Inv, TypeOK
<1>4. g \in Groups
  BY <1>3, OneField
<1>5. work \in Job /\ work.add = job[s].add /\ work.fix \subseteq job[s].fix
  <2> DEFINE x == job[s].fix \ {g}
  <2>1. x \in SUBSET Groups
    BY <1>3, OneField
  <2>2. work = [job[s] EXCEPT !.fix = x]
    OBVIOUS
  <2> HIDE DEF x, work
  <2>3. work \in Job /\ work.add = job[s].add /\ work.fix = x
    BY <1>3, <2>1, <2>2, OneField
  <2> QED
    BY <2>3 DEF x
<1>6. R \in SUBSET Rows
  BY DEF InGroup, Visible
<1>7. /\ {"number", "commit", "null"} \subseteq Steps \ {"idle", "touch"}
      /\ {"number", "commit", "null"} \subseteq After
  BY DEF Steps, After
<1>8. job[s].add = {} /\ req[s].op \in {"update", "delete"}
  <2>1. req[s].op \in {"none", "create", "update", "delete", "reorder", "deletegroup"}
    BY DEF Inv, TypeOK, Request
  <2> QED
    BY <1>1, <1>3, <2>1 DEF Stepping
<1>9. ASSUME NEW w \in Job, w.add = job[s].add, NEW step \in {"number", "commit", "null"},
             step = "null" => w.plan # <<>>, job' = [job EXCEPT ![s] = w], Goto(s, step)
      PROVE  Inv'
  <2>1. job'[s] = w /\ pc'[s] = step /\ req'[s] = req[s]
    BY <1>1, <1>9 DEF Goto, Inv, TypeOK
  <2>2. Stepping(s)'
    BY <1>1, <1>3, <1>7, <1>8, <1>9, <2>1 DEF Stepping, Linking
  <2>3. "number" \in After /\ step \in After /\ step \in Steps /\ step \notin {"idle", "touch"}
    BY <1>7
  <2> QED
    BY <1>1, <1>9, <2>2, <2>3, ReadKeepsInv
<1>10. CASE R = {}
  <2>1. job' = [job EXCEPT ![s] = work] /\ Goto(s, NextStep(work))
    BY <1>2, <1>10
  <2> HIDE DEF work
  <2>2. NextStep(work) \in {"number", "commit"}
    BY <1>5, <1>8 DEF NextStep
  <2> QED
    BY <1>5, <1>9, <2>1, <2>2
<1>11. CASE R # {}
  <2>1. PICK q \in Listings(s, R) :
          \E plan \in OrderMaps(q, [i \in 1..Len(q) |-> i]) :
             job' = [job EXCEPT ![s] = [Left(g) EXCEPT !.group = g, !.plan = plan]]
    BY <1>2, <1>11
  <2>2. PICK plan \in OrderMaps(q, [i \in 1..Len(q) |-> i]) :
             job' = [job EXCEPT ![s] = [Left(g) EXCEPT !.group = g, !.plan = plan]]
    BY <2>1
  <2>3. Cardinality(R) <= MaxOrder /\ Goto(s, "null")
    BY <1>2, <1>11
  <2> DEFINE n0 == Cardinality(R)
             val == [i \in 1..Len(q) |-> i]
             j1 == [work EXCEPT !.group = g]
             w == [j1 EXCEPT !.plan = plan]
  <2> HIDE DEF work, R
  <2>4. n0 \in Nat /\ q \in [1..n0 -> R] /\ n0 > 0 /\ Len(q) = n0 /\ n0 <= MaxOrder
    BY <1>6, <1>11, <2>1, <2>3, ListingRows
  <2>5. q \in [1..n0 -> Rows] /\ \A i \in 1..n0 : PriceOf(q[i]) \in Prices
    BY <1>6, <2>4 DEF Rows, PriceOf
  <2>6. plan \in OrderMaps(q, val) /\ \A i \in 1..n0 : val[i] \in Orders
    BY <2>2, <2>4, Names DEF Orders
  <2>7. job' = [job EXCEPT ![s] = w]
    BY <2>2 DEF work
  <2> HIDE DEF n0, val
  <2>8. PICK m \in Nat : plan \in [1..m -> [price: Prices, ord: Orders]] /\ m > 0
    BY <2>4, <2>5, <2>6, OrderMapEntries
  <2>9. plan \in Entries /\ plan # <<>>
    BY <2>8, PlanIsSeq
  <2>10. j1 \in Job /\ j1.add = job[s].add
    BY <1>4, <1>5, OneField
  <2> HIDE DEF j1
  <2>11. w \in Job /\ w.add = job[s].add /\ w.plan = plan
    BY <2>9, <2>10, OneField
  <2> HIDE DEF w
  <2> QED
    BY <1>9, <2>3, <2>7, <2>9, <2>11
<1> QED
  BY <1>10, <1>11

LEMMA WaitKeepsInv == ASSUME Inv, NEW s \in Sessions, Wait(s) PROVE Inv'
<1>1. /\ pc[s] \in {"drop", "null", "put"} /\ waiting' = waiting \cup {s}
      /\ found' = [found EXCEPT ![s] = Matching(s)]
      /\ UNCHANGED <<links, prices, groups, pend, mark, pc, req, job>>
  BY DEF Wait
<1>2. Matching(s) \subseteq Rows
  BY <1>1 DEF Matching, OfPrice, InGroup, Visible
<1>3. TypeOK'
  <2> HIDE DEF Matching
  <2> QED
    BY <1>1, <1>2 DEF Inv, TypeOK
<1>4. OnlyOf(s) /\ found'[s] = Matching(s)
  BY <1>1 DEF Inv, TypeOK, OnlyOf
<1>5. Apart'
  BY <1>1 DEF Inv, Apart
<1>6. FoundAll(s)'
  <2>1. pc[s] = "drop" => Matching(s) = OfPrice(s, req[s].price)
    BY DEF Matching
  <2>2. OfPrice(s, req[s].price)' = OfPrice(s, req[s].price)
    BY <1>1 DEF OfPrice, Visible, Seen
  <2> QED
    BY <1>1, <1>4, <2>1, <2>2 DEF FoundAll
<1>7. /\ Stepping(s) /\ Marked(s) /\ NewIsOwn(s) /\ Cleared(s) /\ LinkedOnce(s) /\ LinkedAll(s)
      /\ \A t \in Sessions : OneMarks(s, t) /\ OneWrites(s, t) /\ Marked(t) /\ Cleared(t)
  BY DEF Inv
<1>8. Stepping(s)' /\ Marked(s)'
  BY <1>1, <1>7 DEF Stepping, Marked, Linking
<1>9. NewIsOwn(s)' /\ Cleared(s)' /\ LinkedOnce(s)' /\ LinkedAll(s)'
  BY <1>1, <1>7 DEF NewIsOwn, Cleared, Seen, LinkedOnce, LinkedAll, Fixed, Linking, Written
<1>10. \A t \in Sessions : OneMarks(s, t)' /\ OneWrites(s, t)'
  BY <1>1, <1>7 DEF OneMarks, OneWrites
<1>11. ASSUME NEW t \in Sessions \ {s}
       PROVE  /\ req[t].op = "create" => req'[s].price # req[t].price
              /\ mark[t] = "gone" /\ req[t].op = "delete" =>
                   \A r \in Rows : PriceOf(r) = req[t].price => pend'[s][r] = Keep
  BY <1>1, <1>7 DEF Marked, Cleared
<1> QED
  BY <1>3, <1>4, <1>5, <1>6, <1>8, <1>9, <1>10, <1>11, OthersKept DEF Own

\* The update takes the lock of the price, which nobody else has.
LEMMA TouchPriceKeepsInv == ASSUME Inv, NEW s \in Sessions, TouchPrice(s) PROVE Inv'
<1> DEFINE m == IF req[s].price \in prices THEN "held" ELSE mark[s]
<1>1. /\ pc[s] = "touch" /\ Goto(s, "old") /\ UNCHANGED <<links, prices, groups, pend, req, job>>
      /\ mark' = [mark EXCEPT ![s] = m] /\ PriceMarked(s, req[s].price, {"held", "gone"}) = {}
  BY DEF TouchPrice, Runs, Blockers, Inv, TypeOK
<1>2. TypeOK'
  BY <1>1 DEF Goto, Inv, TypeOK, Steps
<1>3. OnlyOf(s) /\ pc'[s] = "old" /\ mark'[s] = m /\ s \notin waiting'
  BY <1>1 DEF Goto, Inv, TypeOK, OnlyOf
<1>4. Apart'
  BY <1>1, <1>3, StillApart DEF OnlyOf
<1>5. /\ Stepping(s) /\ Marked(s) /\ NewIsOwn(s) /\ Cleared(s)
      /\ \A t \in Sessions : OneMarks(s, t) /\ OneWrites(s, t) /\ Marked(t) /\ Cleared(t)
  BY DEF Inv
<1>6. req[s].op = "update" /\ mark[s] = "none"
  <2>1. req[s].op \in {"none", "create", "update", "delete", "reorder", "deletegroup"}
        /\ mark[s] \in {"none", "new", "held", "gone"}
    BY DEF Inv, TypeOK, Request
  <2> QED
    BY <1>1, <1>5, <2>1 DEF Stepping, Marked, After
<1>7. Stepping(s)'
  BY <1>1, <1>3, <1>5, <1>6 DEF Stepping, Linking
<1>8. Marked(s)'
  BY <1>1, <1>3, <1>5, <1>6 DEF Marked
<1>9. NewIsOwn(s)' /\ Cleared(s)' /\ FoundAll(s)' /\ LinkedOnce(s)' /\ LinkedAll(s)'
  BY <1>1, <1>3, <1>5, <1>6 DEF NewIsOwn, Cleared, FoundAll, LinkedOnce, LinkedAll, Fixed, Linking, After
<1>10. ASSUME NEW t \in Sessions PROVE OneMarks(s, t)' /\ OneWrites(s, t)'
  <2>1. OneWrites(s, t)'
    BY <1>1, <1>5 DEF OneWrites
  <2>2. OneMarks(s, t)'
    <3> SUFFICES ASSUME s # t, mark'[t] # "none", req[s].price = req[t].price, mark'[s] # "none"
                 PROVE  FALSE
      BY <1>1 DEF OneMarks
    <3>1. mark[t] = mark'[t] /\ mark[t] \in {"new", "held", "gone"}
      BY <1>3 DEF OnlyOf, Inv, TypeOK
    <3>2. mark[t] # "new"
      BY <1>5 DEF Marked
    <3>3. t \in PriceMarked(s, req[s].price, {"held", "gone"})
      BY <3>1, <3>2 DEF PriceMarked
    <3> QED
      BY <1>1, <3>3
  <2> QED
    BY <2>1, <2>2
<1>11. ASSUME NEW t \in Sessions \ {s}
       PROVE  /\ req[t].op = "create" => req'[s].price # req[t].price
              /\ mark[t] = "gone" /\ req[t].op = "delete" =>
                   \A r \in Rows : PriceOf(r) = req[t].price => pend'[s][r] = Keep
  BY <1>1, <1>5 DEF Marked, Cleared
<1> QED
  BY <1>2, <1>3, <1>4, <1>7, <1>8, <1>9, <1>10, <1>11, OthersKept DEF Own

\* A row that a transaction sees and nobody else writes is not one of a price
\* whose deletion is under way.
LEMMA SeenNotCleared ==
    ASSUME Inv, NEW s \in Sessions, NEW r \in Visible(s), NEW t \in Sessions \ {s}, pend[t][r] = Keep
    PROVE  ~(mark[t] = "gone" /\ req[t].op = "delete" /\ req[t].price = PriceOf(r))
<1> SUFFICES ASSUME mark[t] = "gone", req[t].op = "delete", req[t].price = PriceOf(r) PROVE FALSE
  OBVIOUS
<1>1. r \in Rows /\ Seen(s, r) # Absent
  BY DEF Visible
<1>2. Cleared(t)
  BY DEF Inv
<1>3. Seen(t, r) = Absent /\ pend[s][r] = Keep
  BY <1>1, <1>2 DEF Cleared
<1> QED
  BY <1>1, <1>3 DEF Seen

\* A row that a transaction sees is in the table, unless it has put it there.
LEMMA SeenIsThere ==
    ASSUME Inv, NEW s \in Sessions, NEW r \in Visible(s)
    PROVE  links[r] # Absent \/ (Fixed(s) /\ PriceOf(r) = req[s].price)
<1>1. r \in Rows /\ Seen(s, r) # Absent /\ NewIsOwn(s)
  BY DEF Visible, Inv
<1> QED
  BY <1>1 DEF Seen, NewIsOwn

LEMMA TargetSeen == ASSUME NEW s PROVE Target(s) \subseteq Visible(s)
  BY DEF Target, Matching, OfPrice, InGroup

LEMMA NextSteps ==
    ASSUME NEW w
    PROVE  /\ NextStep(w) \in {"max", "number", "commit"} /\ NextStep(w) \in Steps \ {"idle", "touch"}
           /\ NextStep(w) \in After
           /\ NextStep(w) = "max" <=> w.add # {}
           /\ NextStep(w) = "number" => w.fix # {}
  BY DEF NextStep, Steps, After

LEMMA DropLinksKeepsInv == ASSUME Inv, NEW s \in Sessions, DropLinks(s) PROVE Inv'
<1> DEFINE ps == [r \in Rows |-> IF r \in Target(s) THEN Absent ELSE pend[s][r]]
           step == NextStep(job[s])
<1>1. /\ pc[s] = "drop" /\ RowHolders(s, Target(s)) = {} /\ Goto(s, step)
      /\ UNCHANGED <<links, prices, groups, mark, req, job>>
  BY DEF DropLinks, Runs, Blockers
<1>2. pend' = [pend EXCEPT ![s] = ps]
  BY DEF DropLinks, Inv, TypeOK
<1>3. /\ Stepping(s) /\ NewIsOwn(s) /\ Cleared(s) /\ FoundAll(s)
      /\ job[s] \in Job /\ job' = [job EXCEPT ![s] = job[s]]
      /\ ps \in [Rows -> Orders \cup {Absent, Keep}]
  BY <1>1 DEF Inv, TypeOK
<1>4. req[s].op = "update"
  <2>1. req[s].op \in {"none", "create", "update", "delete", "reorder", "deletegroup"}
    BY DEF Inv, TypeOK, Request
  <2> QED
    BY <1>1, <1>3, <2>1 DEF Stepping
<1>5. /\ pc'[s] = step /\ pend'[s] = ps /\ req'[s] = req[s] /\ job'[s] = job[s] /\ mark'[s] = mark[s]
      /\ links' = links /\ prices' = prices
  BY <1>1, <1>2 DEF Goto, Inv, TypeOK
<1>6. ASSUME NEW r \in Rows, ps[r] # pend[s][r], NEW t \in Sessions \ {s}
      PROVE  /\ pend[t][r] = Keep
             /\ ~(mark[t] = "gone" /\ req[t].op = "delete" /\ req[t].price = PriceOf(r))
  <2>1. r \in Target(s) /\ r \in Visible(s)
    BY <1>6, TargetSeen
  <2>2. pend[t][r] = Keep
    BY <1>1, <2>1 DEF RowHolders
  <2> QED
    BY <2>1, <2>2, SeenNotCleared
<1>7. ASSUME NEW r \in Rows, PriceOf(r) = req[s].price
      PROVE  ps[r] = Absent \/ (ps[r] = Keep /\ links[r] = Absent)
  <2> SUFFICES ASSUME r \notin Target(s) PROVE pend[s][r] = Absent \/ (pend[s][r] = Keep /\ links[r] = Absent)
    OBVIOUS
  <2>1. Matching(s) = OfPrice(s, req[s].price)
    BY <1>1 DEF Matching
  <2>2. r \notin OfPrice(s, req[s].price)
    BY <1>1, <1>3, <2>1 DEF Target, FoundAll, OfPrice
  <2>3. Seen(s, r) = Absent
    BY <1>7, <2>2 DEF OfPrice, Visible
  <2> QED
    BY <2>3 DEF Seen
<1>8. NewIsOwn(s)'
  <2> SUFFICES ASSUME NEW r \in Rows, ps[r] # Keep PROVE links[r] # Absent
    BY <1>5 DEF NewIsOwn
  <2>1. ~Fixed(s)
    BY <1>1 DEF Fixed, After
  <2>2. CASE r \in Target(s)
    BY <2>1, <2>2, TargetSeen, SeenIsThere
  <2>3. CASE r \notin Target(s)
    BY <1>3, <2>1, <2>3 DEF NewIsOwn
  <2> QED
    BY <2>2, <2>3
<1>9. job[s].add = req[s].groups
  BY <1>1, <1>3 DEF Stepping
<1> HIDE DEF ps
<1>10. Cleared(s)' /\ LinkedOnce(s)' /\ LinkedAll(s)'
  <2>1. Cleared(s)'
    BY <1>4, <1>5 DEF Cleared
  <2>2. LinkedOnce(s)'
    <3>1. \A r \in Rows : PriceOf(r) = req'[s].price =>
            /\ pend'[s][r] = Keep => links'[r] = Absent
            /\ ~(pend'[s][r] \notin {Keep, Absent})
      BY <1>5, <1>7, Names
    <3> QED
      BY <3>1 DEF LinkedOnce, Written
  <2>3. LinkedAll(s)'
    BY <1>5, <1>9 DEF LinkedAll
  <2> QED
    BY <2>1, <2>2, <2>3
<1>11. Stepping(s)'
  BY <1>3, <1>4, <1>5, <1>9, NextSteps DEF Stepping, Linking
<1> HIDE DEF step
<1>12. step \in Steps /\ step \notin {"idle", "touch"}
  BY NextSteps DEF step
<1> QED
  BY <1>1, <1>2, <1>3, <1>6, <1>8, <1>10, <1>11, <1>12, WriteKeepsInv

LEMMA NewRowIsFree ==
    ASSUME NEW s \in Sessions, NEW p \in Prices, NEW g \in Groups, Free(p, g) # {}
    PROVE  LET r == NewRow(p, g)
           IN  /\ r \in Rows /\ PriceOf(r) = p /\ GroupOf(r) = g
               /\ links[r] = Absent /\ \A t \in Sessions : pend[t][r] = Keep
<1> DEFINE c == CHOOSE c \in Free(p, g) : \A d \in Free(p, g) : c <= d
<1>1. Free(p, g) \subseteq Copies /\ Free(p, g) \in SUBSET Nat
  BY PriceConstants DEF Free
<1>2. \E x \in Free(p, g) : \A d \in Free(p, g) : x <= d
  BY <1>1, LeastNumber
<1>3. c \in Free(p, g)
  BY <1>2
<1>4. NewRow(p, g) = <<p, g, c>>
  BY DEF NewRow
<1> HIDE DEF c
<1>5. c \in Copies /\ links[<<p, g, c>>] = Absent /\ \A t \in Sessions : pend[t][<<p, g, c>>] = Keep
  BY <1>3 DEF Free
<1>6. <<p, g, c>> \in Rows /\ PriceOf(<<p, g, c>>) = p /\ GroupOf(<<p, g, c>>) = g
  BY <1>5 DEF Rows, PriceOf, GroupOf
<1> QED
  BY <1>4, <1>5, <1>6

LEMMA InsertLinkKeepsInv == ASSUME Inv, NEW s \in Sessions, InsertLink(s) PROVE Inv'
<1> DEFINE p == req[s].price
           g == job[s].group
           x == job[s].add \ {g}
           j1 == [job[s] EXCEPT !.add = x]
           j2 == [j1 EXCEPT !.group = NoGroup]
           work == [j2 EXCEPT !.top = 0]
           new == NewRow(p, g)
           ord == job[s].top + 1
           ps == [pend[s] EXCEPT ![new] = ord]
           step == NextStep(work)
<1>1. /\ pc[s] = "insert" /\ ~InsertRefused(s) /\ Free(p, g) # {} /\ Goto(s, step)
      /\ job' = [job EXCEPT ![s] = work] /\ UNCHANGED <<links, prices, groups, mark, req>>
      /\ PriceMarked(s, p, {"gone"}) = {}
  BY DEF InsertLink, Runs, Blockers
<1>2. pend' = [pend EXCEPT ![s] = ps]
  BY DEF InsertLink, Inv, TypeOK
<1>3. /\ Stepping(s) /\ Marked(s) /\ NewIsOwn(s) /\ LinkedOnce(s) /\ LinkedAll(s)
      /\ job[s] \in Job /\ pend[s] \in [Rows -> Orders \cup {Absent, Keep}]
      /\ req[s].op \in {"none", "create", "update", "delete", "reorder", "deletegroup"}
  BY DEF Inv, TypeOK, Request
<1>4. req[s].op \in {"create", "update"} /\ Fixed(s) /\ p \in Prices /\ g \in job[s].add
      /\ job[s].top < MaxOrder /\ job[s].add \subseteq req[s].groups
  BY <1>1, <1>3 DEF Stepping, Fixed, Linking, After
<1>5. g \in Groups /\ x \in SUBSET Groups /\ ord \in Orders
  BY <1>3, <1>4, OneField, Names DEF Orders
<1>6. work \in Job /\ work.add = x /\ work.fix = job[s].fix
  <2>1. j1 \in Job /\ j1.add = x /\ j1.fix = job[s].fix
    BY <1>3, <1>5, OneField
  <2> HIDE DEF j1
  <2>2. j2 \in Job /\ j2.add = x /\ j2.fix = job[s].fix
    BY <2>1, OneField
  <2> HIDE DEF j2
  <2>3. 0 \in Orders
    BY Names DEF Null
  <2> QED
    BY <2>2, <2>3, OneField
<1> HIDE DEF work
<1>7. /\ new \in Rows /\ PriceOf(new) = p /\ GroupOf(new) = g
      /\ links[new] = Absent /\ \A t \in Sessions : pend[t][new] = Keep
  BY <1>1, <1>4, <1>5, NewRowIsFree
<1> HIDE DEF new, ord
<1>8. /\ ps \in [Rows -> Orders \cup {Absent, Keep}] /\ ps[new] = ord
      /\ \A r \in Rows : r # new => ps[r] = pend[s][r]
  BY <1>3, <1>5, <1>7
<1> HIDE DEF ps
<1>9. /\ pc'[s] = step /\ pend'[s] = ps /\ req'[s] = req[s] /\ job'[s] = work /\ mark'[s] = mark[s]
      /\ links' = links /\ prices' = prices
  BY <1>1, <1>2 DEF Goto, Inv, TypeOK
<1>10. ASSUME NEW r \in Rows, ps[r] # pend[s][r], NEW t \in Sessions \ {s}
       PROVE  /\ pend[t][r] = Keep
              /\ ~(mark[t] = "gone" /\ req[t].op = "delete" /\ req[t].price = PriceOf(r))
  <2>1. r = new
    BY <1>8, <1>10
  <2> QED
    BY <1>1, <1>7, <2>1 DEF PriceMarked
<1>11. step \in Steps /\ step \notin {"idle", "touch"} /\ step \in After
  BY NextSteps
<1>12. NewIsOwn(s)'
  <2>1. Fixed(s)'
    BY <1>4, <1>9, <1>11 DEF Fixed, Linking
  <2> QED
    BY <1>3, <1>4, <1>7, <1>8, <1>9, <2>1 DEF NewIsOwn
<1>13. Cleared(s)'
  BY <1>4, <1>9 DEF Cleared
<1>14. Stepping(s)'
  BY <1>3, <1>4, <1>6, <1>9, <1>11, NextSteps DEF Stepping, Linking
<1>15. LinkedOnce(s)'
  <2>1. req[s].op = "update" => p \in prices
    BY <1>1, <1>3 DEF InsertRefused, PriceSeen, Marked
  <2>2. ASSUME NEW r \in Rows, PriceOf(r) = p
        PROVE  /\ ps[r] = Keep => links[r] = Absent
               /\ ps[r] \notin {Keep, Absent} =>
                    /\ GroupOf(r) \in req[s].groups \ x
                    /\ \A q \in Rows : ps[q] \notin {Keep, Absent} /\ PriceOf(q) = PriceOf(r)
                                        /\ GroupOf(q) = GroupOf(r) => q = r
    <3>1. \A q \in Rows : q # new /\ PriceOf(q) = p /\ ps[q] \notin {Keep, Absent} =>
                /\ GroupOf(q) \in req[s].groups \ job[s].add
                /\ \A u \in Rows : u # new /\ ps[u] \notin {Keep, Absent}
                                   /\ PriceOf(u) = PriceOf(q) /\ GroupOf(u) = GroupOf(q) => u = q
      BY <1>3, <1>4, <1>8 DEF LinkedOnce, Written
    <3>2. ps[r] = Keep => links[r] = Absent
      BY <1>3, <1>4, <1>7, <1>8, <2>2 DEF LinkedOnce
    <3>3. ASSUME ps[r] \notin {Keep, Absent} PROVE GroupOf(r) \in req[s].groups \ x
      BY <1>4, <1>7, <2>2, <3>1, <3>3
    <3>4. ASSUME ps[r] \notin {Keep, Absent}, NEW q \in Rows, ps[q] \notin {Keep, Absent},
                 PriceOf(q) = PriceOf(r), GroupOf(q) = GroupOf(r)
          PROVE  q = r
      <4>1. CASE q # new /\ r # new
        BY <2>2, <3>1, <3>4, <4>1
      <4>2. CASE q = new /\ r # new
        BY <1>4, <1>7, <2>2, <3>1, <3>4, <4>2
      <4>3. CASE q # new /\ r = new
        BY <1>4, <1>7, <2>2, <3>1, <3>4, <4>3
      <4> QED
        BY <4>1, <4>2, <4>3
    <3> QED
      BY <3>2, <3>3, <3>4
  <2> QED
    BY <1>6, <1>9, <2>1, <2>2 DEF LinkedOnce, Written
<1>16. LinkedAll(s)'
  <2> SUFFICES ASSUME NEW h \in req[s].groups \ x
               PROVE  \E r \in Rows : PriceOf(r) = p /\ GroupOf(r) = h /\ ps[r] \notin {Keep, Absent}
    BY <1>6, <1>9 DEF LinkedAll, Written
  <2>1. CASE h = g
    BY <1>5, <1>7, <1>8, <2>1, Names
  <2>2. CASE h # g
    <3>1. PICK r \in Rows : PriceOf(r) = p /\ GroupOf(r) = h /\ pend[s][r] \notin {Keep, Absent}
      BY <1>3, <1>4, <2>2 DEF LinkedAll, Written
    <3> QED
      BY <1>7, <1>8, <2>2, <3>1
  <2> QED
    BY <2>1, <2>2
<1> HIDE DEF step
<1> QED
  BY <1>1, <1>2, <1>6, <1>8, <1>9, <1>10, <1>11, <1>12, <1>13, <1>14, <1>15, <1>16, WriteKeepsInv

\* The two phases of set_display_orders write orders to links there are.
LEMMA NumberingKeepsInv ==
    ASSUME Inv, NEW s \in Sessions, pc[s] \in {"null", "put"}, RowHolders(s, Target(s)) = {},
           NEW ord \in Orders,
           pend' = [pend EXCEPT ![s] = [r \in Rows |-> IF r \in Target(s) THEN ord ELSE pend[s][r]]],
           NEW step \in Steps, step \notin {"idle", "touch"}, step \in After, Goto(s, step),
           NEW w \in Job, w.add = job[s].add, job' = [job EXCEPT ![s] = w],
           UNCHANGED <<links, prices, groups, mark, req>>, Stepping(s)'
    PROVE  Inv'
<1> DEFINE ps == [r \in Rows |-> IF r \in Target(s) THEN ord ELSE pend[s][r]]
<1>1. /\ NewIsOwn(s) /\ Cleared(s) /\ LinkedOnce(s) /\ LinkedAll(s)
      /\ ps \in [Rows -> Orders \cup {Absent, Keep}]
  BY DEF Inv, TypeOK
<1>2. /\ pc'[s] = step /\ pend'[s] = ps /\ req'[s] = req[s] /\ job'[s] = w /\ mark'[s] = mark[s]
      /\ links' = links /\ prices' = prices
  BY DEF Goto, Inv, TypeOK
<1>3. ASSUME NEW r \in Rows, ps[r] # pend[s][r], NEW t \in Sessions \ {s}
      PROVE  /\ pend[t][r] = Keep
             /\ ~(mark[t] = "gone" /\ req[t].op = "delete" /\ req[t].price = PriceOf(r))
  <2>1. r \in Target(s) /\ r \in Visible(s)
    BY <1>3, TargetSeen
  <2>2. pend[t][r] = Keep
    BY <2>1 DEF RowHolders
  <2> QED
    BY <2>1, <2>2, SeenNotCleared
<1>4. ASSUME NEW r \in Rows, r \in Target(s)
      PROVE  /\ ps[r] \notin {Keep, Absent} /\ r \in Visible(s) /\ Seen(s, r) # Absent
             /\ links[r] # Absent \/ (Fixed(s) /\ PriceOf(r) = req[s].price)
  <2>1. ps[r] = ord /\ r \in Visible(s)
    BY <1>4, TargetSeen
  <2> QED
    BY <2>1, SeenIsThere, Names DEF Visible
<1>5. \A r \in Rows : r \notin Target(s) => ps[r] = pend[s][r]
  OBVIOUS
<1> HIDE DEF ps
<1>6. Fixed(s)' <=> Fixed(s)
  BY <1>2 DEF Fixed, Linking, After
<1>7. NewIsOwn(s)'
  BY <1>1, <1>2, <1>4, <1>5, <1>6 DEF NewIsOwn
<1>8. Cleared(s)'
  BY <1>1, <1>2, <1>4, <1>5 DEF Cleared, Seen, RowHolders, OnlyOf
<1>9. ASSUME Fixed(s), NEW r \in Rows, PriceOf(r) = req[s].price
      PROVE  /\ ps[r] \notin {Keep, Absent} <=> pend[s][r] \notin {Keep, Absent}
             /\ ps[r] = Keep <=> pend[s][r] = Keep
  <2>1. CASE r \in Target(s)
    BY <1>1, <1>4, <1>9, <2>1 DEF Seen, LinkedOnce
  <2>2. CASE r \notin Target(s)
    BY <1>5, <2>2
  <2> QED
    BY <2>1, <2>2
<1>10. LinkedOnce(s)'
  BY <1>1, <1>2, <1>6, <1>9 DEF LinkedOnce, Written
<1>11. LinkedAll(s)'
  <2> SUFFICES ASSUME Fixed(s), NEW g \in req[s].groups \ job[s].add
               PROVE  \E r \in Rows : PriceOf(r) = req[s].price /\ GroupOf(r) = g /\ ps[r] \notin {Keep, Absent}
    BY <1>2, <1>6 DEF LinkedAll, Written
  <2>1. PICK r \in Rows : /\ PriceOf(r) = req[s].price /\ GroupOf(r) = g
                          /\ pend[s][r] \notin {Keep, Absent}
    BY <1>1 DEF LinkedAll, Written
  <2> QED
    BY <1>9, <2>1
<1>12. pend' = [pend EXCEPT ![s] = ps]
  BY DEF ps
<1> QED
  BY <1>1, <1>2, <1>3, <1>7, <1>8, <1>10, <1>11, <1>12, WriteKeepsInv

LEMMA NumberingOps ==
    ASSUME Inv, NEW s \in Sessions, pc[s] \in {"null", "put"}
    PROVE  /\ req[s].op \in {"update", "delete", "reorder"} /\ job[s].add = {} /\ job[s].plan # <<>>
           /\ req[s].op = "reorder" => job[s].fix = {}
           /\ job[s] \in Job /\ Stepping(s)
<1>1. /\ req[s].op \in {"none", "create", "update", "delete", "reorder", "deletegroup"}
      /\ Stepping(s) /\ job[s] \in Job
  BY DEF Inv, TypeOK, Request
<1> QED
  BY <1>1 DEF Stepping

LEMMA NullOrdersKeepsInv == ASSUME Inv, NEW s \in Sessions, NullOrders(s) PROVE Inv'
<1>1. /\ pc[s] = "null" /\ RowHolders(s, Target(s)) = {} /\ Goto(s, "put")
      /\ UNCHANGED <<links, prices, groups, mark, req, job>>
  BY DEF NullOrders, Runs, Blockers
<1>2. pend' = [pend EXCEPT ![s] = [r \in Rows |-> IF r \in Target(s) THEN Null ELSE pend[s][r]]]
  BY DEF NullOrders, Inv, TypeOK
<1>3. job[s] \in Job /\ job' = [job EXCEPT ![s] = job[s]] /\ Null \in Orders
  BY <1>1, Names DEF Inv, TypeOK
<1>4. pc'[s] = "put"
  BY <1>1 DEF Goto, Inv, TypeOK
<1>5. Stepping(s)'
  BY <1>1, <1>4, NumberingOps DEF Stepping, Linking, After
<1>6. "put" \in Steps /\ "put" \in After
  BY DEF Steps, After
<1> QED
  BY <1>1, <1>2, <1>3, <1>5, <1>6, NumberingKeepsInv

LEMMA PutOrderKeepsInv == ASSUME Inv, NEW s \in Sessions, PutOrder(s) PROVE Inv'
<1> DEFINE rest == Tail(job[s].plan)
           ord == Head(job[s].plan).ord
           j1 == [job[s] EXCEPT !.plan = rest]
           work == IF rest # <<>> THEN j1 ELSE [j1 EXCEPT !.group = NoGroup]
           step == IF rest # <<>> THEN "put" ELSE NextStep(work)
<1>1. /\ pc[s] = "put" /\ Goto(s, step) /\ UNCHANGED <<links, prices, groups, mark, req>>
      /\ RowHolders(s, Target(s)) = {}
  BY DEF PutOrder, Runs, Blockers
<1>2. /\ pend' = [pend EXCEPT ![s] = [r \in Rows |-> IF r \in Target(s) THEN ord ELSE pend[s][r]]]
      /\ job' = [job EXCEPT ![s] = work]
  BY DEF PutOrder, Inv, TypeOK
<1>3. /\ req[s].op \in {"update", "delete", "reorder"} /\ job[s].add = {}
      /\ req[s].op = "reorder" => job[s].fix = {}
      /\ job[s] \in Job /\ Stepping(s) /\ job[s].plan \in Entries /\ job[s].plan # <<>>
  BY <1>1, NumberingOps, OneField
<1>4. ord \in Orders /\ rest \in Entries
  <2> DEFINE plan == job[s].plan
             E == [price: Prices, ord: Orders]
  <2>1. plan \in Seq(E) /\ plan # <<>>
    BY <1>3 DEF Entries
  <2> HIDE DEF plan, E
  <2>2. Head(plan) \in E /\ Tail(plan) \in Seq(E)
    BY <2>1
  <2> QED
    BY <2>2 DEF plan, E, Entries
<1> HIDE DEF rest, ord
<1>5. j1 \in Job /\ j1.add = {} /\ j1.fix = job[s].fix /\ j1.plan = rest
  BY <1>3, <1>4, OneField
<1> HIDE DEF j1
<1>6. work \in Job /\ work.add = {} /\ work.fix = job[s].fix /\ work.plan = rest
  BY <1>5, OneField
<1> HIDE DEF work
<1>7. /\ step \in Steps /\ step \notin {"idle", "touch"} /\ step \in After
      /\ step \in {"put", "number", "commit"} /\ (step = "put" => rest # <<>>)
      /\ req[s].op = "reorder" => step # "number"
  BY <1>3, <1>6, NextSteps DEF Steps, After
<1> HIDE DEF step
<1>8. pc'[s] = step /\ job'[s] = work /\ req'[s] = req[s] /\ mark'[s] = mark[s]
  BY <1>1, <1>2 DEF Goto, Inv, TypeOK
<1>9. Stepping(s)'
  BY <1>1, <1>3, <1>6, <1>7, <1>8 DEF Stepping, Linking, After
<1> QED
  BY <1>1, <1>2, <1>3, <1>4, <1>6, <1>7, <1>9, NumberingKeepsInv

\* A request that sets no links deletes its price or its group, and with it
\* the links R, which nobody else writes.
LEMMA EraseKeepsInv ==
    ASSUME Inv, NEW s \in Sessions, pc[s] \in {"erase", "erasegroup"}, ~Linking(s),
           NEW R, R \subseteq Visible(s), RowHolders(s, R) = {},
           pend' = [pend EXCEPT ![s] = [r \in Rows |-> IF r \in R THEN Absent ELSE pend[s][r]]],
           mark' = [mark EXCEPT ![s] = "gone"],
           NEW step \in Steps, step \notin {"idle", "touch"}, Goto(s, step),
           UNCHANGED <<links, prices, groups, req, job>>,
           Stepping(s)', Cleared(s)', req[s].op \in {"delete", "deletegroup"},
           req[s].price = NoPrice
             \/ (req[s].price \in prices /\ PriceMarked(s, req[s].price, {"held", "gone"}) = {})
    PROVE  Inv'
<1> DEFINE ps == [r \in Rows |-> IF r \in R THEN Absent ELSE pend[s][r]]
<1>1. TypeOK'
  BY DEF Goto, Inv, TypeOK
<1>2. /\ pc'[s] = step /\ pend'[s] = ps /\ mark'[s] = "gone" /\ req'[s] = req[s] /\ job'[s] = job[s]
      /\ OnlyOf(s) /\ s \notin waiting'
  BY DEF Goto, Inv, TypeOK, OnlyOf
<1>3. Apart'
  BY <1>2, StillApart DEF OnlyOf
<1>4. /\ NewIsOwn(s)
      /\ \A t \in Sessions : OneMarks(s, t) /\ OneWrites(s, t) /\ Marked(t) /\ Cleared(t)
  BY DEF Inv
<1>5. Marked(s)'
  BY <1>2 DEF Marked
<1>6. NewIsOwn(s)'
  <2> SUFFICES ASSUME NEW r \in Rows, ps[r] # Keep PROVE links[r] # Absent
    BY <1>2 DEF NewIsOwn
  <2>1. CASE r \in R
    BY <2>1, SeenIsThere DEF Fixed
  <2>2. CASE r \notin R
    BY <1>4, <2>2 DEF NewIsOwn, Fixed
  <2> QED
    BY <2>1, <2>2
<1>7. FoundAll(s)' /\ LinkedOnce(s)' /\ LinkedAll(s)'
  BY <1>2 DEF FoundAll, LinkedOnce, LinkedAll, Fixed, Linking
<1>8. ASSUME NEW r \in Rows, ps[r] # pend[s][r], NEW t \in Sessions \ {s}
      PROVE  /\ pend[t][r] = Keep
             /\ ~(mark[t] = "gone" /\ req[t].op = "delete" /\ req[t].price = PriceOf(r))
  <2>1. r \in R /\ r \in Visible(s)
    BY <1>8
  <2>2. pend[t][r] = Keep
    BY <2>1 DEF RowHolders
  <2> QED
    BY <2>1, <2>2, SeenNotCleared
<1> HIDE DEF ps
<1>9. ASSUME NEW t \in Sessions PROVE OneMarks(s, t)' /\ OneWrites(s, t)'
  <2>1. OneWrites(s, t)'
    BY <1>2, <1>4, <1>8 DEF OneWrites, OnlyOf
  <2>2. OneMarks(s, t)'
    <3> SUFFICES ASSUME s # t, mark'[t] # "none", req[s].price = req[t].price, req[s].price # NoPrice
                 PROVE  FALSE
      BY DEF OneMarks
    <3>1. mark[t] = mark'[t] /\ mark[t] \in {"new", "held", "gone"}
      BY <1>2 DEF OnlyOf, Inv, TypeOK
    <3>2. mark[t] # "new"
      BY <1>4 DEF Marked
    <3>3. t \in PriceMarked(s, req[s].price, {"held", "gone"})
      BY <3>1, <3>2 DEF PriceMarked
    <3> QED
      BY <3>3
  <2> QED
    BY <2>1, <2>2
<1>10. ASSUME NEW t \in Sessions \ {s}
       PROVE  /\ req[t].op = "create" => req'[s].price # req[t].price
              /\ mark[t] = "gone" /\ req[t].op = "delete" =>
                   \A r \in Rows : PriceOf(r) = req[t].price => pend'[s][r] = Keep
  BY <1>2, <1>4, <1>8 DEF Marked, Cleared
<1> QED
  BY <1>1, <1>2, <1>3, <1>5, <1>6, <1>7, <1>9, <1>10, OthersKept DEF Own

LEMMA ErasePriceKeepsInv == ASSUME Inv, NEW s \in Sessions, ErasePrice(s) PROVE Inv'
<1> DEFINE R == OfPrice(s, req[s].price)
           step == NextStep(job[s])
<1>1. /\ pc[s] = "erase" /\ Goto(s, step) /\ UNCHANGED <<links, prices, groups, req, job>>
      /\ PriceMarked(s, req[s].price, {"held", "gone"}) = {} /\ PriceUsers(s, req[s].price) = {}
  BY DEF ErasePrice, Runs, Blockers
<1>2. /\ req[s].op \in {"none", "create", "update", "delete", "reorder", "deletegroup"}
      /\ Stepping(s) /\ job[s] \in Job /\ Cleared(s) /\ NewIsOwn(s)
  BY DEF Inv, TypeOK, Request
<1>3. req[s].op = "delete" /\ job[s].add = {} /\ ~Linking(s) /\ req[s].price \in Prices
  BY <1>1, <1>2 DEF Stepping, Linking, After
<1>4. step \in Steps /\ step \notin {"idle", "touch"} /\ step \in {"number", "commit"}
  BY <1>3, NextSteps
<1> HIDE DEF step
<1>5. pc'[s] = step /\ req'[s] = req[s] /\ job'[s] = job[s] /\ links' = links
  BY <1>1 DEF Goto, Inv, TypeOK
<1>6. mark'[s] # "none" => mark'[s] \in {"new", "held", "gone"}
  BY DEF ErasePrice, Inv, TypeOK
<1>7. Stepping(s)'
  BY <1>2, <1>3, <1>4, <1>5 DEF Stepping, Linking
<1>8. CASE req[s].price \in prices
  <2> DEFINE ps == [r \in Rows |-> IF r \in R THEN Absent ELSE pend[s][r]]
  <2>1. mark' = [mark EXCEPT ![s] = "gone"] /\ pend' = [pend EXCEPT ![s] = ps]
    BY <1>8 DEF ErasePrice, Inv, TypeOK
  <2>2. pend'[s] = ps /\ \A t \in Sessions \ {s} : pend'[t] = pend[t]
    BY <2>1 DEF Inv, TypeOK
  <2>3. ASSUME NEW r \in Rows, PriceOf(r) = req[s].price
        PROVE  Seen(s, r)' = Absent /\ \A t \in Sessions \ {s} : pend'[t][r] = Keep
    <3>1. \A t \in Sessions \ {s} : pend[t][r] = Keep
      BY <1>1, <2>3 DEF PriceUsers, RowHolders
    <3>2. CASE r \in R
      BY <1>5, <2>2, <3>1, <3>2, Names DEF Seen
    <3>3. CASE r \notin R
      <4>1. Seen(s, r) = Absent
        BY <2>3, <3>3 DEF OfPrice, Visible
      <4> QED
        BY <1>5, <2>2, <3>1, <3>3, <4>1 DEF Seen
    <3> QED
      BY <3>2, <3>3
  <2>4. Cleared(s)'
    BY <1>5, <2>3 DEF Cleared
  <2>5. R \subseteq Visible(s) /\ RowHolders(s, R) = {}
    BY <1>1 DEF OfPrice, Visible, PriceUsers, RowHolders
  <2> HIDE DEF R
  <2> QED
    BY <1>1, <1>3, <1>4, <1>7, <1>8, <2>1, <2>4, <2>5, EraseKeepsInv
<1>9. CASE req[s].price \notin prices
  <2>1. UNCHANGED <<links, prices, groups, pend, mark, req>> /\ job' = [job EXCEPT ![s] = job[s]]
    BY <1>1, <1>9 DEF ErasePrice, Inv, TypeOK
  <2> QED
    BY <1>1, <1>2, <1>3, <1>4, <1>7, <2>1, ReadKeepsInv
<1> QED
  BY <1>8, <1>9

LEMMA EraseGroupKeepsInv == ASSUME Inv, NEW s \in Sessions, EraseGroup(s) PROVE Inv'
<1> DEFINE R == InGroup(s, req[s].group)
<1>1. /\ pc[s] = "erasegroup" /\ Goto(s, "commit") /\ UNCHANGED <<links, prices, groups, req, job>>
      /\ GroupUsers(s, req[s].group) = {}
  BY DEF EraseGroup, Runs, Blockers
<1>2. /\ req[s].op \in {"none", "create", "update", "delete", "reorder", "deletegroup"}
      /\ Stepping(s) /\ job[s] \in Job
  BY DEF Inv, TypeOK, Request
<1>3. req[s].op = "deletegroup" /\ ~Linking(s) /\ req[s].price = NoPrice /\ job[s].add = {}
  BY <1>1, <1>2 DEF Stepping, Linking, After
<1>4. pc'[s] = "commit" /\ req'[s] = req[s] /\ job'[s] = job[s]
  BY <1>1 DEF Goto, Inv, TypeOK
<1>5. Stepping(s)' /\ Cleared(s)'
  BY <1>2, <1>3, <1>4 DEF Stepping, Linking, Cleared
<1>6. "commit" \in Steps
  BY DEF Steps
<1>7. CASE req[s].group \in groups
  <2>1. /\ mark' = [mark EXCEPT ![s] = "gone"]
        /\ pend' = [pend EXCEPT ![s] = [r \in Rows |-> IF r \in R THEN Absent ELSE pend[s][r]]]
    BY <1>7 DEF EraseGroup, Inv, TypeOK
  <2>2. R \subseteq Visible(s) /\ RowHolders(s, R) = {}
    BY <1>1 DEF InGroup, Visible, GroupUsers, RowHolders
  <2> HIDE DEF R
  <2> QED
    BY <1>1, <1>3, <1>5, <1>6, <2>1, <2>2, EraseKeepsInv
<1>8. CASE req[s].group \notin groups
  <2>1. UNCHANGED <<links, prices, groups, pend, mark, req>> /\ job' = [job EXCEPT ![s] = job[s]]
    BY <1>1, <1>8 DEF EraseGroup, Inv, TypeOK
  <2> QED
    BY <1>1, <1>2, <1>3, <1>5, <1>6, <2>1, ReadKeepsInv
<1> QED
  BY <1>7, <1>8

(***************************************************************************)
(* A request ends                                                          *)
(***************************************************************************)

LEMMA EndedIsIdle ==
    ASSUME Inv, NEW s \in Sessions, EndSession(s)
    PROVE  /\ pc'[s] = "idle" /\ req'[s] = NoRequest /\ mark'[s] = "none" /\ job'[s] = NoJob
           /\ \A r \in Rows : pend'[s][r] = Keep
           /\ Own(s)'
           /\ \A t \in Sessions : OneMarks(s, t)' /\ OneWrites(s, t)'
           /\ \A t \in Sessions \ {s} :
                /\ pc'[t] = pc[t] /\ req'[t] = req[t] /\ job'[t] = job[t] /\ mark'[t] = mark[t]
                /\ pend'[t] = pend[t] /\ found'[t] = found[t]
                /\ t \in waiting' <=> t \in waiting
<1>1. /\ pc'[s] = "idle" /\ req'[s] = NoRequest /\ mark'[s] = "none" /\ job'[s] = NoJob
      /\ pend'[s] = NothingWritten /\ s \notin waiting'
  BY DEF EndSession, Goto, Inv, TypeOK
<1>2. /\ req'[s].op = "none" /\ req'[s].groups = {} /\ req'[s].price = NoPrice
      /\ job'[s].add = {} /\ job'[s].fix = {}
  BY <1>1 DEF NoRequest, NoJob
<1>3. \A r \in Rows : pend'[s][r] = Keep
  BY <1>1 DEF NothingWritten
<1>4. Stepping(s)' /\ Marked(s)'
  BY <1>1, <1>2 DEF Stepping, Marked, Linking
<1>5. NewIsOwn(s)' /\ Cleared(s)' /\ FoundAll(s)' /\ LinkedOnce(s)' /\ LinkedAll(s)'
  BY <1>1, <1>2, <1>3 DEF NewIsOwn, Cleared, FoundAll, LinkedOnce, LinkedAll, Fixed, Linking
<1>6. \A t \in Sessions : OneMarks(s, t)' /\ OneWrites(s, t)'
  BY <1>1, <1>3 DEF OneMarks, OneWrites
<1>7. \A t \in Sessions \ {s} :
        /\ pc'[t] = pc[t] /\ req'[t] = req[t] /\ job'[t] = job[t] /\ mark'[t] = mark[t]
        /\ pend'[t] = pend[t] /\ found'[t] = found[t] /\ (t \in waiting' <=> t \in waiting)
  BY DEF EndSession, Goto, Inv, TypeOK
<1> QED
  BY <1>1, <1>3, <1>4, <1>5, <1>6, <1>7 DEF Own

LEMMA EndTyped ==
    ASSUME Inv, NEW s \in Sessions, EndSession(s),
           links' \in [Rows -> Orders \cup {Absent}], prices' \in SUBSET Prices, groups' \in SUBSET Groups
    PROVE  TypeOK'
  BY NothingTyped DEF EndSession, Goto, Inv, TypeOK, Steps

LEMMA RollbackKeepsInv == ASSUME Inv, NEW s \in Sessions, Rollback(s) PROVE Inv'
<1>1. pc[s] # "idle" /\ EndSession(s) /\ UNCHANGED <<links, prices, groups>>
  BY DEF Rollback
<1>2. TypeOK'
  BY <1>1, EndTyped DEF Inv, TypeOK
<1>3. OnlyOf(s) /\ req'[s].price = NoPrice /\ \A r \in Rows : pend'[s][r] = Keep
  BY <1>1, EndedIsIdle DEF OnlyOf, NoRequest
<1>4. Apart'
  BY <1>1, <1>3, StillApart DEF OnlyOf
<1>5. ASSUME NEW t \in Sessions \ {s}, req[t].op = "create" PROVE req'[s].price # req[t].price
  BY <1>3, <1>5, Names DEF Inv, Stepping, Linking
<1> QED
  BY <1>1, <1>2, <1>3, <1>4, <1>5, EndedIsIdle, OthersKept

\* Only one request at a time has new links of a price, or is about to
\* delete the old ones: it has the lock of the price.
LEMMA OneLinker ==
    ASSUME Inv, NEW s \in Sessions, NEW t \in Sessions \ {s}, NEW r \in Rows,
           Written(s, r), links[r] = Absent,
           Linking(t), pc[t] \notin {"touch", "old"}, req[t].price = PriceOf(r)
    PROVE  FALSE
<1>1. /\ NewIsOwn(s) /\ LinkedOnce(s) /\ Marked(s) /\ Stepping(s) /\ Marked(t) /\ Stepping(t)
      /\ OneMarks(s, t) /\ Apart
  BY DEF Inv
<1>2. Fixed(s) /\ PriceOf(r) = req[s].price
  BY <1>1 DEF NewIsOwn, Written
<1>3. pc[s] # "touch" /\ pc[s] # "idle" /\ pc[t] # "idle"
  BY <1>1, <1>2 DEF Fixed, After, Stepping, Linking
<1>4. req[s].op = "update" /\ req[t].op = "update"
  BY <1>1, <1>2 DEF Marked, Fixed, Linking
<1>5. req[s].price \in prices
  BY <1>1, <1>2, <1>4 DEF LinkedOnce
<1>6. Overlap
  BY <1>1, <1>3 DEF Apart
<1>7. mark[s] = "held" /\ mark[t] = "held"
  BY <1>1, <1>2, <1>3, <1>4, <1>5, <1>6 DEF Marked
<1>8. req[s].price # NoPrice
  BY <1>4, <1>1, Names DEF Stepping, Linking
<1> QED
  BY <1>1, <1>2, <1>7, <1>8 DEF OneMarks

\* What a commit makes of the table.
LEMMA CommitTables ==
    ASSUME Inv, NEW s \in Sessions, Commit(s)
    PROVE  /\ pc[s] = "commit" /\ EndSession(s)
           /\ \A r \in Rows : links'[r] = Seen(s, r)
           /\ \A p \in Prices : p \in prices' <=> PriceSeen(s, p)
           /\ TypeOK'
           /\ NoDuplicateLink' /\ PricesExist'
<1>1. /\ pc[s] = "commit" /\ EndSession(s) /\ links' = [r \in Rows |-> Seen(s, r)]
      /\ prices' = {p \in Prices : PriceSeen(s, p)} /\ groups' = {g \in Groups : GroupSeen(s, g)}
  BY DEF Commit
<1>2. \A r \in Rows : links'[r] = Seen(s, r) /\ Seen(s, r) \in Orders \cup {Absent}
  BY <1>1 DEF Seen, Inv, TypeOK
<1>3. links' \in [Rows -> Orders \cup {Absent}]
  BY <1>1, <1>2
<1>4. \A p \in Prices : p \in prices' <=> PriceSeen(s, p)
  BY <1>1
<1>5. TypeOK'
  BY <1>1, <1>3, EndTyped
<1>6. /\ NewIsOwn(s) /\ LinkedOnce(s) /\ Marked(s) /\ Stepping(s) /\ Cleared(s)
      /\ NoDuplicateLink /\ PricesExist
      /\ req[s].op \in {"none", "create", "update", "delete", "reorder", "deletegroup"}
      /\ mark[s] \in {"none", "new", "held", "gone"}
  BY DEF Inv, TypeOK, Request
<1>7. ASSUME NEW r \in Rows, links'[r] # Absent
      PROVE  IF Fixed(s) /\ PriceOf(r) = req[s].price THEN Written(s, r) ELSE links[r] # Absent
  <2>1. Seen(s, r) # Absent
    BY <1>2, <1>7
  <2>2. CASE Fixed(s) /\ PriceOf(r) = req[s].price
    BY <1>6, <2>1, <2>2 DEF Seen, LinkedOnce, Written
  <2>3. CASE ~(Fixed(s) /\ PriceOf(r) = req[s].price)
    BY <1>6, <2>1, <2>3 DEF Seen, NewIsOwn
  <2> QED
    BY <2>2, <2>3
<1>8. NoDuplicateLink'
  <2> SUFFICES ASSUME NEW q \in Rows, NEW r \in Rows, links'[q] # Absent, links'[r] # Absent,
                      PriceOf(q) = PriceOf(r), GroupOf(q) = GroupOf(r)
               PROVE  q = r
    BY DEF NoDuplicateLink, Linked
  <2>1. CASE Fixed(s) /\ PriceOf(r) = req[s].price
    <3>1. Written(s, q) /\ Written(s, r)
      BY <1>7, <2>1
    <3> QED
      BY <1>6, <2>1, <3>1 DEF LinkedOnce
  <2>2. CASE ~(Fixed(s) /\ PriceOf(r) = req[s].price)
    <3>1. links[q] # Absent /\ links[r] # Absent
      BY <1>7, <2>2
    <3> QED
      BY <1>6, <3>1 DEF NoDuplicateLink, Linked
  <2> QED
    BY <2>1, <2>2
<1>9. PricesExist'
  <2> SUFFICES ASSUME NEW r \in Rows, links'[r] # Absent PROVE PriceSeen(s, PriceOf(r))
    BY <1>4 DEF PricesExist, Rows, PriceOf
  <2>1. PriceOf(r) \in Prices
    BY DEF Rows, PriceOf
  <2>2. CASE Fixed(s) /\ PriceOf(r) = req[s].price
    <3>1. Written(s, r)
      BY <1>7, <2>2
    <3>2. CASE req[s].op = "update"
      BY <1>6, <2>2, <3>1, <3>2 DEF LinkedOnce, PriceSeen, Marked
    <3>3. CASE req[s].op = "create"
      BY <1>6, <2>2, <3>3 DEF PriceSeen, Marked
    <3> QED
      BY <2>2, <3>2, <3>3 DEF Fixed, Linking
  <2>3. CASE ~(Fixed(s) /\ PriceOf(r) = req[s].price)
    <3>1. PriceOf(r) \in prices
      BY <1>6, <1>7, <2>3 DEF PricesExist
    <3>2. ~(req[s].price = PriceOf(r) /\ mark[s] = "gone")
      <4> SUFFICES ASSUME req[s].price = PriceOf(r), mark[s] = "gone" PROVE FALSE
        OBVIOUS
      <4>1. req[s].op = "delete"
        BY <1>6, <2>1, Names DEF Marked, Stepping
      <4> QED
        BY <1>2, <1>6, <4>1 DEF Cleared
    <3> QED
      BY <3>1, <3>2 DEF PriceSeen
  <2> QED
    BY <2>2, <2>3
<1> QED
  BY <1>1, <1>2, <1>4, <1>5, <1>8, <1>9

LEMMA CommitKeepsInv == ASSUME Inv, NEW s \in Sessions, Commit(s) PROVE Inv'
<1>1. /\ pc[s] = "commit" /\ EndSession(s) /\ TypeOK' /\ NoDuplicateLink' /\ PricesExist'
      /\ \A r \in Rows : links'[r] = Seen(s, r)
      /\ \A p \in Prices : p \in prices' <=> PriceSeen(s, p)
  BY CommitTables
<1>2. /\ Own(s)' /\ \A t \in Sessions : OneMarks(s, t)' /\ OneWrites(s, t)'
      /\ pc'[s] = "idle" /\ req'[s].price = NoPrice /\ mark'[s] = "none"
      /\ \A r \in Rows : pend'[s][r] = Keep
  BY <1>1, EndedIsIdle DEF NoRequest
<1>3. /\ Stepping(s) /\ Marked(s) /\ NewIsOwn(s) /\ LinkedOnce(s)
      /\ mark[s] \in {"none", "new", "held", "gone"}
  BY DEF Inv, TypeOK
<1>4. ASSUME NEW t \in Sessions \ {s}
      PROVE  Own(t)' /\ \A u \in Sessions : OneMarks(t, u)' /\ OneWrites(t, u)'
  <2>1. /\ pc'[t] = pc[t] /\ req'[t] = req[t] /\ job'[t] = job[t] /\ mark'[t] = mark[t]
        /\ pend'[t] = pend[t] /\ found'[t] = found[t] /\ (t \in waiting' <=> t \in waiting)
    BY <1>1, EndedIsIdle
  <2>2. /\ Stepping(t) /\ Marked(t) /\ NewIsOwn(t) /\ Cleared(t) /\ FoundAll(t)
        /\ LinkedOnce(t) /\ LinkedAll(t) /\ OneMarks(s, t) /\ OneMarks(t, s) /\ OneWrites(s, t) /\ Apart
        /\ req[t].price \in Prices \cup {NoPrice}
    BY DEF Inv, TypeOK, Request
  <2>3. Stepping(t)'
    BY <2>1, <2>2 DEF Stepping, Linking
  <2>4. ASSUME req[t].price \in Prices
        PROVE  req[t].price \in prices' <=>
                   \/ req[s].price = req[t].price /\ mark[s] = "new"
                   \/ req[t].price \in prices /\ ~(req[s].price = req[t].price /\ mark[s] = "gone")
    BY <1>1, <1>3, <2>4 DEF PriceSeen
  <2>5. Marked(t)'
    <3>1. mark[t] \in {"held", "gone"} /\ req[t].price # NoPrice => req[t].price \in prices'
      BY <1>3, <2>2, <2>4 DEF Marked, OneMarks
    <3>2. req[t].op = "update" /\ pc[t] # "touch" /\ mark[t] # "held"
          => req[t].price \notin prices' \/ ~Overlap
      BY <1>3, <2>2, <2>4 DEF Marked, Stepping, Linking
    <3>3. req[t].op = "create" =>
            /\ req[t].price \notin prices'
            /\ \A u \in Sessions \ {t} : req'[u].price # req[t].price
      <4> SUFFICES ASSUME req[t].op = "create"
                   PROVE  /\ req[t].price \notin prices'
                          /\ \A u \in Sessions \ {t} : req'[u].price # req[t].price
        OBVIOUS
      <4>1. req[t].price \in Prices /\ req[t].price \notin prices /\ req[s].price # req[t].price
        BY <2>2 DEF Marked, Stepping, Linking
      <4>2. ASSUME NEW u \in Sessions \ {t} PROVE req'[u].price # req[t].price
        <5>1. CASE u = s
          BY <1>2, <4>1, <5>1, Names
        <5>2. CASE u # s
          <6>1. req'[u] = req[u]
            BY <1>1, <5>2, EndedIsIdle
          <6> QED
            BY <2>2, <6>1 DEF Marked
        <5> QED
          BY <5>1, <5>2
      <4> QED
        BY <2>4, <4>1, <4>2
    <3> QED
      BY <2>1, <2>2, <3>1, <3>2, <3>3 DEF Marked
  <2>6. ASSUME NEW r \in Rows, pend[t][r] # Keep
        PROVE  links'[r] = links[r]
    BY <1>1, <2>2, <2>6 DEF OneWrites, Seen
  <2>7. NewIsOwn(t)'
    BY <2>1, <2>2, <2>6 DEF NewIsOwn, Fixed, Linking
  <2>8. Cleared(t)'
    <3> SUFFICES ASSUME mark[t] = "gone", req[t].op = "delete", NEW r \in Rows, PriceOf(r) = req[t].price
                 PROVE  Seen(t, r)' = Absent /\ \A u \in Sessions \ {t} : pend'[u][r] = Keep
      BY <2>1 DEF Cleared
    <3>1. Seen(t, r) = Absent /\ \A u \in Sessions \ {t} : pend[u][r] = Keep
      BY <2>2 DEF Cleared
    <3>2. links'[r] = links[r]
      BY <1>1, <3>1 DEF Seen
    <3>3. \A u \in Sessions \ {t} : pend'[u][r] = Keep
      <4> TAKE u \in Sessions \ {t}
      <4>1. CASE u = s
        BY <1>2, <4>1
      <4>2. CASE u # s
        BY <1>1, <3>1, <4>2, EndedIsIdle
      <4> QED
        BY <4>1, <4>2
    <3> QED
      BY <2>1, <3>1, <3>2, <3>3 DEF Seen
  <2>9. ASSUME NEW r \in Rows, Linking(t), pc[t] \notin {"touch", "old"}, PriceOf(r) = req[t].price,
               links[r] = Absent, pend[t][r] = Keep
        PROVE  links'[r] = Absent
    <3> SUFFICES ASSUME links'[r] # Absent PROVE FALSE
      OBVIOUS
    <3>1. Written(s, r)
      BY <1>1, <2>9 DEF Seen, Written
    <3> QED
      BY <2>9, <3>1, OneLinker
  <2>10. FoundAll(t)'
    <3> SUFFICES ASSUME t \in waiting, pc[t] = "drop", NEW r \in Rows, Seen(t, r)' # Absent,
                        PriceOf(r) = req[t].price
                 PROVE  r \in found[t]
      BY <2>1 DEF FoundAll, OfPrice, Visible
    <3>1. Linking(t)
      <4>1. req[t].op \in {"none", "create", "update", "delete", "reorder", "deletegroup"}
        BY DEF Inv, TypeOK, Request
      <4> QED
        BY <2>2, <4>1 DEF Stepping, Linking
    <3>2. Seen(t, r) # Absent
      <4>1. CASE pend[t][r] # Keep
        BY <2>1, <4>1 DEF Seen
      <4>2. CASE pend[t][r] = Keep
        BY <2>1, <2>9, <3>1, <4>2 DEF Seen
      <4> QED
        BY <4>1, <4>2
    <3> QED
      BY <2>2, <3>2 DEF FoundAll, OfPrice, Visible
  <2>11. LinkedOnce(t)'
    <3> SUFFICES ASSUME Fixed(t), NEW r \in Rows, PriceOf(r) = req[t].price
                 PROVE  /\ pend[t][r] = Keep => links'[r] = Absent
                        /\ Written(t, r) /\ req[t].op = "update" => req[t].price \in prices'
      BY <2>1, <2>2 DEF LinkedOnce, Fixed, Linking, Written
    <3>1. Linking(t) /\ pc[t] \notin {"touch", "old", "idle"}
      BY DEF Fixed, After
    <3>2. pend[t][r] = Keep => links'[r] = Absent
      BY <2>2, <2>9, <3>1 DEF LinkedOnce
    <3>3. ASSUME Written(t, r), req[t].op = "update" PROVE req[t].price \in prices'
      <4>1. req[t].price \in prices /\ req[t].price \in Prices
        BY <2>2, <3>3 DEF LinkedOnce, Stepping, Linking
      <4>2. mark[t] = "held"
        BY <1>1, <2>2, <3>1, <3>3, <4>1 DEF Marked, Apart
      <4> QED
        BY <2>2, <2>4, <4>1, <4>2, Names DEF OneMarks
    <3> QED
      BY <3>2, <3>3
  <2>12. LinkedAll(t)'
    BY <2>1, <2>2 DEF LinkedAll, Fixed, Linking, Written
  <2>13. ASSUME NEW u \in Sessions PROVE OneMarks(t, u)' /\ OneWrites(t, u)'
    <3>1. CASE u = s
      BY <1>2, <3>1 DEF OneMarks, OneWrites
    <3>2. CASE u # s
      <4>1. req'[u] = req[u] /\ mark'[u] = mark[u] /\ pend'[u] = pend[u]
        BY <1>1, <3>2, EndedIsIdle
      <4> QED
        BY <2>1, <4>1 DEF Inv, OneMarks, OneWrites
    <3> QED
      BY <3>1, <3>2
  <2> QED
    BY <2>3, <2>5, <2>7, <2>8, <2>10, <2>11, <2>12, <2>13 DEF Own
<1>5. Apart'
  <2>1. \A t \in Sessions \ {s} : pc'[t] = pc[t]
    BY <1>1, EndedIsIdle
  <2> QED
    BY <1>1, <2>1, StillApart
<1>6. \A t \in Sessions : Own(t)' /\ \A u \in Sessions : OneMarks(t, u)' /\ OneWrites(t, u)'
  BY <1>2, <1>4
<1> QED
  BY <1>1, <1>5, <1>6 DEF Inv, Own

(***************************************************************************)
(* The theorems                                                            *)
(***************************************************************************)

LEMMA NextKeepsInv ==
    ASSUME ~Overlap \/ Touches = {TRUE}, Inv, [Next]_vars PROVE Inv'
<1>1. CASE Next
  <2>1. PICK s \in Sessions :
          \/ CreatePrice(s) \/ UpdatePrice(s) \/ DeletePrice(s) \/ DeleteGroup(s)
          \/ Reorder(s)
          \/ TouchPrice(s) \/ ReadOldGroups(s) \/ DropLinks(s) \/ ReadMax(s)
          \/ InsertLink(s) \/ Renumber(s) \/ NullOrders(s) \/ PutOrder(s)
          \/ ErasePrice(s) \/ EraseGroup(s) \/ Wait(s)
          \/ Commit(s) \/ Rollback(s)
    BY <1>1 DEF Next
  <2>2. CASE CreatePrice(s)
    BY <2>2, CreatePriceKeepsInv
  <2>3. CASE UpdatePrice(s)
    BY <2>3, UpdatePriceKeepsInv
  <2>4. CASE DeletePrice(s)
    BY <2>4, DeletePriceKeepsInv
  <2>5. CASE DeleteGroup(s)
    BY <2>5, DeleteGroupKeepsInv
  <2>6. CASE Reorder(s)
    BY <2>6, ReorderKeepsInv
  <2>7. CASE TouchPrice(s)
    BY <2>7, TouchPriceKeepsInv
  <2>8. CASE ReadOldGroups(s)
    BY <2>8, ReadOldGroupsKeepsInv
  <2>9. CASE DropLinks(s)
    BY <2>9, DropLinksKeepsInv
  <2>10. CASE ReadMax(s)
    BY <2>10, ReadMaxKeepsInv
  <2>11. CASE InsertLink(s)
    BY <2>11, InsertLinkKeepsInv
  <2>12. CASE Renumber(s)
    BY <2>12, RenumberKeepsInv
  <2>13. CASE NullOrders(s)
    BY <2>13, NullOrdersKeepsInv
  <2>14. CASE PutOrder(s)
    BY <2>14, PutOrderKeepsInv
  <2>15. CASE ErasePrice(s)
    BY <2>15, ErasePriceKeepsInv
  <2>16. CASE EraseGroup(s)
    BY <2>16, EraseGroupKeepsInv
  <2>17. CASE Wait(s)
    BY <2>17, WaitKeepsInv
  <2>18. CASE Commit(s)
    BY <2>18, CommitKeepsInv
  <2>19. CASE Rollback(s)
    BY <2>19, RollbackKeepsInv
  <2> QED
    BY <2>1, <2>2, <2>3, <2>4, <2>5, <2>6, <2>7, <2>8, <2>9, <2>10, <2>11, <2>12, <2>13,
       <2>14, <2>15, <2>16, <2>17, <2>18, <2>19
<1>2. CASE UNCHANGED vars
  <2>1. /\ links' = links /\ prices' = prices /\ groups' = groups /\ pend' = pend /\ mark' = mark
        /\ pc' = pc /\ req' = req /\ job' = job /\ waiting' = waiting /\ found' = found
    BY <1>2 DEF vars
  <2>2. TypeOK' /\ NoDuplicateLink' /\ PricesExist' /\ Apart'
    BY <2>1 DEF Inv, TypeOK, NoDuplicateLink, Linked, PricesExist, Apart
  <2>3. ASSUME NEW s \in Sessions
        PROVE  Own(s)' /\ \A t \in Sessions : OneMarks(s, t)' /\ OneWrites(s, t)'
    <3>1. /\ Stepping(s) /\ Marked(s) /\ NewIsOwn(s) /\ Cleared(s) /\ FoundAll(s)
          /\ LinkedOnce(s) /\ LinkedAll(s) /\ \A t \in Sessions : OneMarks(s, t) /\ OneWrites(s, t)
      BY DEF Inv
    <3>2. Stepping(s)' /\ Marked(s)' /\ NewIsOwn(s)'
      BY <2>1, <3>1 DEF Stepping, Marked, NewIsOwn, Fixed, Linking
    <3>3. Cleared(s)' /\ FoundAll(s)'
      BY <2>1, <3>1 DEF Cleared, FoundAll, OfPrice, Visible, Seen
    <3>4. LinkedOnce(s)' /\ LinkedAll(s)'
      BY <2>1, <3>1 DEF LinkedOnce, LinkedAll, Fixed, Linking, Written
    <3>5. \A t \in Sessions : OneMarks(s, t)' /\ OneWrites(s, t)'
      BY <2>1, <3>1 DEF OneMarks, OneWrites
    <3> QED
      BY <3>2, <3>3, <3>4, <3>5 DEF Own
  <2> QED
    BY <2>2, <2>3 DEF Inv, Own
<1> QED
  BY <1>1, <1>2

\* No price is ever linked to a group twice, however many requests interleave,
\* provided that every update writes the row of its price, and so takes the
\* lock under which set_price_groups deletes and inserts.  Without it, two
\* updates that only list groups can both insert after both have deleted.
THEOREM PricesStayLinkedOnce ==
    ASSUME ~Overlap \/ Touches = {TRUE} PROVE Spec => [](TypeOK /\ NoDuplicateLink)
<1>1. Inv /\ [Next]_vars => Inv'
  BY NextKeepsInv
<1>2. Inv => TypeOK /\ NoDuplicateLink
  BY DEF Inv
<1> QED
  BY InvInit, <1>1, <1>2, PTL DEF Spec

LEMMA CommitLinksAsRequested ==
    ASSUME Inv, NEW s \in Sessions, Commit(s), Linking(s)
    PROVE  {g \in Groups : OrdersOf(links', req[s].price, g) # {}} = req[s].groups
<1>1. /\ pc[s] = "commit" /\ \A r \in Rows : links'[r] = Seen(s, r)
  BY CommitTables
<1>2. /\ Stepping(s) /\ LinkedOnce(s) /\ LinkedAll(s)
      /\ req[s].groups \subseteq Groups /\ links \in [Rows -> Orders \cup {Absent}]
  BY DEF Inv, TypeOK, Request
<1>3. Fixed(s) /\ job[s].add = {}
  BY <1>1, <1>2 DEF Fixed, After, Stepping
<1>4. ASSUME NEW g \in Groups
      PROVE  OrdersOf(links', req[s].price, g) # {} <=>
               \E r \in Rows : PriceOf(r) = req[s].price /\ GroupOf(r) = g /\ links'[r] # Absent
  BY DEF OrdersOf, Linked
<1>5. ASSUME NEW r \in Rows, PriceOf(r) = req[s].price
      PROVE  links'[r] # Absent <=> Written(s, r)
  BY <1>1, <1>2, <1>3, <1>5 DEF Seen, Written, LinkedOnce
<1>6. ASSUME NEW g \in Groups
      PROVE  OrdersOf(links', req[s].price, g) # {} <=> g \in req[s].groups
  <2>1. ASSUME g \in req[s].groups PROVE OrdersOf(links', req[s].price, g) # {}
    <3>1. PICK r \in Rows : PriceOf(r) = req[s].price /\ GroupOf(r) = g /\ Written(s, r)
      BY <1>2, <1>3, <2>1 DEF LinkedAll
    <3> QED
      BY <1>4, <1>5, <3>1
  <2>2. ASSUME OrdersOf(links', req[s].price, g) # {} PROVE g \in req[s].groups
    <3>1. PICK r \in Rows : PriceOf(r) = req[s].price /\ GroupOf(r) = g /\ links'[r] # Absent
      BY <1>4, <2>2
    <3>2. Written(s, r)
      BY <1>5, <3>1
    <3> QED
      BY <1>2, <1>3, <3>1, <3>2 DEF LinkedOnce
  <2> QED
    BY <2>1, <2>2
<1> QED
  BY <1>2, <1>6

LEMMA GroupsStep == ASSUME Inv PROVE GroupsAsRequestedStep
<1> SUFFICES ASSUME NEW s \in Sessions, Commit(s), req[s].op \in {"create", "update"}
             PROVE  {g \in Groups : OrdersOf(links', req[s].price, g) # {}} = req[s].groups
  BY DEF GroupsAsRequestedStep
<1> QED
  BY CommitLinksAsRequested DEF Linking

\* A committed create or update leaves the price in exactly the groups it
\* lists, under the same assumption.
THEOREM GroupsAsAsked ==
    ASSUME ~Overlap \/ Touches = {TRUE} PROVE Spec => GroupsAsRequested
<1>1. Inv /\ [Next]_vars => Inv'
  BY NextKeepsInv
<1>2. Inv /\ [Next]_vars => [GroupsAsRequestedStep]_vars
  BY GroupsStep
<1> QED
  BY InvInit, <1>1, <1>2, PTL DEF Spec, GroupsAsRequested

(***************************************************************************)
(* One change of a reorder request                                         *)
(***************************************************************************)

Distinct(cur) == \A x, y \in DOMAIN cur : x # y => cur[x] # cur[y]

\* One iteration of the loop of reorder_prices_in_group: orders that were
\* distinct positions of 1..n stay so, the price lands where the request put it
\* (or at the end), and the others keep their order among themselves.
THEOREM MoveKeepsPositions ==
    ASSUME NEW Ps, NEW n \in Nat \ {0}, NEW cur \in [Ps -> 1..n], Distinct(cur),
           NEW p \in Ps, NEW to \in Nat \ {0}
    PROVE  LET after == Moved(cur, n, p, to)
           IN  /\ after \in [Ps -> 1..n]
               /\ Distinct(after)
               /\ after[p] = IF to > n THEN n ELSE to
               /\ \A x, y \in Ps \ {p} : cur[x] < cur[y] => after[x] < after[y]
<1> DEFINE target == IF to > n THEN n ELSE IF to < 1 THEN 1 ELSE to
           pos == cur[p]
           after == Moved(cur, n, p, to)
<1>1. target \in 1..n /\ pos \in 1..n /\ target = IF to > n THEN n ELSE to
  OBVIOUS
<1>2. after = [x \in Ps |->
                 IF x = p THEN target
                 ELSE IF target <= cur[x] /\ cur[x] < pos THEN cur[x] + 1
                 ELSE IF pos < cur[x] /\ cur[x] <= target THEN cur[x] - 1
                 ELSE cur[x]]
  BY DEF Moved
<1> HIDE DEF after, target
<1>3. \A x \in Ps : cur[x] \in 1..n
  OBVIOUS
<1>4. \A x, y \in Ps : x # y => cur[x] # cur[y]
  BY DEF Distinct
<1>5. \A x \in Ps \ {p} : after[x] \in 1..n /\ after[x] # target
  BY <1>1, <1>2, <1>3, <1>4
<1>6. after[p] = target
  BY <1>2
<1>7. after \in [Ps -> 1..n]
  BY <1>1, <1>2, <1>5, <1>6
<1>8. \A x, y \in Ps \ {p} : cur[x] < cur[y] => after[x] < after[y]
  BY <1>1, <1>2, <1>3, <1>4
<1>9. \A x, y \in Ps \ {p} : x # y => after[x] # after[y]
  BY <1>1, <1>2, <1>3, <1>4
<1>10. Distinct(after)
  BY <1>5, <1>6, <1>7, <1>9 DEF Distinct
<1>11. QED
  BY <1>1, <1>6, <1>7, <1>8, <1>10 DEF after

\* Gaps or not, a change never gives two prices of a group the same order, and
\* leaves the others in theirs.
THEOREM MoveKeepsDistinct ==
    ASSUME NEW Ps, NEW n \in Nat \ {0}, NEW cur \in [Ps -> Nat], Distinct(cur),
           NEW p \in Ps, NEW to \in Nat \ {0}
    PROVE  LET after == Moved(cur, n, p, to)
           IN  /\ Distinct(after)
               /\ \A x, y \in Ps \ {p} : cur[x] < cur[y] => after[x] < after[y]
<1> DEFINE target == IF to > n THEN n ELSE IF to < 1 THEN 1 ELSE to
           pos == cur[p]
           after == Moved(cur, n, p, to)
<1>1. target \in Nat /\ pos \in Nat
  OBVIOUS
<1>2. after = [x \in Ps |->
                 IF x = p THEN target
                 ELSE IF target <= cur[x] /\ cur[x] < pos THEN cur[x] + 1
                 ELSE IF pos < cur[x] /\ cur[x] <= target THEN cur[x] - 1
                 ELSE cur[x]]
  BY DEF Moved
<1> HIDE DEF after, target
<1>3. \A x \in Ps : cur[x] \in Nat
  OBVIOUS
<1>4. \A x, y \in Ps : x # y => cur[x] # cur[y]
  BY DEF Distinct
<1>5. \A x \in Ps \ {p} : after[x] # after[p]
  BY <1>1, <1>2, <1>3, <1>4
<1>6. \A x, y \in Ps \ {p} : x # y => after[x] # after[y]
  BY <1>1, <1>2, <1>3, <1>4
<1>7. \A x, y \in Ps \ {p} : cur[x] < cur[y] => after[x] < after[y]
  BY <1>1, <1>2, <1>3, <1>4
<1>8. QED
  BY <1>2, <1>5, <1>6, <1>7 DEF Distinct, after

(***************************************************************************)
(* Requests one after the other: every link has an order of its own        *)
(***************************************************************************)

\* The prices that the rest of a numbering is for, and a row that waits for it.
Unplaced(s) == {job[s].plan[i].price : i \in DOMAIN job[s].plan}
ToPlace(s, r) == pc[s] = "put" /\ GroupOf(r) = job[s].group /\ PriceOf(r) \in Unplaced(s)

\* Every price once, and every order.
PlanDistinct(plan) ==
    /\ \A i \in DOMAIN plan : plan[i].ord # Null
    /\ \A i, j \in DOMAIN plan :
        i # j => plan[i].price # plan[j].price /\ plan[i].ord # plan[j].ord

\* What a transaction sees: orders are missing where they are still to be
\* written, and differ within a group.
OrdersSeen(s) ==
    /\ \A r \in Visible(s) : Seen(s, r) = Null <=> ToPlace(s, r)
    /\ \A q, r \in Visible(s) :
        q # r /\ GroupOf(q) = GroupOf(r) /\ Seen(s, q) # Null => Seen(s, q) # Seen(s, r)

Numbering(s) ==
    /\ pc[s] = "insert" => \A r \in InGroup(s, job[s].group) : Seen(s, r) <= job[s].top
    /\ pc[s] \in {"null", "put"} => PlanDistinct(job[s].plan)
    /\ pc[s] = "null" => \A r \in InGroup(s, job[s].group) : PriceOf(r) \in Unplaced(s)
    /\ pc[s] = "put" => \A r \in InGroup(s, job[s].group) :
                            \A i \in DOMAIN job[s].plan : Seen(s, r) # job[s].plan[i].ord

OrdersDiffer ==
    \A q, r \in Linked(links) : q # r /\ GroupOf(q) = GroupOf(r) => links[q] # links[r]

NumInv ==
    /\ waiting = {} /\ AllNumbered /\ OrdersDiffer
    /\ \A s \in Sessions : pc[s] # "idle" => OrdersSeen(s) /\ Numbering(s)



(***************************************************************************)
(* Where the numbering comes from                                          *)
(***************************************************************************)

LEMMA UpTo == \A n \in Nat : IsFiniteSet(1..n) /\ Cardinality(1..n) = n
  BY FS_Interval

\* As many different things as a set has are all of it.
LEMMA Onto ==
    ASSUME NEW n \in Nat, NEW S, IsFiniteSet(S), Cardinality(S) = n, NEW f \in [1..n -> S],
           \A i, j \in 1..n : i # j => f[i] # f[j]
    PROVE  \A x \in S : \E i \in 1..n : f[i] = x
<1> SUFFICES ASSUME NEW x \in S, \A i \in 1..n : f[i] # x PROVE FALSE
  OBVIOUS
<1>1. IsFiniteSet(1..n) /\ Cardinality(1..n) = n
  BY FS_Interval
<1>2. IsFiniteSet(S \ {x}) /\ Cardinality(S \ {x}) = n - 1
  BY FS_RemoveElement
<1>3. f \in [1..n -> S \ {x}]
  OBVIOUS
<1>4. Cardinality(S \ {x}) < Cardinality(1..n)
  BY <1>1, <1>2
<1>5. \E i, j \in 1..n : i # j /\ f[i] = f[j]
  BY <1>1, <1>2, <1>3, <1>4, FS_PigeonHole
<1> QED
  BY <1>5

LEMMA AllUpTo ==
    ASSUME NEW n \in Nat, NEW f \in [1..n -> 1..n], \A i, j \in 1..n : i # j => f[i] # f[j]
    PROVE  \A x \in 1..n : \E i \in 1..n : f[i] = x
<1> SUFFICES ASSUME NEW x \in 1..n, \A i \in 1..n : f[i] # x PROVE FALSE
  OBVIOUS
<1>1. IsFiniteSet(1..n) /\ Cardinality(1..n) = n
  BY UpTo
<1>2. IsFiniteSet((1..n) \ {x}) /\ Cardinality((1..n) \ {x}) = n - 1
  BY <1>1, FS_RemoveElement
<1>3. f \in [1..n -> (1..n) \ {x}]
  OBVIOUS
<1>4. Cardinality((1..n) \ {x}) < Cardinality(1..n)
  BY <1>1, <1>2
<1>5. \E i, j \in 1..n : i # j /\ f[i] = f[j]
  BY <1>1, <1>2, <1>3, <1>4, FS_PigeonHole
<1> QED
  BY <1>5

\* The listing of a set has every row of it once.
LEMMA ListingHasAll ==
    ASSUME NEW s, NEW R \in SUBSET Rows, NEW q \in Listings(s, R)
    PROVE  /\ \A i, j \in 1..Cardinality(R) : i # j => q[i] # q[j]
           /\ \A r \in R : \E i \in 1..Cardinality(R) : q[i] = r
<1>1. Cardinality(R) \in Nat /\ q \in [1..Cardinality(R) -> R]
  BY ListingRows
<1>2. \A i, j \in 1..Cardinality(R) : i < j => q[i] # q[j]
  BY DEF Listings
<1>3. \A i, j \in 1..Cardinality(R) : i # j => i < j \/ j < i
  BY <1>1
<1>4. \A i, j \in 1..Cardinality(R) : i # j => q[i] # q[j]
  BY <1>2, <1>3
<1>5. IsFiniteSet(R)
  BY RowsFinite, FS_Subset
<1> QED
  BY <1>1, <1>4, <1>5, Onto

LEMMA MaxOfOne == \A i \in Nat : MaxOf({i}) = i
<1> SUFFICES ASSUME NEW i \in Nat PROVE MaxOf({i}) = i
  OBVIOUS
<1>1. {i} \in SUBSET Nat /\ {i} # {} /\ IsFiniteSet({i})
  BY FS_Singleton
<1>2. MaxOf({i}) \in {i}
  BY <1>1, GreatestNumber
<1> QED
  BY <1>2

\* order_map has the rows of the listing, in its order.
MapWith(f, n, q, val, entries) ==
    /\ f \in [1..n -> 1..n]
    /\ \A k, l \in 1..n : k < l => f[k] < f[l]
    /\ \A i \in 1..n : \E k \in 1..n : f[k] = i
    /\ entries = [k \in 1..n |-> [price |-> PriceOf(q[f[k]]), ord |-> val[f[k]]]]

\* The order_map of a listing without a price twice: it has all of them, in
\* the order of the listing.
LEMMA MapOfListing ==
    ASSUME NEW n \in Nat, NEW q \in [1..n -> Rows], NEW val,
           \A i, j \in 1..n : i # j => PriceOf(q[i]) # PriceOf(q[j]),
           NEW entries \in OrderMaps(q, val)
    PROVE  \E f : MapWith(f, n, q, val, entries)
<1> DEFINE price(i) == PriceOf(q[i])
           Again(i) == {j \in DOMAIN q : price(j) = price(i)}
           firsts == {i \in DOMAIN q : \A j \in Again(i) : i <= j}
           m == Cardinality(firsts)
<1>1. PICK f \in [1..m -> firsts] :
        /\ \A k, l \in 1..m : k < l => f[k] < f[l]
        /\ entries = [k \in 1..m |-> [price |-> price(f[k]), ord |-> val[MaxOf(Again(f[k]))]]]
  BY DEF OrderMaps
<1>2. ASSUME NEW i \in 1..n PROVE Again(i) = {i}
  <2>1. DOMAIN q = 1..n
    OBVIOUS
  <2>2. \A j \in 1..n : price(j) = price(i) => j = i
    OBVIOUS
  <2> QED
    BY <2>1, <2>2
<1>3. firsts = 1..n
  <2>1. DOMAIN q = 1..n
    OBVIOUS
  <2> HIDE DEF Again
  <2> QED
    BY <1>2, <2>1
<1> HIDE DEF Again, firsts
<1>4. m = n /\ IsFiniteSet(1..n) /\ Cardinality(1..n) = n
  BY <1>3, UpTo
<1> HIDE DEF m
<1>5. PICK g \in [1..n -> 1..n] :
        /\ \A k, l \in 1..n : k < l => g[k] < g[l]
        /\ entries = [k \in 1..n |-> [price |-> price(g[k]), ord |-> val[MaxOf(Again(g[k]))]]]
  BY <1>1, <1>3, <1>4
<1>6. ASSUME NEW k \in 1..n PROVE val[MaxOf(Again(g[k]))] = val[g[k]]
  <2>1. g[k] \in 1..n /\ g[k] \in Nat
    OBVIOUS
  <2>2. Again(g[k]) = {g[k]}
    BY <1>2, <2>1
  <2> QED
    BY <2>1, <2>2, MaxOfOne
<1>7. entries = [k \in 1..n |-> [price |-> price(g[k]), ord |-> val[g[k]]]]
  BY <1>5, <1>6
<1>8. ASSUME NEW k \in 1..n, NEW l \in 1..n, k # l PROVE g[k] # g[l]
  <2>1. k < l \/ l < k
    BY <1>8
  <2>2. g[k] \in Nat /\ g[l] \in Nat
    OBVIOUS
  <2> QED
    BY <1>5, <2>1, <2>2
<1>9. \A i \in 1..n : \E k \in 1..n : g[k] = i
  <2>1. \A k, l \in 1..n : k # l => g[k] # g[l]
    BY <1>8
  <2> QED
    BY <2>1, AllUpTo
<1> QED
  BY <1>5, <1>7, <1>9 DEF MapWith

(***************************************************************************)
(* The changes of a reorder request, one after another                     *)
(***************************************************************************)

Computed(a, m, cur, n, changes) ==
    a = [i \in 0..m |-> IF i = 0 THEN cur
                        ELSE Moved(a[i-1], n, changes[i].price, changes[i].to)]

\* AfterChanges is what its recursion says, by least counterexample.
LEMMA Recursion ==
    ASSUME NEW cur, NEW n, NEW changes, NEW m \in Nat
    PROVE  \E a : Computed(a, m, cur, n, changes)
<1> DEFINE Fails(k) == \A a : ~Computed(a, k, cur, n, changes)
           Bad == {k \in Nat : Fails(k)}
<1> SUFFICES ASSUME Bad # {} PROVE FALSE
  OBVIOUS
<1>1. PICK k \in Bad : \A d \in Bad : k <= d
  BY LeastNumber
<1>2. CASE k = 0
  <2> DEFINE a == [i \in 0..0 |-> cur]
  <2>1. Computed(a, 0, cur, n, changes)
    BY DEF Computed
  <2> QED
    BY <1>1, <1>2, <2>1
<1>3. CASE k # 0
  <2>1. k \in Nat /\ k - 1 \in Nat /\ k - 1 \notin Bad
    BY <1>1, <1>3
  <2>2. PICK b : Computed(b, k - 1, cur, n, changes)
    BY <2>1
  <2> DEFINE Step(i) == Moved(b[i-1], n, changes[i].price, changes[i].to)
             a == [i \in 0..k |-> IF i = 0 THEN cur ELSE Step(i)]
  <2>3. b = [i \in 0..(k-1) |-> IF i = 0 THEN cur ELSE Step(i)]
    BY <2>2 DEF Computed
  <2>4. \A i \in 0..(k-1) : a[i] = b[i]
    <3> HIDE DEF Step
    <3> QED
      BY <2>1, <2>3
  <2>5. \A i \in 1..k : a[i-1] = b[i-1]
    <3> HIDE DEF a
    <3>1. \A i \in 1..k : i - 1 \in 0..(k-1)
      BY <2>1
    <3> QED
      BY <2>4, <3>1
  <2>6. a = [i \in 0..k |-> IF i = 0 THEN cur
                            ELSE Moved(a[i-1], n, changes[i].price, changes[i].to)]
    <3> DEFINE Then(x, i) == Moved(x, n, changes[i].price, changes[i].to)
    <3>1. \A i \in 0..k : i # 0 => i \in 1..k
      BY <2>1
    <3>2. \A i \in 0..k : i # 0 => Then(a[i-1], i) = Step(i)
      BY <2>5, <3>1
    <3> HIDE DEF Step, Then
    <3>3. a = [i \in 0..k |-> IF i = 0 THEN cur ELSE Then(a[i-1], i)]
      BY <3>2
    <3> QED
      BY <3>3 DEF Then
  <2>7. Computed(a, k, cur, n, changes)
    BY <2>6 DEF Computed
  <2> QED
    BY <1>1, <2>7
<1> QED
  BY <1>2, <1>3

LEMMA ChangesComputed ==
    ASSUME NEW cur, NEW n, NEW changes, Len(changes) \in Nat
    PROVE  \E a : /\ a[0] = cur /\ AfterChanges(cur, n, changes) = a[Len(changes)]
                  /\ \A i \in 1..Len(changes) :
                        a[i] = Moved(a[i-1], n, changes[i].price, changes[i].to)
<1> DEFINE m == Len(changes)
           a == CHOOSE a : Computed(a, m, cur, n, changes)
<1>1. Computed(a, m, cur, n, changes)
  BY Recursion
<1>2. AfterChanges(cur, n, changes) = a[m]
  BY DEF AfterChanges, Computed
<1> HIDE DEF a
<1>3. a = [i \in 0..m |-> IF i = 0 THEN cur ELSE Moved(a[i-1], n, changes[i].price, changes[i].to)]
  BY <1>1 DEF Computed
<1>4. a[0] = cur
  BY <1>3
<1>5. \A i \in 1..m : a[i] = Moved(a[i-1], n, changes[i].price, changes[i].to)
  BY <1>3
<1> QED
  BY <1>2, <1>4, <1>5

\* Whatever the request asks for, its changes leave different orders, and the
\* prices it does not move as they stood to each other; positions of 1..n stay
\* such, and the price moved last lands where it should.
THEOREM ChangesKeepDistinct ==
    ASSUME NEW Ps, NEW n \in Nat \ {0}, NEW cur \in [Ps -> Nat \ {0}], Distinct(cur),
           NEW changes, Len(changes) \in Nat,
           \A i \in 1..Len(changes) : changes[i].price \in Ps /\ changes[i].to \in Nat \ {0}
    PROVE  LET m == Len(changes)
               final == AfterChanges(cur, n, changes)
           IN  /\ final \in [Ps -> Nat \ {0}] /\ Distinct(final)
               /\ \A x, y \in Ps \ {changes[i].price : i \in 1..m} :
                    cur[x] < cur[y] => final[x] < final[y]
               /\ cur \in [Ps -> 1..n] =>
                    /\ final \in [Ps -> 1..n]
                    /\ m > 0 => final[changes[m].price]
                                  = IF changes[m].to > n THEN n ELSE changes[m].to
<1>1. PICK a : /\ a[0] = cur /\ AfterChanges(cur, n, changes) = a[Len(changes)]
               /\ \A i \in 1..Len(changes) :
                     a[i] = Moved(a[i-1], n, changes[i].price, changes[i].to)
  BY ChangesComputed
<1> DEFINE Still(i) == Ps \ {changes[j].price : j \in 1..i}
           Fine(f) == f \in [Ps -> Nat \ {0}] /\ Distinct(f)
           Keeps(f, X) == \A x, y \in X : cur[x] < cur[y] => f[x] < f[y]
           Within(f) == cur \in [Ps -> 1..n] => f \in [Ps -> 1..n]
           Good(i) == Fine(a[i]) /\ Keeps(a[i], Still(i)) /\ Within(a[i])
           Bad == {i \in 0..Len(changes) : ~Good(i)}
<1>2. ASSUME NEW f, Fine(f), NEW p \in Ps, NEW to \in Nat \ {0}
      PROVE  /\ Fine(Moved(f, n, p, to))
             /\ \A x, y \in Ps \ {p} : f[x] < f[y] => Moved(f, n, p, to)[x] < Moved(f, n, p, to)[y]
             /\ f \in [Ps -> 1..n] => /\ Moved(f, n, p, to) \in [Ps -> 1..n]
                                      /\ Moved(f, n, p, to)[p] = IF to > n THEN n ELSE to
  <2>1. f \in [Ps -> Nat]
    BY <1>2
  <2>2. /\ Distinct(Moved(f, n, p, to))
        /\ \A x, y \in Ps \ {p} : f[x] < f[y] => Moved(f, n, p, to)[x] < Moved(f, n, p, to)[y]
    BY <1>2, <2>1, MoveKeepsDistinct
  <2>3. Moved(f, n, p, to) \in [Ps -> Nat \ {0}]
    <3> DEFINE target == IF to > n THEN n ELSE IF to < 1 THEN 1 ELSE to
               At(x) == IF x = p THEN target
                        ELSE IF target <= f[x] /\ f[x] < f[p] THEN f[x] + 1
                        ELSE IF f[p] < f[x] /\ f[x] <= target THEN f[x] - 1
                        ELSE f[x]
    <3>1. Moved(f, n, p, to) = [x \in Ps |-> At(x)]
      BY <1>2 DEF Moved
    <3>2. \A x \in Ps : f[x] \in Nat \ {0}
      BY <1>2
    <3>3. \A x \in Ps : At(x) \in Nat \ {0}
      BY <3>2
    <3> QED
      BY <3>1, <3>3
  <2>4. f \in [Ps -> 1..n] => /\ Moved(f, n, p, to) \in [Ps -> 1..n]
                              /\ Moved(f, n, p, to)[p] = IF to > n THEN n ELSE to
    BY <1>2, MoveKeepsPositions
  <2> QED
    BY <2>2, <2>3, <2>4
<1>3. Good(0)
  BY <1>1
<1>4. ASSUME NEW k \in 1..Len(changes), Good(k - 1) PROVE Good(k)
  <2> DEFINE p == changes[k].price
             to == changes[k].to
             f == a[k-1]
  <2>1. p \in Ps /\ to \in Nat \ {0} /\ a[k] = Moved(f, n, p, to)
    BY <1>1
  <2>2. Fine(f) /\ Keeps(f, Still(k - 1)) /\ Within(f)
    BY <1>4
  <2>3. Still(k) = Still(k - 1) \ {p}
    <3>1. \A j : j \in 1..k <=> j = k \/ j \in 1..(k-1)
      OBVIOUS
    <3> QED
      BY <3>1
  <2> HIDE DEF p, to, f, Still
  <2>4. Still(k - 1) \subseteq Ps
    BY DEF Still
  <2>5. Fine(a[k]) /\ Within(a[k])
    <3>1. Fine(f) /\ p \in Ps /\ to \in Nat \ {0}
      BY <2>1, <2>2
    <3> HIDE DEF Fine
    <3>2. Fine(Moved(f, n, p, to))
      BY <1>2, <3>1
    <3>3. f \in [Ps -> 1..n] => Moved(f, n, p, to) \in [Ps -> 1..n]
      BY <1>2, <3>1
    <3>4. Fine(a[k])
      BY <2>1, <3>2
    <3>5. Within(a[k])
      BY <2>1, <2>2, <3>3
    <3> QED
      BY <3>4, <3>5
  <2>6. \A x, y \in Ps \ {p} : f[x] < f[y] => a[k][x] < a[k][y]
    <3> HIDE DEF Fine
    <3> QED
      BY <1>2, <2>1, <2>2
  <2>7. Keeps(a[k], Still(k))
    BY <2>2, <2>3, <2>4, <2>6
  <2> QED
    BY <2>5, <2>7
<1>5. Bad = {}
  <2> SUFFICES ASSUME Bad # {} PROVE FALSE
    OBVIOUS
  <2>1. Bad \in SUBSET Nat
    OBVIOUS
  <2>2. PICK k \in Bad : \A d \in Bad : k <= d
    BY <2>1, LeastNumber
  <2> HIDE DEF Good
  <2>3. k \in 1..Len(changes) /\ k - 1 \in 0..Len(changes)
    BY <1>3, <2>2
  <2>4. Good(k - 1)
    BY <2>2, <2>3
  <2> QED
    BY <1>4, <2>2, <2>3, <2>4
<1> DEFINE m == Len(changes)
<1>6. Good(m)
  <2> HIDE DEF Good
  <2> QED
    BY <1>5
<1>7. ASSUME m > 0, cur \in [Ps -> 1..n]
      PROVE  a[m][changes[m].price] = IF changes[m].to > n THEN n ELSE changes[m].to
  <2>1. m \in 1..m /\ m - 1 \in 0..m
    BY <1>7
  <2>2. Good(m - 1)
    <3> HIDE DEF Good
    <3> QED
      BY <1>5, <2>1
  <2>3. /\ changes[m].price \in Ps /\ changes[m].to \in Nat \ {0}
        /\ a[m] = Moved(a[m-1], n, changes[m].price, changes[m].to)
    BY <1>1, <2>1
  <2>4. Fine(a[m-1]) /\ a[m-1] \in [Ps -> 1..n]
    BY <1>7, <2>2
  <2> HIDE DEF Fine, m
  <2>5. Moved(a[m-1], n, changes[m].price, changes[m].to)[changes[m].price]
          = IF changes[m].to > n THEN n ELSE changes[m].to
    <3>1. PICK f, p, to : f = a[m-1] /\ p = changes[m].price /\ to = changes[m].to
      OBVIOUS
    <3>2. Fine(f) /\ f \in [Ps -> 1..n] /\ p \in Ps /\ to \in Nat \ {0}
      BY <2>3, <2>4, <3>1
    <3>3. f \in [Ps -> 1..n] => Moved(f, n, p, to)[p] = IF to > n THEN n ELSE to
      BY <1>2, <3>2
    <3> QED
      BY <3>1, <3>2, <3>3
  <2> QED
    BY <2>3, <2>5
<1> QED
  BY <1>1, <1>6, <1>7

(***************************************************************************)
(* One request at a time                                                   *)
(***************************************************************************)

OneByOne == ~Overlap /\ Inv /\ NumInv
Starts(s) == pc[s] # "idle" \/ Admitted(s)

LEMMA OthersIdle ==
    ASSUME OneByOne, NEW s \in Sessions, Starts(s), NEW t \in Sessions \ {s}
    PROVE  pc[t] = "idle" /\ pend[t] = NothingWritten
<1>1. pc[t] = "idle"
  BY DEF OneByOne, Inv, Apart, Starts, Admitted
<1> QED
  BY <1>1 DEF OneByOne, Inv, Stepping

LEMMA AllMatching == ASSUME OneByOne, NEW s PROVE Target(s) = Matching(s)
  BY DEF OneByOne, NumInv, Target

\* Who has written nothing sees the table.
LEMMA IdleSees ==
    ASSUME OneByOne, NEW s \in Sessions, pc[s] = "idle"
    PROVE  /\ \A r \in Rows : Seen(s, r) = links[r]
           /\ OrdersSeen(s)
<1>1. \A r \in Rows : pend[s][r] = Keep
  BY DEF OneByOne, Inv, Stepping, NothingWritten
<1>2. \A r \in Rows : Seen(s, r) = links[r]
  BY <1>1 DEF Seen
<1>3. OrdersSeen(s)
  BY <1>2 DEF OneByOne, NumInv, OrdersSeen, AllNumbered, OrdersDiffer, Linked, Visible, ToPlace
<1> QED
  BY <1>2, <1>3

LEMMA SeesOrders ==
    ASSUME OneByOne, NEW s \in Sessions
    PROVE  OrdersSeen(s)
  BY IdleSees DEF OneByOne, NumInv

\* Nobody sees a price in a group twice.
LEMMA SeenOnce ==
    ASSUME Inv, NEW s \in Sessions, NEW q \in Visible(s), NEW r \in Visible(s), q # r
    PROVE  PriceOf(q) # PriceOf(r) \/ GroupOf(q) # GroupOf(r)
<1> SUFFICES ASSUME PriceOf(q) = PriceOf(r), GroupOf(q) = GroupOf(r) PROVE FALSE
  OBVIOUS
<1>1. /\ q \in Rows /\ r \in Rows /\ Seen(s, q) # Absent /\ Seen(s, r) # Absent
      /\ LinkedOnce(s) /\ NoDuplicateLink /\ links \in [Rows -> Orders \cup {Absent}]
  BY DEF Visible, Inv, TypeOK
<1>2. CASE Fixed(s) /\ PriceOf(r) = req[s].price
  <2>1. Written(s, q) /\ Written(s, r)
    BY <1>1, <1>2 DEF Seen, Written, LinkedOnce
  <2> QED
    BY <1>1, <1>2, <2>1 DEF LinkedOnce
<1>3. CASE ~(Fixed(s) /\ PriceOf(r) = req[s].price)
  <2>1. links[q] # Absent /\ links[r] # Absent
    BY <1>3, SeenIsThere
  <2> QED
    BY <1>1, <2>1 DEF NoDuplicateLink, Linked
<1> QED
  BY <1>2, <1>3

LEMMA NumberingKept ==
    ASSUME OneByOne, NEW s \in Sessions, Starts(s), NEW step, Goto(s, step), links' = links,
           step # "idle" => OrdersSeen(s)' /\ Numbering(s)'
    PROVE  NumInv'
<1>1. waiting' = {} /\ pc' = [pc EXCEPT ![s] = step]
  BY DEF Goto, OneByOne, NumInv
<1>2. \A t \in Sessions \ {s} : pc'[t] = "idle"
  BY <1>1, OthersIdle DEF OneByOne, Inv, TypeOK
<1>3. pc'[s] = step
  BY <1>1 DEF OneByOne, Inv, TypeOK
<1>4. AllNumbered' /\ OrdersDiffer'
  BY DEF OneByOne, NumInv, AllNumbered, OrdersDiffer, Linked
<1> QED
  BY <1>1, <1>2, <1>3, <1>4 DEF NumInv

\* Steps outside a numbering: the request sees what it saw, or fewer rows.
Calm == {"touch", "old", "drop", "max", "number", "erase", "erasegroup", "commit"}
FewerSeen(s) == \A r \in Rows : Seen(s, r)' = Seen(s, r) \/ Seen(s, r)' = Absent

LEMMA FewerOrders ==
    ASSUME OneByOne, NEW s \in Sessions, FewerSeen(s), pc[s] # "put", pc'[s] # "put"
    PROVE  OrdersSeen(s)'
<1>1. OrdersSeen(s)
  BY SeesOrders
<1>2. \A r \in Visible(s)' : r \in Visible(s) /\ Seen(s, r)' = Seen(s, r)
  BY DEF Visible, FewerSeen
<1>3. \A r \in Visible(s)' : Seen(s, r)' # Null
  BY <1>1, <1>2 DEF OrdersSeen, ToPlace
<1>4. \A r \in Visible(s)' : ~ToPlace(s, r)'
  BY DEF ToPlace
<1>5. \A q, r \in Visible(s)' :
        q # r /\ GroupOf(q) = GroupOf(r) /\ Seen(s, q)' # Null => Seen(s, q)' # Seen(s, r)'
  BY <1>1, <1>2 DEF OrdersSeen
<1> QED
  BY <1>3, <1>4, <1>5 DEF OrdersSeen

LEMMA CalmStep ==
    ASSUME OneByOne, NEW s \in Sessions, Starts(s), pc[s] # "put",
           NEW step \in Calm, Goto(s, step), links' = links, FewerSeen(s)
    PROVE  NumInv'
<1>1. pc'[s] = step
  BY DEF Goto, OneByOne, Inv, TypeOK
<1>2. OrdersSeen(s)'
  BY <1>1, FewerOrders DEF Calm
<1>3. Numbering(s)'
  BY <1>1 DEF Numbering, Calm
<1> QED
  BY <1>2, <1>3, NumberingKept

LEMMA SameSeen == ASSUME NEW s, UNCHANGED <<links, pend>> PROVE FewerSeen(s)
  BY DEF FewerSeen, Seen

LEMMA NoBlockers == ASSUME OneByOne, NEW s \in Sessions, pc[s] # "idle" PROVE Blockers(s) = {}
<1>1. \A t \in Sessions \ {s} : mark[t] = "none" /\ \A r \in Rows : pend[t][r] = Keep
  <2> SUFFICES ASSUME NEW t \in Sessions \ {s}
               PROVE  mark[t] = "none" /\ \A r \in Rows : pend[t][r] = Keep
    OBVIOUS
  <2>1. pc[t] = "idle" /\ Stepping(t)
    BY OthersIdle DEF Starts, OneByOne, Inv
  <2> QED
    BY <2>1 DEF Stepping, NothingWritten
<1>2. \A R \in SUBSET Rows : RowHolders(s, R) = {}
  BY <1>1 DEF RowHolders
<1>3. \A g, k : KeyHolders(s, g, k) = {}
  BY <1>1 DEF KeyHolders
<1>4. \A p : PriceUsers(s, p) = {} /\ GroupUsers(s, p) = {}
  BY <1>2 DEF PriceUsers, GroupUsers
<1>5. \A p : /\ PriceMarked(s, p, {"held", "gone"}) = {} /\ PriceMarked(s, p, {"gone"}) = {}
             /\ GroupErased(s, p) = {}
  BY <1>1 DEF PriceMarked, GroupErased
<1>6. RowHolders(s, Target(s)) = {}
  BY <1>2, TargetSeen DEF Visible
<1> QED
  BY <1>3, <1>4, <1>5, <1>6 DEF Blockers

LEMMA NoWait == ASSUME OneByOne, NEW s \in Sessions PROVE ~Wait(s)
  BY NoBlockers DEF Wait

\* Requests that start with something else than a numbering.
LEMMA StartKeepsNum ==
    ASSUME OneByOne, NEW s \in Sessions,
           CreatePrice(s) \/ UpdatePrice(s) \/ DeletePrice(s) \/ DeleteGroup(s)
    PROVE  NumInv'
<1>1. /\ pc[s] = "idle" /\ Admitted(s) /\ UNCHANGED <<links, pend>>
      /\ \E step \in Calm : Goto(s, step)
  <2>1. CASE CreatePrice(s)
    BY <2>1 DEF CreatePrice, Calm
  <2>2. CASE UpdatePrice(s)
    BY <2>2 DEF UpdatePrice, Calm
  <2>3. CASE DeletePrice(s)
    BY <2>3 DEF DeletePrice, Calm
  <2>4. CASE DeleteGroup(s)
    BY <2>4 DEF DeleteGroup, Calm
  <2> QED
    BY <2>1, <2>2, <2>3, <2>4
<1> QED
  BY <1>1, SameSeen, CalmStep DEF Starts

LEMMA NextIsCalm == \A w : NextStep(w) \in Calm
  BY DEF NextStep, Calm

\* Statements that delete rows, or write none.
LEMMA DeleteKeepsNum ==
    ASSUME OneByOne, NEW s \in Sessions,
           TouchPrice(s) \/ ReadOldGroups(s) \/ DropLinks(s) \/ ErasePrice(s) \/ EraseGroup(s)
    PROVE  NumInv'
<1>1. ASSUME NEW R, pend' = [pend EXCEPT ![s] = [r \in Rows |-> IF r \in R THEN Absent ELSE @[r]]],
             links' = links
      PROVE  FewerSeen(s)
  BY <1>1, PriceConstants DEF FewerSeen, Seen, OneByOne, Inv, TypeOK
<1>2. /\ pc[s] \notin {"idle", "put"} /\ links' = links
      /\ \E step \in Calm : Goto(s, step)
      /\ FewerSeen(s)
  <2>1. CASE TouchPrice(s)
    BY <2>1, SameSeen DEF TouchPrice, Runs, Calm
  <2>2. CASE ReadOldGroups(s)
    BY <2>2, SameSeen DEF ReadOldGroups, Runs, Calm
  <2>3. CASE DropLinks(s)
    BY <1>1, <2>3, NextIsCalm DEF DropLinks, Runs
  <2>4. CASE ErasePrice(s)
    <3>1. FewerSeen(s)
      <4>1. CASE req[s].price \in prices
        BY <1>1, <2>4, <4>1 DEF ErasePrice
      <4>2. CASE req[s].price \notin prices
        BY <2>4, <4>2, SameSeen DEF ErasePrice
      <4> QED
        BY <4>1, <4>2
    <3> QED
      BY <2>4, <3>1, NextIsCalm DEF ErasePrice, Runs
  <2>5. CASE EraseGroup(s)
    <3>1. FewerSeen(s)
      <4>1. CASE req[s].group \in groups
        BY <1>1, <2>5, <4>1 DEF EraseGroup
      <4>2. CASE req[s].group \notin groups
        BY <2>5, <4>2, SameSeen DEF EraseGroup
      <4> QED
        BY <4>1, <4>2
    <3> QED
      BY <2>5, <3>1 DEF EraseGroup, Runs, Calm
  <2> QED
    BY <2>1, <2>2, <2>3, <2>4, <2>5
<1> QED
  BY <1>2, CalmStep DEF Starts

LEMMA RollbackKeepsNum == ASSUME OneByOne, NEW s \in Sessions, Rollback(s) PROVE NumInv'
<1>1. pc[s] # "idle" /\ Goto(s, "idle") /\ links' = links
  BY DEF Rollback, EndSession
<1> QED
  BY <1>1, NumberingKept DEF Starts

\* What a request that commits has seen is the table then.
LEMMA CommitKeepsNum == ASSUME OneByOne, NEW s \in Sessions, Commit(s) PROVE NumInv'
<1>1. /\ pc[s] = "commit" /\ Goto(s, "idle") /\ \A r \in Rows : links'[r] = Seen(s, r)
  BY DEF Commit, EndSession
<1>2. waiting' = {} /\ pc'[s] = "idle"
  BY <1>1 DEF Goto, OneByOne, NumInv, Inv, TypeOK
<1>3. \A t \in Sessions : pc'[t] = "idle"
  <2> SUFFICES ASSUME NEW t \in Sessions \ {s} PROVE pc'[t] = "idle"
    BY <1>2
  <2>1. pc[t] = "idle"
    BY <1>1, OthersIdle DEF Starts
  <2> QED
    BY <1>1, <2>1 DEF Goto, OneByOne, Inv, TypeOK
<1>4. OrdersSeen(s) /\ Linked(links)' = Visible(s)
  BY <1>1, SeesOrders DEF Linked, Visible
<1>5. \A r \in Visible(s) : Seen(s, r) # Null /\ r \in Rows
  BY <1>1, <1>4 DEF OrdersSeen, ToPlace, Visible
<1>6. AllNumbered'
  BY <1>1, <1>4, <1>5 DEF AllNumbered
<1>7. OrdersDiffer'
  BY <1>1, <1>4, <1>5 DEF OrdersDiffer, OrdersSeen
<1> QED
  BY <1>2, <1>3, <1>6, <1>7 DEF NumInv

LEMMA OrderTyped ==
    ASSUME Inv, NEW s \in Sessions, NEW r \in Visible(s)
    PROVE  r \in Rows /\ Seen(s, r) \in Orders /\ Seen(s, r) \in Nat
<1>1. r \in Rows /\ Seen(s, r) # Absent
  BY DEF Visible
<1>2. links[r] \in Orders \cup {Absent} /\ pend[s][r] \in Orders \cup {Absent, Keep}
  BY <1>1 DEF Inv, TypeOK
<1> QED
  BY <1>1, <1>2, Names DEF Seen, Orders

LEMMA ReadMaxKeepsNum == ASSUME OneByOne, NEW s \in Sessions, ReadMax(s) PROVE NumInv'
<1> DEFINE Held(g) == {Null} \cup {Seen(s, r) : r \in InGroup(s, g)}
<1>1. /\ pc[s] = "max" /\ Goto(s, "insert") /\ UNCHANGED <<links, pend>>
  BY DEF ReadMax, Runs
<1>2. PICK g \in job[s].add : job' = [job EXCEPT ![s].group = g, ![s].top = MaxOf(Held(g))]
  BY DEF ReadMax
<1> DEFINE H == Held(g)
<1>3. job[s] \in Job /\ s \in DOMAIN job
  BY DEF OneByOne, Inv, TypeOK
<1>4. \A k \in H : k <= MaxOf(H)
  <2>1. H \subseteq Orders
    BY OrderTyped, Names DEF InGroup, OneByOne
  <2>2. IsFiniteSet(Orders) /\ Orders \subseteq Nat
    BY Names, FS_Interval DEF Orders
  <2>3. H # {}
    OBVIOUS
  <2> HIDE DEF H
  <2>4. IsFiniteSet(H) /\ H \in SUBSET Nat
    BY <2>1, <2>2, FS_Subset
  <2> QED
    BY <2>3, <2>4, GreatestNumber
<1>5. job'[s].group = g /\ job'[s].top = MaxOf(H)
  <2> DEFINE m == MaxOf(Held(g))
  <2>1. job' = [job EXCEPT ![s].group = g, ![s].top = m]
    BY <1>2
  <2> HIDE DEF m
  <2>2. job'[s].group = g /\ job'[s].top = m
    BY <1>3, <2>1 DEF Job
  <2> QED
    BY <2>2 DEF m
<1>6. pc'[s] = "insert"
  BY <1>1 DEF Goto, OneByOne, Inv, TypeOK
<1>7. \A r \in Rows : Seen(s, r)' = Seen(s, r)
  BY <1>1 DEF Seen
<1>8. OrdersSeen(s)'
  BY <1>1, <1>6, SameSeen, FewerOrders
<1>9. InGroup(s, job[s].group)' = InGroup(s, g)
  BY <1>5, <1>7 DEF InGroup, Visible
<1>10. \A r \in InGroup(s, g) : r \in Rows /\ Seen(s, r) <= MaxOf(H)
  BY <1>4 DEF InGroup, Visible
<1> HIDE DEF H
<1>11. Numbering(s)'
  BY <1>5, <1>6, <1>7, <1>9, <1>10 DEF Numbering
<1> QED
  BY <1>1, <1>8, <1>11, NumberingKept DEF Starts

\* A new link comes after all that the group has.
LEMMA InsertKeepsNum == ASSUME OneByOne, NEW s \in Sessions, InsertLink(s) PROVE NumInv'
<1> DEFINE p == req[s].price
           g == job[s].group
           top == job[s].top
<1>0. PICK x : x = NewRow(p, g)
  OBVIOUS
<1>1. /\ pc[s] = "insert" /\ links' = links /\ Free(p, g) # {}
      /\ pend' = [pend EXCEPT ![s][x] = top + 1]
      /\ \E step \in Calm : Goto(s, step)
  BY <1>0, NextIsCalm DEF InsertLink, Runs
<1>2. PICK step \in Calm : Goto(s, step)
  BY <1>1
<1>3. pc'[s] = step
  BY <1>2 DEF Goto, OneByOne, Inv, TypeOK
<1>4. p \in Prices /\ g \in Groups /\ top \in Nat
  <2>1. Stepping(s) /\ job[s] \in Job /\ req[s] \in Request
    BY DEF OneByOne, Inv, TypeOK
  <2>2. Linking(s) /\ job[s].group \in job[s].add
    BY <1>1, <2>1 DEF Stepping, Linking, Request
  <2> QED
    BY <2>1, <2>2, Names DEF Stepping, Job, Orders
<1>5. x \in Rows /\ PriceOf(x) = p /\ GroupOf(x) = g /\ links[x] = Absent /\ pend[s][x] = Keep
  BY <1>0, <1>1, <1>4, NewRowIsFree
<1>6. top + 1 \in Nat /\ top + 1 # Keep /\ top + 1 # Null
  <2>1. job[s].top < MaxOrder
    BY <1>1 DEF OneByOne, Inv, Stepping
  <2>2. top + 1 \in Orders
    BY <1>4, <2>1, Names DEF Orders
  <2> QED
    BY <1>4, <2>2, Names DEF Null
<1>7. Seen(s, x)' = top + 1 /\ \A r \in Rows \ {x} : Seen(s, r)' = Seen(s, r)
  BY <1>1, <1>5, <1>6 DEF Seen, OneByOne, Inv, TypeOK
<1>8. \A r \in Visible(s)' : r = x \/ r \in Visible(s)
  BY <1>7 DEF Visible
<1>9. \A r \in Visible(s) : Seen(s, r) # Null /\ r \in Rows /\ Seen(s, r) \in Nat
  BY <1>1, SeesOrders, OrderTyped DEF OrdersSeen, ToPlace, OneByOne
<1>10. \A r \in Visible(s) : GroupOf(r) = g => Seen(s, r) <= top
  BY <1>1 DEF OneByOne, NumInv, Numbering, InGroup
<1>11. x \notin Visible(s)
  BY <1>5 DEF Visible, Seen
<1>12. \A r \in Visible(s)' : Seen(s, r)' # Null
  BY <1>6, <1>7, <1>8, <1>9
<1>13. ASSUME NEW q \in Visible(s)', NEW r \in Visible(s)', q # r, GroupOf(q) = GroupOf(r)
       PROVE  Seen(s, q)' # Seen(s, r)'
  <2>1. CASE q = x
    <3>1. r \in Visible(s) /\ GroupOf(r) = g /\ Seen(s, r)' = Seen(s, r)
      BY <1>5, <1>7, <1>8, <1>9, <1>13, <2>1
    <3> QED
      BY <1>4, <1>7, <1>9, <1>10, <2>1, <3>1
  <2>2. CASE r = x
    <3>1. q \in Visible(s) /\ GroupOf(q) = g /\ Seen(s, q)' = Seen(s, q)
      BY <1>5, <1>7, <1>8, <1>9, <1>13, <2>2
    <3> QED
      BY <1>4, <1>7, <1>9, <1>10, <2>2, <3>1
  <2>3. CASE q # x /\ r # x
    <3>1. q \in Visible(s) /\ r \in Visible(s)
      BY <1>8, <2>3
    <3> QED
      BY <1>7, <1>9, <1>13, <2>3, <3>1, SeesOrders DEF OrdersSeen
  <2> QED
    BY <2>1, <2>2, <2>3
<1>14. OrdersSeen(s)'
  BY <1>3, <1>12, <1>13 DEF OrdersSeen, ToPlace, Calm
<1>15. Numbering(s)'
  BY <1>3 DEF Numbering, Calm
<1> QED
  BY <1>1, <1>2, <1>14, <1>15, NumberingKept DEF Starts

\* Phase 1 leaves the orders of the group to phase 2.
LEMMA NullKeepsNum == ASSUME OneByOne, NEW s \in Sessions, NullOrders(s) PROVE NumInv'
<1> DEFINE g == job[s].group
<1>1. /\ pc[s] = "null" /\ Goto(s, "put") /\ UNCHANGED <<links, job>>
      /\ pend' = [pend EXCEPT ![s] = [r \in Rows |-> IF r \in Target(s) THEN Null ELSE @[r]]]
  BY DEF NullOrders, Runs
<1>2. Target(s) = InGroup(s, g)
  BY <1>1, AllMatching DEF Matching
<1>3. pc'[s] = "put"
  BY <1>1 DEF Goto, OneByOne, Inv, TypeOK
<1>4. Null # Absent /\ Null # Keep
  BY Names DEF Orders, Null
<1>5. /\ \A r \in InGroup(s, g) : Seen(s, r)' = Null
      /\ \A r \in Rows \ InGroup(s, g) : Seen(s, r)' = Seen(s, r)
  BY <1>1, <1>2, <1>4 DEF Seen, InGroup, Visible, OneByOne, Inv, TypeOK
<1>6. Visible(s)' = Visible(s)
  BY <1>4, <1>5 DEF Visible, InGroup
<1>7. OrdersSeen(s) /\ Numbering(s)
  BY <1>1, SeesOrders DEF OneByOne, NumInv
<1>8. \A r \in Visible(s) : r \in Rows /\ Seen(s, r) # Null
  BY <1>1, <1>7 DEF OrdersSeen, ToPlace, Visible
<1>9. \A r \in InGroup(s, g) : PriceOf(r) \in Unplaced(s)
  BY <1>1, <1>7 DEF Numbering
<1>10. Unplaced(s)' = Unplaced(s)
  BY <1>1 DEF Unplaced
<1>11. \A r \in Visible(s) : Seen(s, r)' = Null <=> GroupOf(r) = g
  BY <1>5, <1>8 DEF InGroup
<1>12. \A r \in Visible(s) : ToPlace(s, r)' <=> GroupOf(r) = g
  BY <1>1, <1>3, <1>9, <1>10 DEF ToPlace, InGroup
<1>13. ASSUME NEW q \in Visible(s)', NEW r \in Visible(s)', q # r, GroupOf(q) = GroupOf(r),
              Seen(s, q)' # Null
       PROVE  Seen(s, q)' # Seen(s, r)'
  <2>1. q \in Visible(s) /\ r \in Visible(s) /\ GroupOf(q) # g /\ GroupOf(r) # g
    BY <1>6, <1>11, <1>13
  <2>2. Seen(s, q)' = Seen(s, q) /\ Seen(s, r)' = Seen(s, r)
    BY <1>5, <1>8, <2>1 DEF InGroup
  <2> QED
    BY <1>7, <1>13, <2>1, <2>2 DEF OrdersSeen
<1>14. OrdersSeen(s)'
  BY <1>6, <1>11, <1>12, <1>13 DEF OrdersSeen
<1>15. PlanDistinct(job[s].plan)'
  BY <1>1, <1>7 DEF Numbering, PlanDistinct
<1>16. \A r \in InGroup(s, job[s].group)' : \A i \in DOMAIN job'[s].plan :
            Seen(s, r)' # job'[s].plan[i].ord
  BY <1>1, <1>6, <1>11, <1>15 DEF PlanDistinct, InGroup
<1>17. Numbering(s)'
  BY <1>3, <1>15, <1>16 DEF Numbering
<1> QED
  BY <1>1, <1>14, <1>17, NumberingKept DEF Starts

\* The first entry of a plan, and the others.
LEMMA FirstEntry ==
    ASSUME NEW plan \in Entries, plan # <<>>, PlanDistinct(plan)
    PROVE  /\ Tail(plan) \in Entries /\ PlanDistinct(Tail(plan))
           /\ Head(plan) \in [price: Prices, ord: Orders] /\ Head(plan).ord # Null
           /\ \A i \in DOMAIN Tail(plan) :
                /\ i + 1 \in DOMAIN plan /\ Tail(plan)[i] = plan[i + 1]
                /\ Head(plan).price # Tail(plan)[i].price /\ Head(plan).ord # Tail(plan)[i].ord
           /\ 1 \in DOMAIN plan /\ Head(plan) = plan[1]
           /\ \A i \in DOMAIN plan : i = 1 \/ \E j \in DOMAIN Tail(plan) : plan[i] = Tail(plan)[j]
<1> DEFINE E == [price: Prices, ord: Orders]
<1>1. plan \in Seq(E)
  BY DEF Entries
<1> HIDE DEF E
<1>2. /\ Tail(plan) \in Seq(E) /\ Len(Tail(plan)) = Len(plan) - 1 /\ Len(plan) \in Nat \ {0}
      /\ Head(plan) = plan[1] /\ Head(plan) \in E
      /\ \A i \in 1..Len(Tail(plan)) : Tail(plan)[i] = plan[i + 1]
  BY <1>1
<1>3. DOMAIN plan = 1..Len(plan) /\ DOMAIN Tail(plan) = 1..Len(Tail(plan))
  BY <1>1, <1>2
<1>4. \A i \in DOMAIN Tail(plan) : i + 1 \in DOMAIN plan /\ i + 1 # 1 /\ i \in Nat
  BY <1>2, <1>3
<1>5. \A i \in DOMAIN plan : i = 1 \/ (i - 1 \in DOMAIN Tail(plan) /\ (i - 1) + 1 = i)
  BY <1>2, <1>3
<1>6. 1 \in DOMAIN plan
  BY <1>2, <1>3
<1>7. \A i, j \in DOMAIN Tail(plan) : i # j => i + 1 # j + 1
  BY <1>4
<1>8. PlanDistinct(Tail(plan))
  BY <1>2, <1>3, <1>4, <1>7 DEF PlanDistinct
<1>9. \A i \in DOMAIN Tail(plan) :
        Head(plan).price # Tail(plan)[i].price /\ Head(plan).ord # Tail(plan)[i].ord
  BY <1>2, <1>3, <1>4, <1>6 DEF PlanDistinct
<1>10. Head(plan).ord # Null
  BY <1>2, <1>6 DEF PlanDistinct
<1> QED
  BY <1>2, <1>3, <1>4, <1>5, <1>6, <1>8, <1>9, <1>10 DEF E, Entries

\* The row that one UPDATE of phase 2 writes.
LEMMA PutRow ==
    ASSUME OneByOne, NEW s \in Sessions, pc[s] = "put"
    PROVE  LET e == Head(job[s].plan)
           IN  /\ job[s].plan \in Entries /\ job[s].plan # <<>> /\ PlanDistinct(job[s].plan)
               /\ Target(s) = {r \in Visible(s) : GroupOf(r) = job[s].group /\ PriceOf(r) = e.price}
               /\ \A q, r \in Target(s) : q = r
               /\ \A r \in InGroup(s, job[s].group) : Seen(s, r) # e.ord
<1>1. job[s].plan \in Entries /\ job[s].plan # <<>>
  BY DEF OneByOne, Inv, TypeOK, Job, Entries, Stepping
<1>2. PlanDistinct(job[s].plan) /\ Numbering(s)
  BY DEF OneByOne, NumInv, Numbering
<1>3. Target(s) = {r \in Visible(s) : GroupOf(r) = job[s].group /\ PriceOf(r) = Head(job[s].plan).price}
  BY AllMatching DEF Matching, InGroup, OfPrice
<1>4. \A q, r \in Target(s) : q = r
  BY <1>3, SeenOnce DEF OneByOne
<1>5. \A r \in InGroup(s, job[s].group) : Seen(s, r) # Head(job[s].plan).ord
  BY <1>1, <1>2, FirstEntry DEF Numbering
<1> QED
  BY <1>1, <1>2, <1>3, <1>4, <1>5

\* The unique index never refuses it.
LEMMA PutIsFree == ASSUME OneByOne PROVE NumberingNeverRefused
<1> SUFFICES ASSUME NEW s \in Sessions, pc[s] = "put" PROVE ~PutRefused(s)
  BY DEF NumberingNeverRefused, Runs
<1> DEFINE T == Target(s)
<1>1. /\ \A q, r \in T : q = r
      /\ \A r \in InGroup(s, job[s].group) : Seen(s, r) # Head(job[s].plan).ord
  BY PutRow
<1>2. Cardinality(T) \in {0, 1}
  <2> HIDE DEF T
  <2>1. CASE T = {}
    BY <2>1, FS_EmptySet
  <2>2. CASE T # {}
    <3>1. PICK x : T = {x}
      BY <1>1, <2>2
    <3> QED
      BY <3>1, FS_Singleton
  <2> QED
    BY <2>1, <2>2
<1>3. ~(Cardinality(T) > 1)
  BY <1>2
<1> QED
  BY <1>1, <1>3 DEF PutRefused

LEMMA PutKeepsNum == ASSUME OneByOne, NEW s \in Sessions, PutOrder(s) PROVE NumInv'
<1> DEFINE g == job[s].group
           plan == job[s].plan
           rest == Tail(plan)
           e == Head(plan)
           work == IF rest # <<>> THEN [job[s] EXCEPT !.plan = rest]
                   ELSE [job[s] EXCEPT !.plan = rest, !.group = NoGroup]
           step == IF rest # <<>> THEN "put" ELSE NextStep(work)
           T == Target(s)
           Left == {rest[i].price : i \in DOMAIN rest}
<1>1. /\ pc[s] = "put" /\ links' = links
      /\ pend' = [pend EXCEPT ![s] = [r \in Rows |-> IF r \in T THEN e.ord ELSE @[r]]]
      /\ job' = [job EXCEPT ![s] = work] /\ Goto(s, step)
  BY DEF PutOrder, Runs
<1>2. /\ plan \in Entries /\ plan # <<>> /\ PlanDistinct(plan)
      /\ T = {r \in Visible(s) : GroupOf(r) = g /\ PriceOf(r) = e.price}
      /\ \A q, r \in T : q = r
      /\ \A r \in InGroup(s, g) : Seen(s, r) # e.ord
  BY <1>1, PutRow
<1>3. /\ rest \in Entries /\ PlanDistinct(rest)
      /\ e \in [price: Prices, ord: Orders] /\ e.ord # Null
      /\ \A i \in DOMAIN rest : /\ i + 1 \in DOMAIN plan /\ rest[i] = plan[i + 1]
                                /\ e.price # rest[i].price /\ e.ord # rest[i].ord
      /\ 1 \in DOMAIN plan /\ e = plan[1]
      /\ \A i \in DOMAIN plan : i = 1 \/ \E j \in DOMAIN rest : plan[i] = rest[j]
  BY <1>2, FirstEntry
<1>4. OrdersSeen(s) /\ Numbering(s)
  BY <1>1, SeesOrders DEF OneByOne, NumInv
<1>5. PICK x : x = e.ord
  OBVIOUS
<1>6. x # Absent /\ x # Keep /\ x # Null
  BY <1>3, <1>5, Names
<1>7. PICK U : U = T
  OBVIOUS
<1>8. /\ \A r \in U : Seen(s, r)' = x
      /\ \A r \in Rows \ U : Seen(s, r)' = Seen(s, r)
      /\ U \subseteq Rows
  <2>1. U \subseteq Rows
    BY <1>2, <1>7 DEF Visible
  <2> HIDE DEF T, e
  <2> QED
    BY <1>1, <1>5, <1>6, <1>7, <2>1 DEF Seen, OneByOne, Inv, TypeOK
<1>9. Visible(s)' = Visible(s)
  <2>1. \A r \in U : Seen(s, r) # Absent
    BY <1>2, <1>7 DEF Visible
  <2> QED
    BY <1>6, <1>8, <2>1 DEF Visible
<1>10. Unplaced(s) = {e.price} \cup Left /\ e.price \notin Left
  BY <1>3 DEF Unplaced
<1>11. ASSUME NEW r \in Visible(s)
       PROVE  Seen(s, r)' = Null <=> GroupOf(r) = g /\ PriceOf(r) \in Left
  <2>1. r \in Rows
    BY DEF Visible
  <2> HIDE DEF T, Left, e
  <2>2. CASE r \in U
    BY <1>2, <1>6, <1>7, <1>8, <1>10, <2>2
  <2>3. CASE r \notin U
    <3>1. Seen(s, r)' = Seen(s, r)
      BY <1>8, <2>1, <2>3
    <3>2. Seen(s, r) = Null <=> GroupOf(r) = g /\ PriceOf(r) \in {e.price} \cup Left
      BY <1>1, <1>4, <1>10 DEF OrdersSeen, ToPlace
    <3>3. ~(GroupOf(r) = g /\ PriceOf(r) = e.price)
      BY <1>2, <1>7, <2>3
    <3> QED
      BY <3>1, <3>2, <3>3
  <2> QED
    BY <2>2, <2>3
<1>12. ASSUME NEW q \in Visible(s), NEW r \in Visible(s), q # r, GroupOf(q) = GroupOf(r),
              Seen(s, q)' # Null
       PROVE  Seen(s, q)' # Seen(s, r)'
  <2>1. q \in Rows /\ r \in Rows
    BY DEF Visible
  <2> HIDE DEF T, Left, e
  <2>2. CASE q \in U
    <3>1. r \notin U /\ r \in InGroup(s, g)
      BY <1>2, <1>7, <1>12, <2>2 DEF InGroup
    <3> QED
      BY <1>2, <1>5, <1>8, <2>1, <2>2, <3>1
  <2>3. CASE r \in U
    <3>1. q \notin U /\ q \in InGroup(s, g)
      BY <1>2, <1>7, <1>12, <2>3 DEF InGroup
    <3> QED
      BY <1>2, <1>5, <1>8, <2>1, <2>3, <3>1
  <2>4. CASE q \notin U /\ r \notin U
    <3>1. Seen(s, q)' = Seen(s, q) /\ Seen(s, r)' = Seen(s, r)
      BY <1>8, <2>1, <2>4
    <3> QED
      BY <1>4, <1>12, <3>1 DEF OrdersSeen
  <2> QED
    BY <2>2, <2>3, <2>4
<1>13. pc'[s] = step /\ job'[s] = work
  BY <1>1 DEF Goto, OneByOne, Inv, TypeOK
<1>14. job[s] \in Job
  BY DEF OneByOne, Inv, TypeOK
<1>15. CASE rest # <<>>
  <2>1. pc'[s] = "put" /\ job'[s].group = g /\ job'[s].plan = rest
    BY <1>13, <1>14, <1>15 DEF Job
  <2>2. \A r \in Visible(s) : ToPlace(s, r)' <=> GroupOf(r) = g /\ PriceOf(r) \in Left
    BY <2>1 DEF ToPlace, Unplaced
  <2> HIDE DEF T, e, Left
  <2>3. OrdersSeen(s)'
    <3> HIDE DEF rest, plan
    <3> QED
      BY <1>9, <1>11, <1>12, <2>2 DEF OrdersSeen
  <2>4. PlanDistinct(job[s].plan)'
    BY <1>3, <2>1 DEF PlanDistinct
  <2>5. ASSUME NEW r \in InGroup(s, g), NEW i \in DOMAIN rest PROVE Seen(s, r)' # rest[i].ord
    <3>1. r \in Rows
      BY DEF InGroup, Visible
    <3>2. CASE r \in U
      BY <1>3, <1>5, <1>8, <3>2
    <3>3. CASE r \notin U
      <4>1. i + 1 \in DOMAIN plan /\ rest[i] = plan[i + 1]
        BY <1>3
      <4>2. Seen(s, r) # plan[i + 1].ord
        BY <1>1, <1>4, <4>1 DEF Numbering
      <4> QED
        BY <1>8, <3>1, <3>3, <4>1, <4>2
    <3> QED
      BY <3>2, <3>3
  <2>6. InGroup(s, job[s].group)' = InGroup(s, g)
    BY <1>9, <2>1 DEF InGroup
  <2>7. Numbering(s)'
    BY <2>1, <2>4, <2>5, <2>6 DEF Numbering
  <2> QED
    BY <1>1, <1>15, <2>3, <2>7, NumberingKept DEF Starts
<1>16. CASE rest = <<>>
  <2>1. Left = {}
    BY <1>16
  <2>2. step \in Calm
    BY <1>16, NextIsCalm
  <2> HIDE DEF T, e, Left, step, work
  <2>3. pc'[s] \in Calm
    BY <1>13, <2>2
  <2>4. OrdersSeen(s)'
    <3>1. \A r : ~ToPlace(s, r)'
      BY <2>3 DEF ToPlace, Calm
    <3> HIDE DEF rest, plan
    <3> QED
      BY <1>9, <1>11, <1>12, <2>1, <3>1 DEF OrdersSeen
  <2>5. Numbering(s)'
    BY <2>3 DEF Numbering, Calm
  <2> QED
    BY <1>1, <2>4, <2>5, NumberingKept DEF Starts
<1> QED
  BY <1>15, <1>16

GroupMap(s, g, f, q, val, entries) ==
    LET n == Len(q)
    IN  /\ n \in Nat /\ n = Cardinality(InGroup(s, g))
        /\ q \in [1..n -> InGroup(s, g)] /\ f \in [1..n -> 1..n]
        /\ entries = [k \in 1..n |-> [price |-> PriceOf(q[f[k]]), ord |-> val[f[k]]]]
        /\ \A k, l \in 1..n : k # l => /\ f[k] # f[l] /\ q[f[k]] # q[f[l]]
                                       /\ PriceOf(q[f[k]]) # PriceOf(q[f[l]])
        /\ \A i \in 1..n : \E k \in 1..n : f[k] = i
        /\ \A r \in InGroup(s, g) : \E k \in 1..n : q[f[k]] = r

\* The order_map of the rows of a group: every price once, and every row.
LEMMA MapOfGroup ==
    ASSUME Inv, NEW s \in Sessions, NEW g, NEW q \in Listings(s, InGroup(s, g)), NEW val,
           NEW entries \in OrderMaps(q, val)
    PROVE  \E f : GroupMap(s, g, f, q, val, entries)
<1>0. PICK n : n = Cardinality(InGroup(s, g))
  OBVIOUS
<1>1. InGroup(s, g) \in SUBSET Rows /\ InGroup(s, g) \subseteq Visible(s)
  BY DEF InGroup, Visible
<1>2. n \in Nat /\ q \in [1..n -> InGroup(s, g)] /\ Len(q) = n
  BY <1>0, <1>1, ListingRows
<1>3. /\ \A i, j \in 1..n : i # j => q[i] # q[j]
      /\ \A r \in InGroup(s, g) : \E i \in 1..n : q[i] = r
  BY <1>0, <1>1, ListingHasAll
<1>4. ASSUME NEW i \in 1..n, NEW j \in 1..n, i # j PROVE PriceOf(q[i]) # PriceOf(q[j])
  <2>1. q[i] \in Visible(s) /\ q[j] \in Visible(s) /\ q[i] # q[j]
    BY <1>1, <1>2, <1>3, <1>4
  <2>2. GroupOf(q[i]) = g /\ GroupOf(q[j]) = g
    BY <1>2 DEF InGroup
  <2> QED
    BY <2>1, <2>2, SeenOnce
<1>5. q \in [1..n -> Rows]
  BY <1>1, <1>2
<1>60. \E f : MapWith(f, n, q, val, entries)
  <2>1. \A i, j \in 1..n : i # j => PriceOf(q[i]) # PriceOf(q[j])
    BY <1>4
  <2> QED
    BY <1>2, <1>5, <2>1, MapOfListing
<1>61. PICK f : MapWith(f, n, q, val, entries)
  BY <1>60
<1>6. /\ \A k, l \in 1..n : k < l => f[k] < f[l]
      /\ \A i \in 1..n : \E k \in 1..n : f[k] = i
  BY <1>61 DEF MapWith
<1>12. f \in [1..n -> 1..n]
  BY <1>61 DEF MapWith
<1>9. entries = [k \in 1..n |-> [price |-> PriceOf(q[f[k]]), ord |-> val[f[k]]]]
  BY <1>61 DEF MapWith
<1>7. ASSUME NEW k \in 1..n, NEW l \in 1..n, k # l
      PROVE  f[k] # f[l] /\ q[f[k]] # q[f[l]] /\ PriceOf(q[f[k]]) # PriceOf(q[f[l]])
  <2>1. f[k] \in 1..n /\ f[l] \in 1..n
    BY <1>12
  <2>3. k \in Int /\ l \in Int /\ f[k] \in Int /\ f[l] \in Int /\ (k < l \/ l < k)
    BY <1>2, <1>7, <2>1
  <2>4. k < l => f[k] < f[l]
    BY <1>6
  <2>5. l < k => f[l] < f[k]
    BY <1>6
  <2>2. f[k] # f[l]
    BY <2>3, <2>4, <2>5
  <2> QED
    BY <1>3, <1>4, <2>1, <2>2
<1>8. \A r \in InGroup(s, g) : \E k \in 1..n : q[f[k]] = r
  BY <1>3, <1>6
<1>10. n = Len(q) /\ n = Cardinality(InGroup(s, g))
  BY <1>0, <1>2
<1>13. \A i \in 1..n : \E k \in 1..n : f[k] = i
  BY <1>6
<1>11. \A k, l \in 1..n : k # l => /\ f[k] # f[l] /\ q[f[k]] # q[f[l]]
                                   /\ PriceOf(q[f[k]]) # PriceOf(q[f[l]])
  BY <1>7
<1>14. GroupMap(s, g, f, q, val, entries)
  <2>1. n = Len(q)
    BY <1>2
  <2>2. /\ Len(q) \in Nat /\ Len(q) = Cardinality(InGroup(s, g))
        /\ q \in [1..Len(q) -> InGroup(s, g)] /\ f \in [1..Len(q) -> 1..Len(q)]
    BY <1>2, <1>10, <1>12
  <2>3. entries = [k \in 1..Len(q) |-> [price |-> PriceOf(q[f[k]]), ord |-> val[f[k]]]]
    BY <1>9, <2>1
  <2>4. /\ \A k, l \in 1..Len(q) : k # l => /\ f[k] # f[l] /\ q[f[k]] # q[f[l]]
                                            /\ PriceOf(q[f[k]]) # PriceOf(q[f[l]])
        /\ \A i \in 1..Len(q) : \E k \in 1..Len(q) : f[k] = i
        /\ \A r \in InGroup(s, g) : \E k \in 1..Len(q) : q[f[k]] = r
    BY <1>8, <1>11, <1>13, <2>1
  <2> QED
    BY <2>2, <2>3, <2>4, Zenon DEF GroupMap
<1> QED
  BY <1>14

\* A numbering starts.
LEMMA NumberingStarts ==
    ASSUME OneByOne, NEW s \in Sessions, Starts(s), pc[s] # "put", Goto(s, "null"),
           UNCHANGED <<links, pend>>,
           NEW g, job'[s].group = g, NEW plan, job'[s].plan = plan, PlanDistinct(plan),
           \A r \in InGroup(s, g) : \E i \in DOMAIN plan : plan[i].price = PriceOf(r)
    PROVE  NumInv'
<1>1. pc'[s] = "null"
  BY DEF Goto, OneByOne, Inv, TypeOK
<1>2. OrdersSeen(s)'
  BY <1>1, SameSeen, FewerOrders
<1>3. InGroup(s, g)' = InGroup(s, g)
  BY DEF InGroup, Visible, Seen
<1>4. \A r \in InGroup(s, g) : PriceOf(r) \in Unplaced(s)'
  BY DEF Unplaced
<1>5. Numbering(s)'
  BY <1>1, <1>3, <1>4 DEF Numbering, InGroup, PlanDistinct
<1> QED
  BY <1>2, <1>5, NumberingKept

\* A plan that gives the rows of a group, in the order of their listing, the
\* orders 1, 2, ...
Renumbered(s, g, q, plan) ==
    LET n == Cardinality(InGroup(s, g))
    IN  /\ n \in Nat /\ q \in [1..n -> InGroup(s, g)]
        /\ \A i, j \in 1..n : i < j => ~Before(s, q[j], q[i])
        /\ \A i \in 1..n : \E k \in DOMAIN plan : plan[k].price = PriceOf(q[i]) /\ plan[k].ord = i
        /\ \A r \in InGroup(s, g) : \E i \in 1..n : q[i] = r
        /\ PlanDistinct(plan)

\* What Renumber leaves of the local variables: no numbering, or one.
SkipsGroup(s, g) ==
    LET work == [job[s] EXCEPT !.fix = @ \ {g}]
    IN  /\ GroupSeen(s, g) => InGroup(s, g) = {}
        /\ job'[s] = work /\ Goto(s, NextStep(work))
NumbersGroup(s, g) ==
    /\ job'[s].group = g /\ job'[s].fix = job[s].fix \ {g} /\ Goto(s, "null")
    /\ \E q : Renumbered(s, g, q, job'[s].plan)

LEMMA RenumberGives ==
    ASSUME OneByOne, NEW s \in Sessions, Renumber(s)
    PROVE  /\ pc[s] = "number" /\ UNCHANGED <<links, groups, pend, req>>
           /\ \E g \in job[s].fix : SkipsGroup(s, g) \/ NumbersGroup(s, g)
<1> DEFINE Rest(g) == IF GroupSeen(s, g) THEN InGroup(s, g) ELSE {}
           Left(g) == [job[s] EXCEPT !.fix = @ \ {g}]
<1>1. pc[s] = "number" /\ UNCHANGED <<links, groups, pend, req>>
  BY DEF Renumber, Runs
<1>2. PICK g \in job[s].fix :
        IF Rest(g) = {}
        THEN job' = [job EXCEPT ![s] = Left(g)] /\ Goto(s, NextStep(Left(g)))
        ELSE /\ \E q \in Listings(s, Rest(g)) :
                \E plan \in OrderMaps(q, [i \in 1..Len(q) |-> i]) :
                    job' = [job EXCEPT ![s] = [Left(g) EXCEPT !.group = g, !.plan = plan]]
             /\ Goto(s, "null")
  BY DEF Renumber
<1>3. CASE Rest(g) = {}
  <2> DEFINE work == Left(g)
  <2>1. job' = [job EXCEPT ![s] = work] /\ Goto(s, NextStep(work))
    BY <1>2, <1>3
  <2>2. job'[s] = work
    <3> HIDE DEF work
    <3> QED
      BY <2>1 DEF OneByOne, Inv, TypeOK
  <2>3. GroupSeen(s, g) => InGroup(s, g) = {}
    BY <1>3
  <2> QED
    BY <1>1, <2>1, <2>2, <2>3 DEF SkipsGroup
<1>4. CASE Rest(g) # {}
  <2>1. Rest(g) = InGroup(s, g)
    BY <1>4
  <2>2. PICK q \in Listings(s, InGroup(s, g)) :
          \E plan \in OrderMaps(q, [i \in 1..Len(q) |-> i]) :
             job' = [job EXCEPT ![s] = [Left(g) EXCEPT !.group = g, !.plan = plan]]
    BY <1>2, <1>4, <2>1
  <2> DEFINE val == [i \in 1..Len(q) |-> i]
             work == Left(g)
  <2>3. PICK plan \in OrderMaps(q, val) :
             job' = [job EXCEPT ![s] = [work EXCEPT !.group = g, !.plan = plan]]
    BY <2>2
  <2>20. PICK f : GroupMap(s, g, f, q, val, plan)
    <3> HIDE DEF val
    <3> QED
      BY <2>3, MapOfGroup DEF OneByOne
  <2> DEFINE n == Len(q)
  <2>4. /\ n \in Nat /\ n = Cardinality(InGroup(s, g)) /\ f \in [1..n -> 1..n]
        /\ q \in [1..n -> InGroup(s, g)]
        /\ plan = [k \in 1..n |-> [price |-> PriceOf(q[f[k]]), ord |-> val[f[k]]]]
        /\ \A k, l \in 1..n : k # l => f[k] # f[l] /\ PriceOf(q[f[k]]) # PriceOf(q[f[l]])
        /\ \A r \in InGroup(s, g) : \E k \in 1..n : q[f[k]] = r
        /\ \A i \in 1..n : \E k \in 1..n : f[k] = i
    <3> HIDE DEF val
    <3> QED
      BY <2>20 DEF GroupMap
  <2>30. \A k, l \in 1..n : k # l => f[k] # f[l] /\ PriceOf(q[f[k]]) # PriceOf(q[f[l]])
    BY <2>4
  <2>40. /\ n \in Nat /\ q \in [1..n -> InGroup(s, g)]
         /\ \A r \in InGroup(s, g) : \E k \in 1..n : q[f[k]] = r
         /\ \A i \in 1..n : \E k \in 1..n : f[k] = i
    BY <2>4
  <2>5. \A k \in 1..n : f[k] \in 1..n /\ val[f[k]] = f[k]
    BY <2>4
  <2> HIDE DEF val, n
  <2>6. /\ DOMAIN plan = 1..n
        /\ \A k \in 1..n : plan[k].price = PriceOf(q[f[k]]) /\ plan[k].ord = f[k]
    BY <2>4, <2>5
  <2>7. PlanDistinct(plan)
    <3>1. \A k \in 1..n : f[k] # 0
      BY <2>5
    <3> QED
      BY <2>30, <2>6, <3>1 DEF PlanDistinct, Null
  <2>8. \A r \in InGroup(s, g) : \E i \in 1..n : q[i] = r
    BY <2>40, <2>5
  <2>11. \A i \in 1..n : \E k \in DOMAIN plan : plan[k].price = PriceOf(q[i]) /\ plan[k].ord = i
    <3> TAKE i \in 1..n
    <3>1. PICK k \in 1..n : f[k] = i
      BY <2>40
    <3>2. plan[k].price = PriceOf(q[i]) /\ plan[k].ord = i /\ k \in DOMAIN plan
      BY <2>6, <3>1
    <3> QED
      BY <3>2
  <2>12. \A i, j \in 1..n : i < j => ~Before(s, q[j], q[i])
    BY <2>2, <2>4 DEF Listings
  <2>9. job'[s].group = g /\ job'[s].plan = plan /\ job'[s].fix = job[s].fix \ {g}
    <3>1. job[s] \in Job /\ g \in Groups
      BY <1>2, OneField DEF OneByOne, Inv, TypeOK
    <3>10. PICK x : x = job[s].fix \ {g}
      OBVIOUS
    <3>2. work = [job[s] EXCEPT !.fix = x] /\ x \in SUBSET Groups
      BY <3>1, <3>10, OneField
    <3>3. work \in Job /\ work.fix = x
      BY <3>1, <3>2, OneField DEF Job
    <3> HIDE DEF work
    <3> DEFINE j1 == [work EXCEPT !.group = g]
    <3>4. j1 \in Job /\ j1.group = g /\ j1.fix = x
      BY <3>1, <3>3, OneField DEF Job
    <3>5. job' = [job EXCEPT ![s] = [j1 EXCEPT !.plan = plan]]
      BY <2>3
    <3> HIDE DEF j1
    <3> DEFINE w == [j1 EXCEPT !.plan = plan]
    <3>6. w.group = g /\ w.plan = plan /\ w.fix = x
      BY <3>4 DEF Job
    <3> HIDE DEF w
    <3>7. job' = [job EXCEPT ![s] = w]
      BY <3>5 DEF w
    <3> QED
      BY <3>6, <3>7, <3>10 DEF OneByOne, Inv, TypeOK
  <2>10. Goto(s, "null")
    BY <1>2, <1>4
  <2>13. Renumbered(s, g, q, plan)
    BY <2>4, <2>7, <2>8, <2>11, <2>12 DEF Renumbered
  <2> QED
    BY <1>1, <2>9, <2>10, <2>13 DEF NumbersGroup
<1> QED
  BY <1>3, <1>4

LEMMA RenumberKeepsNum == ASSUME OneByOne, NEW s \in Sessions, Renumber(s) PROVE NumInv'
<1>1. pc[s] = "number" /\ UNCHANGED <<links, pend>>
  BY RenumberGives
<1>2. PICK g : SkipsGroup(s, g) \/ NumbersGroup(s, g)
  BY RenumberGives
<1>3. CASE SkipsGroup(s, g)
  BY <1>1, <1>3, NextIsCalm, SameSeen, CalmStep DEF Starts, SkipsGroup
<1>4. CASE NumbersGroup(s, g)
  <2>1. PICK plan : plan = job'[s].plan
    OBVIOUS
  <2>2. PICK q : Renumbered(s, g, q, plan)
    BY <1>4, <2>1 DEF NumbersGroup
  <2>3. \A r \in InGroup(s, g) : \E i \in DOMAIN plan : plan[i].price = PriceOf(r)
    BY <2>2 DEF Renumbered
  <2>4. PlanDistinct(plan) /\ job'[s].group = g /\ Goto(s, "null")
    BY <1>4, <2>2 DEF NumbersGroup, Renumbered
  <2> QED
    BY <1>1, <2>1, <2>3, <2>4, NumberingStarts DEF Starts
<1> QED
  BY <1>2, <1>3, <1>4

\* The orders a reorder request starts from.
NamedIn(entries) == {entries[k].price : k \in DOMAIN entries}
CurOf(entries) == [p \in NamedIn(entries) |->
                    (CHOOSE e \in {entries[k] : k \in DOMAIN entries} : e.price = p).ord]

\* Every price once, with an order of its own.
OneEach(entries, m) ==
    /\ DOMAIN entries = 1..m
    /\ \A k \in 1..m : entries[k].ord \in Nat \ {0}
    /\ \A k, l \in 1..m : k # l => /\ entries[k].price # entries[l].price
                                   /\ entries[k].ord # entries[l].ord

LEMMA OrdersListed ==
    ASSUME NEW m \in Nat, NEW entries, OneEach(entries, m)
    PROVE  /\ CurOf(entries) \in [NamedIn(entries) -> Nat \ {0}] /\ Distinct(CurOf(entries))
           /\ \A k \in 1..m : CurOf(entries)[entries[k].price] = entries[k].ord
<1> DEFINE E == {entries[k] : k \in DOMAIN entries}
           Of(p) == CHOOSE e \in E : e.price = p
           named == NamedIn(entries)
           cur == CurOf(entries)
<1>0. /\ DOMAIN entries = 1..m
      /\ \A k \in 1..m : entries[k].ord \in Nat \ {0}
      /\ \A k, l \in 1..m : k # l => /\ entries[k].price # entries[l].price
                                      /\ entries[k].ord # entries[l].ord
  BY DEF OneEach
<1>1. E = {entries[k] : k \in 1..m} /\ named = {entries[k].price : k \in 1..m}
  BY <1>0 DEF NamedIn
<1>2. ASSUME NEW k \in 1..m PROVE Of(entries[k].price) = entries[k]
  <2>1. entries[k] \in E
    BY <1>1
  <2>2. \A e \in E : e.price = entries[k].price => e = entries[k]
    BY <1>0, <1>1
  <2> HIDE DEF E
  <2>3. Of(entries[k].price) \in E /\ Of(entries[k].price).price = entries[k].price
    BY <2>1
  <2> QED
    BY <2>2, <2>3
<1>3. cur = [p \in named |-> Of(p).ord]
  BY DEF CurOf
<1> HIDE DEF E, Of, named, cur
<1>4. \A k \in 1..m : entries[k].price \in named /\ cur[entries[k].price] = entries[k].ord
  BY <1>1, <1>2, <1>3
<1>5. \A p \in named : \E k \in 1..m : p = entries[k].price
  BY <1>1
<1>6. \A p \in named : cur[p] \in Nat \ {0}
  BY <1>0, <1>4, <1>5
<1>7. cur \in [named -> Nat \ {0}]
  BY <1>3, <1>6
<1>8. ASSUME NEW x \in named, NEW y \in named, x # y PROVE cur[x] # cur[y]
  <2>1. PICK k \in 1..m : x = entries[k].price
    BY <1>5
  <2>2. PICK l \in 1..m : y = entries[l].price
    BY <1>5
  <2> QED
    BY <1>0, <1>4, <1>8, <2>1, <2>2
<1> QED
  BY <1>3, <1>4, <1>7, <1>8 DEF Distinct, named, cur

\* The orders that the rows of a group have, by price; each has its own.
Listed(s, g, Ps, cur) ==
    /\ cur \in [Ps -> Nat \ {0}] /\ Distinct(cur)
    /\ Cardinality(InGroup(s, g)) \in Nat \ {0}
    /\ \A r \in InGroup(s, g) : PriceOf(r) \in Ps /\ cur[PriceOf(r)] = Seen(s, r)
    /\ \A p \in Ps : \E r \in InGroup(s, g) : PriceOf(r) = p

\* The request is about these changes of that group.
AsksFor(s, g, Ps, changes) ==
    LET n == Len(changes)
    IN  /\ n \in Nat \ {0}
        /\ \A i \in 1..n : changes[i].price \in Ps /\ changes[i].to \in Nat \ {0}
        /\ req'[s] = [NoRequest EXCEPT !.op = "reorder", !.price = changes[n].price,
                                       !.group = g, !.moved = {changes[i].price : i \in 1..n},
                                       !.to = changes[n].to]

\* The plan has every row of the group once, with the order it is to get.
PlanFor(s, g, Ps, final, plan) ==
    /\ PlanDistinct(plan) /\ DOMAIN plan = 1..Cardinality(InGroup(s, g))
    /\ \A k \in DOMAIN plan : plan[k].price \in Ps /\ plan[k].ord = final[plan[k].price]
    /\ \A r \in InGroup(s, g) : \E k \in DOMAIN plan : plan[k].price = PriceOf(r)

LEMMA ReorderGives ==
    ASSUME OneByOne, NEW s \in Sessions, Reorder(s)
    PROVE  /\ pc[s] = "idle" /\ Admitted(s) /\ Goto(s, "null")
           /\ UNCHANGED <<links, groups, pend>>
           /\ \E g \in groups : \E Ps, cur, changes :
                /\ Listed(s, g, Ps, cur) /\ AsksFor(s, g, Ps, changes)
                /\ job'[s].group = g
                /\ PlanFor(s, g, Ps, AfterChanges(cur, Cardinality(InGroup(s, g)), changes),
                           job'[s].plan)
<1> DEFINE Val(q) == [i \in 1..Len(q) |-> IF Seen(s, q[i]) # Null THEN Seen(s, q[i]) ELSE i]
           Chosen(g, n, q, entries) ==
        LET named == {entries[k].price : k \in DOMAIN entries}
            cur == [p \in named |-> (CHOOSE e \in {entries[k] : k \in DOMAIN entries} :
                                        e.price = p).ord]
        IN  /\ q # <<>>
            /\ \E changes \in [1..n -> [price: named, to: 1..MaxOrder]] :
                LET final == AfterChanges(cur, Len(q), changes)
                IN  /\ final \in [named -> Orders]
                    /\ req' = [req EXCEPT ![s] = [NoRequest EXCEPT !.op = "reorder",
                                     !.price = changes[n].price, !.group = g,
                                     !.moved = {changes[i].price : i \in 1..n},
                                     !.to = changes[n].to]]
                    /\ job' = [job EXCEPT ![s].group = g, ![s].plan =
                                 [k \in DOMAIN entries |->
                                    [price |-> entries[k].price,
                                     ord   |-> final[entries[k].price]]]]
<1>1. PICK g \in groups, n \in 1..MaxChanges :
          \E q \in Listings(s, InGroup(s, g)) : \E entries \in OrderMaps(q, Val(q)) :
            Chosen(g, n, q, entries)
  BY DEF Reorder
<1>2. PICK q \in Listings(s, InGroup(s, g)) :
          \E entries \in OrderMaps(q, Val(q)) : Chosen(g, n, q, entries)
  BY <1>1
<1>3. PICK entries \in OrderMaps(q, Val(q)) : Chosen(g, n, q, entries)
  BY <1>2
<1> DEFINE Asked(n1, changes) ==
            req' = [req EXCEPT ![s] = [NoRequest EXCEPT !.op = "reorder",
                             !.price = changes[n1].price, !.group = g,
                             !.moved = {changes[i].price : i \in 1..n1},
                             !.to = changes[n1].to]]
<1>60. \E changes \in [1..n -> [price: NamedIn(entries), to: 1..MaxOrder]] :
        /\ Asked(n, changes)
        /\ job' = [job EXCEPT ![s].group = g, ![s].plan =
                  [k \in DOMAIN entries |->
                     [price |-> entries[k].price,
                      ord   |-> AfterChanges(CurOf(entries), Len(q), changes)[entries[k].price]]]]
  BY <1>3 DEF NamedIn, CurOf
<1> DEFINE named == NamedIn(entries)
           cur == CurOf(entries)
<1> HIDE DEF Asked
<1>6. PICK changes \in [1..n -> [price: named, to: 1..MaxOrder]] :
        /\ Asked(n, changes)
        /\ job' = [job EXCEPT ![s].group = g, ![s].plan =
                  [k \in DOMAIN entries |->
                     [price |-> entries[k].price,
                      ord   |-> AfterChanges(cur, Len(q), changes)[entries[k].price]]]]
  BY <1>60, Zenon
<1> HIDE DEF named, cur
<1>7. PICK final : final = AfterChanges(cur, Len(q), changes)
  OBVIOUS
<1>8. PICK plan : plan = [k \in DOMAIN entries |->
                            [price |-> entries[k].price, ord |-> final[entries[k].price]]]
  OBVIOUS
<1>9. /\ pc[s] = "idle" /\ Admitted(s) /\ Goto(s, "null") /\ UNCHANGED <<links, groups, pend>>
      /\ q # <<>>
  BY <1>3 DEF Reorder
<1>10. job' = [job EXCEPT ![s].group = g, ![s].plan = plan]
  BY <1>6, <1>7, <1>8
<1> HIDE DEF Chosen
<1>11. PICK val : val = Val(q)
  OBVIOUS
<1>12. PICK f : GroupMap(s, g, f, q, val, entries)
  BY <1>3, <1>11, MapOfGroup DEF OneByOne
<1> DEFINE m == Len(q)
<1>13. /\ m \in Nat /\ m # 0 /\ m = Cardinality(InGroup(s, g))
       /\ q \in [1..m -> InGroup(s, g)] /\ f \in [1..m -> 1..m]
  <2>1. m \in Nat /\ m = Cardinality(InGroup(s, g)) /\ q \in [1..m -> InGroup(s, g)]
        /\ f \in [1..m -> 1..m]
    BY <1>12 DEF GroupMap
  <2>2. InGroup(s, g) \in SUBSET Rows
    BY DEF InGroup, Visible
  <2>3. m > 0
    BY <1>9, <2>1, <2>2, ListingRows
  <2> QED
    BY <2>1, <2>3
<1>14. entries = [k \in 1..m |-> [price |-> PriceOf(q[f[k]]), ord |-> val[f[k]]]]
  BY <1>12 DEF GroupMap
<1>15. /\ \A k, l \in 1..m : k # l => /\ q[f[k]] # q[f[l]]
                                      /\ PriceOf(q[f[k]]) # PriceOf(q[f[l]])
       /\ \A r \in InGroup(s, g) : \E k \in 1..m : q[f[k]] = r
  BY <1>12 DEF GroupMap
<1>16. \A r \in InGroup(s, g) : Seen(s, r) \in Nat \ {0} /\ r \in Visible(s) /\ GroupOf(r) = g
  <2>1. OrdersSeen(s) /\ Inv
    BY SeesOrders DEF OneByOne
  <2>2. \A r \in InGroup(s, g) : r \in Visible(s) /\ GroupOf(r) = g /\ ~ToPlace(s, r)
    BY <1>9 DEF InGroup, ToPlace
  <2>3. \A r \in InGroup(s, g) : Seen(s, r) # 0 /\ Seen(s, r) \in Nat
    BY <2>1, <2>2, OrderTyped DEF OrdersSeen, Null
  <2> QED
    BY <2>2, <2>3
<1>17. \A i \in 1..m : val[i] = IF Seen(s, q[i]) # Null THEN Seen(s, q[i]) ELSE i
  BY <1>11
<1> HIDE DEF Val, m
<1>18. ASSUME NEW k \in 1..m
       PROVE  /\ f[k] \in 1..m /\ q[f[k]] \in InGroup(s, g) /\ val[f[k]] = Seen(s, q[f[k]])
              /\ entries[k].price = PriceOf(q[f[k]]) /\ entries[k].ord = val[f[k]]
  <2>1. f[k] \in 1..m
    BY <1>13
  <2>2. q[f[k]] \in InGroup(s, g)
    BY <1>13, <2>1
  <2>3. val[f[k]] = Seen(s, q[f[k]])
    BY <1>16, <1>17, <2>1, <2>2 DEF Null
  <2>4. entries[k] = [price |-> PriceOf(q[f[k]]), ord |-> val[f[k]]]
    BY <1>14
  <2> QED
    BY <2>1, <2>2, <2>3, <2>4
<1>19. DOMAIN entries = 1..m
  BY <1>14
<1>20. \A k \in 1..m : entries[k].ord \in Nat \ {0}
  BY <1>16, <1>18
<1>21. ASSUME NEW k \in 1..m, NEW l \in 1..m, k # l
       PROVE  entries[k].price # entries[l].price /\ entries[k].ord # entries[l].ord
  <2>1. q[f[k]] # q[f[l]] /\ PriceOf(q[f[k]]) # PriceOf(q[f[l]])
    BY <1>15, <1>21
  <2>2. /\ q[f[k]] \in Visible(s) /\ q[f[l]] \in Visible(s)
        /\ GroupOf(q[f[k]]) = GroupOf(q[f[l]]) /\ Seen(s, q[f[k]]) # Null
    BY <1>16, <1>18 DEF Null
  <2>3. Seen(s, q[f[k]]) # Seen(s, q[f[l]])
    BY <2>1, <2>2, SeesOrders DEF OrdersSeen
  <2> QED
    BY <1>18, <2>1, <2>3
<1>22. /\ cur \in [named -> Nat \ {0}] /\ Distinct(cur)
       /\ \A k \in 1..m : cur[entries[k].price] = entries[k].ord
  <2>1. \A k, l \in 1..m : k # l => /\ entries[k].price # entries[l].price
                                    /\ entries[k].ord # entries[l].ord
    BY <1>21
  <2>2. OneEach(entries, m)
    BY <1>19, <1>20, <2>1 DEF OneEach
  <2> QED
    BY <1>13, <2>2, OrdersListed DEF named, cur
<1>29. /\ n \in Nat \ {0} /\ Len(changes) = n
       /\ \A i \in 1..n : changes[i].price \in named /\ changes[i].to \in Nat \ {0}
  <2>1. n \in Nat \ {0} /\ MaxOrder \in Nat
    BY PriceConstants
  <2> DEFINE C == [price: named, to: 1..MaxOrder]
  <2>2. changes \in Seq(C) /\ Len(changes) = n
    <3>1. changes \in [1..n -> C]
      BY <1>6
    <3> HIDE DEF C
    <3> QED
      BY <2>1, <3>1, SeqDef
  <2>3. \A i \in 1..n : changes[i] \in [price: named, to: 1..MaxOrder]
    BY <1>6
  <2> QED
    BY <2>1, <2>2, <2>3
<1>30. final = AfterChanges(cur, m, changes)
  BY <1>7 DEF m
<1>23. final \in [named -> Nat \ {0}] /\ Distinct(final)
  BY <1>13, <1>22, <1>29, <1>30, ChangesKeepDistinct
<1>24. /\ DOMAIN plan = 1..m
       /\ \A k \in 1..m : plan[k].price = entries[k].price /\ plan[k].ord = final[entries[k].price]
  BY <1>8, <1>19
<1>25. \A k \in 1..m : entries[k].price \in named
  BY <1>19 DEF NamedIn, named
<1>26. PlanDistinct(plan)
  <2>1. ASSUME NEW k \in 1..m PROVE plan[k].ord # Null
    <3>1. final[entries[k].price] \in Nat \ {0}
      BY <1>23, <1>25
    <3> QED
      BY <1>24, <3>1 DEF Null
  <2>2. ASSUME NEW k \in 1..m, NEW l \in 1..m, k # l
        PROVE  plan[k].price # plan[l].price /\ plan[k].ord # plan[l].ord
    <3>1. entries[k].price # entries[l].price
      BY <1>21, <2>2
    <3>2. final[entries[k].price] # final[entries[l].price]
      BY <1>23, <1>25, <3>1 DEF Distinct
    <3> QED
      BY <1>24, <3>1, <3>2
  <2> QED
    BY <1>24, <2>1, <2>2 DEF PlanDistinct
<1>27. \A r \in InGroup(s, g) : \E i \in DOMAIN plan : plan[i].price = PriceOf(r)
  BY <1>15, <1>18, <1>24
<1>28. job'[s].group = g /\ job'[s].plan = plan
  <2> DEFINE j1 == [job[s] EXCEPT !.group = g]
             w == [j1 EXCEPT !.plan = plan]
  <2>1. job' = [job EXCEPT ![s] = w]
    BY <1>10 DEF OneByOne, Inv, TypeOK
  <2>2. job[s] \in Job /\ g \in Groups
    BY DEF OneByOne, Inv, TypeOK
  <2>3. j1 \in Job /\ j1.group = g
    BY <2>2, OneField
  <2> HIDE DEF j1
  <2>4. w.group = g /\ w.plan = plan
    BY <2>3 DEF Job
  <2> HIDE DEF w
  <2> QED
    BY <2>1, <2>4 DEF OneByOne, Inv, TypeOK
<1>31. AsksFor(s, g, named, changes)
  <2> DEFINE asked == [NoRequest EXCEPT !.op = "reorder", !.price = changes[n].price,
                                       !.group = g, !.moved = {changes[i].price : i \in 1..n},
                                       !.to = changes[n].to]
  <2>1. req' = [req EXCEPT ![s] = asked]
    BY <1>6 DEF Asked
  <2> HIDE DEF asked
  <2>2. req'[s] = asked
    BY <2>1 DEF OneByOne, Inv, TypeOK
  <2>3. PICK k : k = Len(changes)
    OBVIOUS
  <2>4. k = n
    BY <1>29, <2>3
  <2>5. req'[s] = [NoRequest EXCEPT !.op = "reorder", !.price = changes[Len(changes)].price,
                     !.group = g, !.moved = {changes[i].price : i \in 1..Len(changes)},
                     !.to = changes[Len(changes)].to]
    BY <2>2, <2>3, <2>4 DEF asked
  <2> QED
    BY <1>29, <2>5 DEF AsksFor
<1>32. Listed(s, g, named, cur)
  <2>1. \A r \in InGroup(s, g) : \E k \in 1..m : entries[k].price = PriceOf(r) /\ entries[k].ord = Seen(s, r)
    <3> TAKE r \in InGroup(s, g)
    <3>1. PICK k \in 1..m : q[f[k]] = r
      BY <1>15
    <3>2. entries[k].price = PriceOf(q[f[k]]) /\ entries[k].ord = Seen(s, q[f[k]])
      BY <1>18
    <3> QED
      BY <3>1, <3>2
  <2>2. ASSUME NEW k \in 1..m PROVE cur[entries[k].price] = entries[k].ord
    BY <1>22
  <2>3. \A r \in InGroup(s, g) : PriceOf(r) \in named /\ cur[PriceOf(r)] = Seen(s, r)
    BY <1>25, <2>1, <2>2
  <2>4. \A p \in named : \E k \in 1..m : p = entries[k].price
    BY <1>19 DEF NamedIn, named
  <2>5. \A p \in named : \E r \in InGroup(s, g) : PriceOf(r) = p
    BY <1>18, <2>4
  <2> QED
    BY <1>13, <1>22, <2>3, <2>5 DEF Listed
<1>33. PlanFor(s, g, named, final, plan)
  BY <1>13, <1>24, <1>25, <1>26, <1>27 DEF PlanFor
<1> QED
  BY <1>9, <1>13, <1>28, <1>30, <1>31, <1>32, <1>33

LEMMA ReorderKeepsNum == ASSUME OneByOne, NEW s \in Sessions, Reorder(s) PROVE NumInv'
<1>1. PICK plan : plan = job'[s].plan
  OBVIOUS
<1>2. PICK g, Ps, final : job'[s].group = g /\ PlanFor(s, g, Ps, final, plan)
  BY <1>1, ReorderGives
<1>3. /\ pc[s] = "idle" /\ Admitted(s) /\ Goto(s, "null") /\ UNCHANGED <<links, pend>>
  BY ReorderGives
<1>4. /\ PlanDistinct(plan)
      /\ \A r \in InGroup(s, g) : \E k \in DOMAIN plan : plan[k].price = PriceOf(r)
  BY <1>2 DEF PlanFor
<1> QED
  BY <1>1, <1>2, <1>3, <1>4, NumberingStarts DEF Starts

LEMMA NumInit == Init => NumInv
<1> SUFFICES ASSUME Init PROVE NumInv
  OBVIOUS
<1>1. PICK g \in Groups, order \in [Prices -> 1..Cardinality(Prices)] :
        /\ \A p, q \in Prices : p # q => order[p] # order[q]
        /\ links = [r \in Rows |-> IF GroupOf(r) = g /\ r[3] = FirstCopy THEN order[PriceOf(r)]
                                                                     ELSE Absent]
  BY DEF Init
<1>2. waiting = {} /\ \A s \in Sessions : pc[s] = "idle"
  BY DEF Init
<1>3. \A r \in Linked(links) : /\ r \in Rows /\ r[3] = FirstCopy /\ links[r] = order[PriceOf(r)]
                               /\ PriceOf(r) \in Prices /\ GroupOf(r) = g
  BY <1>1 DEF Linked, Rows, PriceOf
<1>4. \A r \in Linked(links) : order[PriceOf(r)] # 0
  <2>1. Cardinality(Prices) \in Nat
    BY PriceConstants, FS_CardinalityType
  <2> QED
    BY <1>3, <2>1
<1>5. AllNumbered
  BY <1>3, <1>4 DEF AllNumbered, Null
<1>6. OrdersDiffer
  <2> SUFFICES ASSUME NEW q \in Linked(links), NEW r \in Linked(links), q # r
               PROVE  links[q] # links[r]
    BY DEF OrdersDiffer
  <2>1. PriceOf(q) # PriceOf(r)
    BY <1>3 DEF Rows, PriceOf, GroupOf
  <2> QED
    BY <1>1, <1>3, <2>1
<1> QED
  BY <1>2, <1>5, <1>6 DEF NumInv

LEMMA NumStep ==
    ASSUME ~Overlap, Inv, NumInv, [Next]_vars PROVE NumInv'
<1>0. OneByOne
  BY DEF OneByOne
<1>1. CASE Next
  <2>1. PICK s \in Sessions :
          \/ CreatePrice(s) \/ UpdatePrice(s) \/ DeletePrice(s) \/ DeleteGroup(s)
          \/ Reorder(s)
          \/ TouchPrice(s) \/ ReadOldGroups(s) \/ DropLinks(s) \/ ReadMax(s)
          \/ InsertLink(s) \/ Renumber(s) \/ NullOrders(s) \/ PutOrder(s)
          \/ ErasePrice(s) \/ EraseGroup(s) \/ Wait(s)
          \/ Commit(s) \/ Rollback(s)
    BY <1>1 DEF Next
  <2>2. CASE CreatePrice(s) \/ UpdatePrice(s) \/ DeletePrice(s) \/ DeleteGroup(s)
    BY <1>0, <2>2, StartKeepsNum
  <2>3. CASE Reorder(s)
    BY <1>0, <2>3, ReorderKeepsNum
  <2>4. CASE TouchPrice(s) \/ ReadOldGroups(s) \/ DropLinks(s) \/ ErasePrice(s) \/ EraseGroup(s)
    BY <1>0, <2>4, DeleteKeepsNum
  <2>5. CASE ReadMax(s)
    BY <1>0, <2>5, ReadMaxKeepsNum
  <2>6. CASE InsertLink(s)
    BY <1>0, <2>6, InsertKeepsNum
  <2>7. CASE Renumber(s)
    BY <1>0, <2>7, RenumberKeepsNum
  <2>8. CASE NullOrders(s)
    BY <1>0, <2>8, NullKeepsNum
  <2>9. CASE PutOrder(s)
    BY <1>0, <2>9, PutKeepsNum
  <2>10. CASE Wait(s)
    BY <1>0, <2>10, NoWait
  <2>11. CASE Commit(s)
    BY <1>0, <2>11, CommitKeepsNum
  <2>12. CASE Rollback(s)
    BY <1>0, <2>12, RollbackKeepsNum
  <2> QED
    BY <2>1, <2>2, <2>3, <2>4, <2>5, <2>6, <2>7, <2>8, <2>9, <2>10, <2>11, <2>12
<1>2. CASE UNCHANGED vars
  <2>1. links' = links /\ pend' = pend /\ pc' = pc /\ job' = job /\ waiting' = waiting
    BY <1>2 DEF vars
  <2>2. waiting' = {} /\ AllNumbered' /\ OrdersDiffer'
    BY <2>1 DEF NumInv, AllNumbered, OrdersDiffer, Linked
  <2>3. ASSUME NEW s \in Sessions, pc'[s] # "idle" PROVE OrdersSeen(s)' /\ Numbering(s)'
    <3>1. OrdersSeen(s) /\ Numbering(s)
      BY <2>1, <2>3 DEF NumInv
    <3>2. OrdersSeen(s)'
      BY <2>1, <3>1 DEF OrdersSeen, Visible, Seen, ToPlace, Unplaced
    <3>3. Numbering(s)'
      BY <2>1, <3>1 DEF Numbering, InGroup, Visible, Seen, Unplaced
    <3> QED
      BY <3>2, <3>3
  <2> QED
    BY <2>2, <2>3 DEF NumInv
<1> QED
  BY <1>1, <1>2

\* Requests one after another leave every link with an order, one per price
\* and none twice in a group, and an UPDATE of phase 2 always finds the order
\* it writes free, whatever gaps and whichever changes: phase 1 has taken the
\* orders of the group away, and order_map has no price and no order twice.
THEOREM OrdersStayDistinct ==
    ASSUME ~Overlap
    PROVE  Spec => [](AllNumbered /\ NoDuplicateLink /\ OrdersDiffer /\ NumberingNeverRefused)
<1>1. Inv /\ NumInv /\ [Next]_vars => (Inv /\ NumInv)'
  BY NextKeepsInv, NumStep
<1>2. Inv /\ NumInv => AllNumbered /\ NoDuplicateLink /\ OrdersDiffer /\ NumberingNeverRefused
  BY PutIsFree DEF OneByOne, Inv, NumInv
<1> QED
  BY InvInit, NumInit, <1>1, <1>2, PTL DEF Spec

(***************************************************************************)
(* Requests one after the other: what a numbering is going to give a row   *)
(***************************************************************************)

OrdOf(plan, p) == plan[CHOOSE i \in DOMAIN plan : plan[i].price = p].ord

\* The order of a row once the numbering that is going on is done.
Goal(s, r) ==
    IF pc[s] \in {"null", "put"} /\ GroupOf(r) = job[s].group /\ PriceOf(r) \in Unplaced(s)
    THEN OrdOf(job[s].plan, PriceOf(r))
    ELSE Seen(s, r)

DenseGoal(s, g) ==
    {Goal(s, r) : r \in InGroup(s, g)} = 1..Cardinality(InGroup(s, g))

\* Prices that the request does not name keep their order.
Kept(s) ==
    \A q, r \in Visible(s) \cap Linked(links) :
        /\ GroupOf(q) = GroupOf(r) /\ links[q] < links[r]
        /\ PriceOf(q) \notin Named(s) /\ PriceOf(r) \notin Named(s)
        => Goal(s, q) < Goal(s, r)

\* A group that the price has left is numbered 1..n, or still to be numbered.
Loses(s, g) ==
    /\ req[s].op \in {"update", "delete"} /\ g \in groups \ req[s].groups
    /\ \E r \in Linked(links) : PriceOf(r) = req[s].price /\ GroupOf(r) = g
Losses(s) ==
    pc[s] \notin {"touch", "old"} =>
        \A g \in Groups : Loses(s, g) =>
            \/ g \in job[s].fix /\ pc[s] # "commit"
            \/ pc[s] \notin {"drop", "erase"} /\ DenseGoal(s, g)

\* A reorder only gives other orders; what it gives a group numbered 1..n is
\* 1..n, and the price changed last its place.
Landing(s) ==
    req[s].op = "reorder" =>
        LET g == req[s].group
            n == Cardinality(InGroup(s, g))
        IN  /\ pc[s] \in {"null", "put"} => job[s].group = g
            /\ Visible(s) = Linked(links)
            /\ Dense(links, g) =>
                /\ DenseGoal(s, g)
                /\ \E r \in InGroup(s, g) :
                     /\ PriceOf(r) = req[s].price
                     /\ Goal(s, r) = IF req[s].to > n THEN n ELSE req[s].to

\* Until it reads the groups that the price has, an update has written no link.
Early(s) ==
    /\ pc[s] \in {"touch", "old"} => \A r \in Rows : pend[s][r] = Keep
    /\ req[s].op \in {"update", "delete"} => req[s].group = NoGroup

Goals(s) == Kept(s) /\ Losses(s) /\ Landing(s) /\ Early(s)
GoalInv == \A s \in Sessions : pc[s] # "idle" => Goals(s)

\* The plan has one order for each of its prices.
LEMMA OrdOfEntry ==
    ASSUME NEW plan, PlanDistinct(plan), NEW i \in DOMAIN plan
    PROVE  OrdOf(plan, plan[i].price) = plan[i].ord
<1> DEFINE k == CHOOSE j \in DOMAIN plan : plan[j].price = plan[i].price
<1>1. k \in DOMAIN plan /\ plan[k].price = plan[i].price
  OBVIOUS
<1>2. OrdOf(plan, plan[i].price) = plan[k].ord
  BY DEF OrdOf
<1> HIDE DEF k
<1>3. k = i
  BY <1>1 DEF PlanDistinct
<1> QED
  BY <1>2, <1>3

LEMMA GoalSeen ==
    ASSUME NEW s, NEW r, pc[s] \notin {"null", "put"} PROVE Goal(s, r) = Seen(s, r)
  BY DEF Goal

LEMMA GoalSeenNext ==
    ASSUME NEW s, NEW r, pc'[s] \notin {"null", "put"} PROVE Goal(s, r)' = Seen(s, r)'
  BY DEF Goal

\* Only s has something to say, and what it says is about its own.
LEMMA GoalsKept ==
    ASSUME OneByOne, NEW s \in Sessions, Starts(s), NEW step, Goto(s, step),
           step # "idle" => Goals(s)'
    PROVE  GoalInv'
<1>1. pc' = [pc EXCEPT ![s] = step]
  BY DEF Goto
<1>2. \A t \in Sessions \ {s} : pc'[t] = "idle"
  BY <1>1, OthersIdle DEF OneByOne, Inv, TypeOK
<1>3. pc'[s] = step
  BY <1>1 DEF OneByOne, Inv, TypeOK
<1> QED
  BY <1>2, <1>3 DEF GoalInv

\* A step that asks for nothing else and commits nothing.
Asking(s) == links' = links /\ groups' = groups /\ req'[s] = req[s]

\* Rows that were there before the request keep their goal, if they stay.
KeepsGoals(s) ==
    \A r \in Linked(links) : r \in Visible(s)' => r \in Visible(s) /\ Goal(s, r)' = Goal(s, r)

LEMMA KeptStays ==
    ASSUME NEW s, Asking(s), Kept(s), KeepsGoals(s)
    PROVE  Kept(s)'
<1> SUFFICES ASSUME NEW q \in Visible(s)' \cap Linked(links), NEW r \in Visible(s)' \cap Linked(links),
                    GroupOf(q) = GroupOf(r), links[q] < links[r],
                    PriceOf(q) \notin Named(s), PriceOf(r) \notin Named(s)
             PROVE  Goal(s, q)' < Goal(s, r)'
  BY DEF Kept, Asking, Named, Linked
<1>1. q \in Visible(s) /\ r \in Visible(s) /\ Goal(s, q)' = Goal(s, q) /\ Goal(s, r)' = Goal(s, r)
  BY DEF KeepsGoals
<1> QED
  BY <1>1 DEF Kept

\* The rows of a group and what they are to get.
SameGroup(s, g) ==
    InGroup(s, g)' = InGroup(s, g) /\ \A r \in InGroup(s, g) : Goal(s, r)' = Goal(s, r)

LEMMA DenseStays == ASSUME NEW s, NEW g, SameGroup(s, g) PROVE DenseGoal(s, g)' = DenseGoal(s, g)
<1> DEFINE A == {Goal(s, r)' : r \in InGroup(s, g)'}
           B == {Goal(s, r) : r \in InGroup(s, g)}
<1>1. A = B
  BY DEF SameGroup
<1>2. Cardinality(InGroup(s, g)') = Cardinality(InGroup(s, g))
  BY DEF SameGroup
<1>3. DenseGoal(s, g)' <=> A = 1..Cardinality(InGroup(s, g)')
  BY DEF DenseGoal
<1> QED
  BY <1>1, <1>2, <1>3 DEF DenseGoal

LEMMA LossesStay ==
    ASSUME NEW s, Asking(s), Losses(s), pc[s] \notin {"touch", "old"},
           pc'[s] \notin {"drop", "erase"}, pc'[s] = "commit" => job'[s].fix = {},
           job'[s].fix = job[s].fix,
           \A g \in Groups : Loses(s, g) /\ pc[s] \notin {"drop", "erase"} => SameGroup(s, g)
    PROVE  Losses(s)'
<1> SUFFICES ASSUME NEW g \in Groups, Loses(s, g)
             PROVE  \/ g \in job'[s].fix /\ pc'[s] # "commit"
                    \/ pc'[s] \notin {"drop", "erase"} /\ DenseGoal(s, g)'
  BY DEF Losses, Loses, Asking, Linked
<1>1. CASE g \in job[s].fix
  BY <1>1
<1>2. CASE g \notin job[s].fix
  <2>1. pc[s] \notin {"drop", "erase"} /\ DenseGoal(s, g)
    BY <1>2 DEF Losses
  <2> QED
    BY <2>1, DenseStays
<1> QED
  BY <1>1, <1>2

LEMMA NextFixes == ASSUME NEW w, NextStep(w) = "commit" PROVE w.fix = {}
  BY DEF NextStep

\* Requests that start with something else than a numbering: what they see is
\* the table.
LEMMA StartKeepsGoals ==
    ASSUME OneByOne, NEW s \in Sessions,
           CreatePrice(s) \/ UpdatePrice(s) \/ DeletePrice(s) \/ DeleteGroup(s)
    PROVE  GoalInv'
<1>1. pc[s] = "idle" /\ Admitted(s) /\ UNCHANGED <<links, groups, pend>>
  BY DEF CreatePrice, UpdatePrice, DeletePrice, DeleteGroup
<1>2. \A r \in Rows : pend[s][r] = Keep /\ Seen(s, r) = links[r]
  BY <1>1, IdleSees DEF OneByOne, Inv, Stepping, NothingWritten
<1>3. \A r \in Rows : pend'[s][r] = Keep /\ Seen(s, r)' = links[r]
  BY <1>1, <1>2 DEF Seen
<1>4. ASSUME NEW step, Goto(s, step)
      PROVE  pc'[s] = step
  BY <1>4 DEF Goto, OneByOne, Inv, TypeOK
<1>5. ASSUME NEW step \in Calm \ {"null", "put"}, Goto(s, step), Losses(s)', req'[s].op # "reorder",
             req'[s].op \in {"update", "delete"} => req'[s].group = NoGroup
      PROVE  GoalInv'
  <2>1. \A r \in Rows : Goal(s, r)' = links[r]
    BY <1>3, <1>4, <1>5 DEF Goal
  <2>2. Kept(s)'
    <3>1. \A r \in Visible(s)' : Goal(s, r)' = links'[r]
      BY <1>1, <2>1 DEF Visible
    <3> QED
      BY <3>1 DEF Kept
  <2>3. Landing(s)' /\ Early(s)'
    BY <1>3, <1>5 DEF Landing, Early
  <2>4. Goals(s)'
    BY <1>5, <2>2, <2>3 DEF Goals
  <2> QED
    BY <1>1, <1>5, <2>4, GoalsKept DEF Starts
<1>6. \A t \in {"touch", "old", "max", "commit", "erase", "erasegroup"} : t \in Calm \ {"null", "put"}
  BY DEF Calm
<1>7. DOMAIN req = Sessions /\ DOMAIN job = Sessions
  BY DEF OneByOne, Inv, TypeOK
<1>8. CASE CreatePrice(s)
  <2>1. req'[s].op = "create" /\ \E step \in {"max", "commit"} : Goto(s, step)
    BY <1>7, <1>8 DEF CreatePrice, NoRequest
  <2>2. Losses(s)'
    BY <2>1 DEF Losses, Loses
  <2> QED
    BY <1>5, <1>6, <2>1, <2>2
<1>9. CASE UpdatePrice(s)
  <2>1. /\ req'[s].op = "update" /\ req'[s].group = NoGroup
        /\ \E step \in {"touch", "old"} : Goto(s, step)
    BY <1>7, <1>9 DEF UpdatePrice, NoRequest
  <2>2. Losses(s)'
    BY <1>4, <2>1 DEF Losses
  <2> QED
    BY <1>5, <1>6, <2>1, <2>2
<1>10. CASE DeletePrice(s)
  <2>1. PICK p \in prices :
          /\ req' = [req EXCEPT ![s] = [NoRequest EXCEPT !.op = "delete", !.price = p]]
          /\ job' = [job EXCEPT ![s].fix = {GroupOf(r) : r \in OfPrice(s, p)}]
    BY <1>10 DEF DeletePrice
  <2>2. /\ req'[s].op = "delete" /\ req'[s].group = NoGroup /\ req'[s].price = p
        /\ Goto(s, "erase")
    BY <1>7, <1>10, <2>1 DEF DeletePrice, NoRequest
  <2>3. job'[s].fix = {GroupOf(r) : r \in OfPrice(s, p)}
    <3> DEFINE F == {GroupOf(r) : r \in OfPrice(s, p)}
    <3>1. job' = [job EXCEPT ![s].fix = F]
      BY <2>1
    <3> HIDE DEF F
    <3>2. job'[s].fix = F
      BY <1>7, <3>1 DEF OneByOne, Inv, TypeOK, Job
    <3> QED
      BY <3>2 DEF F
  <2>4. Losses(s)'
    <3>1. \A r \in Linked(links) : PriceOf(r) = p => r \in OfPrice(s, p)
      BY <1>2 DEF Linked, OfPrice, Visible
    <3>2. \A g \in Groups : Loses(s, g)' => g \in job'[s].fix
      BY <1>1, <2>2, <2>3, <3>1 DEF Loses
    <3>3. pc'[s] = "erase"
      BY <1>4, <2>2
    <3> QED
      BY <3>2, <3>3 DEF Losses
  <2> QED
    BY <1>5, <1>6, <2>2, <2>4
<1>11. CASE DeleteGroup(s)
  <2>1. req'[s].op = "deletegroup" /\ Goto(s, "erasegroup")
    BY <1>7, <1>11 DEF DeleteGroup, NoRequest
  <2>2. Losses(s)'
    BY <2>1 DEF Losses, Loses
  <2> QED
    BY <1>5, <1>6, <2>1, <2>2
<1> QED
  BY <1>8, <1>9, <1>10, <1>11

\* Statements that delete rows, or write none, outside a numbering.
LEMMA DeleteKeepsGoals ==
    ASSUME OneByOne, GoalInv, NEW s \in Sessions,
           TouchPrice(s) \/ ReadOldGroups(s) \/ DropLinks(s) \/ ErasePrice(s) \/ EraseGroup(s)
    PROVE  GoalInv'
<1>1. ASSUME NEW R, pend' = [pend EXCEPT ![s] = [r \in Rows |-> IF r \in R THEN Absent ELSE @[r]]],
             links' = links
      PROVE  FewerSeen(s)
  BY <1>1, PriceConstants DEF FewerSeen, Seen, OneByOne, Inv, TypeOK
<1>2. /\ pc[s] \in {"touch", "old", "drop", "erase", "erasegroup"} /\ UNCHANGED <<links, groups, req>>
      /\ FewerSeen(s)
  <2>1. CASE TouchPrice(s)
    BY <2>1, SameSeen DEF TouchPrice, Runs
  <2>2. CASE ReadOldGroups(s)
    BY <2>2, SameSeen DEF ReadOldGroups, Runs
  <2>3. CASE DropLinks(s)
    BY <1>1, <2>3 DEF DropLinks, Runs
  <2>4. CASE ErasePrice(s)
    <3>1. FewerSeen(s)
      <4>1. CASE req[s].price \in prices
        BY <1>1, <2>4, <4>1 DEF ErasePrice
      <4>2. CASE req[s].price \notin prices
        BY <2>4, <4>2, SameSeen DEF ErasePrice
      <4> QED
        BY <4>1, <4>2
    <3> QED
      BY <2>4, <3>1 DEF ErasePrice, Runs
  <2>5. CASE EraseGroup(s)
    <3>1. FewerSeen(s)
      <4>1. CASE req[s].group \in groups
        BY <1>1, <2>5, <4>1 DEF EraseGroup
      <4>2. CASE req[s].group \notin groups
        BY <2>5, <4>2, SameSeen DEF EraseGroup
      <4> QED
        BY <4>1, <4>2
    <3> QED
      BY <2>5, <3>1 DEF EraseGroup, Runs
  <2> QED
    BY <2>1, <2>2, <2>3, <2>4, <2>5
<1>3. Goals(s) /\ Stepping(s) /\ req[s] \in Request
  BY <1>2 DEF GoalInv, OneByOne, Inv, TypeOK
<1>4. /\ req[s].op \in {"update", "delete", "deletegroup"}
      /\ pc[s] \in {"touch", "old", "drop"} => req[s].op = "update"
      /\ pc[s] = "erase" => req[s].op = "delete"
      /\ pc[s] = "erasegroup" => req[s].op = "deletegroup"
  BY <1>2, <1>3 DEF Stepping, After, Request
<1>5. ASSUME NEW step \in Calm, Goto(s, step), Losses(s)', Early(s)' PROVE GoalInv'
  <2>1. pc'[s] = step
    BY <1>5 DEF Goto, OneByOne, Inv, TypeOK
  <2>2. \A r \in Rows : Goal(s, r) = Seen(s, r) /\ Goal(s, r)' = Seen(s, r)'
    BY <1>2, <1>5, <2>1, GoalSeen, GoalSeenNext DEF Calm
  <2>3. KeepsGoals(s)
    BY <2>2, <1>2 DEF KeepsGoals, FewerSeen, Visible
  <2>4. Kept(s)'
    BY <1>2, <1>3, <2>3, KeptStays DEF Asking, Goals
  <2>5. Landing(s)'
    BY <1>2, <1>4 DEF Landing
  <2>6. Goals(s)'
    BY <1>5, <2>4, <2>5 DEF Goals
  <2> QED
    BY <1>2, <1>5, <2>6, GoalsKept DEF Starts
<1>6. ASSUME NEW step, Goto(s, step) PROVE pc'[s] = step
  BY <1>6 DEF Goto, OneByOne, Inv, TypeOK
<1>7. CASE TouchPrice(s)
  <2>1. pc'[s] = "old" /\ Goto(s, "old") /\ pend' = pend /\ pc[s] = "touch"
    BY <1>6, <1>7 DEF TouchPrice, Runs
  <2>2. Losses(s)' /\ Early(s)'
    BY <1>2, <1>3, <2>1 DEF Losses, Early, Goals
  <2> QED
    BY <1>5, <2>1, <2>2 DEF Calm
<1>8. CASE ReadOldGroups(s)
  <2> DEFINE F == {GroupOf(r) : r \in OfPrice(s, req[s].price)} \ req[s].groups
  <2>1. pc'[s] = "drop" /\ Goto(s, "drop") /\ pend' = pend /\ pc[s] = "old"
    BY <1>6, <1>8 DEF ReadOldGroups, Runs
  <2>2. job'[s].fix = F
    <3>1. job' = [job EXCEPT ![s].fix = F]
      BY <1>8 DEF ReadOldGroups
    <3> HIDE DEF F
    <3> QED
      BY <3>1 DEF OneByOne, Inv, TypeOK, Job
  <2>3. \A r \in Linked(links) : r \in Visible(s)
    BY <1>3, <2>1 DEF Goals, Early, Linked, Visible, Seen
  <2>4. \A g \in Groups : Loses(s, g)' => g \in F
    BY <1>2, <2>3 DEF Loses, OfPrice
  <2>5. Losses(s)' /\ Early(s)'
    BY <1>2, <1>3, <2>1, <2>2, <2>4 DEF Losses, Early, Goals
  <2> QED
    BY <1>5, <2>1, <2>5 DEF Calm
<1>9. ASSUME pc[s] \in {"drop", "erase"}, job' = job, Goto(s, NextStep(job[s])) PROVE GoalInv'
  <2>1. pc'[s] = NextStep(job[s]) /\ pc'[s] \in {"max", "number", "commit"}
    BY <1>6, <1>9 DEF NextStep
  <2>2. pc'[s] = "commit" => job'[s].fix = {}
    BY <1>9, <2>1, NextFixes
  <2>3. Losses(s)'
    BY <1>2, <1>3, <1>9, <2>1, <2>2, LossesStay DEF Goals, Asking
  <2>4. Early(s)'
    BY <1>2, <1>3, <2>1 DEF Early, Goals
  <2> QED
    BY <1>5, <1>9, <2>3, <2>4, NextIsCalm
<1>10. CASE DropLinks(s)
  BY <1>9, <1>10 DEF DropLinks, Runs
<1>11. CASE ErasePrice(s)
  BY <1>9, <1>11 DEF ErasePrice, Runs
<1>12. CASE EraseGroup(s)
  <2>1. pc'[s] = "commit" /\ Goto(s, "commit") /\ pc[s] = "erasegroup"
    BY <1>6, <1>12 DEF EraseGroup, Runs
  <2>2. Losses(s)' /\ Early(s)'
    BY <1>2, <1>4, <2>1 DEF Losses, Loses, Early
  <2> QED
    BY <1>5, <2>1, <2>2 DEF Calm
<1> QED
  BY <1>7, <1>8, <1>10, <1>11, <1>12

LEMMA ReadMaxKeepsGoals ==
    ASSUME OneByOne, GoalInv, NEW s \in Sessions, ReadMax(s) PROVE GoalInv'
<1>1. /\ pc[s] = "max" /\ Goto(s, "insert") /\ UNCHANGED <<links, groups, pend, req>>
  BY DEF ReadMax, Runs
<1>2. pc'[s] = "insert"
  BY <1>1 DEF Goto, OneByOne, Inv, TypeOK
<1>3. job'[s].fix = job[s].fix
  <2>1. PICK g, top : job' = [job EXCEPT ![s].group = g, ![s].top = top]
    BY DEF ReadMax
  <2> QED
    BY <2>1 DEF OneByOne, Inv, TypeOK, Job
<1>4. Goals(s) /\ Stepping(s) /\ req[s] \in Request
  BY <1>1 DEF GoalInv, OneByOne, Inv, TypeOK
<1>5. \A r \in Rows : Goal(s, r)' = Goal(s, r)
  BY <1>1, <1>2 DEF Goal, Seen
<1>6. Visible(s)' = Visible(s) /\ \A g : InGroup(s, g)' = InGroup(s, g)
  BY <1>1 DEF Visible, InGroup, Seen
<1>7. \A g : SameGroup(s, g)
  BY <1>5, <1>6 DEF SameGroup, InGroup, Visible
<1>8. KeepsGoals(s)
  BY <1>5, <1>6 DEF KeepsGoals, Visible
<1>9. Kept(s)'
  BY <1>1, <1>4, <1>8, KeptStays DEF Asking, Goals
<1>10. Losses(s)'
  BY <1>1, <1>2, <1>3, <1>4, <1>7, LossesStay DEF Asking, Goals
<1>11. Landing(s)' /\ Early(s)'
  <2>1. req[s].op # "reorder"
    BY <1>1, <1>4 DEF Stepping
  <2> QED
    BY <1>1, <1>2, <1>4, <2>1 DEF Landing, Early, Goals
<1> QED
  BY <1>1, <1>9, <1>10, <1>11, GoalsKept DEF Starts, Goals

\* A link is inserted for a group that the request lists, in a row that nobody
\* has used.
LEMMA InsertKeepsGoals ==
    ASSUME OneByOne, GoalInv, NEW s \in Sessions, InsertLink(s) PROVE GoalInv'
<1> DEFINE p == req[s].price
           g == job[s].group
           work == [job[s] EXCEPT !.add = @ \ {g}, !.group = NoGroup, !.top = 0]
<1>0. PICK x : x = NewRow(p, g)
  OBVIOUS
<1>1. /\ pc[s] = "insert" /\ UNCHANGED <<links, groups, req>> /\ Free(p, g) # {}
      /\ \E top : pend' = [pend EXCEPT ![s][x] = top]
      /\ job' = [job EXCEPT ![s] = work] /\ Goto(s, NextStep(work))
  BY <1>0 DEF InsertLink, Runs
<1>2. /\ Goals(s) /\ Stepping(s) /\ req[s] \in Request /\ job[s] \in Job
  BY <1>1 DEF GoalInv, OneByOne, Inv, TypeOK
<1>3. Linking(s) /\ p \in Prices /\ g \in Groups /\ g \in req[s].groups
  <2>1. Linking(s) /\ g \in job[s].add
    BY <1>1, <1>2 DEF Stepping, Linking, Request
  <2> QED
    BY <1>2, <2>1 DEF Stepping, Job
<1>4. x \in Rows /\ PriceOf(x) = p /\ GroupOf(x) = g /\ links[x] = Absent
  BY <1>0, <1>1, <1>3, NewRowIsFree
<1>5. \A r \in Rows \ {x} : Seen(s, r)' = Seen(s, r)
  BY <1>1 DEF Seen, OneByOne, Inv, TypeOK
<1>6. job'[s] = work /\ work.fix = job[s].fix
  <2>1. work.fix = job[s].fix
    BY <1>2 DEF Job
  <2> HIDE DEF work
  <2> QED
    BY <1>1, <2>1 DEF OneByOne, Inv, TypeOK
<1>7. pc'[s] = NextStep(work)
  BY <1>1 DEF Goto, OneByOne, Inv, TypeOK
<1>8. pc'[s] \in {"max", "number", "commit"}
  BY <1>7 DEF NextStep
<1>9. pc'[s] = "commit" => job'[s].fix = {}
  BY <1>6, <1>7, NextFixes
<1> HIDE DEF work
<1>10. \A r \in Rows \ {x} : Goal(s, r)' = Goal(s, r)
  BY <1>1, <1>5, <1>8, GoalSeen, GoalSeenNext
<1>11. KeepsGoals(s)
  BY <1>1, <1>4, <1>5, <1>10 DEF KeepsGoals, Linked, Visible
<1>12. Kept(s)'
  BY <1>1, <1>2, <1>11, KeptStays DEF Asking, Goals
<1>13. ASSUME NEW h, h # g PROVE SameGroup(s, h)
  <2>1. \A r \in Rows : GroupOf(r) = h => r # x
    BY <1>4, <1>13
  <2> QED
    BY <1>5, <1>10, <2>1 DEF SameGroup, InGroup, Visible
<1>14. \A h \in Groups : Loses(s, h) => SameGroup(s, h)
  BY <1>3, <1>13 DEF Loses
<1>15. Losses(s)'
  BY <1>1, <1>2, <1>6, <1>8, <1>9, <1>14, LossesStay DEF Asking, Goals
<1>16. Landing(s)' /\ Early(s)'
  BY <1>1, <1>2, <1>3, <1>8 DEF Landing, Early, Goals, Linking
<1> QED
  BY <1>1, <1>12, <1>15, <1>16, GoalsKept DEF Starts, Goals

\* The two phases of a numbering carry out what has been planned.
LEMMA NumberingKeepsGoals ==
    ASSUME OneByOne, GoalInv, NEW s \in Sessions, NEW step, Goto(s, step),
           pc[s] \in {"null", "put"}, Asking(s),
           step \in {"null", "put"} => job'[s].group = job[s].group,
           job'[s].fix = job[s].fix, step \notin {"touch", "old", "drop", "erase"},
           step = "commit" => job[s].fix = {},
           Visible(s)' = Visible(s), \A r \in Visible(s) : Goal(s, r)' = Goal(s, r)
    PROVE  GoalInv'
<1>1. pc'[s] = step
  BY DEF Goto, OneByOne, Inv, TypeOK
<1>2. Goals(s)
  BY DEF GoalInv
<1>3. \A g : SameGroup(s, g)
  BY DEF SameGroup, InGroup
<1>4. Kept(s)'
  BY <1>2, KeptStays DEF KeepsGoals, Goals
<1>5. Losses(s)'
  BY <1>1, <1>2, <1>3, LossesStay DEF Goals
<1>6. Early(s)'
  BY <1>1, <1>2 DEF Early, Goals, Asking
<1>7. Landing(s)'
  <2> SUFFICES ASSUME req[s].op = "reorder" PROVE Landing(s)'
    BY DEF Landing, Asking
  <2> DEFINE g == req[s].group
             n == Cardinality(InGroup(s, g))
             Lands(r) == PriceOf(r) = req[s].price /\ Goal(s, r) = IF req[s].to > n THEN n ELSE req[s].to
  <2>1. /\ job[s].group = g /\ Visible(s) = Linked(links)
        /\ Dense(links, g) => DenseGoal(s, g) /\ \E r \in InGroup(s, g) : Lands(r)
    BY <1>2 DEF Goals, Landing
  <2>2. /\ pc'[s] \in {"null", "put"} => job'[s].group = g
        /\ Visible(s)' = Linked(links)'
    BY <1>1, <2>1 DEF Asking, Linked
  <2>3. DenseGoal(s, g) => DenseGoal(s, g)'
    BY <1>3, DenseStays DEF Asking
  <2>4. InGroup(s, g)' = InGroup(s, g) /\ \A r \in InGroup(s, g) : Goal(s, r)' = Goal(s, r)
    BY <1>3 DEF SameGroup, Asking
  <2>5. \A r \in InGroup(s, g) : Lands(r) => Lands(r)'
    BY <2>4 DEF Asking
  <2>6. Dense(links, g)' <=> Dense(links, g)
    BY DEF Asking, Dense, Linked
  <2>7. Dense(links, g)' => DenseGoal(s, g)' /\ \E r \in InGroup(s, g)' : Lands(r)'
    <3> HIDE DEF Lands
    <3> QED
      BY <2>1, <2>3, <2>4, <2>5, <2>6
  <2>8. req'[s] = req[s]
    BY DEF Asking
  <2> QED
    BY <2>2, <2>7, <2>8 DEF Landing
<1> QED
  BY <1>1, <1>4, <1>5, <1>6, <1>7, GoalsKept DEF Starts, Goals

LEMMA NullKeepsGoals ==
    ASSUME OneByOne, GoalInv, NEW s \in Sessions, NullOrders(s) PROVE GoalInv'
<1> DEFINE g == job[s].group
<1>1. /\ pc[s] = "null" /\ Goto(s, "put") /\ UNCHANGED <<links, groups, req, job>>
      /\ pend' = [pend EXCEPT ![s] = [r \in Rows |-> IF r \in Target(s) THEN Null ELSE @[r]]]
  BY DEF NullOrders, Runs
<1>2. Target(s) = InGroup(s, g)
  BY <1>1, AllMatching DEF Matching
<1>3. pc'[s] = "put"
  BY <1>1 DEF Goto, OneByOne, Inv, TypeOK
<1>4. Null # Absent /\ Null # Keep
  BY Names DEF Orders, Null
<1>5. /\ \A r \in InGroup(s, g) : Seen(s, r)' = Null
      /\ \A r \in Rows \ InGroup(s, g) : Seen(s, r)' = Seen(s, r)
  BY <1>1, <1>2, <1>4 DEF Seen, InGroup, Visible, OneByOne, Inv, TypeOK
<1>6. Visible(s)' = Visible(s)
  BY <1>4, <1>5 DEF Visible, InGroup
<1>7. \A r \in InGroup(s, g) : PriceOf(r) \in Unplaced(s)
  BY <1>1 DEF OneByOne, NumInv, Numbering
<1>8. Unplaced(s)' = Unplaced(s)
  BY <1>1 DEF Unplaced
<1>9. ASSUME NEW r \in Visible(s) PROVE Goal(s, r)' = Goal(s, r)
  <2>1. CASE r \in InGroup(s, g)
    BY <1>1, <1>3, <1>7, <1>8, <2>1 DEF Goal, InGroup
  <2>2. CASE r \notin InGroup(s, g)
    <3>1. GroupOf(r) # g /\ r \in Rows
      BY <2>2 DEF InGroup, Visible
    <3> QED
      BY <1>1, <1>5, <2>2, <3>1 DEF Goal
  <2> QED
    BY <2>1, <2>2
<1> QED
  BY <1>1, <1>6, <1>9, NumberingKeepsGoals DEF Asking

LEMMA PutKeepsGoals ==
    ASSUME OneByOne, GoalInv, NEW s \in Sessions, PutOrder(s) PROVE GoalInv'
<1> DEFINE g == job[s].group
           plan == job[s].plan
           rest == Tail(plan)
           e == Head(plan)
           work == IF rest # <<>> THEN [job[s] EXCEPT !.plan = rest]
                   ELSE [job[s] EXCEPT !.plan = rest, !.group = NoGroup]
           step == IF rest # <<>> THEN "put" ELSE NextStep(work)
           T == Target(s)
           Left == {rest[i].price : i \in DOMAIN rest}
<1>1. /\ pc[s] = "put" /\ UNCHANGED <<links, groups, req>>
      /\ pend' = [pend EXCEPT ![s] = [r \in Rows |-> IF r \in T THEN e.ord ELSE @[r]]]
      /\ job' = [job EXCEPT ![s] = work] /\ Goto(s, step)
  BY DEF PutOrder, Runs
<1>2. /\ plan \in Entries /\ plan # <<>> /\ PlanDistinct(plan)
      /\ T = {r \in Visible(s) : GroupOf(r) = g /\ PriceOf(r) = e.price}
  BY <1>1, PutRow
<1>3. /\ rest \in Entries /\ PlanDistinct(rest)
      /\ e \in [price: Prices, ord: Orders]
      /\ \A i \in DOMAIN rest : /\ i + 1 \in DOMAIN plan /\ rest[i] = plan[i + 1]
                                /\ e.price # rest[i].price
      /\ 1 \in DOMAIN plan /\ e = plan[1]
      /\ \A i \in DOMAIN plan : i = 1 \/ \E j \in DOMAIN rest : plan[i] = rest[j]
  BY <1>2, FirstEntry
<1>5. PICK x : x = e.ord
  OBVIOUS
<1>6. x # Absent /\ x # Keep
  BY <1>3, <1>5, Names
<1>7. PICK U : U = T
  OBVIOUS
<1>8. /\ \A r \in U : Seen(s, r)' = x
      /\ \A r \in Rows \ U : Seen(s, r)' = Seen(s, r)
      /\ U \subseteq Rows
  <2>1. U \subseteq Rows
    BY <1>2, <1>7 DEF Visible
  <2> HIDE DEF T, e
  <2> QED
    BY <1>1, <1>5, <1>6, <1>7, <2>1 DEF Seen, OneByOne, Inv, TypeOK
<1>9. Visible(s)' = Visible(s)
  <2>1. \A r \in U : Seen(s, r) # Absent
    BY <1>2, <1>7 DEF Visible
  <2> QED
    BY <1>6, <1>8, <2>1 DEF Visible
<1>10. Unplaced(s) = {e.price} \cup Left /\ e.price \notin Left
  BY <1>3 DEF Unplaced
<1>13. pc'[s] = step /\ job'[s] = work
  BY <1>1 DEF Goto, OneByOne, Inv, TypeOK
<1>14. job[s] \in Job
  BY DEF OneByOne, Inv, TypeOK
<1>15. /\ job'[s].plan = rest /\ job'[s].fix = job[s].fix
       /\ rest # <<>> => job'[s].group = g /\ pc'[s] = "put"
       /\ rest = <<>> => pc'[s] \in {"max", "number", "commit"}
  <2> HIDE DEF rest, plan, g
  <2>1. work.plan = rest /\ work.fix = job[s].fix
    BY <1>14 DEF Job
  <2>2. rest # <<>> => work.group = g
    BY <1>14 DEF Job, g
  <2> HIDE DEF work
  <2> QED
    BY <1>13, <2>1, <2>2 DEF NextStep
<1>16. OrdOf(plan, e.price) = x
  BY <1>2, <1>3, <1>5, OrdOfEntry
<1>17. \A p \in Left : OrdOf(rest, p) = OrdOf(plan, p)
  <2> SUFFICES ASSUME NEW i \in DOMAIN rest PROVE OrdOf(rest, rest[i].price) = OrdOf(plan, rest[i].price)
    OBVIOUS
  <2>1. OrdOf(rest, rest[i].price) = rest[i].ord
    BY <1>3, OrdOfEntry
  <2>2. PICK k \in DOMAIN plan : rest[i] = plan[k]
    BY <1>3
  <2>3. OrdOf(plan, plan[k].price) = plan[k].ord
    BY <1>2, OrdOfEntry
  <2> QED
    BY <2>1, <2>2, <2>3
<1>18. rest = <<>> => Left = {}
  OBVIOUS
<1>19. ASSUME NEW r \in Visible(s) PROVE Goal(s, r)' = Goal(s, r)
  <2>1. r \in Rows
    BY DEF Visible
  <2>2. Goal(s, r) = IF GroupOf(r) = g /\ (PriceOf(r) = e.price \/ PriceOf(r) \in Left)
                     THEN OrdOf(plan, PriceOf(r)) ELSE Seen(s, r)
    BY <1>1, <1>10 DEF Goal
  <2>3. Goal(s, r)' = IF GroupOf(r) = g /\ PriceOf(r) \in Left
                      THEN OrdOf(rest, PriceOf(r)) ELSE Seen(s, r)'
    <3>1. CASE rest = <<>>
      <4>1. pc'[s] \notin {"null", "put"} /\ Left = {}
        BY <1>15, <1>18, <3>1
      <4> QED
        BY <4>1, GoalSeenNext
    <3>2. CASE rest # <<>>
      <4>1. Unplaced(s)' = Left
        BY <1>15 DEF Unplaced
      <4>2. job'[s].group = g /\ pc'[s] = "put" /\ job'[s].plan = rest
        BY <1>15, <3>2
      <4> HIDE DEF Left, rest, g
      <4> QED
        BY <4>1, <4>2 DEF Goal
    <3> QED
      BY <3>1, <3>2
  <2> HIDE DEF Left, T, e, rest, plan, g
  <2>4. CASE r \in U
    <3>1. GroupOf(r) = g /\ PriceOf(r) = e.price
      BY <1>2, <1>7, <2>4
    <3> QED
      BY <1>8, <1>10, <1>16, <2>2, <2>3, <2>4, <3>1
  <2>5. CASE r \notin U
    <3>1. ~(GroupOf(r) = g /\ PriceOf(r) = e.price) /\ Seen(s, r)' = Seen(s, r)
      BY <1>2, <1>7, <1>8, <2>1, <2>5
    <3> QED
      BY <1>17, <2>2, <2>3, <3>1
  <2> QED
    BY <2>4, <2>5
<1>20. /\ step \in {"null", "put"} => job'[s].group = job[s].group
       /\ step \notin {"touch", "old", "drop", "erase"}
       /\ step = "commit" => job[s].fix = {}
  <2>1. step = "commit" => work.fix = {}
    BY NextFixes
  <2>2. work.fix = job[s].fix
    BY <1>13, <1>15
  <2> HIDE DEF step, work
  <2> QED
    BY <1>13, <1>15, <2>1, <2>2
<1> HIDE DEF step
<1> QED
  BY <1>1, <1>9, <1>15, <1>19, <1>20, NumberingKeepsGoals DEF Asking

\* The orders that a numbering is going to give to the listing of a group.
LEMMA RenumberedGoals ==
    ASSUME NEW s, NEW g, NEW q, NEW plan, Renumbered(s, g, q, plan),
           pc'[s] = "null", job'[s].group = g, job'[s].plan = plan, UNCHANGED <<links, pend>>
    PROVE  /\ \A i \in 1..Cardinality(InGroup(s, g)) : Goal(s, q[i])' = i
           /\ \A r \in Rows : GroupOf(r) # g => Goal(s, r)' = Seen(s, r)
<1> DEFINE n == Cardinality(InGroup(s, g))
<1>1. ASSUME NEW i \in 1..n PROVE Goal(s, q[i])' = i
  <2>1. PICK k \in DOMAIN plan : plan[k].price = PriceOf(q[i]) /\ plan[k].ord = i
    BY DEF Renumbered
  <2>2. OrdOf(plan, PriceOf(q[i])) = i
    BY <2>1, OrdOfEntry DEF Renumbered
  <2>3. PriceOf(q[i]) \in Unplaced(s)' /\ GroupOf(q[i]) = g
    BY <2>1 DEF Unplaced, Renumbered, InGroup
  <2> QED
    BY <2>2, <2>3 DEF Goal
<1>2. ASSUME NEW r \in Rows, GroupOf(r) # g PROVE Goal(s, r)' = Seen(s, r)
  BY <1>2 DEF Goal, Seen
<1> QED
  BY <1>1, <1>2

LEMMA RenumberKeepsGoals ==
    ASSUME OneByOne, GoalInv, NEW s \in Sessions, Renumber(s) PROVE GoalInv'
<1>1. pc[s] = "number" /\ UNCHANGED <<links, groups, pend, req>>
  BY RenumberGives
<1>2. PICK g \in job[s].fix : SkipsGroup(s, g) \/ NumbersGroup(s, g)
  BY RenumberGives
<1>3. Goals(s) /\ Stepping(s) /\ req[s] \in Request /\ job[s] \in Job
  BY <1>1 DEF GoalInv, OneByOne, Inv, TypeOK
<1>4. g \in Groups /\ req[s].op \in {"update", "delete"} /\ req[s].group = NoGroup
  BY <1>1, <1>2, <1>3 DEF Stepping, Request, Job, Goals, Early
<1>5. /\ Visible(s)' = Visible(s) /\ \A h : InGroup(s, h)' = InGroup(s, h)
      /\ \A r \in Rows : Seen(s, r)' = Seen(s, r) /\ Goal(s, r) = Seen(s, r)
  BY <1>1 DEF Visible, InGroup, Seen, Goal
<1>6. ASSUME NEW step, Goto(s, step) PROVE pc'[s] = step
  BY <1>6 DEF Goto, OneByOne, Inv, TypeOK
<1>7. ASSUME pc'[s] \notin {"touch", "old"} PROVE Landing(s)' /\ Early(s)'
  BY <1>1, <1>4, <1>7 DEF Landing, Early
<1>8. ASSUME NEW h \in Groups, Loses(s, h), h # g
      PROVE  h \in job[s].fix \ {g} \/ (h \notin job[s].fix /\ DenseGoal(s, h))
  BY <1>1, <1>3, <1>8 DEF Goals, Losses
<1>9. ASSUME NEW h, \A r \in InGroup(s, h) : Goal(s, r)' = Goal(s, r), DenseGoal(s, h)
      PROVE  DenseGoal(s, h)'
  BY <1>5, <1>9, DenseStays DEF SameGroup
<1>10. \A h : Loses(s, h)' <=> Loses(s, h)
  BY <1>1 DEF Loses, Linked
<1>11. CASE SkipsGroup(s, g)
  <2> DEFINE work == [job[s] EXCEPT !.fix = @ \ {g}]
  <2>1. job'[s] = work /\ work.fix = job[s].fix \ {g} /\ pc'[s] = NextStep(work)
        /\ Goto(s, NextStep(work))
    BY <1>3, <1>6, <1>11 DEF SkipsGroup, Job
  <2>2. pc'[s] \in {"max", "number", "commit"} /\ (pc'[s] = "commit" => job'[s].fix = {})
    BY <2>1, NextFixes DEF NextStep
  <2> HIDE DEF work
  <2>3. \A r \in Rows : Goal(s, r)' = Goal(s, r)
    BY <1>5, <2>2, GoalSeenNext
  <2>4. InGroup(s, g) = {} \/ g \notin groups
    <3>1. NoGroup # g
      BY <1>4, Names
    <3> QED
      BY <1>4, <1>11, <3>1 DEF SkipsGroup, GroupSeen
  <2>5. InGroup(s, g) = {} => DenseGoal(s, g)'
    <3> SUFFICES ASSUME InGroup(s, g) = {} PROVE DenseGoal(s, g)'
      OBVIOUS
    <3>1. InGroup(s, g)' = {} /\ Cardinality({}) = 0
      BY <1>5, FS_EmptySet
    <3>2. 1..0 = {}
      OBVIOUS
    <3> QED
      BY <3>1, <3>2 DEF DenseGoal
  <2>6. Losses(s)'
    <3> SUFFICES ASSUME NEW h \in Groups, Loses(s, h)
                 PROVE  \/ h \in job'[s].fix /\ pc'[s] # "commit"
                        \/ DenseGoal(s, h)'
      BY <1>10, <2>2 DEF Losses
    <3>1. CASE h = g
      BY <2>4, <2>5, <3>1 DEF Loses
    <3>2. CASE h # g
      <4>1. CASE h \in job[s].fix \ {g}
        BY <2>1, <2>2, <4>1
      <4>2. CASE DenseGoal(s, h)
        <5>1. \A r \in InGroup(s, h) : Goal(s, r)' = Goal(s, r)
          BY <2>3 DEF InGroup, Visible
        <5> QED
          BY <1>9, <4>2, <5>1
      <4> QED
        BY <1>8, <3>2, <4>1, <4>2
    <3> QED
      BY <3>1, <3>2
  <2>7. Kept(s)'
    <3>1. KeepsGoals(s)
      BY <1>5, <2>3 DEF KeepsGoals, Visible
    <3> QED
      BY <1>1, <1>3, <3>1, KeptStays DEF Asking, Goals
  <2> QED
    BY <1>1, <1>7, <2>1, <2>2, <2>6, <2>7, GoalsKept DEF Starts, Goals
<1>12. CASE NumbersGroup(s, g)
  <2>1. PICK plan : plan = job'[s].plan
    OBVIOUS
  <2>2. /\ job'[s].group = g /\ job'[s].fix = job[s].fix \ {g} /\ Goto(s, "null")
        /\ pc'[s] = "null" /\ \E q : Renumbered(s, g, q, plan)
    BY <1>6, <1>12, <2>1 DEF NumbersGroup
  <2>3. PICK q : Renumbered(s, g, q, plan)
    BY <2>2
  <2> DEFINE n == Cardinality(InGroup(s, g))
  <2>4. /\ \A i \in 1..n : Goal(s, q[i])' = i
        /\ \A r \in Rows : GroupOf(r) # g => Goal(s, r)' = Goal(s, r)
    BY <1>1, <1>5, <2>1, <2>2, <2>3, RenumberedGoals
  <2>5. /\ n \in Nat /\ \A i \in 1..n : q[i] \in InGroup(s, g)
        /\ \A r \in InGroup(s, g) : \E i \in 1..n : q[i] = r
        /\ \A i, j \in 1..n : i < j => ~Before(s, q[j], q[i])
    BY <2>3 DEF Renumbered
  <2> HIDE DEF n
  <2>6. DenseGoal(s, g)'
    <3>1. \A r \in InGroup(s, g) : Goal(s, r)' \in 1..n
      BY <2>4, <2>5
    <3>2. \A i \in 1..n : \E r \in InGroup(s, g) : Goal(s, r)' = i
      BY <2>4, <2>5
    <3>3. {Goal(s, r)' : r \in InGroup(s, g)} = 1..n
      BY <3>1, <3>2
    <3> QED
      BY <1>5, <3>3 DEF DenseGoal, n
  <2>7. Losses(s)'
    <3> SUFFICES ASSUME NEW h \in Groups, Loses(s, h)
                 PROVE  h \in job'[s].fix \/ DenseGoal(s, h)'
      BY <1>10, <2>2 DEF Losses
    <3>1. CASE h = g
      BY <2>6, <3>1
    <3>2. CASE h # g
      <4>1. CASE h \in job[s].fix \ {g}
        BY <2>2, <4>1
      <4>2. CASE DenseGoal(s, h)
        <5>1. \A r \in InGroup(s, h) : Goal(s, r)' = Goal(s, r)
          BY <2>4, <3>2 DEF InGroup, Visible
        <5> QED
          BY <1>9, <4>2, <5>1
      <4> QED
        BY <1>8, <3>2, <4>1, <4>2
    <3> QED
      BY <3>1, <3>2
  <2>8. Kept(s)'
    <3> SUFFICES ASSUME NEW x \in Visible(s) \cap Linked(links), NEW y \in Visible(s) \cap Linked(links),
                        GroupOf(x) = GroupOf(y), links[x] < links[y],
                        PriceOf(x) \notin Named(s), PriceOf(y) \notin Named(s)
                 PROVE  Goal(s, x)' < Goal(s, y)'
      BY <1>1, <1>5 DEF Kept, Named, Linked
    <3>1. x \in Rows /\ y \in Rows /\ Seen(s, x) < Seen(s, y)
      BY <1>3, <1>5 DEF Goals, Kept, Visible
    <3>2. CASE GroupOf(x) # g
      BY <1>5, <2>4, <3>1, <3>2
    <3>3. CASE GroupOf(x) = g
      <4>1. PICK i \in 1..n : q[i] = x
        BY <2>5, <3>3 DEF InGroup
      <4>2. PICK j \in 1..n : q[j] = y
        BY <2>5, <3>3 DEF InGroup
      <4>3. /\ Seen(s, x) # Null /\ Seen(s, x) \in Nat /\ Seen(s, y) \in Nat
        BY <1>1, SeesOrders, OrderTyped DEF OrdersSeen, ToPlace, OneByOne
      <4>4. ~(j < i)
        BY <2>5, <3>1, <4>1, <4>2, <4>3 DEF Before
      <4>5. i # j
        BY <3>1, <4>1, <4>2, <4>3
      <4>6. i \in Nat /\ j \in Nat
        BY <2>5
      <4>7. i < j
        BY <4>4, <4>5, <4>6
      <4> QED
        BY <2>4, <4>1, <4>2, <4>7
    <3> QED
      BY <3>2, <3>3
  <2> QED
    BY <1>1, <1>7, <2>2, <2>7, <2>8, GoalsKept DEF Starts, Goals
<1> QED
  BY <1>2, <1>11, <1>12

\* What a reorder is going to make of its group.
LEMMA ReorderedGoals ==
    ASSUME NEW s, NEW g, NEW Ps, NEW final, NEW plan, PlanFor(s, g, Ps, final, plan),
           pc'[s] = "null", job'[s].group = g, job'[s].plan = plan, UNCHANGED <<links, pend>>
    PROVE  /\ \A r \in InGroup(s, g) : Goal(s, r)' = final[PriceOf(r)]
           /\ \A r \in Rows : GroupOf(r) # g => Goal(s, r)' = Seen(s, r)
<1>1. ASSUME NEW r \in InGroup(s, g) PROVE Goal(s, r)' = final[PriceOf(r)]
  <2>1. PICK k \in DOMAIN plan : plan[k].price = PriceOf(r) /\ plan[k].ord = final[PriceOf(r)]
    BY DEF PlanFor
  <2>2. OrdOf(plan, PriceOf(r)) = final[PriceOf(r)]
    BY <2>1, OrdOfEntry DEF PlanFor
  <2>3. PriceOf(r) \in Unplaced(s)' /\ GroupOf(r) = g
    BY <2>1 DEF Unplaced, InGroup
  <2> QED
    BY <2>2, <2>3 DEF Goal
<1>2. ASSUME NEW r \in Rows, GroupOf(r) # g PROVE Goal(s, r)' = Seen(s, r)
  BY <1>2 DEF Goal, Seen
<1> QED
  BY <1>1, <1>2

LEMMA ReorderKeepsGoals ==
    ASSUME OneByOne, NEW s \in Sessions, Reorder(s) PROVE GoalInv'
<1>1. /\ pc[s] = "idle" /\ Admitted(s) /\ Goto(s, "null") /\ UNCHANGED <<links, groups, pend>>
  BY ReorderGives
<1>2. PICK plan : plan = job'[s].plan
  OBVIOUS
<1>3. PICK g, Ps, cur, changes :
          /\ Listed(s, g, Ps, cur) /\ AsksFor(s, g, Ps, changes) /\ job'[s].group = g
          /\ PlanFor(s, g, Ps, AfterChanges(cur, Cardinality(InGroup(s, g)), changes), plan)
  BY <1>2, ReorderGives
<1>4. PICK m : m = Cardinality(InGroup(s, g))
  OBVIOUS
<1>5. PICK final : final = AfterChanges(cur, m, changes)
  OBVIOUS
<1>6. PICK n : n = Len(changes)
  OBVIOUS
<1>7. /\ m \in Nat \ {0} /\ cur \in [Ps -> Nat \ {0}] /\ Distinct(cur)
      /\ \A r \in InGroup(s, g) : PriceOf(r) \in Ps /\ cur[PriceOf(r)] = Seen(s, r)
      /\ \A p \in Ps : \E r \in InGroup(s, g) : PriceOf(r) = p
  BY <1>3, <1>4 DEF Listed
<1>8. /\ n \in Nat \ {0}
      /\ \A i \in 1..n : changes[i].price \in Ps /\ changes[i].to \in Nat \ {0}
      /\ req'[s].op = "reorder" /\ req'[s].price = changes[n].price /\ req'[s].group = g
      /\ req'[s].moved = {changes[i].price : i \in 1..n} /\ req'[s].to = changes[n].to
  BY <1>3, <1>6 DEF AsksFor, NoRequest
<1>9. /\ final \in [Ps -> Nat \ {0}]
      /\ \A x, y \in Ps \ {changes[i].price : i \in 1..n} : cur[x] < cur[y] => final[x] < final[y]
      /\ cur \in [Ps -> 1..m] =>
           /\ final \in [Ps -> 1..m]
           /\ final[changes[n].price] = IF changes[n].to > m THEN m ELSE changes[n].to
  <2> DEFINE l == Len(changes)
             after == AfterChanges(cur, m, changes)
  <2>1. l \in Nat /\ l > 0 /\ n = l /\ final = after
    BY <1>5, <1>6, <1>8
  <2>2. \A i \in 1..l : changes[i].price \in Ps /\ changes[i].to \in Nat \ {0}
    BY <1>8, <2>1
  <2>0. m \in Nat \ {0} /\ cur \in [Ps -> Nat \ {0}] /\ Distinct(cur)
    BY <1>7
  <2>31. after \in [Ps -> Nat \ {0}]
    BY <2>0, <2>1, <2>2, ChangesKeepDistinct
  <2>32. \A x, y \in Ps \ {changes[i].price : i \in 1..l} : cur[x] < cur[y] => after[x] < after[y]
    BY <2>0, <2>1, <2>2, ChangesKeepDistinct
  <2>33. cur \in [Ps -> 1..m] => after \in [Ps -> 1..m]
    BY <2>0, <2>1, <2>2, ChangesKeepDistinct
  <2>34. ASSUME cur \in [Ps -> 1..m]
         PROVE  after[changes[l].price] = IF changes[l].to > m THEN m ELSE changes[l].to
    <3>1. l > 0 => after[changes[l].price] = IF changes[l].to > m THEN m ELSE changes[l].to
      BY <2>0, <2>1, <2>2, <2>34, ChangesKeepDistinct
    <3> QED
      BY <2>1, <3>1
  <2> HIDE DEF l, after
  <2>4. n = l /\ final = after
    BY <2>1
  <2> QED
    BY <2>1, <2>31, <2>32, <2>33, <2>34, <2>4
<1>10. PlanFor(s, g, Ps, final, plan)
  BY <1>3, <1>4, <1>5
<1>11. pc'[s] = "null"
  BY <1>1 DEF Goto, OneByOne, Inv, TypeOK
<1>12. /\ \A r \in InGroup(s, g) : Goal(s, r)' = final[PriceOf(r)]
       /\ \A r \in Rows : GroupOf(r) # g => Goal(s, r)' = Seen(s, r)
  BY <1>1, <1>2, <1>3, <1>10, <1>11, ReorderedGoals
<1>13. /\ \A r \in Rows : Seen(s, r) = links[r]
       /\ Visible(s) = Linked(links)
       /\ Visible(s)' = Visible(s) /\ InGroup(s, g)' = InGroup(s, g)
  BY <1>1, IdleSees DEF Visible, Linked, InGroup, Seen
<1>14. Kept(s)'
  <2> SUFFICES ASSUME NEW x \in Visible(s), NEW y \in Visible(s),
                      GroupOf(x) = GroupOf(y), links[x] < links[y],
                      PriceOf(x) \notin Named(s)', PriceOf(y) \notin Named(s)'
               PROVE  Goal(s, x)' < Goal(s, y)'
    BY <1>1, <1>13 DEF Kept, Linked
  <2>1. x \in Rows /\ y \in Rows
    BY DEF Visible
  <2>2. CASE GroupOf(x) # g
    BY <1>12, <1>13, <2>1, <2>2
  <2>3. CASE GroupOf(x) = g
    <3>1. x \in InGroup(s, g) /\ y \in InGroup(s, g)
      BY <2>3 DEF InGroup
    <3>2. PriceOf(x) \notin {changes[i].price : i \in 1..n} /\ PriceOf(y) \notin {changes[i].price : i \in 1..n}
      BY <1>8 DEF Named
    <3>3. cur[PriceOf(x)] < cur[PriceOf(y)]
      BY <1>7, <1>13, <2>1, <3>1
    <3> QED
      BY <1>7, <1>9, <1>12, <3>1, <3>2, <3>3
  <2> QED
    BY <2>2, <2>3
<1>15. Losses(s)' /\ Early(s)'
  BY <1>8, <1>11 DEF Losses, Loses, Early
<1>16. ASSUME Dense(links, g) PROVE cur \in [Ps -> 1..m]
  <2>1. {r \in Linked(links) : GroupOf(r) = g} = InGroup(s, g)
    BY <1>13 DEF InGroup
  <2>2. {links[r] : r \in InGroup(s, g)} = 1..m
    BY <1>4, <1>16, <2>1 DEF Dense
  <2>3. \A r \in InGroup(s, g) : Seen(s, r) \in 1..m
    BY <1>13, <2>2 DEF InGroup, Visible
  <2>4. \A p \in Ps : cur[p] \in 1..m
    BY <1>7, <2>3
  <2> QED
    BY <1>7, <2>4
<1>17. ASSUME Dense(links, g) PROVE DenseGoal(s, g)'
  <2>1. final \in [Ps -> 1..m]
    BY <1>9, <1>16, <1>17
  <2>2. \A r \in InGroup(s, g) : Goal(s, r)' \in 1..m
    BY <1>7, <1>12, <2>1
  <2>3. /\ DOMAIN plan = 1..m /\ PlanDistinct(plan)
        /\ \A k \in 1..m : plan[k].price \in Ps /\ plan[k].ord = final[plan[k].price]
    BY <1>4, <1>10 DEF PlanFor
  <2> DEFINE f == [k \in 1..m |-> plan[k].ord]
  <2>4. f \in [1..m -> 1..m] /\ \A i, j \in 1..m : i # j => f[i] # f[j]
    BY <2>1, <2>3 DEF PlanDistinct
  <2> HIDE DEF f
  <2>5. \A x \in 1..m : \E k \in 1..m : f[k] = x
    BY <1>7, <2>4, AllUpTo
  <2>6. \A x \in 1..m : \E r \in InGroup(s, g) : Goal(s, r)' = x
    <3> TAKE x \in 1..m
    <3>1. PICK k \in 1..m : plan[k].ord = x
      BY <2>5 DEF f
    <3>2. PICK r \in InGroup(s, g) : PriceOf(r) = plan[k].price
      BY <1>7, <2>3
    <3> QED
      BY <1>12, <2>3, <3>1, <3>2
  <2>7. {Goal(s, r)' : r \in InGroup(s, g)} = 1..m
    BY <2>2, <2>6
  <2> QED
    BY <1>4, <1>13, <2>7 DEF DenseGoal
<1>18. ASSUME Dense(links, g)
       PROVE  \E r \in InGroup(s, g) :
                /\ PriceOf(r) = changes[n].price
                /\ Goal(s, r)' = IF changes[n].to > m THEN m ELSE changes[n].to
  <2>1. n \in 1..n
    BY <1>8
  <2>2. PICK r \in InGroup(s, g) : PriceOf(r) = changes[n].price
    BY <1>7, <1>8, <2>1
  <2>3. final[changes[n].price] = IF changes[n].to > m THEN m ELSE changes[n].to
    BY <1>9, <1>16, <1>18
  <2> QED
    BY <1>12, <2>2, <2>3
<1>19. Landing(s)'
  <2>1. Dense(links, g)' <=> Dense(links, g)
    BY <1>1 DEF Dense, Linked
  <2>2. Visible(s)' = Linked(links)'
    BY <1>1, <1>13 DEF Linked
  <2>3. Cardinality(InGroup(s, g)') = m
    BY <1>4, <1>13
  <2>4. Dense(links, g)' =>
          \E r \in InGroup(s, g)' :
             /\ PriceOf(r) = req'[s].price
             /\ Goal(s, r)' = IF req'[s].to > m THEN m ELSE req'[s].to
    BY <1>8, <1>13, <1>18, <2>1
  <2> QED
    BY <1>3, <1>8, <1>17, <2>1, <2>2, <2>3, <2>4 DEF Landing
<1> QED
  BY <1>1, <1>14, <1>15, <1>19, GoalsKept DEF Starts, Goals

LEMMA GoalInit == Init => GoalInv
<1> SUFFICES ASSUME Init PROVE \A s \in Sessions : pc[s] = "idle"
  BY DEF GoalInv
<1> QED
  BY DEF Init

LEMMA GoalStep ==
    ASSUME ~Overlap, Inv, NumInv, GoalInv, [Next]_vars PROVE GoalInv'
<1>0. OneByOne
  BY DEF OneByOne
<1>1. ASSUME NEW s \in Sessions, pc[s] # "idle", EndSession(s) PROVE GoalInv'
  <2>1. Goto(s, "idle")
    BY <1>1 DEF EndSession
  <2> QED
    BY <1>0, <1>1, <2>1, GoalsKept DEF Starts
<1>2. CASE Next
  <2>1. PICK s \in Sessions :
          \/ CreatePrice(s) \/ UpdatePrice(s) \/ DeletePrice(s) \/ DeleteGroup(s)
          \/ Reorder(s)
          \/ TouchPrice(s) \/ ReadOldGroups(s) \/ DropLinks(s) \/ ReadMax(s)
          \/ InsertLink(s) \/ Renumber(s) \/ NullOrders(s) \/ PutOrder(s)
          \/ ErasePrice(s) \/ EraseGroup(s) \/ Wait(s)
          \/ Commit(s) \/ Rollback(s)
    BY <1>2 DEF Next
  <2>2. CASE CreatePrice(s) \/ UpdatePrice(s) \/ DeletePrice(s) \/ DeleteGroup(s)
    BY <1>0, <2>2, StartKeepsGoals
  <2>3. CASE Reorder(s)
    BY <1>0, <2>3, ReorderKeepsGoals
  <2>4. CASE TouchPrice(s) \/ ReadOldGroups(s) \/ DropLinks(s) \/ ErasePrice(s) \/ EraseGroup(s)
    BY <1>0, <2>4, DeleteKeepsGoals
  <2>5. CASE ReadMax(s)
    BY <1>0, <2>5, ReadMaxKeepsGoals
  <2>6. CASE InsertLink(s)
    BY <1>0, <2>6, InsertKeepsGoals
  <2>7. CASE Renumber(s)
    BY <1>0, <2>7, RenumberKeepsGoals
  <2>8. CASE NullOrders(s)
    BY <1>0, <2>8, NullKeepsGoals
  <2>9. CASE PutOrder(s)
    BY <1>0, <2>9, PutKeepsGoals
  <2>10. CASE Wait(s)
    BY <1>0, <2>10, NoWait
  <2>11. CASE Commit(s)
    BY <1>1, <2>11 DEF Commit
  <2>12. CASE Rollback(s)
    BY <1>1, <2>12 DEF Rollback
  <2> QED
    BY <2>1, <2>2, <2>3, <2>4, <2>5, <2>6, <2>7, <2>8, <2>9, <2>10, <2>11, <2>12
<1>3. CASE UNCHANGED vars
  <2>1. /\ links' = links /\ groups' = groups /\ pend' = pend
        /\ pc' = pc /\ req' = req /\ job' = job
    BY <1>3 DEF vars
  <2> SUFFICES ASSUME NEW s \in Sessions, pc[s] # "idle" PROVE Goals(s)'
    BY <2>1 DEF GoalInv
  <2>2. Goals(s)
    BY DEF GoalInv
  <2>3. /\ \A r \in Rows : Goal(s, r)' = Goal(s, r)
        /\ Visible(s)' = Visible(s) /\ \A g : InGroup(s, g)' = InGroup(s, g)
    BY <2>1 DEF Goal, Seen, Unplaced, InGroup, Visible
  <2>4. Visible(s) \subseteq Rows /\ \A g : InGroup(s, g) \subseteq Rows
    BY DEF InGroup, Visible
  <2>5. Kept(s)'
    BY <2>1, <2>2, <2>3, <2>4 DEF Goals, Kept, Named, Linked
  <2>6. \A g : DenseGoal(s, g)' = DenseGoal(s, g)
    BY <2>3, <2>4, DenseStays DEF SameGroup
  <2>7. Losses(s)'
    BY <2>1, <2>2, <2>6 DEF Goals, Losses, Loses, Linked
  <2>8. \A g : Dense(links, g)' <=> Dense(links, g)
    BY <2>1 DEF Dense, Linked
  <2>9. Landing(s)'
    BY <2>1, <2>2, <2>3, <2>4, <2>6, <2>8 DEF Goals, Landing, Linked
  <2>10. Early(s)'
    BY <2>1, <2>2 DEF Goals, Early
  <2> QED
    BY <2>5, <2>7, <2>9, <2>10 DEF Goals
<1> QED
  BY <1>2, <1>3

\* At the commit every goal has been reached.
LEMMA CommitReaches ==
    ASSUME Inv, NEW s \in Sessions, Commit(s)
    PROVE  /\ \A r \in Rows : links'[r] = Seen(s, r) /\ Goal(s, r) = links'[r]
           /\ Linked(links') = Visible(s)
           /\ pc[s] = "commit"
<1>1. pc[s] = "commit" /\ \A r \in Rows : links'[r] = Seen(s, r)
  BY CommitTables
<1>2. \A r \in Rows : Goal(s, r) = Seen(s, r)
  BY <1>1, GoalSeen
<1> QED
  BY <1>1, <1>2 DEF Linked, Visible

LEMMA CommitDense ==
    ASSUME Inv, NEW s \in Sessions, Commit(s), NEW g, DenseGoal(s, g)
    PROVE  Dense(links', g)
<1>1. {r \in Linked(links') : GroupOf(r) = g} = InGroup(s, g)
  BY CommitReaches DEF InGroup
<1>2. {links'[r] : r \in InGroup(s, g)} = {Goal(s, r) : r \in InGroup(s, g)}
  BY CommitReaches DEF InGroup, Visible
<1> QED
  BY <1>1, <1>2 DEF Dense, DenseGoal

LEMMA CommitKeepsOrder ==
    ASSUME OneByOne, GoalInv PROVE OthersKeepOrderStep
<1> SUFFICES ASSUME NEW s \in Sessions, Commit(s),
                    NEW q \in Linked(links) \cap Linked(links'),
                    NEW r \in Linked(links) \cap Linked(links'),
                    GroupOf(q) = GroupOf(r), links[q] < links[r],
                    PriceOf(q) \notin Named(s), PriceOf(r) \notin Named(s)
             PROVE  links'[q] < links'[r]
  BY DEF OthersKeepOrderStep
<1>1. /\ \A x \in Rows : Goal(s, x) = links'[x]
      /\ Linked(links') = Visible(s) /\ pc[s] = "commit"
  BY CommitReaches DEF OneByOne
<1>2. Kept(s)
  BY <1>1 DEF GoalInv, Goals
<1>3. Goal(s, q) < Goal(s, r)
  BY <1>1, <1>2 DEF Kept
<1> QED
  BY <1>1, <1>3 DEF Linked

LEMMA CommitDenseAfterLoss ==
    ASSUME OneByOne, GoalInv PROVE DenseAfterLossStep
<1> SUFFICES ASSUME NEW s \in Sessions, NEW g \in groups, Commit(s),
                    req[s].op \in {"update", "delete"},
                    OrdersOf(links, req[s].price, g) # {},
                    OrdersOf(links', req[s].price, g) = {}
             PROVE  Dense(links', g)
  BY DEF DenseAfterLossStep
<1>1. pc[s] = "commit" /\ g \in Groups /\ Stepping(s)
  BY CommitTables DEF OneByOne, Inv, TypeOK
<1>2. g \notin req[s].groups
  <2>1. CASE req[s].op = "update"
    <3>1. {h \in Groups : OrdersOf(links', req[s].price, h) # {}} = req[s].groups
      BY <2>1, CommitLinksAsRequested DEF OneByOne, Linking
    <3> QED
      BY <1>1, <3>1
  <2>2. CASE req[s].op = "delete"
    BY <1>1, <2>2 DEF Stepping, Linking
  <2> QED
    BY <2>1, <2>2
<1>3. Loses(s, g)
  BY <1>2 DEF Loses, OrdersOf
<1>4. Losses(s)
  BY <1>1 DEF GoalInv, Goals
<1>5. DenseGoal(s, g)
  BY <1>1, <1>3, <1>4 DEF Losses
<1> QED
  BY <1>5, CommitDense DEF OneByOne

LEMMA CommitLands ==
    ASSUME OneByOne, GoalInv PROVE ReorderLandsStep
<1> DEFINE place(s, n) == IF req[s].to > n THEN n ELSE req[s].to
<1> SUFFICES ASSUME NEW s \in Sessions, NEW g \in Groups, Commit(s),
                    req[s].op = "reorder", req[s].group = g, Dense(links, g),
                    NEW n, n = Cardinality({r \in Linked(links) : GroupOf(r) = g})
             PROVE  /\ Dense(links', g)
                    /\ OrdersOf(links', req[s].price, g) = {place(s, n)}
  BY DEF ReorderLandsStep
<1>1. /\ \A r \in Rows : Goal(s, r) = links'[r]
      /\ Linked(links') = Visible(s) /\ pc[s] = "commit"
  BY CommitReaches DEF OneByOne
<1>2. Landing(s)
  BY <1>1 DEF GoalInv, Goals
<1>3. Visible(s) = Linked(links)
  BY <1>2 DEF Landing
<1>4. InGroup(s, g) = {r \in Linked(links) : GroupOf(r) = g}
  BY <1>3 DEF InGroup
<1>5. Cardinality(InGroup(s, g)) = n
  BY <1>4
<1>6. /\ DenseGoal(s, g)
      /\ \E r \in InGroup(s, g) : PriceOf(r) = req[s].price /\ Goal(s, r) = place(s, n)
  BY <1>2, <1>5 DEF Landing
<1>7. PICK r \in InGroup(s, g) : PriceOf(r) = req[s].price /\ Goal(s, r) = place(s, n)
  BY <1>6
<1>8. r \in Visible(s) /\ r \in Rows /\ GroupOf(r) = g
  BY <1>7 DEF InGroup, Visible
<1>9. {x \in Linked(links') : PriceOf(x) = req[s].price /\ GroupOf(x) = g} = {r}
  BY <1>1, <1>7, <1>8, SeenOnce DEF OneByOne
<1>10. OrdersOf(links', req[s].price, g) = {links'[r]}
  BY <1>9 DEF OrdersOf
<1>11. links'[r] = place(s, n)
  BY <1>1, <1>7, <1>8
<1>12. Dense(links', g)
  BY <1>6, CommitDense DEF OneByOne
<1> QED
  BY <1>10, <1>11, <1>12

\* Requests one after another: whatever gaps, links and changes there are, a
\* commit of any of them keeps the prices it does not name in their order, a
\* group that loses a price is numbered 1..n again, and a reorder of a group
\* numbered 1..n leaves it numbered 1..n with the price moved last where the
\* request wants it.
THEOREM OrderStaysAsRequested ==
    ASSUME ~Overlap PROVE Spec => OthersKeepOrder /\ DenseAfterLoss /\ ReorderLands
<1> DEFINE J == Inv /\ NumInv /\ GoalInv
           Asked == OthersKeepOrderStep /\ DenseAfterLossStep /\ ReorderLandsStep
<1>1. Init => J
  BY InvInit, NumInit, GoalInit
<1>2. J /\ [Next]_vars => J'
  BY NextKeepsInv, NumStep, GoalStep
<1>3. J /\ [Next]_vars => [Asked]_vars
  BY CommitKeepsOrder, CommitDenseAfterLoss, CommitLands DEF OneByOne
<1>4. Spec => [][Asked]_vars
  BY <1>1, <1>2, <1>3, PTL DEF Spec
<1>5. /\ [Asked]_vars => [OthersKeepOrderStep]_vars
      /\ [Asked]_vars => [DenseAfterLossStep]_vars
      /\ [Asked]_vars => [ReorderLandsStep]_vars
  OBVIOUS
<1> QED
  BY <1>4, <1>5, PTL DEF OthersKeepOrder, DenseAfterLoss, ReorderLands

================================================================================
