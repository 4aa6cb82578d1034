---------------------------- MODULE PedigreeProofs ----------------------------
(***************************************************************************)
(* The pedigree keeps its dates in order, for every number of horses and   *)
(* of concurrent requests: what a request is validated for does not depend *)
(* on what other requests do before it commits.  And requests that run one *)
(* after the other leave what they ask for, and no second sire or dam.     *)
(***************************************************************************)
EXTENDS MCPedigrees, FiniteSetTheorems, SequenceTheorems, WellFoundedInduction, TLAPS

(***************************************************************************)
(* Statements of a request                                                 *)
(***************************************************************************)

LEMMA LeastNumber ==
    ASSUME NEW S \in SUBSET Nat, S # {}
    PROVE  \E c \in S : \A d \in S : c <= d
<1> DEFINE Less == {ss \in Nat \X Nat : ss[1] < ss[2]}
<1>1. IsWellFoundedOn(Less, Nat)
  BY NatLessThanWellFounded DEF OpToRel
<1>2. PICK c \in S : \A d \in S : ~(<<d, c>> \in Less)
  BY <1>1, WFMin
<1>3. \A d \in S : ~(d < c)
  BY <1>2
<1> QED
  BY <1>2, <1>3

\* The links a request asks for.
AskedLinks(q) ==
    (IF q.sire = Nobody THEN {} ELSE {<<q.sire, q.target>>})
        \cup (IF q.dam = Nobody THEN {} ELSE {<<q.dam, q.target>>})
        \cup {<<q.target, c>> : c \in q.foals}

\* The statements of a request q, in their places, and which of them q has.
Steps == 1..10
Has(q, k) ==
    CASE k = 1 -> "sire" \in q.fields
      [] k = 2 -> "dam" \in q.fields
      [] k \in {3, 8, 9} -> "foals" \in q.fields
      [] k \in {4, 5} -> q.sire # Nobody
      [] k \in {6, 7} -> q.dam # Nobody
      [] k = 10 -> TRUE
StatementAt(q, k) ==
    CASE k \in {1, 4} -> Do("sire")
      [] k \in {2, 6} -> Do("dam")
      [] k \in {3, 8} -> Do("foals")
      [] k = 5 -> Put({<<q.sire, q.target>>})
      [] k = 7 -> Put({<<q.dam, q.target>>})
      [] k = 9 -> Put({<<q.target, c>> : c \in q.foals})
      [] k = 10 -> Do("commit")

\* What q has to do from its k-th statement on.
Before(q, k, rest) == IF Has(q, k) THEN <<StatementAt(q, k)>> \o rest ELSE rest
From10(q) == Before(q, 10, <<>>)
From9(q) == Before(q, 9, From10(q))
From8(q) == Before(q, 8, From9(q))
From7(q) == Before(q, 7, From8(q))
From6(q) == Before(q, 6, From7(q))
From5(q) == Before(q, 5, From6(q))
From4(q) == Before(q, 4, From5(q))
From3(q) == Before(q, 3, From4(q))
From2(q) == Before(q, 2, From3(q))
From1(q) == Before(q, 1, From2(q))
From(q, k) ==
    CASE k = 1 -> From1(q)
      [] k = 2 -> From2(q)
      [] k = 3 -> From3(q)
      [] k = 4 -> From4(q)
      [] k = 5 -> From5(q)
      [] k = 6 -> From6(q)
      [] k = 7 -> From7(q)
      [] k = 8 -> From8(q)
      [] k = 9 -> From9(q)
      [] k = 10 -> From10(q)
      [] k = 11 -> <<>>

LEMMA StepTable ==
    ASSUME NEW q
    PROVE  /\ Has(q, 1) <=> "sire" \in q.fields
           /\ Has(q, 2) <=> "dam" \in q.fields
           /\ Has(q, 3) <=> "foals" \in q.fields
           /\ Has(q, 4) <=> q.sire # Nobody
           /\ Has(q, 5) <=> q.sire # Nobody
           /\ Has(q, 6) <=> q.dam # Nobody
           /\ Has(q, 7) <=> q.dam # Nobody
           /\ Has(q, 8) <=> "foals" \in q.fields
           /\ Has(q, 9) <=> "foals" \in q.fields
           /\ Has(q, 10)
           /\ StatementAt(q, 1) = Do("sire") /\ StatementAt(q, 2) = Do("dam")
           /\ StatementAt(q, 3) = Do("foals") /\ StatementAt(q, 4) = Do("sire")
           /\ StatementAt(q, 5) = Put({<<q.sire, q.target>>})
           /\ StatementAt(q, 6) = Do("dam")
           /\ StatementAt(q, 7) = Put({<<q.dam, q.target>>})
           /\ StatementAt(q, 8) = Do("foals")
           /\ StatementAt(q, 9) = Put({<<q.target, c>> : c \in q.foals})
           /\ StatementAt(q, 10) = Do("commit")
  BY DEF Has, StatementAt

LEMMA FromTable ==
    ASSUME NEW q
    PROVE  /\ From(q, 1) = Before(q, 1, From(q, 2)) /\ From(q, 2) = Before(q, 2, From(q, 3))
           /\ From(q, 3) = Before(q, 3, From(q, 4)) /\ From(q, 4) = Before(q, 4, From(q, 5))
           /\ From(q, 5) = Before(q, 5, From(q, 6)) /\ From(q, 6) = Before(q, 6, From(q, 7))
           /\ From(q, 7) = Before(q, 7, From(q, 8)) /\ From(q, 8) = Before(q, 8, From(q, 9))
           /\ From(q, 9) = Before(q, 9, From(q, 10)) /\ From(q, 10) = Before(q, 10, From(q, 11))
           /\ From(q, 11) = <<>>
  BY DEF From, From1, From2, From3, From4, From5, From6, From7, From8, From9, From10

LEMMA StepNumbers == \A k \in Steps : k \in {1, 2, 3, 4, 5, 6, 7, 8, 9, 10}
  BY DEF Steps

\* What the statements of q are.
Orders(q) == [op: Clears \cup {"put", "commit"}, pairs: SUBSET AskedLinks(q)]

LEMMA OrdersOf ==
    ASSUME NEW q
    PROVE  /\ \A f \in Clears \cup {"commit"} : Do(f) \in Orders(q)
           /\ q.sire # Nobody => Put({<<q.sire, q.target>>}) \in Orders(q)
           /\ q.dam # Nobody => Put({<<q.dam, q.target>>}) \in Orders(q)
           /\ Put({<<q.target, c>> : c \in q.foals}) \in Orders(q)
  BY DEF Do, Put, AskedLinks, Orders

LEMMA PlanTyped == ASSUME NEW q PROVE \A k \in 1..11 : From(q, k) \in Seq(Orders(q))
<1>1. ASSUME NEW k \in Steps, Has(q, k) PROVE StatementAt(q, k) \in Orders(q)
  BY <1>1, OrdersOf, StepTable, StepNumbers DEF Clears
<1>2. ASSUME NEW k \in Steps, NEW rest \in Seq(Orders(q)) PROVE Before(q, k, rest) \in Seq(Orders(q))
  BY <1>1, <1>2 DEF Before
<1>3. From(q, 11) \in Seq(Orders(q))
  <2>1. From(q, 11) = <<>>
    BY FromTable
  <2>2. <<>> \in Seq(Orders(q))
    OBVIOUS
  <2> QED
    BY <2>1, <2>2, Zenon
<1>4. From(q, 10) \in Seq(Orders(q)) /\ From(q, 9) \in Seq(Orders(q)) /\ From(q, 8) \in Seq(Orders(q))
  BY <1>2, <1>3, FromTable DEF Steps
<1>5. From(q, 7) \in Seq(Orders(q)) /\ From(q, 6) \in Seq(Orders(q)) /\ From(q, 5) \in Seq(Orders(q))
  BY <1>2, <1>4, FromTable DEF Steps
<1>6. From(q, 4) \in Seq(Orders(q)) /\ From(q, 3) \in Seq(Orders(q)) /\ From(q, 2) \in Seq(Orders(q))
  BY <1>2, <1>5, FromTable DEF Steps
<1>7. From(q, 1) \in Seq(Orders(q))
  BY <1>2, <1>6, FromTable DEF Steps
<1>8. \A k \in 1..11 : k = 11 \/ k \in Steps
  BY DEF Steps
<1> QED
  BY <1>3, <1>4, <1>5, <1>6, <1>7, <1>8, StepNumbers

LEMMA Pair == ASSUME NEW X, NEW x \in X, NEW y \in X PROVE <<x, y>> = <<x>> \o <<y>>
<1> DEFINE l == <<x, y>>
           r == <<x>> \o <<y>>
<1>1. l \in Seq(X) /\ r \in Seq(X) /\ Len(l) = 2 /\ Len(r) = 2 /\ l[1] = r[1] /\ l[2] = r[2]
  OBVIOUS
<1>2. \A i \in 1..2 : i = 1 \/ i = 2
  OBVIOUS
<1> HIDE DEF l, r
<1>3. l = r
  BY <1>1, <1>2, SeqEqual, ZenonT(20)
<1> QED
  BY <1>3 DEF l, r

LEMMA Joined ==
    ASSUME NEW X, NEW x \in X, NEW y \in X, NEW rest \in Seq(X)
    PROVE  /\ <<>> \o rest = rest
           /\ <<x>> \o rest # <<>> /\ Head(<<x>> \o rest) = x /\ Tail(<<x>> \o rest) = rest
           /\ <<x, y>> \o rest = <<x>> \o (<<y>> \o rest)
<1>1. <<>> \o rest = rest /\ <<x>> \o rest # <<>>
  OBVIOUS
<1>2. Head(<<x>> \o rest) = x /\ Tail(<<x>> \o rest) = rest
  OBVIOUS
<1> DEFINE one == <<x>>
           two == <<y>>
<1>3. one \in Seq(X) /\ two \in Seq(X)
  OBVIOUS
<1>4. <<x, y>> = one \o two
  BY Pair
<1> HIDE DEF one, two
<1>5. (one \o two) \o rest = one \o (two \o rest)
  BY <1>3, ConcatAssociative
<1> QED
  BY <1>1, <1>2, <1>4, <1>5 DEF one, two

\* The statements of set_horse_pedigree are those in their places.
LEMMA StatementsFromStart == ASSUME NEW q PROVE Statements(q) = From(q, 1)
<1> DEFINE clear(f) == IF f \in q.fields THEN <<Do(f)>> ELSE <<>>
           parent(f, p) == IF p = Nobody THEN <<>> ELSE <<Do(f), Put({<<p, q.target>>})>>
           foals == IF "foals" \notin q.fields THEN <<>>
                    ELSE <<Do("foals"), Put({<<q.target, c>> : c \in q.foals})>>
<1>1. /\ From(q, 2) \in Seq(Orders(q)) /\ From(q, 3) \in Seq(Orders(q))
      /\ From(q, 4) \in Seq(Orders(q)) /\ From(q, 6) \in Seq(Orders(q))
      /\ From(q, 8) \in Seq(Orders(q)) /\ From(q, 10) \in Seq(Orders(q))
  BY PlanTyped
<1>2. Do("commit") \in Orders(q)
  BY OrdersOf
<1>4. <<Do("commit")>> = From(q, 10)
  <2>1. From(q, 10) = <<Do("commit")>> \o <<>>
    BY FromTable, StepTable DEF Before
  <2> QED
    BY <1>2, <2>1
<1>5. foals \o From(q, 10) = From(q, 8)
  <2>1. From(q, 8) = Before(q, 8, Before(q, 9, From(q, 10)))
    BY FromTable
  <2>2. CASE Has(q, 8)
    <3> DEFINE x == Do("foals")
               y == Put({<<q.target, c>> : c \in q.foals})
    <3>1. From(q, 8) = <<x>> \o (<<y>> \o From(q, 10))
      BY <2>1, <2>2, StepTable DEF Before
    <3>2. foals = <<x, y>>
      BY <2>2, StepTable
    <3>3. x \in Orders(q) /\ y \in Orders(q)
      BY <2>2, OrdersOf, StepTable DEF Clears
    <3>4. <<x, y>> \o From(q, 10) = <<x>> \o (<<y>> \o From(q, 10))
      <4> HIDE DEF x, y
      <4> QED
        BY <1>1, <3>3, Joined
    <3> HIDE DEF x, y, foals
    <3> QED
      BY <3>1, <3>2, <3>4, Zenon
  <2>3. CASE ~Has(q, 8)
    <3>1. From(q, 8) = From(q, 10)
      BY <2>1, <2>3, StepTable DEF Before
    <3>2. foals = <<>>
      BY <2>3, StepTable
    <3> HIDE DEF foals
    <3> QED
      BY <1>1, <1>2, <3>1, <3>2, Joined
  <2> QED
    BY <2>2, <2>3
<1>6. parent("dam", q.dam) \o From(q, 8) = From(q, 6)
  <2>1. From(q, 6) = Before(q, 6, Before(q, 7, From(q, 8)))
    BY FromTable
  <2>2. CASE Has(q, 6)
    <3> DEFINE x == Do("dam")
               y == Put({<<q.dam, q.target>>})
    <3>1. From(q, 6) = <<x>> \o (<<y>> \o From(q, 8))
      BY <2>1, <2>2, StepTable DEF Before
    <3>2. parent("dam", q.dam) = <<x, y>>
      BY <2>2, StepTable
    <3>3. x \in Orders(q) /\ y \in Orders(q)
      BY <2>2, OrdersOf, StepTable DEF Clears
    <3>4. <<x, y>> \o From(q, 8) = <<x>> \o (<<y>> \o From(q, 8))
      <4> HIDE DEF x, y
      <4> QED
        BY <1>1, <3>3, Joined
    <3> HIDE DEF x, y, parent
    <3> QED
      BY <3>1, <3>2, <3>4, Zenon
  <2>3. CASE ~Has(q, 6)
    <3>1. From(q, 6) = From(q, 8)
      BY <2>1, <2>3, StepTable DEF Before
    <3>2. parent("dam", q.dam) = <<>>
      BY <2>3, StepTable
    <3> HIDE DEF parent
    <3> QED
      BY <1>1, <1>2, <3>1, <3>2, Joined
  <2> QED
    BY <2>2, <2>3
<1>7. parent("sire", q.sire) \o From(q, 6) = From(q, 4)
  <2>1. From(q, 4) = Before(q, 4, Before(q, 5, From(q, 6)))
    BY FromTable
  <2>2. CASE Has(q, 4)
    <3> DEFINE x == Do("sire")
               y == Put({<<q.sire, q.target>>})
    <3>1. From(q, 4) = <<x>> \o (<<y>> \o From(q, 6))
      BY <2>1, <2>2, StepTable DEF Before
    <3>2. parent("sire", q.sire) = <<x, y>>
      BY <2>2, StepTable
    <3>3. x \in Orders(q) /\ y \in Orders(q)
      BY <2>2, OrdersOf, StepTable DEF Clears
    <3>4. <<x, y>> \o From(q, 6) = <<x>> \o (<<y>> \o From(q, 6))
      <4> HIDE DEF x, y
      <4> QED
        BY <1>1, <3>3, Joined
    <3> HIDE DEF x, y, parent
    <3> QED
      BY <3>1, <3>2, <3>4, Zenon
  <2>3. CASE ~Has(q, 4)
    <3>1. From(q, 4) = From(q, 6)
      BY <2>1, <2>3, StepTable DEF Before
    <3>2. parent("sire", q.sire) = <<>>
      BY <2>3, StepTable
    <3> HIDE DEF parent
    <3> QED
      BY <1>1, <1>2, <3>1, <3>2, Joined
  <2> QED
    BY <2>2, <2>3
<1>8. clear("foals") \o From(q, 4) = From(q, 3)
  <2>1. From(q, 3) = IF Has(q, 3) THEN <<Do("foals")>> \o From(q, 4) ELSE From(q, 4)
    BY FromTable, StepTable DEF Before
  <2>2. clear("foals") = IF Has(q, 3) THEN <<Do("foals")>> ELSE <<>>
    BY StepTable
  <2> HIDE DEF clear
  <2> QED
    BY <1>1, <1>2, <2>1, <2>2, Joined
<1>9. clear("dam") \o From(q, 3) = From(q, 2)
  <2>1. From(q, 2) = IF Has(q, 2) THEN <<Do("dam")>> \o From(q, 3) ELSE From(q, 3)
    BY FromTable, StepTable DEF Before
  <2>2. clear("dam") = IF Has(q, 2) THEN <<Do("dam")>> ELSE <<>>
    BY StepTable
  <2> HIDE DEF clear
  <2> QED
    BY <1>1, <1>2, <2>1, <2>2, Joined
<1>10. clear("sire") \o From(q, 2) = From(q, 1)
  <2>1. From(q, 1) = IF Has(q, 1) THEN <<Do("sire")>> \o From(q, 2) ELSE From(q, 2)
    BY FromTable, StepTable DEF Before
  <2>2. clear("sire") = IF Has(q, 1) THEN <<Do("sire")>> ELSE <<>>
    BY StepTable
  <2> HIDE DEF clear
  <2> QED
    BY <1>1, <1>2, <2>1, <2>2, Joined
<1>11. Statements(q) =
         clear("sire") \o (clear("dam") \o (clear("foals") \o (parent("sire", q.sire)
             \o (parent("dam", q.dam) \o (foals \o <<Do("commit")>>)))))
  BY DEF Statements
<1> HIDE DEF clear, parent, foals
<1> QED
  BY <1>4, <1>5, <1>6, <1>7, <1>8, <1>9, <1>10, <1>11

LEMMA StatementsOf == ASSUME NEW q PROVE Statements(q) \in Seq(Orders(q))
  BY PlanTyped, StatementsFromStart

(***************************************************************************)
(* The inductive invariant                                                 *)
(***************************************************************************)

\* What ParentsOlder and DamAlive say of one link.
Fit(p, c) ==
    {p, c} \subseteq Present =>
        /\ Older(p, c)
        /\ horses[p].sex = "female" /\ Known(horses[p].died) /\ Known(horses[c].born)
           => horses[c].born <= horses[p].died

LinksFit == \A r \in links : Fit(ParentOf(r), ChildOf(r))

Mentioned(s) == {req[s].target, req[s].sire, req[s].dam} \cup req[s].foals
Writing == {"update", "redate"}

Quiet(s) ==
    Idle(s) => req[s] = NoRequest /\ mark[s] = "none" /\ added[s] = {} /\ plan[s] = <<>>

Aimed(s) ==
    ~Idle(s) => Target(s) \in Horses /\ (req[s].op \in Writing => req[s].info \in Infos)

\* Rows that are inserted and not committed fit as well, and so do those that
\* are still to be inserted: whoever they link, they were checked.
AddedFit(s) ==
    /\ added[s] # {} => req[s].op = "set"
    /\ \A r \in added[s] : Fit(ParentOf(r), ChildOf(r))

StatementFits(s, st) ==
    /\ st.pairs # {} \/ st.op \in Clears \cup {"put"} => req[s].op = "set"
    /\ st.op = "write" => req[s].op \in Writing
    /\ st.op = "erase" => req[s].op = "delete"
    /\ \A x \in st.pairs : Fit(x[1], x[2]) /\ {x[1], x[2]} \subseteq Mentioned(s)

PlanFits(s) == \A i \in 1..Len(plan[s]) : StatementFits(s, plan[s][i])

Marked(s) ==
    /\ mark[s] = "written" => req[s].op \in Writing
    /\ mark[s] = "gone" => req[s].op = "delete"
    /\ mark[s] # "none" => Target(s) \in Present

\* The row of a horse is locked by one transaction at a time.
Locked(s, t) == mark[s] # "none" /\ mark[t] # "none" /\ s # t => Target(s) # Target(t)

\* A row that is written back unchanged has not been changed by others, and
\* where it is changed, nobody else is there and the horse has no relatives.
Unaltered(s) == req[s].op = "update" /\ Target(s) \in Present => horses[Target(s)] = req[s].info

Alone(s) ==
    req[s].op = "redate" =>
        /\ \A t \in Sessions \ {s} : Idle(t)
        /\ \A r \in links : Target(s) \notin {ParentOf(r), ChildOf(r)}

Inv ==
    /\ TypeOK
    /\ LinksFit
    /\ \A s \in Sessions :
        /\ Quiet(s) /\ Aimed(s) /\ AddedFit(s) /\ PlanFits(s)
        /\ Marked(s) /\ Unaltered(s) /\ Alone(s)
        /\ \A t \in Sessions : Locked(s, t)

LEMMA InvInit == Init => Inv
<1> SUFFICES ASSUME Init PROVE Inv
  OBVIOUS
<1> USE DEF Init
<1>1. NoRequest \in Request
  BY DEF NoRequest, Request
<1>2. TypeOK
  BY <1>1 DEF TypeOK
<1>3. LinksFit
  BY DEF LinksFit
<1>4. ASSUME NEW s \in Sessions
      PROVE  /\ Quiet(s) /\ Aimed(s) /\ AddedFit(s) /\ PlanFits(s)
             /\ Marked(s) /\ Unaltered(s) /\ Alone(s)
             /\ \A t \in Sessions : Locked(s, t)
  BY DEF Quiet, Aimed, AddedFit, PlanFits, Marked, Unaltered, Alone, Locked, Idle, NoRequest
<1> QED
  BY <1>2, <1>3, <1>4 DEF Inv

(***************************************************************************)
(* Requests start                                                          *)
(***************************************************************************)

LEMMA UpdateRequest ==
    ASSUME NEW op, NEW h, NEW info
    PROVE  [NoRequest EXCEPT !.op = op, !.target = h, !.info = info]
           = [op |-> op, target |-> h, fields |-> {}, sire |-> Nobody, dam |-> Nobody,
              foals |-> {}, info |-> info]
<1> DEFINE q1 == [NoRequest EXCEPT !.op = op]
           q2 == [q1 EXCEPT !.target = h]
           q3 == [q2 EXCEPT !.info = info]
<1>1. [NoRequest EXCEPT !.op = op, !.target = h, !.info = info] = q3
  OBVIOUS
<1>2. q1 = [op |-> op, target |-> Nobody, fields |-> {}, sire |-> Nobody, dam |-> Nobody,
            foals |-> {}, info |-> NoRow]
  BY DEF NoRequest
<1> HIDE DEF q1
<1>3. q2 = [op |-> op, target |-> h, fields |-> {}, sire |-> Nobody, dam |-> Nobody,
            foals |-> {}, info |-> NoRow]
  BY <1>2
<1> HIDE DEF q2
<1>4. q3 = [op |-> op, target |-> h, fields |-> {}, sire |-> Nobody, dam |-> Nobody,
            foals |-> {}, info |-> info]
  BY <1>3
<1> HIDE DEF q3
<1> QED
  BY <1>1, <1>4

LEMMA DeleteRequest ==
    ASSUME NEW h
    PROVE  [NoRequest EXCEPT !.op = "delete", !.target = h]
           = [op |-> "delete", target |-> h, fields |-> {}, sire |-> Nobody, dam |-> Nobody,
              foals |-> {}, info |-> NoRow]
<1> DEFINE q1 == [NoRequest EXCEPT !.op = "delete"]
           q2 == [q1 EXCEPT !.target = h]
<1>1. [NoRequest EXCEPT !.op = "delete", !.target = h] = q2
  OBVIOUS
<1>2. q1 = [op |-> "delete", target |-> Nobody, fields |-> {}, sire |-> Nobody, dam |-> Nobody,
            foals |-> {}, info |-> NoRow]
  BY DEF NoRequest
<1> HIDE DEF q1
<1>3. q2 = [op |-> "delete", target |-> h, fields |-> {}, sire |-> Nobody, dam |-> Nobody,
            foals |-> {}, info |-> NoRow]
  BY <1>2
<1> HIDE DEF q2
<1> QED
  BY <1>1, <1>3

\* Whoever starts, nobody is changing sex or dates at the time.
LEMMA NobodyRedates ==
    ASSUME NEW s \in Sessions, Idle(s), Admitted(s), NEW t \in Sessions
    PROVE  req[t].op # "redate"
  BY DEF Admitted, Idle

LEMMA StartKeepsInv ==
    ASSUME Inv, NEW s \in Sessions, Idle(s), Admitted(s),
           NEW q \in Request, q.op # "none", q.target \in Horses,
           q.op \in Writing => q.info \in Infos,
           NEW statements \in Seq(Statement), Start(s, q, statements),
           PlanFits(s)', Unaltered(s)', Alone(s)'
    PROVE  Inv'
<1> USE DEF Start
<1>1. TypeOK'
  BY DEF Inv, TypeOK
<1>2. LinksFit'
  BY DEF Inv, LinksFit, Fit, Present, Older, Known
<1>3. req'[s] = q /\ plan'[s] = statements
  BY DEF Inv, TypeOK
<1>4. mark[s] = "none" /\ added[s] = {}
  BY DEF Inv, Quiet
<1>5. \A t \in Sessions \ {s} : req'[t] = req[t] /\ plan'[t] = plan[t]
  BY DEF Inv, TypeOK
<1>6. (Quiet(s) /\ Aimed(s) /\ AddedFit(s) /\ Marked(s))'
  BY <1>3, <1>4 DEF Quiet, Aimed, AddedFit, Marked, Idle, Target
<1>7. ASSUME NEW t \in Sessions \ {s}
      PROVE  (Quiet(t) /\ Aimed(t) /\ AddedFit(t) /\ Marked(t) /\ Unaltered(t) /\ Alone(t))'
  <2>1. req[t].op # "redate"
    BY NobodyRedates
  <2>2. Quiet(t) /\ Aimed(t) /\ AddedFit(t) /\ Marked(t) /\ Unaltered(t)
    BY DEF Inv
  <2> QED
    BY <1>5, <2>1, <2>2 DEF Quiet, Aimed, AddedFit, Marked, Unaltered, Alone, Idle, Target, Present, Fit, Older, Known
<1>8. ASSUME NEW t \in Sessions \ {s} PROVE PlanFits(t)'
  <2>1. PlanFits(t)
    BY DEF Inv
  <2> QED
    BY <1>5, <2>1 DEF PlanFits, StatementFits, Mentioned, Fit, Present, Older, Known
<1>9. ASSUME NEW t \in Sessions, NEW u \in Sessions PROVE Locked(t, u)'
  BY <1>4, <1>5 DEF Inv, Locked, Target
<1> QED
  BY <1>1, <1>2, <1>6, <1>7, <1>8, <1>9 DEF Inv

\* The checks of set_horse_pedigree are what LinksFit asks of the new links.
LEMMA AcceptedFits ==
    ASSUME Inv, NEW q \in Request, q.target \in Present,
           NEW sire, NEW dam, NEW foals, Accepted(q, sire, dam, foals),
           NEW x \in AskedLinks(q)
    PROVE  /\ Fit(x[1], x[2])
           /\ x \in Horses \X Horses
           /\ {x[1], x[2]} \subseteq {q.target, q.sire, q.dam} \cup q.foals
<1> DEFINE finalSire  == IF "sire" \in q.fields THEN q.sire ELSE sire
           finalDam   == IF "dam" \in q.fields THEN q.dam ELSE dam
           finalFoals == IF "foals" \in q.fields THEN q.foals ELSE foals
<1>1. /\ ({q.target, q.sire, q.dam} \cup q.foals) \ {Nobody} \subseteq Present
      /\ q.sire # Nobody => SireOk(q.target, q.sire, finalDam, finalFoals)
      /\ q.dam # Nobody => DamOk(q.target, q.dam, finalSire, finalFoals)
      /\ \A c \in q.foals : FoalOk(q.target, c, {finalSire, finalDam})
  BY DEF Accepted
<1> HIDE DEF finalSire, finalDam, finalFoals
<1>2. \A h \in Present : h \in Horses /\ horses[h].born \in Nat /\ horses[h].died \in Nat
  BY PedigreeConstants DEF Inv, TypeOK, Present, Info
<1>3. CASE q.sire # Nobody /\ x = <<q.sire, q.target>>
  <2>1. q.sire \in Present /\ horses[q.sire].sex = "male" /\ Older(q.sire, q.target)
    BY <1>1, <1>3 DEF SireOk
  <2>2. Fit(q.sire, q.target)
    BY <2>1 DEF Fit
  <2> QED
    BY <1>2, <1>3, <2>1, <2>2
<1>4. CASE q.dam # Nobody /\ x = <<q.dam, q.target>>
  <2>1. /\ q.dam \in Present /\ Older(q.dam, q.target)
        /\ Known(horses[q.target].born) /\ Known(horses[q.dam].died)
              => horses[q.dam].died >= horses[q.target].born
    BY <1>1, <1>4 DEF DamOk
  <2>2. Fit(q.dam, q.target)
    BY <1>2, <2>1 DEF Fit
  <2> QED
    BY <1>2, <1>4, <2>1, <2>2
<1>5. ASSUME NEW c \in q.foals, x = <<q.target, c>>
      PROVE  /\ Fit(x[1], x[2])
             /\ x \in Horses \X Horses
             /\ {x[1], x[2]} \subseteq {q.target, q.sire, q.dam} \cup q.foals
  <2>1. c # Nobody
    BY PedigreeConstants DEF Request
  <2>2. FoalOk(q.target, c, {finalSire, finalDam}) /\ c \in Present
    BY <1>1, <2>1
  <2>3. Fit(q.target, c)
    BY <2>2 DEF Fit, FoalOk
  <2> QED
    BY <1>2, <1>5, <2>2, <2>3
<1> QED
  BY <1>3, <1>4, <1>5 DEF AskedLinks

LEMMA SetPedigreeKeepsInv == ASSUME Inv, NEW s \in Sessions, SetPedigree(s) PROVE Inv'
<1>1. PICK t \in Present, fields \in SUBSET Clears,
           newSire, newDam \in Present \cup {Nobody}, newFoals \in SUBSET Present :
        LET q == SetRequest(t, fields, newSire, newDam, newFoals)
        IN  /\ \E sire \in Shown(ParentsIn(links, t, SireSexes)),
                  dam \in Shown(ParentsIn(links, t, DamSexes)) :
                Accepted(q, sire, dam, FoalsIn(links, t))
            /\ Start(s, q, Statements(q))
  BY DEF SetPedigree
<1> DEFINE q == SetRequest(t, fields, newSire, newDam, newFoals)
<1>2. q = [op |-> "set", target |-> t, fields |-> fields, sire |-> newSire, dam |-> newDam,
           foals |-> newFoals, info |-> NoRow]
  BY DEF SetRequest
<1>3. Present \subseteq Horses
  BY DEF Present
<1>4. q \in Request /\ q.op = "set" /\ q.target = t
  BY <1>2, <1>3 DEF Request
<1>5. Idle(s) /\ Admitted(s)
  BY DEF SetPedigree
<1>6. /\ Start(s, q, Statements(q))
      /\ \E sire, dam : Accepted(q, sire, dam, FoalsIn(links, t))
  BY <1>1
<1> HIDE DEF q
<1>7. \A x \in AskedLinks(q) :
        /\ Fit(x[1], x[2])
        /\ x \in Horses \X Horses
        /\ {x[1], x[2]} \subseteq {q.target, q.sire, q.dam} \cup q.foals
  BY <1>4, <1>6, AcceptedFits
<1>8. Statements(q) \in Seq([op: Clears \cup {"put", "commit"}, pairs: SUBSET AskedLinks(q)])
  BY StatementsOf DEF Orders
<1>9. \A i \in 1..Len(Statements(q)) :
        /\ Statements(q)[i].op \in Clears \cup {"put", "commit"}
        /\ \A x \in Statements(q)[i].pairs : x \in AskedLinks(q)
        /\ Statements(q)[i] \in Statement
  <2> SUFFICES ASSUME NEW i \in 1..Len(Statements(q))
               PROVE  /\ Statements(q)[i].op \in Clears \cup {"put", "commit"}
                      /\ \A x \in Statements(q)[i].pairs : x \in AskedLinks(q)
                      /\ Statements(q)[i] \in Statement
    OBVIOUS
  <2> DEFINE X == [op: Clears \cup {"put", "commit"}, pairs: SUBSET AskedLinks(q)]
  <2>1. Statements(q)[i] \in X
    <3> HIDE DEF X
    <3>1. Statements(q) \in Seq(X)
      BY <1>8 DEF X
    <3> QED
      BY <3>1
  <2>2. AskedLinks(q) \subseteq Horses \X Horses
    BY <1>7
  <2> HIDE DEF AskedLinks
  <2> QED
    BY <2>1, <2>2 DEF Statement, Clears
<1>10. Statements(q) \in Seq(Statement)
  BY <1>8, <1>9
<1>11. req'[s] = q /\ plan'[s] = Statements(q) /\ horses' = horses
  BY <1>6 DEF Start, Inv, TypeOK
<1>12. PlanFits(s)'
  <2> SUFFICES ASSUME NEW i \in 1..Len(plan'[s]) PROVE StatementFits(s, plan[s][i])'
    BY DEF PlanFits
  <2>1. /\ plan'[s][i].op \in Clears \cup {"put", "commit"}
        /\ \A x \in plan'[s][i].pairs : x \in AskedLinks(q)
    BY <1>9, <1>11
  <2>2. \A x \in plan'[s][i].pairs :
            Fit(x[1], x[2]) /\ {x[1], x[2]} \subseteq {q.target, q.sire, q.dam} \cup q.foals
    BY <1>7, <2>1
  <2> QED
    BY <1>4, <1>11, <2>1, <2>2
    DEF StatementFits, Mentioned, Clears, Fit, Present, Older, Known
<1>13. (Unaltered(s) /\ Alone(s))'
  BY <1>4, <1>11 DEF Unaltered, Alone
<1> QED
  BY <1>3, <1>4, <1>5, <1>6, <1>10, <1>12, <1>13, StartKeepsInv DEF Writing

LEMMA UpdateHorseKeepsInv ==
    ASSUME ~Redate, Inv, NEW s \in Sessions, UpdateHorse(s) PROVE Inv'
<1>1. PICK h \in Present, info \in Infos :
        /\ \/ info = horses[h]
           \/ /\ \A t \in Sessions \ {s} : Idle(t)
              /\ \A r \in links : h \notin {ParentOf(r), ChildOf(r)}
        /\ Start(s, [NoRequest EXCEPT !.op = IF info = horses[h] \/ Redate THEN "update" ELSE "redate",
                                      !.target = h, !.info = info],
                 <<Do("write"), Do("commit")>>)
  BY DEF UpdateHorse
<1> DEFINE op == IF info = horses[h] \/ Redate THEN "update" ELSE "redate"
           q == [NoRequest EXCEPT !.op = op, !.target = h, !.info = info]
           statements == <<Do("write"), Do("commit")>>
<1>2. q = [op |-> op, target |-> h, fields |-> {}, sire |-> Nobody, dam |-> Nobody,
           foals |-> {}, info |-> info]
  BY UpdateRequest
<1>3. h \in Horses
  BY DEF Present
<1>4. q \in Request /\ q.op = op /\ q.target = h /\ q.info = info
  BY <1>2, <1>3 DEF Request
<1>5. /\ statements \in Seq(Statement) /\ Len(statements) = 2
      /\ \A i \in 1..2 : statements[i].pairs = {} /\ statements[i].op \in {"write", "commit"}
  BY DEF Do, Statement
<1>6. Start(s, q, statements)
  BY <1>1
<1> HIDE DEF q, statements
<1>7. req'[s] = q /\ plan'[s] = statements /\ horses' = horses /\ links' = links
  BY <1>6 DEF Start, Inv, TypeOK
<1>8. PlanFits(s)'
  BY <1>4, <1>5, <1>7 DEF PlanFits, StatementFits, Writing, Clears
<1>9. Unaltered(s)'
  BY <1>4, <1>7 DEF Unaltered, Target
<1>10. Alone(s)'
  <2> SUFFICES ASSUME op = "redate"
               PROVE  /\ \A t \in Sessions \ {s} : Idle(t)'
                      /\ \A r \in links : h \notin {ParentOf(r), ChildOf(r)}
    BY <1>4, <1>7 DEF Alone, Target
  <2>1. /\ \A t \in Sessions \ {s} : Idle(t)
        /\ \A r \in links : h \notin {ParentOf(r), ChildOf(r)}
    BY <1>1
  <2>2. \A t \in Sessions \ {s} : req'[t] = req[t]
    BY <1>6 DEF Start, Inv, TypeOK
  <2> QED
    BY <2>1, <2>2 DEF Idle
<1>11. Idle(s) /\ Admitted(s)
  BY DEF UpdateHorse
<1> QED
  BY <1>3, <1>4, <1>5, <1>6, <1>8, <1>9, <1>10, <1>11, StartKeepsInv DEF Writing

LEMMA DeleteHorseKeepsInv == ASSUME Inv, NEW s \in Sessions, DeleteHorse(s) PROVE Inv'
<1>1. PICK h \in Present :
        Start(s, [NoRequest EXCEPT !.op = "delete", !.target = h], <<Do("erase"), Do("commit")>>)
  BY DEF DeleteHorse
<1> DEFINE q == [NoRequest EXCEPT !.op = "delete", !.target = h]
           statements == <<Do("erase"), Do("commit")>>
<1>2. q = [op |-> "delete", target |-> h, fields |-> {}, sire |-> Nobody, dam |-> Nobody,
           foals |-> {}, info |-> NoRow]
  BY DeleteRequest
<1>3. h \in Horses
  BY DEF Present
<1>4. q \in Request /\ q.op = "delete" /\ q.target = h
  BY <1>2, <1>3 DEF Request
<1>5. /\ statements \in Seq(Statement) /\ Len(statements) = 2
      /\ \A i \in 1..2 : statements[i].pairs = {} /\ statements[i].op \in {"erase", "commit"}
  BY DEF Do, Statement
<1>6. Start(s, q, statements)
  BY <1>1
<1> HIDE DEF q, statements
<1>7. req'[s] = q /\ plan'[s] = statements
  BY <1>6 DEF Start, Inv, TypeOK
<1>8. PlanFits(s)'
  BY <1>4, <1>5, <1>7 DEF PlanFits, StatementFits, Clears
<1>9. (Unaltered(s) /\ Alone(s))'
  BY <1>4, <1>7 DEF Unaltered, Alone
<1>10. Idle(s) /\ Admitted(s)
  BY DEF DeleteHorse
<1> QED
  BY <1>3, <1>4, <1>5, <1>6, <1>8, <1>9, <1>10, StartKeepsInv DEF Writing

\* A new horse has a new id, which no link and no request mentions.
LEMMA CreateHorseKeepsInv == ASSUME Inv, NEW s \in Sessions, CreateHorse(s) PROVE Inv'
<1>1. PICK h \in Horses, info \in Infos : Fresh(h) /\ horses' = [horses EXCEPT ![h] = info]
  BY DEF CreateHorse
<1>2. UNCHANGED <<links, added, removed, mark, req, plan, waiting, found>>
  BY DEF CreateHorse
<1>3. TypeOK'
  BY <1>1, <1>2 DEF Inv, TypeOK
<1>4. Present' = Present \cup {h} /\ \A g \in Horses \ {h} : horses'[g] = horses[g]
  BY <1>1, PedigreeConstants DEF Present, Inv, TypeOK
<1>5. ASSUME NEW p, NEW c, p # h, c # h, Fit(p, c) PROVE Fit(p, c)'
  <2> SUFFICES ASSUME {p, c} \subseteq Present' PROVE Fit(p, c)'
    BY DEF Fit
  <2>1. p \in Present /\ c \in Present /\ p \in Horses /\ c \in Horses
    BY <1>4, <1>5 DEF Present
  <2>2. horses'[p] = horses[p] /\ horses'[c] = horses[c]
    BY <1>4, <1>5, <2>1
  <2> QED
    BY <1>5, <2>1, <2>2 DEF Fit, Older, Known
<1>6. LinksFit'
  BY <1>1, <1>2, <1>5 DEF LinksFit, Fresh, Inv
<1>7. ASSUME NEW t \in Sessions
      PROVE  /\ (Quiet(t) /\ Aimed(t) /\ AddedFit(t) /\ Marked(t) /\ Unaltered(t) /\ Alone(t))'
             /\ PlanFits(t)'
             /\ \A u \in Sessions : Locked(t, u)'
  <2>1. h \notin Mentioned(t) /\ \A r \in added[t] : h \notin {ParentOf(r), ChildOf(r)}
    BY <1>1 DEF Fresh, Mentioned
  <2>2. Quiet(t)' /\ Aimed(t)' /\ Alone(t)'
    BY <1>2 DEF Inv, Quiet, Aimed, Alone, Idle, Target
  <2>3. AddedFit(t)'
    BY <1>2, <1>5, <2>1 DEF Inv, AddedFit
  <2>4. Marked(t)'
    BY <1>2, <1>4 DEF Inv, Marked, Target
  <2>5. Unaltered(t)'
    BY <1>2, <1>4, <2>1 DEF Inv, Unaltered, Target, Mentioned, Present
  <2>6. PlanFits(t)'
    <3> SUFFICES ASSUME NEW i \in 1..Len(plan[t]) PROVE StatementFits(t, plan[t][i])'
      BY <1>2 DEF PlanFits
    <3>1. StatementFits(t, plan[t][i])
      BY DEF Inv, PlanFits
    <3>2. \A x \in plan[t][i].pairs : Fit(x[1], x[2])'
      BY <1>5, <2>1, <3>1 DEF StatementFits
    <3> QED
      BY <1>2, <3>1, <3>2 DEF StatementFits, Mentioned
  <2>7. \A u \in Sessions : Locked(t, u)'
    BY <1>2 DEF Inv, Locked, Target
  <2> QED
    BY <2>2, <2>3, <2>4, <2>5, <2>6, <2>7
<1> QED
  BY <1>3, <1>6, <1>7 DEF Inv

(***************************************************************************)
(* Statements are executed                                                 *)
(***************************************************************************)

\* What a statement of s may do: nobody else's part of the transaction and no
\* committed row changes, and the rows it leaves in place of its own fit.
LEMMA StatementKeepsInv ==
    ASSUME Inv, NEW s \in Sessions, ~Idle(s), UNCHANGED <<horses, links, req>>,
           TypeOK', PlanFits(s)',
           \A t \in Sessions \ {s} :
                added'[t] = added[t] /\ mark'[t] = mark[t] /\ plan'[t] = plan[t],
           AddedFit(s)', Marked(s)', \A t \in Sessions : (Locked(s, t) /\ Locked(t, s))'
    PROVE  Inv'
<1>1. LinksFit'
  BY DEF Inv, LinksFit, Fit, Present, Older, Known
<1>2. (Quiet(s) /\ Aimed(s) /\ Unaltered(s) /\ Alone(s))'
  BY DEF Inv, Quiet, Aimed, Unaltered, Alone, Idle, Target, Present
<1>3. ASSUME NEW t \in Sessions \ {s}
      PROVE  /\ (Quiet(t) /\ Aimed(t) /\ Marked(t) /\ Unaltered(t) /\ Alone(t))'
             /\ AddedFit(t)' /\ PlanFits(t)'
             /\ \A u \in Sessions : Locked(t, u)'
  <2>1. (Quiet(t) /\ Aimed(t) /\ Marked(t) /\ Unaltered(t) /\ Alone(t))'
    BY DEF Inv, Quiet, Aimed, Marked, Unaltered, Alone, Idle, Target, Present
  <2>2. AddedFit(t)'
    BY DEF Inv, AddedFit, Fit, Present, Older, Known
  <2>3. PlanFits(t)'
    BY DEF Inv, PlanFits, StatementFits, Mentioned, Fit, Present, Older, Known
  <2>4. \A u \in Sessions : Locked(t, u)'
    BY DEF Inv, Locked, Target
  <2> QED
    BY <2>1, <2>2, <2>3, <2>4
<1> QED
  BY <1>1, <1>2, <1>3 DEF Inv

\* The statement that comes next fits, and so do those after it.
LEMMA AdvanceKeepsPlan ==
    ASSUME Inv, NEW s \in Sessions, Busy(s), Advance(s), UNCHANGED <<horses, req>>
    PROVE  /\ StatementFits(s, Head(plan[s])) /\ Head(plan[s]) \in Statement
           /\ PlanFits(s)'
           /\ plan' \in [Sessions -> Seq(Statement)]
           /\ waiting' \in SUBSET Sessions
           /\ found' \in [Sessions -> SUBSET Rows]
           /\ \A t \in Sessions \ {s} : plan'[t] = plan[t]
<1>1. plan[s] \in Seq(Statement) /\ plan[s] # <<>>
  BY DEF Inv, TypeOK, Busy
<1>2. Len(plan[s]) \in Nat \ {0} /\ Head(plan[s]) = plan[s][1]
  BY <1>1
<1>3. /\ plan'[s] = Tail(plan[s])
      /\ plan' \in [Sessions -> Seq(Statement)]
      /\ waiting' \in SUBSET Sessions
      /\ found' \in [Sessions -> SUBSET Rows]
      /\ \A t \in Sessions \ {s} : plan'[t] = plan[t]
  BY <1>1 DEF Advance, Inv, TypeOK
<1>4. \A i \in 1..Len(plan'[s]) : i + 1 \in 1..Len(plan[s]) /\ plan'[s][i] = plan[s][i + 1]
  BY <1>1, <1>3
<1>5. \A i \in 1..Len(plan[s]) : StatementFits(s, plan[s][i])
  BY DEF Inv, PlanFits
<1>6. PlanFits(s)'
  BY <1>4, <1>5 DEF PlanFits, StatementFits, Mentioned, Fit, Present, Older, Known
<1> QED
  BY <1>1, <1>2, <1>3, <1>5, <1>6

LEMMA ClearLinksKeepsInv == ASSUME Inv, NEW s \in Sessions, ClearLinks(s) PROVE Inv'
<1>1. /\ Busy(s) /\ Delete(s, Doomed(s)) /\ Advance(s)
      /\ UNCHANGED <<horses, links, mark, req>>
  BY DEF ClearLinks, Runs
<1>2. PlanFits(s)' /\ plan' \in [Sessions -> Seq(Statement)] /\ waiting' \in SUBSET Sessions
      /\ found' \in [Sessions -> SUBSET Rows] /\ \A t \in Sessions \ {s} : plan'[t] = plan[t]
  BY <1>1, AdvanceKeepsPlan
<1>3. /\ added' \in [Sessions -> SUBSET Rows] /\ removed' \in [Sessions -> SUBSET Rows]
      /\ added'[s] \subseteq added[s]
      /\ \A t \in Sessions \ {s} : added'[t] = added[t]
  BY <1>1 DEF Delete, Inv, TypeOK
<1>4. TypeOK'
  BY <1>1, <1>2, <1>3 DEF Inv, TypeOK
<1>5. AddedFit(s)'
  BY <1>1, <1>3 DEF Inv, AddedFit, Fit, Present, Older, Known
<1>6. Marked(s)' /\ \A t \in Sessions : (Locked(s, t) /\ Locked(t, s))'
  BY <1>1 DEF Inv, Marked, Locked, Target, Present
<1> QED
  BY <1>1, <1>2, <1>3, <1>4, <1>5, <1>6, StatementKeepsInv DEF Busy

LEMMA WaitKeepsInv == ASSUME Inv, NEW s \in Sessions, Wait(s) PROVE Inv'
<1>1. /\ ~Idle(s) /\ UNCHANGED <<horses, links, added, removed, mark, req, plan>>
      /\ waiting' \in SUBSET Sessions
  BY DEF Wait, Busy, Inv, TypeOK
<1>2. Visible(s) \subseteq Rows
  BY DEF Visible, Inv, TypeOK
<1>3. Matching(s) \subseteq Rows
  BY <1>2 DEF Matching
<1>4. found' \in [Sessions -> SUBSET Rows]
  BY <1>3 DEF Wait, Inv, TypeOK
<1>5. TypeOK'
  BY <1>1, <1>4 DEF Inv, TypeOK
<1>6. PlanFits(s)'
  BY <1>1 DEF Inv, PlanFits, StatementFits, Mentioned, Fit, Present, Older, Known
<1>7. AddedFit(s)'
  BY <1>1 DEF Inv, AddedFit, Fit, Present, Older, Known
<1>8. Marked(s)' /\ \A t \in Sessions : (Locked(s, t) /\ Locked(t, s))'
  BY <1>1 DEF Inv, Marked, Locked, Target, Present
<1> QED
  BY <1>1, <1>5, <1>6, <1>7, <1>8, StatementKeepsInv

LEMMA PutLinksKeepsInv == ASSUME Inv, NEW s \in Sessions, PutLinks(s) PROVE Inv'
<1> DEFINE pairs == Head(plan[s]).pairs
           taken == links \cup UNION {added[o] : o \in Sessions}
           free(p) == {c \in Copies : <<p[1], p[2], c>> \notin taken}
           row(p) == <<p[1], p[2], CHOOSE c \in free(p) : \A d \in free(p) : c <= d>>
           new == {row(p) : p \in pairs}
<1>1. /\ Busy(s) /\ Head(plan[s]).op = "put" /\ Advance(s)
      /\ \A p \in pairs : free(p) # {}
      /\ added' = [added EXCEPT ![s] = @ \cup new]
      /\ UNCHANGED <<horses, links, removed, mark, req>>
  BY DEF PutLinks, Runs
<1>2. /\ PlanFits(s)' /\ plan' \in [Sessions -> Seq(Statement)] /\ waiting' \in SUBSET Sessions
      /\ found' \in [Sessions -> SUBSET Rows] /\ \A t \in Sessions \ {s} : plan'[t] = plan[t]
      /\ StatementFits(s, Head(plan[s])) /\ Head(plan[s]) \in Statement
  BY <1>1, AdvanceKeepsPlan
<1>3. pairs \subseteq Horses \X Horses
  BY <1>2 DEF Statement
<1>4. req[s].op = "set" /\ \A p \in pairs : Fit(p[1], p[2])
  BY <1>1, <1>2 DEF StatementFits
<1>5. ASSUME NEW p \in pairs
      PROVE  row(p) \in Rows /\ ParentOf(row(p)) = p[1] /\ ChildOf(row(p)) = p[2]
  <2>1. free(p) \subseteq Nat /\ free(p) # {}
    BY <1>1, PedigreeConstants
  <2> HIDE DEF free
  <2>2. \E c \in free(p) : \A d \in free(p) : c <= d
    BY <2>1, LeastNumber
  <2>3. (CHOOSE c \in free(p) : \A d \in free(p) : c <= d) \in free(p)
    BY <2>2
  <2>4. free(p) \subseteq Copies
    BY DEF free
  <2> QED
    BY <1>3, <2>3, <2>4 DEF Rows, ParentOf, ChildOf
<1> HIDE DEF row, pairs
<1>6. /\ added' \in [Sessions -> SUBSET Rows]
      /\ added'[s] = added[s] \cup new
      /\ \A t \in Sessions \ {s} : added'[t] = added[t]
  <2>1. new \subseteq Rows
    BY <1>5
  <2> HIDE DEF new
  <2> QED
    BY <1>1, <2>1 DEF Inv, TypeOK
<1>7. TypeOK'
  BY <1>1, <1>2, <1>6 DEF Inv, TypeOK
<1>8. \A r \in new : Fit(ParentOf(r), ChildOf(r))
  BY <1>4, <1>5
<1>9. AddedFit(s)'
  <2> HIDE DEF new
  <2> QED
    BY <1>1, <1>4, <1>6, <1>8 DEF Inv, AddedFit, Fit, Present, Older, Known
<1>10. Marked(s)' /\ \A t \in Sessions : (Locked(s, t) /\ Locked(t, s))'
  BY <1>1 DEF Inv, Marked, Locked, Target, Present
<1> QED
  BY <1>1, <1>2, <1>6, <1>7, <1>9, <1>10, StatementKeepsInv DEF Busy

\* A row is written or deleted only when no other transaction has.
LEMMA MarkingKeepsInv ==
    ASSUME Inv, NEW s \in Sessions, WriteHorse(s) \/ EraseHorse(s)
    PROVE  Inv'
<1>1. /\ Busy(s) /\ Advance(s) /\ ~Blocked(s) /\ Head(plan[s]).op \in {"write", "erase"}
      /\ UNCHANGED <<horses, links, req>>
  BY DEF WriteHorse, EraseHorse, Runs
<1>2. \/ Head(plan[s]).op = "write"
         /\ mark' = [mark EXCEPT ![s] = IF Target(s) \in Present THEN "written" ELSE "none"]
      \/ Head(plan[s]).op = "erase"
         /\ mark' = [mark EXCEPT ![s] = IF Target(s) \in Present THEN "gone" ELSE "none"]
  BY DEF WriteHorse, EraseHorse, Runs
<1>3. /\ PlanFits(s)' /\ plan' \in [Sessions -> Seq(Statement)] /\ waiting' \in SUBSET Sessions
      /\ found' \in [Sessions -> SUBSET Rows] /\ \A t \in Sessions \ {s} : plan'[t] = plan[t]
      /\ StatementFits(s, Head(plan[s]))
  BY <1>1, AdvanceKeepsPlan
<1>4. /\ added' \in [Sessions -> SUBSET Rows] /\ removed' \in [Sessions -> SUBSET Rows]
      /\ added'[s] \subseteq added[s]
      /\ \A t \in Sessions \ {s} : added'[t] = added[t]
  <2>1. CASE WriteHorse(s)
    BY <2>1 DEF WriteHorse, Inv, TypeOK
  <2>2. CASE EraseHorse(s)
    <3>1. PICK R : Delete(s, R)
      BY <2>2 DEF EraseHorse
    <3> QED
      BY <3>1 DEF Delete, Inv, TypeOK
  <2> QED
    BY <2>1, <2>2
<1>5. mark' \in [Sessions -> {"none", "written", "gone"}]
  BY <1>2 DEF Inv, TypeOK
<1>6. TypeOK'
  BY <1>1, <1>3, <1>4, <1>5 DEF Inv, TypeOK
<1>7. AddedFit(s)'
  BY <1>1, <1>4 DEF Inv, AddedFit, Fit, Present, Older, Known
<1>8. Marked(s)'
  <2>1. Head(plan[s]).op = "write" => req[s].op \in Writing
    BY <1>3 DEF StatementFits
  <2>2. Head(plan[s]).op = "erase" => req[s].op = "delete"
    BY <1>3 DEF StatementFits
  <2>3. UNCHANGED <<req, Target(s), Present>>
    BY <1>1 DEF Target, Present
  <2> QED
    BY <1>2, <2>1, <2>2, <2>3 DEF Marked, Inv, TypeOK
<1>9. \A t \in Sessions \ {s} : mark'[t] = mark[t]
  BY <1>2 DEF Inv, TypeOK
<1>10. ASSUME NEW t \in Sessions \ {s}, mark[t] # "none" PROVE Target(t) # Target(s)
  <2>1. mark[t] \in {"written", "gone"}
    BY <1>10 DEF Inv, TypeOK
  <2>2. ~Holds(t, Target(s), {"written", "gone"})
    BY <1>1 DEF Blocked, Others, Clears
  <2> QED
    BY <2>1, <2>2 DEF Holds
<1>11. \A t \in Sessions : (Locked(s, t) /\ Locked(t, s))'
  BY <1>1, <1>9, <1>10 DEF Locked, Target
<1> QED
  BY <1>1, <1>3, <1>4, <1>6, <1>7, <1>8, <1>9, <1>11, StatementKeepsInv DEF Busy

(***************************************************************************)
(* Transactions end                                                        *)
(***************************************************************************)

\* When a transaction ends, the others stay as they are; what it has committed
\* must fit, and leave what they still have to do fitting.
LEMMA EndKeepsInv ==
    ASSUME Inv, NEW s \in Sessions, ~Idle(s), EndSession(s),
           horses' \in [Horses -> Infos \cup {NoRow}], links' \in SUBSET Rows, LinksFit',
           \A t \in Sessions \ {s} :
                /\ \A r \in added[t] : Fit(ParentOf(r), ChildOf(r))'
                /\ PlanFits(t)' /\ Marked(t)' /\ Unaltered(t)'
    PROVE  Inv'
<1>1. /\ added' = [added EXCEPT ![s] = {}] /\ mark' = [mark EXCEPT ![s] = "none"]
      /\ req' = [req EXCEPT ![s] = NoRequest] /\ plan' = [plan EXCEPT ![s] = <<>>]
  BY DEF EndSession
<1>2. NoRequest \in Request /\ NoRequest.op = "none" /\ NoRequest.target = Nobody
  BY DEF NoRequest, Request
<1>3. TypeOK'
  BY <1>2 DEF EndSession, Inv, TypeOK
<1>4. /\ added'[s] = {} /\ mark'[s] = "none" /\ req'[s] = NoRequest /\ plan'[s] = <<>>
      /\ \A t \in Sessions \ {s} : added'[t] = added[t] /\ mark'[t] = mark[t]
                                   /\ req'[t] = req[t] /\ plan'[t] = plan[t]
  BY <1>1 DEF Inv, TypeOK
<1>5. /\ (Quiet(s) /\ Aimed(s) /\ AddedFit(s) /\ PlanFits(s))'
      /\ (Marked(s) /\ Unaltered(s) /\ Alone(s))'
      /\ \A t \in Sessions : Locked(s, t)'
  BY <1>2, <1>4 DEF Quiet, Aimed, AddedFit, PlanFits, Marked, Unaltered, Alone, Locked, Idle
<1>6. ASSUME NEW t \in Sessions \ {s}
      PROVE  /\ (Quiet(t) /\ Aimed(t) /\ AddedFit(t) /\ PlanFits(t))'
             /\ (Marked(t) /\ Unaltered(t) /\ Alone(t))'
             /\ \A u \in Sessions : Locked(t, u)'
  <2>1. req[t].op # "redate"
    BY DEF Inv, Alone
  <2>2. (Quiet(t) /\ Aimed(t) /\ AddedFit(t) /\ Alone(t))'
    BY <1>4, <2>1 DEF Inv, Quiet, Aimed, AddedFit, Alone, Idle, Target
  <2>3. \A u \in Sessions : Locked(t, u)'
    BY <1>4 DEF Inv, Locked, Target
  <2> QED
    BY <2>2, <2>3
<1> QED
  BY <1>3, <1>5, <1>6 DEF Inv

LEMMA RollbackKeepsInv == ASSUME Inv, NEW s \in Sessions, Rollback(s) PROVE Inv'
<1>1. ~Idle(s) /\ EndSession(s) /\ UNCHANGED <<horses, links>>
  BY DEF Rollback
<1>2. LinksFit'
  BY <1>1 DEF Inv, LinksFit, Fit, Present, Older, Known
<1>3. ASSUME NEW t \in Sessions \ {s}
      PROVE  /\ \A r \in added[t] : Fit(ParentOf(r), ChildOf(r))'
             /\ PlanFits(t)' /\ Marked(t)' /\ Unaltered(t)'
  <2>1. mark'[t] = mark[t] /\ req'[t] = req[t] /\ plan'[t] = plan[t]
    BY <1>1 DEF EndSession, Inv, TypeOK
  <2>2. \A r \in added[t] : Fit(ParentOf(r), ChildOf(r))'
    BY <1>1 DEF Inv, AddedFit, Fit, Present, Older, Known
  <2>3. PlanFits(t)'
    BY <1>1, <2>1 DEF Inv, PlanFits, StatementFits, Mentioned, Fit, Present, Older, Known
  <2>4. Marked(t)' /\ Unaltered(t)'
    BY <1>1, <2>1 DEF Inv, Marked, Unaltered, Target, Present
  <2> QED
    BY <2>2, <2>3, <2>4
<1>4. horses' \in [Horses -> Infos \cup {NoRow}] /\ links' \in SUBSET Rows
  BY <1>1 DEF Inv, TypeOK
<1> QED
  BY <1>1, <1>2, <1>3, <1>4, EndKeepsInv

\* What a commit does to the rows of the horses: it writes back what is there,
\* it changes a horse without relatives while nobody else is there, or it
\* takes a horse away.
LEMMA CommittedHorses ==
    ASSUME Inv, NEW s \in Sessions, Commit(s)
    PROVE  \/ horses' = horses
           \/ /\ req[s].op = "redate" /\ Target(s) \in Horses
              /\ horses' = [horses EXCEPT ![Target(s)] = req[s].info] /\ req[s].info \in Infos
           \/ /\ mark[s] = "gone" /\ Target(s) \in Horses
              /\ horses' = [horses EXCEPT ![Target(s)] = NoRow]
<1>1. ~Idle(s) /\ Aimed(s) /\ Marked(s) /\ Unaltered(s)
  BY DEF Commit, Runs, Busy, Inv
<1>2. Target(s) \in Horses
  BY <1>1 DEF Aimed
<1>3. CASE mark[s] = "written"
  <2>1. horses' = [horses EXCEPT ![Target(s)] = req[s].info]
    BY <1>3 DEF Commit
  <2>2. req[s].op \in Writing /\ req[s].info \in Infos /\ Target(s) \in Present
    BY <1>1, <1>3 DEF Marked, Aimed
  <2>3. CASE req[s].op = "update"
    <3>1. horses[Target(s)] = req[s].info
      BY <1>1, <2>2, <2>3 DEF Unaltered
    <3> QED
      BY <1>2, <2>1, <3>1 DEF Inv, TypeOK
  <2> QED
    BY <1>2, <2>1, <2>2, <2>3 DEF Writing
<1>4. CASE mark[s] = "gone"
  BY <1>2, <1>4 DEF Commit
<1>5. CASE mark[s] \notin {"written", "gone"}
  BY <1>5 DEF Commit
<1> QED
  BY <1>3, <1>4, <1>5

LEMMA CommitKeepsInv == ASSUME Inv, NEW s \in Sessions, Commit(s) PROVE Inv'
<1>1. /\ ~Idle(s) /\ EndSession(s) /\ links' = (links \ removed[s]) \cup added[s]
  BY DEF Commit, Runs, Busy, Visible
<1>2. \A r \in links \cup added[s] : Fit(ParentOf(r), ChildOf(r))
  BY DEF Inv, LinksFit, AddedFit
<1>3. /\ horses' \in [Horses -> Infos \cup {NoRow}] /\ links' \in SUBSET Rows
  BY <1>1, CommittedHorses DEF Inv, TypeOK
<1>4. \A t \in Sessions \ {s} : mark'[t] = mark[t] /\ req'[t] = req[t] /\ plan'[t] = plan[t]
  BY <1>1 DEF EndSession, Inv, TypeOK
<1>5. CASE horses' = horses
  <2>1. \A p, c : Fit(p, c) => Fit(p, c)'
    BY <1>5 DEF Fit, Present, Older, Known
  <2>2. LinksFit'
    BY <1>1, <1>2, <2>1 DEF LinksFit
  <2>3. ASSUME NEW t \in Sessions \ {s}
        PROVE  /\ \A r \in added[t] : Fit(ParentOf(r), ChildOf(r))'
               /\ PlanFits(t)' /\ Marked(t)' /\ Unaltered(t)'
    <3>1. \A r \in added[t] : Fit(ParentOf(r), ChildOf(r))'
      BY <2>1 DEF Inv, AddedFit
    <3>2. PlanFits(t)'
      BY <1>4, <2>1 DEF Inv, PlanFits, StatementFits, Mentioned
    <3>3. Marked(t)' /\ Unaltered(t)'
      BY <1>4, <1>5 DEF Inv, Marked, Unaltered, Target, Present
    <3> QED
      BY <3>1, <3>2, <3>3
  <2> QED
    BY <1>1, <1>3, <2>2, <2>3, EndKeepsInv
<1>6. CASE req[s].op = "redate" /\ Target(s) \in Horses /\ req[s].info \in Infos
           /\ horses' = [horses EXCEPT ![Target(s)] = req[s].info]
  <2>1. /\ \A t \in Sessions \ {s} : Idle(t)
        /\ \A r \in links : Target(s) \notin {ParentOf(r), ChildOf(r)}
        /\ added[s] = {}
    BY <1>6 DEF Inv, Alone, AddedFit
  <2>2. ASSUME NEW r \in links PROVE Fit(ParentOf(r), ChildOf(r))'
    <3>1. ParentOf(r) \in Horses \ {Target(s)} /\ ChildOf(r) \in Horses \ {Target(s)}
      BY <2>1 DEF Inv, TypeOK, Rows, ParentOf, ChildOf
    <3>2. /\ horses'[ParentOf(r)] = horses[ParentOf(r)]
          /\ horses'[ChildOf(r)] = horses[ChildOf(r)]
      BY <1>6, <3>1 DEF Inv, TypeOK
    <3>3. {ParentOf(r), ChildOf(r)} \subseteq Present' => {ParentOf(r), ChildOf(r)} \subseteq Present
      BY <3>1, <3>2 DEF Present
    <3> QED
      BY <1>2, <3>2, <3>3 DEF Fit, Older, Known, ParentOf, ChildOf
  <2>3. LinksFit'
    BY <1>1, <2>1, <2>2 DEF LinksFit
  <2>4. ASSUME NEW t \in Sessions \ {s}
        PROVE  /\ \A r \in added[t] : Fit(ParentOf(r), ChildOf(r))'
               /\ PlanFits(t)' /\ Marked(t)' /\ Unaltered(t)'
    <3>1. added[t] = {} /\ plan'[t] = <<>> /\ mark'[t] = "none" /\ req'[t].op = "none"
      BY <1>4, <2>1 DEF Inv, Quiet, Idle
    <3> QED
      BY <3>1 DEF PlanFits, Marked, Unaltered
  <2> QED
    BY <1>1, <1>3, <2>3, <2>4, EndKeepsInv
<1>7. CASE mark[s] = "gone" /\ Target(s) \in Horses
           /\ horses' = [horses EXCEPT ![Target(s)] = NoRow]
  <2>1. /\ Present' = Present \ {Target(s)}
        /\ \A h \in Horses \ {Target(s)} : horses'[h] = horses[h]
    BY <1>7 DEF Present, Inv, TypeOK
  <2>2. ASSUME NEW p, NEW c, Fit(p, c) PROVE Fit(p, c)'
    <3> SUFFICES ASSUME {p, c} \subseteq Present' PROVE Fit(p, c)'
      BY DEF Fit
    <3>1. {p, c} \subseteq Present /\ p \in Horses \ {Target(s)} /\ c \in Horses \ {Target(s)}
      BY <2>1 DEF Present
    <3>2. horses'[p] = horses[p] /\ horses'[c] = horses[c]
      BY <2>1, <3>1
    <3> QED
      BY <2>2, <3>1, <3>2 DEF Fit, Older, Known
  <2>3. LinksFit'
    BY <1>1, <1>2, <2>2 DEF LinksFit
  <2>4. ASSUME NEW t \in Sessions \ {s}
        PROVE  /\ \A r \in added[t] : Fit(ParentOf(r), ChildOf(r))'
               /\ PlanFits(t)' /\ Marked(t)' /\ Unaltered(t)'
    <3>1. \A r \in added[t] : Fit(ParentOf(r), ChildOf(r))'
      BY <2>2 DEF Inv, AddedFit
    <3>2. PlanFits(t)'
      BY <1>4, <2>2 DEF Inv, PlanFits, StatementFits, Mentioned
    <3>3. mark[t] # "none" => Target(t) # Target(s)
      BY <1>7 DEF Inv, Locked
    <3>4. Marked(t)'
      BY <1>4, <2>1, <3>3 DEF Inv, Marked, Target
    <3>5. Unaltered(t)'
      BY <1>4, <2>1 DEF Inv, Unaltered, Target, Present
    <3> QED
      BY <3>1, <3>2, <3>4, <3>5
  <2> QED
    BY <1>1, <1>3, <2>3, <2>4, EndKeepsInv
<1> QED
  BY <1>5, <1>6, <1>7, CommittedHorses

(***************************************************************************)
(* Theorems                                                                *)
(***************************************************************************)

LEMMA InvStep == ASSUME ~Redate, Inv, [Next]_vars PROVE Inv'
<1>1. ASSUME NEW s \in Sessions, CreateHorse(s) PROVE Inv'
  BY <1>1, CreateHorseKeepsInv
<1>2. ASSUME NEW s \in Sessions, UpdateHorse(s) PROVE Inv'
  BY <1>2, UpdateHorseKeepsInv
<1>3. ASSUME NEW s \in Sessions, DeleteHorse(s) PROVE Inv'
  BY <1>3, DeleteHorseKeepsInv
<1>4. ASSUME NEW s \in Sessions, SetPedigree(s) PROVE Inv'
  BY <1>4, SetPedigreeKeepsInv
<1>5. ASSUME NEW s \in Sessions, ClearLinks(s) PROVE Inv'
  BY <1>5, ClearLinksKeepsInv
<1>6. ASSUME NEW s \in Sessions, Wait(s) PROVE Inv'
  BY <1>6, WaitKeepsInv
<1>7. ASSUME NEW s \in Sessions, PutLinks(s) PROVE Inv'
  BY <1>7, PutLinksKeepsInv
<1>8. ASSUME NEW s \in Sessions, WriteHorse(s) \/ EraseHorse(s) PROVE Inv'
  BY <1>8, MarkingKeepsInv
<1>9. ASSUME NEW s \in Sessions, Commit(s) PROVE Inv'
  BY <1>9, CommitKeepsInv
<1>10. ASSUME NEW s \in Sessions, Rollback(s) PROVE Inv'
  BY <1>10, RollbackKeepsInv
<1>11. CASE UNCHANGED vars
  <2> USE <1>11 DEF vars
  <2>1. TypeOK' /\ LinksFit'
    BY DEF Inv, TypeOK, LinksFit, Fit, Present, Older, Known
  <2>2. ASSUME NEW s \in Sessions
        PROVE  /\ (Quiet(s) /\ Aimed(s) /\ AddedFit(s) /\ PlanFits(s))'
               /\ (Marked(s) /\ Unaltered(s) /\ Alone(s))'
               /\ \A t \in Sessions : Locked(s, t)'
    <3>1. (Quiet(s) /\ Aimed(s) /\ Marked(s) /\ Unaltered(s) /\ Alone(s))'
      BY DEF Inv, Quiet, Aimed, Marked, Unaltered, Alone, Idle, Target, Present
    <3>2. AddedFit(s)'
      BY DEF Inv, AddedFit, Fit, Present, Older, Known
    <3>3. PlanFits(s)'
      BY DEF Inv, PlanFits, StatementFits, Mentioned, Fit, Present, Older, Known
    <3>4. \A t \in Sessions : Locked(s, t)'
      BY DEF Inv, Locked, Target
    <3> QED
      BY <3>1, <3>2, <3>3, <3>4
  <2> QED
    BY <2>1, <2>2 DEF Inv
<1> QED
  BY <1>1, <1>2, <1>3, <1>4, <1>5, <1>6, <1>7, <1>8, <1>9, <1>10, <1>11 DEF Next

LEMMA InvMeansFit == Inv => TypeOK /\ ParentsOlder /\ DamAlive
  BY DEF Inv, LinksFit, Fit, ParentsOlder, DamAlive

\* As long as sex and dates are not changed under existing links, every link
\* that is ever committed has a parent older than its child and a dam that
\* lived at its birth, for all horses, dates and interleavings.
THEOREM DatesStayInOrder == ASSUME ~Redate PROVE Spec => [](TypeOK /\ ParentsOlder /\ DamAlive)
<1> QED
  BY InvInit, InvStep, InvMeansFit, PTL DEF Spec

\* The same of the run's crowded instance, where requests overlap.
THEOREM ParentsStayFit == ASSUME ~Redate PROVE MCSpec => []ParentsFit
<1> DEFINE CInv == crowded => Inv
<1>1. MCInit => CInv
  BY InvInit DEF MCInit
<1>2. ASSUME CInv, [MCNext]_<<vars, crowded>> PROVE CInv'
  <2>1. CASE crowded /\ Next /\ crowded' = crowded
    BY <1>2, <2>1, InvStep
  <2>2. CASE ~crowded /\ crowded' = crowded
    BY <2>2
  <2>3. CASE UNCHANGED <<vars, crowded>>
    BY <1>2, <2>3, InvStep
  <2> QED
    BY <1>2, <2>1, <2>2, <2>3 DEF MCNext
<1>3. CInv => ParentsFit
  BY InvMeansFit DEF ParentsFit
<1> QED
  BY <1>1, <1>2, <1>3, PTL DEF MCSpec

(***************************************************************************)
(* The lists that are offered (the serial instance)                        *)
(***************************************************************************)

LEMMA SameStatements == ASSUME NEW q PROVE Serial!Statements(q) = Statements(q)
  BY DEF Serial!Statements, Statements, Serial!Do, Do, Serial!Put, Put

\* The rows of table horse, and what requests are about to write to them.
RowsTyped ==
    /\ horses \in [Horses -> Undated \cup {NoRow}]
    /\ DOMAIN req = Clients /\ DOMAIN mark = Clients
    /\ plan \in [Clients -> Seq(Serial!Statement)]
    /\ \A s \in Clients :
        /\ req[s].op \in Writing => req[s].info \in Undated
        /\ mark[s] = "written" => req[s].op \in Writing
        /\ req[s].op = "none" => mark[s] = "none"
        /\ \A i \in 1..Len(plan[s]) : plan[s][i].op = "write" => req[s].op \in Writing

LEMMA RowsTypedInit == Serial!Init => RowsTyped
  BY DEF RowsTyped, Serial!Init, Serial!NoRequest, Writing

LEMMA StartKeepsRows ==
    ASSUME RowsTyped, NEW s \in Clients, Serial!Idle(s),
           NEW q, NEW statements \in Seq(Serial!Statement), Serial!Start(s, q, statements),
           q.op # "none", q.op \in Writing => q.info \in Undated,
           \A i \in 1..Len(statements) : statements[i].op = "write" => q.op \in Writing
    PROVE  RowsTyped'
<1>1. /\ req' = [req EXCEPT ![s] = q] /\ plan' = [plan EXCEPT ![s] = statements]
      /\ UNCHANGED <<horses, mark>>
  BY DEF Serial!Start
<1>2. mark[s] = "none"
  BY DEF RowsTyped, Serial!Idle
<1> QED
  BY <1>1, <1>2 DEF RowsTyped

LEMMA SetKeepsRows ==
    ASSUME RowsTyped, NEW s \in Clients, Serial!SetPedigree(s) PROVE RowsTyped'
<1>1. PICK t \in Serial!Present, fields \in SUBSET Serial!Clears,
           newSire, newDam \in Serial!Present \cup {Nobody}, newFoals \in SUBSET Serial!Present :
        LET q == Serial!SetRequest(t, fields, newSire, newDam, newFoals)
        IN  Serial!Start(s, q, Serial!Statements(q))
  BY DEF Serial!SetPedigree
<1> DEFINE q == Serial!SetRequest(t, fields, newSire, newDam, newFoals)
           X == [op: Clears \cup {"put", "commit"}, pairs: SUBSET AskedLinks(q)]
<1>2. /\ q.op = "set" /\ q.target = t /\ q.sire = newSire /\ q.dam = newDam /\ q.foals = newFoals
  BY DEF Serial!SetRequest
<1>3. Serial!Start(s, q, Statements(q))
  BY <1>1, SameStatements
<1>4. Serial!Present \subseteq Horses
  BY DEF Serial!Present
<1> HIDE DEF q
<1>5. AskedLinks(q) \subseteq Horses \X Horses
  BY <1>2, <1>4 DEF AskedLinks
<1>6. X \subseteq Serial!Statement /\ \A st \in X : st.op # "write"
  <2> HIDE DEF AskedLinks
  <2> QED
    BY <1>5 DEF Serial!Statement, Serial!Clears, Clears
<1> HIDE DEF X
<1>7. Statements(q) \in Seq(X)
  BY StatementsOf DEF X, Orders
<1>8. Statements(q) \in Seq(Serial!Statement)
      /\ \A i \in 1..Len(Statements(q)) : Statements(q)[i].op # "write"
  BY <1>6, <1>7
<1>9. Serial!Idle(s)
  BY DEF Serial!SetPedigree
<1> QED
  BY <1>2, <1>3, <1>8, <1>9, StartKeepsRows DEF Writing

LEMMA ChangeKeepsRows ==
    ASSUME RowsTyped, NEW s \in Clients, Serial!UpdateHorse(s) \/ Serial!DeleteHorse(s)
    PROVE  RowsTyped'
<1>1. Serial!Idle(s)
  BY DEF Serial!UpdateHorse, Serial!DeleteHorse
<1>2. ASSUME NEW op \in {"write", "erase"}
      PROVE  LET sts == <<Serial!Do(op), Serial!Do("commit")>>
             IN  /\ sts \in Seq(Serial!Statement)
                 /\ \A i \in 1..Len(sts) : sts[i].op = "write" => op = "write"
  BY DEF Serial!Do, Serial!Statement
<1>3. CASE Serial!UpdateHorse(s)
  <2>1. PICK h \in Serial!Present, info \in Undated :
            Serial!Start(s, [Serial!NoRequest EXCEPT
                                !.op = IF info = horses[h] \/ TRUE THEN "update" ELSE "redate",
                                !.target = h, !.info = info],
                         <<Serial!Do("write"), Serial!Do("commit")>>)
    BY <1>3 DEF Serial!UpdateHorse
  <2> DEFINE q == [Serial!NoRequest EXCEPT
                        !.op = IF info = horses[h] \/ TRUE THEN "update" ELSE "redate",
                        !.target = h, !.info = info]
             sts == <<Serial!Do("write"), Serial!Do("commit")>>
  <2>2. Serial!NoRequest = NoRequest
    BY DEF Serial!NoRequest, NoRequest
  <2>3. q.op = "update" /\ q.info = info
    BY <2>2, UpdateRequest
  <2>4. Serial!Start(s, q, sts)
    BY <2>1
  <2>5. sts \in Seq(Serial!Statement)
    BY <1>2
  <2> HIDE DEF q, sts
  <2> QED
    BY <1>1, <2>3, <2>4, <2>5, StartKeepsRows DEF Writing
<1>4. CASE Serial!DeleteHorse(s)
  <2>1. PICK h \in Serial!Present :
            Serial!Start(s, [Serial!NoRequest EXCEPT !.op = "delete", !.target = h],
                         <<Serial!Do("erase"), Serial!Do("commit")>>)
    BY <1>4 DEF Serial!DeleteHorse
  <2> DEFINE q == [Serial!NoRequest EXCEPT !.op = "delete", !.target = h]
             sts == <<Serial!Do("erase"), Serial!Do("commit")>>
  <2>2. Serial!NoRequest = NoRequest
    BY DEF Serial!NoRequest, NoRequest
  <2>3. q.op = "delete"
    BY <2>2, DeleteRequest
  <2>4. Serial!Start(s, q, sts)
    BY <2>1
  <2>5. sts \in Seq(Serial!Statement) /\ \A i \in 1..Len(sts) : sts[i].op # "write"
    BY <1>2
  <2> HIDE DEF q, sts
  <2> QED
    BY <1>1, <2>3, <2>4, <2>5, StartKeepsRows DEF Writing
<1> QED
  BY <1>3, <1>4

LEMMA RunKeepsRows ==
    ASSUME RowsTyped, NEW s \in Clients, Serial!Busy(s), Serial!Advance(s),
           UNCHANGED <<horses, req>>,
           \/ UNCHANGED mark
           \/ \E m \in {"none", "gone"} : mark' = [mark EXCEPT ![s] = m]
           \/ Head(plan[s]).op = "write" /\ \E m : mark' = [mark EXCEPT ![s] = m]
    PROVE  RowsTyped'
<1>1. plan[s] \in Seq(Serial!Statement) /\ plan[s] # <<>>
  BY DEF RowsTyped, Serial!Busy
<1>2. /\ plan' = [plan EXCEPT ![s] = Tail(plan[s])]
      /\ Tail(plan[s]) \in Seq(Serial!Statement)
      /\ Head(plan[s]) = plan[s][1] /\ 1 \in 1..Len(plan[s])
      /\ \A i \in 1..Len(Tail(plan[s])) :
            i + 1 \in 1..Len(plan[s]) /\ Tail(plan[s])[i] = plan[s][i + 1]
  BY <1>1 DEF Serial!Advance, RowsTyped
<1>3. req[s].op # "none" /\ (Head(plan[s]).op = "write" => req[s].op \in Writing)
  BY <1>2 DEF RowsTyped, Serial!Busy, Serial!Idle
<1>4. /\ plan' \in [Clients -> Seq(Serial!Statement)]
      /\ \A t \in Clients : \A i \in 1..Len(plan'[t]) :
            plan'[t][i].op = "write" => req[t].op \in Writing
  BY <1>2 DEF RowsTyped
<1>5. /\ DOMAIN mark' = Clients
      /\ \A t \in Clients : /\ mark'[t] = "written" => req[t].op \in Writing
                            /\ req[t].op = "none" => mark'[t] = "none"
  BY <1>3 DEF RowsTyped
<1> QED
  BY <1>4, <1>5 DEF RowsTyped

LEMMA EndKeepsRows ==
    ASSUME RowsTyped, NEW s \in Clients, Serial!EndSession(s),
           horses' \in [Horses -> Undated \cup {NoRow}]
    PROVE  RowsTyped'
  BY DEF RowsTyped, Serial!EndSession, Serial!NoRequest, Writing

LEMMA RowsTypedStep == ASSUME RowsTyped, NEW s \in Clients PROVE
    /\ Serial!CreateHorse(s) => RowsTyped'
    /\ Serial!ClearLinks(s) \/ Serial!PutLinks(s) => RowsTyped'
    /\ Serial!Wait(s) => RowsTyped'
    /\ Serial!WriteHorse(s) \/ Serial!EraseHorse(s) => RowsTyped'
    /\ Serial!Commit(s) \/ Serial!Rollback(s) => RowsTyped'
<1>1. Serial!CreateHorse(s) => RowsTyped'
  BY DEF Serial!CreateHorse, RowsTyped
<1>2. Serial!ClearLinks(s) \/ Serial!PutLinks(s) => RowsTyped'
  BY RunKeepsRows DEF Serial!ClearLinks, Serial!PutLinks, Serial!Runs
<1>3. Serial!Wait(s) => RowsTyped'
  BY DEF Serial!Wait, RowsTyped
<1>4. Serial!WriteHorse(s) => RowsTyped'
  BY RunKeepsRows DEF Serial!WriteHorse, Serial!Runs
<1>5. Serial!EraseHorse(s) => RowsTyped'
  BY RunKeepsRows DEF Serial!EraseHorse, Serial!Runs
<1>6. Serial!Rollback(s) => RowsTyped'
  BY EndKeepsRows DEF Serial!Rollback, RowsTyped
<1>7. Serial!Commit(s) => RowsTyped'
  <2> SUFFICES ASSUME Serial!Commit(s) PROVE RowsTyped'
    OBVIOUS
  <2>1. mark[s] = "written" => req[s].info \in Undated
    BY DEF RowsTyped
  <2>2. \/ horses' = horses
        \/ mark[s] = "written" /\ horses' = [horses EXCEPT ![Serial!Target(s)] = req[s].info]
        \/ horses' = [horses EXCEPT ![Serial!Target(s)] = NoRow]
    <3>1. CASE mark[s] = "written"
      BY <3>1 DEF Serial!Commit
    <3>2. CASE mark[s] = "gone"
      BY <3>2 DEF Serial!Commit
    <3>3. CASE mark[s] \notin {"written", "gone"}
      BY <3>3 DEF Serial!Commit
    <3> QED
      BY <3>1, <3>2, <3>3
  <2>3. horses' \in [Horses -> Undated \cup {NoRow}]
    BY <2>1, <2>2 DEF RowsTyped
  <2> QED
    BY <2>3, EndKeepsRows DEF Serial!Commit
<1> QED
  BY <1>1, <1>2, <1>3, <1>4, <1>5, <1>6, <1>7

\* Whoever is offered passes the checks.  Only a parent that is sire and
\* dam could be in the way, and no sex makes both.
LEMMA OfferedPass == RowsTyped => Serial!OfferedIsAccepted
<1> SUFFICES ASSUME RowsTyped,
                    NEW t \in Serial!Present,
                    NEW sire \in Serial!Shown(Serial!ParentsIn(links, t, Serial!SireSexes)),
                    NEW dam \in Serial!Shown(Serial!ParentsIn(links, t, Serial!DamSexes))
             PROVE  LET foals == Serial!FoalsIn(links, t)
                    IN  /\ \A p \in Serial!OfferedSires(t, sire, dam) :
                            Serial!Accepted(Serial!SetRequest(t, {"sire"}, p, Nobody, {}),
                                            sire, dam, foals)
                        /\ \A p \in Serial!OfferedDams(t, sire, dam) :
                            Serial!Accepted(Serial!SetRequest(t, {"dam"}, Nobody, p, {}),
                                            sire, dam, foals)
                        /\ \A c \in Serial!OfferedFoals(t, sire, dam) :
                            Serial!Accepted(Serial!SetRequest(t, {"foals"}, Nobody, Nobody, {c}),
                                            sire, dam, foals)
  BY DEF Serial!OfferedIsAccepted
<1> DEFINE foals == Serial!FoalsIn(links, t)
<1>1. \A i \in Undated : i.born \in Nat /\ i.died \in Nat
  BY DEF Undated, Horse
<1>2. \A h \in Serial!Present :
        h \in Horses /\ h # Nobody /\ horses[h].born \in Nat /\ horses[h].died \in Nat
  BY <1>1, PedigreeConstants DEF RowsTyped, Serial!Present
<1>3. sire # Nobody => sire # dam
  <2> SUFFICES ASSUME sire # Nobody, sire = dam PROVE FALSE
    OBVIOUS
  <2>1. sire \in Serial!ParentsIn(links, t, Serial!SireSexes)
        /\ sire \in Serial!ParentsIn(links, t, Serial!DamSexes)
    BY DEF Serial!Shown
  <2>2. horses[sire].sex \in Serial!SireSexes /\ horses[sire].sex \in Serial!DamSexes
    BY <2>1 DEF Serial!ParentsIn
  <2> QED
    BY <2>2 DEF Serial!SireSexes, Serial!DamSexes
<1> HIDE DEF foals
<1>4. ASSUME NEW p \in Serial!NotShown(t, sire, dam)
      PROVE  p \in Serial!Present /\ p \notin {t, sire, dam} /\ p \notin foals
  BY DEF Serial!NotShown, foals
<1>5. ASSUME NEW p \in Serial!OfferedSires(t, sire, dam)
      PROVE  Serial!Accepted(Serial!SetRequest(t, {"sire"}, p, Nobody, {}), sire, dam, foals)
  <2>1. p \in Serial!NotShown(t, sire, dam) /\ horses[p].sex = "male" /\ Serial!Older(p, t)
    BY DEF Serial!OfferedSires
  <2>2. Serial!SireOk(t, p, dam, foals)
    BY <1>4, <2>1 DEF Serial!SireOk, Serial!Related
  <2> QED
    BY <1>2, <1>4, <2>1, <2>2 DEF Serial!Accepted, Serial!SetRequest
<1>6. ASSUME NEW p \in Serial!OfferedDams(t, sire, dam)
      PROVE  Serial!Accepted(Serial!SetRequest(t, {"dam"}, Nobody, p, {}), sire, dam, foals)
  <2>1. /\ p \in Serial!NotShown(t, sire, dam) /\ horses[p].sex = "female" /\ Serial!Older(p, t)
        /\ Serial!Known(horses[t].born) /\ Serial!Known(horses[p].died)
              => horses[p].died >= horses[t].born
    BY DEF Serial!OfferedDams
  <2>2. Serial!DamOk(t, p, sire, foals)
    BY <1>4, <2>1 DEF Serial!DamOk, Serial!Related
  <2> QED
    BY <1>2, <1>4, <2>1, <2>2 DEF Serial!Accepted, Serial!SetRequest
<1>7. ASSUME NEW c \in Serial!OfferedFoals(t, sire, dam)
      PROVE  Serial!Accepted(Serial!SetRequest(t, {"foals"}, Nobody, Nobody, {c}), sire, dam, foals)
  <2>1. /\ c \in Serial!NotShown(t, sire, dam) /\ Serial!Older(t, c)
        /\ ~(/\ horses[t].sex = "female" /\ Serial!Known(horses[t].died)
             /\ Serial!Known(horses[c].born) /\ horses[c].born > horses[t].died)
    BY DEF Serial!OfferedFoals
  <2>2. Serial!FoalOk(t, c, {sire, dam})
    BY <1>2, <1>4, <2>1 DEF Serial!FoalOk
  <2> QED
    BY <1>2, <1>3, <1>4, <2>1, <2>2 DEF Serial!Accepted, Serial!SetRequest
<1> QED
  BY <1>5, <1>6, <1>7 DEF foals

\* The lists of get_available_pedigree and the checks of set_horse_pedigree
\* agree in every state clients and changes of sex and dates can lead to, for
\* any number of horses.
THEOREM OffersStayAccepted == MCSpec => []OffersAccepted
<1> DEFINE SInv == ~crowded => RowsTyped
<1>1. MCInit => SInv
  BY RowsTypedInit DEF MCInit
<1>2. ASSUME SInv, [MCNext]_<<vars, crowded>> PROVE SInv'
  <2>1. CASE ~crowded /\ Serial!Next /\ crowded' = crowded
    <3>1. RowsTyped
      BY <1>2, <2>1
    <3>2. PICK s \in Clients :
              \/ Serial!CreateHorse(s) \/ Serial!UpdateHorse(s) \/ Serial!DeleteHorse(s)
              \/ Serial!SetPedigree(s) \/ Serial!ClearLinks(s) \/ Serial!Wait(s)
              \/ Serial!PutLinks(s) \/ Serial!WriteHorse(s) \/ Serial!EraseHorse(s)
              \/ Serial!Commit(s) \/ Serial!Rollback(s)
      BY <2>1 DEF Serial!Next
    <3> QED
      BY <3>1, <3>2, RowsTypedStep, ChangeKeepsRows, SetKeepsRows
  <2>2. CASE crowded /\ crowded' = crowded
    BY <2>2
  <2>3. CASE UNCHANGED <<vars, crowded>>
    BY <1>2, <2>3 DEF vars, RowsTyped
  <2> QED
    BY <1>2, <2>1, <2>2, <2>3 DEF MCNext
<1>3. SInv => OffersAccepted
  BY OfferedPass DEF OffersAccepted
<1> QED
  BY <1>1, <1>2, <1>3, PTL DEF MCSpec

(***************************************************************************)
(* What a request for a pedigree leaves (the serial instance)              *)
(***************************************************************************)

\* What a field of q shows before the k-th statement, if its rows are deleted
\* by the c-th and inserted by the p-th.
Now(q, field, named, old, k, c, p) ==
    IF field \notin q.fields \/ k <= c THEN old
    ELSE IF k <= p THEN {} ELSE named

\* The links a request sees before its k-th statement.
At(q, V, k) ==
    /\ Serial!ParentsIn(V, q.target, Serial!SireSexes)
       = Now(q, "sire", {q.sire} \ {Nobody}, Serial!ParentsIn(links, q.target, Serial!SireSexes), k, 1, 5)
    /\ Serial!ParentsIn(V, q.target, Serial!DamSexes)
       = Now(q, "dam", {q.dam} \ {Nobody}, Serial!ParentsIn(links, q.target, Serial!DamSexes), k, 2, 7)
    /\ Serial!FoalsIn(V, q.target)
       = Now(q, "foals", q.foals, Serial!FoalsIn(links, q.target), k, 3, 9)

\* Requests that were accepted: nobody gets a foal for a parent, or a parent
\* of the wrong sex, and what is not asked for is not named.
Sane(q) ==
    /\ ({q.target, q.sire, q.dam} \cup q.foals) \ {Nobody} \subseteq Serial!Present
    /\ q.target # Nobody /\ Nobody \notin q.foals
    /\ q.target \notin {q.sire, q.dam} \cup q.foals
    /\ q.sire # Nobody => "sire" \in q.fields /\ horses[q.sire].sex = "male"
    /\ q.dam # Nobody => "dam" \in q.fields /\ horses[q.dam].sex = "female"
    /\ "foals" \notin q.fields => q.foals = {}

\* A foal that is named is one already, or has no parent of the target's role.
Role(h) == IF horses[h].sex = "female" THEN Serial!DamSexes ELSE Serial!SireSexes
FoalsFit(q) ==
    \A c \in q.foals :
        \/ c \in Serial!FoalsIn(links, q.target)
        \/ Serial!ParentsIn(links, c, Role(q.target)) = {}

InPlan(s) ==
    /\ Sane(req[s]) /\ FoalsFit(req[s]) /\ mark[s] = "none"
    /\ \A r \in added[s] : <<ParentOf(r), ChildOf(r)>> \in AskedLinks(req[s])
    /\ \E k \in Steps : plan[s] = From(req[s], k) /\ At(req[s], Serial!Visible(s), k)

Apart(s) == \A t \in Clients \ {s} : Serial!Idle(t)

SerialInv ==
    /\ RowsTyped
    /\ DOMAIN added = Clients /\ DOMAIN removed = Clients /\ waiting = {}
    /\ \A r \in links : ParentOf(r) # ChildOf(r)
    /\ \A s \in Clients :
        /\ ~Serial!Idle(s) => Apart(s)
        /\ Serial!Idle(s) => added[s] = {} /\ removed[s] = {}
        /\ req[s].op = "set" => InPlan(s)
        /\ req[s].op # "set" => /\ added[s] = {}
                                /\ \A i \in 1..Len(plan[s]) : plan[s][i].op # "put"

\* Deleting the rows of a role, or of the foals, takes what it says and no more.
LEMMA ClearParents ==
    ASSUME NEW V, NEW t, NEW sexes, NEW others, sexes \cap others = {},
           \A r \in V : ParentOf(r) # ChildOf(r)
    PROVE  LET W == V \ {r \in V : /\ ChildOf(r) = t
                                   /\ ParentOf(r) \in Serial!ParentsIn(V, t, sexes)}
           IN  /\ Serial!ParentsIn(W, t, sexes) = {}
               /\ Serial!ParentsIn(W, t, others) = Serial!ParentsIn(V, t, others)
               /\ Serial!FoalsIn(W, t) = Serial!FoalsIn(V, t)
<1> DEFINE W == V \ {r \in V : ChildOf(r) = t /\ ParentOf(r) \in Serial!ParentsIn(V, t, sexes)}
<1>1. Serial!ParentsIn(W, t, sexes) = {}
  BY DEF Serial!ParentsIn, ParentOf, ChildOf, Serial!ParentOf, Serial!ChildOf
<1>2. Serial!ParentsIn(W, t, others) = Serial!ParentsIn(V, t, others)
  BY DEF Serial!ParentsIn, ParentOf, ChildOf, Serial!ParentOf, Serial!ChildOf
<1>3. Serial!FoalsIn(W, t) = Serial!FoalsIn(V, t)
  BY DEF Serial!FoalsIn, ParentOf, ChildOf, Serial!ParentOf, Serial!ChildOf
<1> QED
  BY <1>1, <1>2, <1>3

LEMMA ClearFoals ==
    ASSUME NEW V, NEW t, \A r \in V : ParentOf(r) # ChildOf(r)
    PROVE  LET W == V \ {r \in V : ParentOf(r) = t}
           IN  /\ Serial!FoalsIn(W, t) = {}
               /\ \A sexes : Serial!ParentsIn(W, t, sexes) = Serial!ParentsIn(V, t, sexes)
<1> DEFINE W == V \ {r \in V : ParentOf(r) = t}
<1>1. Serial!FoalsIn(W, t) = {}
  BY DEF Serial!FoalsIn, ParentOf, ChildOf, Serial!ParentOf, Serial!ChildOf
<1>2. ASSUME NEW sexes PROVE Serial!ParentsIn(W, t, sexes) = Serial!ParentsIn(V, t, sexes)
  BY DEF Serial!ParentsIn, ParentOf, ChildOf, Serial!ParentOf, Serial!ChildOf
<1> QED
  BY <1>1, <1>2

\* W are the links V with rows inserted for the pairs.
Inserted(V, W, pairs) ==
    \E N : /\ W = V \cup N
           /\ \A r \in N : <<ParentOf(r), ChildOf(r)>> \in pairs
           /\ \A x \in pairs : \E r \in N : <<ParentOf(r), ChildOf(r)>> = x

OneLink(p, t) == {<<p, t>>}
FoalLinks(t, foals) == {<<t, c>> : c \in foals}

\* Inserting rows adds the parent or the foals they name.
LEMMA AddParent ==
    ASSUME NEW V, NEW W, NEW t, NEW p \in Serial!Present, p # t,
           Inserted(V, W, OneLink(p, t))
    PROVE  /\ \A sexes : Serial!ParentsIn(W, t, sexes) =
                 Serial!ParentsIn(V, t, sexes) \cup (IF horses[p].sex \in sexes THEN {p} ELSE {})
           /\ Serial!FoalsIn(W, t) = Serial!FoalsIn(V, t)
<1>1. PICK N : /\ W = V \cup N
               /\ \A r \in N : <<ParentOf(r), ChildOf(r)>> \in OneLink(p, t)
               /\ \A x \in OneLink(p, t) : \E r \in N : <<ParentOf(r), ChildOf(r)>> = x
  BY DEF Inserted
<1>2. \A r \in N : ParentOf(r) = p /\ ChildOf(r) = t
  <2> SUFFICES ASSUME NEW r \in N PROVE ParentOf(r) = p /\ ChildOf(r) = t
    OBVIOUS
  <2>1. <<ParentOf(r), ChildOf(r)>> = <<p, t>>
    BY <1>1 DEF OneLink
  <2> QED
    BY <2>1
<1>3. \E r \in N : TRUE
  BY <1>1 DEF OneLink
<1>4. ASSUME NEW sexes
      PROVE  Serial!ParentsIn(W, t, sexes) =
                 Serial!ParentsIn(V, t, sexes) \cup (IF horses[p].sex \in sexes THEN {p} ELSE {})
  BY <1>1, <1>2, <1>3 DEF Serial!ParentsIn, ParentOf, ChildOf, Serial!ParentOf, Serial!ChildOf
<1>5. Serial!FoalsIn(W, t) = Serial!FoalsIn(V, t)
  BY <1>1, <1>2 DEF Serial!FoalsIn, ParentOf, ChildOf, Serial!ParentOf, Serial!ChildOf
<1> QED
  BY <1>4, <1>5

LEMMA AddFoals ==
    ASSUME NEW V, NEW W, NEW t, NEW foals \in SUBSET Horses, t \notin foals,
           Inserted(V, W, FoalLinks(t, foals))
    PROVE  /\ \A sexes : Serial!ParentsIn(W, t, sexes) = Serial!ParentsIn(V, t, sexes)
           /\ Serial!FoalsIn(W, t) = Serial!FoalsIn(V, t) \cup foals
<1>1. PICK N : /\ W = V \cup N
               /\ \A r \in N : <<ParentOf(r), ChildOf(r)>> \in FoalLinks(t, foals)
               /\ \A x \in FoalLinks(t, foals) : \E r \in N : <<ParentOf(r), ChildOf(r)>> = x
  BY DEF Inserted
<1>2. \A r \in N : ParentOf(r) = t /\ ChildOf(r) \in foals
  <2> SUFFICES ASSUME NEW r \in N PROVE ParentOf(r) = t /\ ChildOf(r) \in foals
    OBVIOUS
  <2>1. PICK c \in foals : <<ParentOf(r), ChildOf(r)>> = <<t, c>>
    BY <1>1 DEF FoalLinks
  <2> QED
    BY <2>1
<1>3. ASSUME NEW c \in foals PROVE \E r \in N : ParentOf(r) = t /\ ChildOf(r) = c
  <2>1. PICK r \in N : <<ParentOf(r), ChildOf(r)>> = <<t, c>>
    BY <1>1 DEF FoalLinks
  <2> QED
    BY <2>1
<1>4. ASSUME NEW sexes
      PROVE  Serial!ParentsIn(W, t, sexes) = Serial!ParentsIn(V, t, sexes)
  BY <1>1, <1>2 DEF Serial!ParentsIn, ParentOf, ChildOf, Serial!ParentOf, Serial!ChildOf
<1>5. Serial!FoalsIn(W, t) = Serial!FoalsIn(V, t) \cup foals
  BY <1>1, <1>2, <1>3 DEF Serial!FoalsIn, ParentOf, ChildOf, Serial!ParentOf, Serial!ChildOf
<1> QED
  BY <1>4, <1>5

\* Statements a request does not have change nothing.
LEMMA Skip ==
    ASSUME NEW q, NEW V, NEW k \in 1..9, ~Has(q, k), At(q, V, k)
    PROVE  From(q, k) = From(q, k + 1) /\ At(q, V, k + 1)
<1>1. k \in Steps /\ k + 1 \in Steps /\ k + 1 \in Nat /\ k \in Nat
  BY DEF Steps
<1>2. k \in {1, 2, 3, 4, 5, 6, 7, 8, 9}
  BY StepNumbers DEF Steps
<1>3. From(q, k) = Before(q, k, From(q, k + 1))
  BY <1>2, FromTable
<1>4. From(q, k) = From(q, k + 1)
  BY <1>3 DEF Before
<1>5. ASSUME NEW field, NEW named, NEW old, NEW c \in Nat, NEW p \in Nat, c < p,
             k = c => field \notin q.fields, k = p => field \notin q.fields \/ named = {}
      PROVE  Now(q, field, named, old, k + 1, c, p) = Now(q, field, named, old, k, c, p)
  BY <1>1, <1>5 DEF Now
<1>6. /\ k = 1 => "sire" \notin q.fields
      /\ k = 5 => {q.sire} \ {Nobody} = {}
      /\ k = 2 => "dam" \notin q.fields
      /\ k = 7 => {q.dam} \ {Nobody} = {}
      /\ k = 3 => "foals" \notin q.fields
      /\ k = 9 => "foals" \notin q.fields
  BY StepTable
<1>7. ASSUME NEW old
      PROVE  Now(q, "sire", {q.sire} \ {Nobody}, old, k + 1, 1, 5) = Now(q, "sire", {q.sire} \ {Nobody}, old, k, 1, 5)
  BY <1>5, <1>6, 1 < 5
<1>8. ASSUME NEW old
      PROVE  Now(q, "dam", {q.dam} \ {Nobody}, old, k + 1, 2, 7) = Now(q, "dam", {q.dam} \ {Nobody}, old, k, 2, 7)
  BY <1>5, <1>6, 2 < 7
<1>9. ASSUME NEW old
      PROVE  Now(q, "foals", q.foals, old, k + 1, 3, 9) = Now(q, "foals", q.foals, old, k, 3, 9)
  BY <1>5, <1>6, 3 < 9
<1>10. At(q, V, k + 1)
  BY <1>7, <1>8, <1>9 DEF At
<1> QED
  BY <1>4, <1>10

LEMMA Settle ==
    ASSUME NEW q, NEW V, NEW k \in Steps, At(q, V, k)
    PROVE  \E j \in Steps : Has(q, j) /\ From(q, j) = From(q, k) /\ At(q, V, j)
<1> DEFINE Settled(i) ==
        At(q, V, i) => \E j \in Steps : Has(q, j) /\ From(q, j) = From(q, i) /\ At(q, V, j)
<1>1. 10 \in Steps /\ Has(q, 10)
  <2>1. 10 \in Steps
    BY DEF Steps
  <2>2. Has(q, 10)
    BY StepTable, Zenon
  <2> QED
    BY <2>1, <2>2
<1>2. ASSUME NEW i \in Steps, Has(q, i) PROVE Settled(i)
  BY <1>2
<1>3. ASSUME NEW i \in 1..9, NEW n, n = i + 1, Settled(n) PROVE Settled(i)
  <2>1. CASE Has(q, i)
    BY <1>2, <2>1 DEF Steps
  <2>2. CASE ~Has(q, i)
    BY <1>3, <2>2, Skip
  <2> QED
    BY <2>1, <2>2
<1>4. Settled(10)
  BY <1>1, <1>2
<1> HIDE DEF Settled
<1>5. Settled(9)
  BY <1>4, <1>3
<1>6. Settled(8)
  BY <1>5, <1>3
<1>7. Settled(7)
  BY <1>6, <1>3
<1>8. Settled(6)
  BY <1>7, <1>3
<1>9. Settled(5)
  BY <1>8, <1>3
<1>10. Settled(4)
  BY <1>9, <1>3
<1>11. Settled(3)
  BY <1>10, <1>3
<1>12. Settled(2)
  BY <1>11, <1>3
<1>13. Settled(1)
  BY <1>12, <1>3
<1>14. Settled(k)
  BY <1>4, <1>5, <1>6, <1>7, <1>8, <1>9, <1>10, <1>11, <1>12, <1>13, StepNumbers
<1> QED
  BY <1>14 DEF Settled

\* The statement a request executes next.
LEMMA NextStatement ==
    ASSUME NEW q, NEW k \in Steps, Has(q, k)
    PROVE  /\ From(q, k) # <<>> /\ Head(From(q, k)) = StatementAt(q, k)
           /\ k # 10 => Tail(From(q, k)) = From(q, k + 1)
<1> DEFINE st == StatementAt(q, k)
           rest == From(q, k + 1)
<1>1. k \in {1, 2, 3, 4, 5, 6, 7, 8, 9, 10} /\ k + 1 \in 1..11 /\ k \in 1..10
  BY StepNumbers DEF Steps
<1>2. From(q, k) = <<st>> \o rest
  <2>1. From(q, k) = Before(q, k, rest)
    BY <1>1, FromTable
  <2> QED
    BY <2>1 DEF Before
<1>3. rest \in Seq(Orders(q))
  BY <1>1, PlanTyped
<1>4. st \in Orders(q)
  BY <1>1, OrdersOf, StepTable DEF Clears
<1> HIDE DEF st, rest
<1>5. <<st>> \o rest # <<>> /\ Head(<<st>> \o rest) = st /\ Tail(<<st>> \o rest) = rest
  BY <1>3, <1>4, Joined
<1> QED
  BY <1>2, <1>5 DEF st, rest

\* The rows a DELETE takes from the links V.
Match(V, t, op) ==
    IF op = "foals" THEN {r \in V : ParentOf(r) = t}
    ELSE LET sexes == IF op = "sire" THEN Serial!SireSexes ELSE Serial!DamSexes
         IN  {r \in V : ChildOf(r) = t /\ ParentOf(r) \in Serial!ParentsIn(V, t, sexes)}

\* What a statement of a request is, and what the request asks for then.
LEMMA StepOps ==
    ASSUME NEW q, Sane(q), NEW k \in Steps, Has(q, k)
    PROVE  /\ k \in {1, 4} => StatementAt(q, k) = Do("sire") /\ "sire" \in q.fields
           /\ k \in {2, 6} => StatementAt(q, k) = Do("dam") /\ "dam" \in q.fields
           /\ k \in {3, 8} => StatementAt(q, k) = Do("foals") /\ "foals" \in q.fields
           /\ k = 5 => StatementAt(q, k) = Put({<<q.sire, q.target>>}) /\ q.sire # Nobody
           /\ k = 7 => StatementAt(q, k) = Put({<<q.dam, q.target>>}) /\ q.dam # Nobody
           /\ k = 9 => /\ StatementAt(q, k) = Put({<<q.target, c>> : c \in q.foals})
                      /\ "foals" \in q.fields
           /\ k = 10 => StatementAt(q, k) = Do("commit")
<1>1. "sire" \in q.fields \/ q.sire = Nobody
  BY DEF Sane
<1>2. "dam" \in q.fields \/ q.dam = Nobody
  BY DEF Sane
<1> HIDE DEF Sane
<1>3. k = 1 \/ k = 4 => StatementAt(q, k) = Do("sire") /\ "sire" \in q.fields
  BY <1>1, StepTable
<1>4. k = 2 \/ k = 6 => StatementAt(q, k) = Do("dam") /\ "dam" \in q.fields
  BY <1>2, StepTable
<1>5. k = 3 \/ k = 8 => StatementAt(q, k) = Do("foals") /\ "foals" \in q.fields
  BY StepTable
<1>6. k = 5 => StatementAt(q, k) = Put({<<q.sire, q.target>>}) /\ q.sire # Nobody
  BY StepTable
<1>7. k = 7 => StatementAt(q, k) = Put({<<q.dam, q.target>>}) /\ q.dam # Nobody
  BY StepTable
<1>8. k = 9 => StatementAt(q, k) = Put({<<q.target, c>> : c \in q.foals}) /\ "foals" \in q.fields
  BY StepTable
<1>9. k = 10 => StatementAt(q, k) = Do("commit")
  BY StepTable
<1> QED
  BY <1>3, <1>4, <1>5, <1>6, <1>7, <1>8, <1>9

\* A DELETE brings a request to its next statement.
LEMMA AfterClear ==
    ASSUME NEW q, Sane(q), NEW V, \A r \in V : ParentOf(r) # ChildOf(r),
           NEW k \in {1, 2, 3, 4, 6, 8}, Has(q, k), At(q, V, k)
    PROVE  At(q, V \ Match(V, q.target, StatementAt(q, k).op), k + 1)
<1> DEFINE t == q.target
           W(op) == V \ Match(V, t, op)
<1>1. Serial!SireSexes \cap Serial!DamSexes = {} /\ Serial!DamSexes \cap Serial!SireSexes = {}
  BY DEF Serial!SireSexes, Serial!DamSexes
<1>2. /\ Serial!ParentsIn(W("sire"), t, Serial!SireSexes) = {}
      /\ Serial!ParentsIn(W("sire"), t, Serial!DamSexes) = Serial!ParentsIn(V, t, Serial!DamSexes)
      /\ Serial!FoalsIn(W("sire"), t) = Serial!FoalsIn(V, t)
  BY <1>1, ClearParents DEF Match
<1>3. /\ Serial!ParentsIn(W("dam"), t, Serial!DamSexes) = {}
      /\ Serial!ParentsIn(W("dam"), t, Serial!SireSexes) = Serial!ParentsIn(V, t, Serial!SireSexes)
      /\ Serial!FoalsIn(W("dam"), t) = Serial!FoalsIn(V, t)
  BY <1>1, ClearParents DEF Match
<1>4. /\ Serial!FoalsIn(W("foals"), t) = {}
      /\ \A sexes : Serial!ParentsIn(W("foals"), t, sexes) = Serial!ParentsIn(V, t, sexes)
  BY ClearFoals DEF Match
<1>5. /\ k = 1 \/ k = 4 => StatementAt(q, k).op = "sire" /\ "sire" \in q.fields
      /\ k = 2 \/ k = 6 => StatementAt(q, k).op = "dam" /\ "dam" \in q.fields
      /\ k = 3 \/ k = 8 => StatementAt(q, k).op = "foals" /\ "foals" \in q.fields
  <2>1. k \in Steps
    BY DEF Steps
  <2>2. Do("sire").op = "sire" /\ Do("dam").op = "dam" /\ Do("foals").op = "foals"
    BY DEF Do
  <2> QED
    BY <2>1, <2>2, StepOps
<1> HIDE DEF W
<1>6. CASE k = 1 \/ k = 4
  <2>1. At(q, W("sire"), k + 1)
    BY <1>2, <1>5, <1>6 DEF At, Now
  <2> QED
    BY <1>5, <1>6, <2>1 DEF W
<1>7. CASE k = 2 \/ k = 6
  <2>1. At(q, W("dam"), k + 1)
    BY <1>3, <1>5, <1>7 DEF At, Now
  <2> QED
    BY <1>5, <1>7, <2>1 DEF W
<1>8. CASE k = 3 \/ k = 8
  <2>1. At(q, W("foals"), k + 1)
    BY <1>4, <1>5, <1>8 DEF At, Now
  <2> QED
    BY <1>5, <1>8, <2>1 DEF W
<1> QED
  BY <1>6, <1>7, <1>8

\* So does an INSERT.
LEMMA AfterPut ==
    ASSUME NEW q, Sane(q), NEW V, NEW W,
           NEW k \in {5, 7, 9}, Has(q, k), At(q, V, k), Inserted(V, W, StatementAt(q, k).pairs)
    PROVE  At(q, W, k + 1)
<1> k \in Steps
  BY DEF Steps
<1>1. CASE k = 5
  <2>1. q.sire # Nobody /\ StatementAt(q, k).pairs = OneLink(q.sire, q.target)
    BY <1>1, StepOps DEF Put, OneLink
  <2>2. /\ q.sire \in Serial!Present /\ q.sire # q.target /\ "sire" \in q.fields
        /\ horses[q.sire].sex = "male"
    BY <2>1 DEF Sane
  <2>3. /\ \A sexes : Serial!ParentsIn(W, q.target, sexes) =
                Serial!ParentsIn(V, q.target, sexes)
                    \cup (IF horses[q.sire].sex \in sexes THEN {q.sire} ELSE {})
        /\ Serial!FoalsIn(W, q.target) = Serial!FoalsIn(V, q.target)
    BY <2>1, <2>2, AddParent
  <2>4. /\ Serial!ParentsIn(W, q.target, Serial!SireSexes)
              = Serial!ParentsIn(V, q.target, Serial!SireSexes) \cup {q.sire}
        /\ Serial!ParentsIn(W, q.target, Serial!DamSexes)
              = Serial!ParentsIn(V, q.target, Serial!DamSexes)
    BY <2>2, <2>3 DEF Serial!SireSexes, Serial!DamSexes
  <2> QED
    BY <1>1, <2>1, <2>2, <2>3, <2>4 DEF At, Now
<1>2. CASE k = 7
  <2>1. q.dam # Nobody /\ StatementAt(q, k).pairs = OneLink(q.dam, q.target)
    BY <1>2, StepOps DEF Put, OneLink
  <2>2. /\ q.dam \in Serial!Present /\ q.dam # q.target /\ "dam" \in q.fields
        /\ horses[q.dam].sex = "female"
    BY <2>1 DEF Sane
  <2>3. /\ \A sexes : Serial!ParentsIn(W, q.target, sexes) =
                Serial!ParentsIn(V, q.target, sexes)
                    \cup (IF horses[q.dam].sex \in sexes THEN {q.dam} ELSE {})
        /\ Serial!FoalsIn(W, q.target) = Serial!FoalsIn(V, q.target)
    BY <2>1, <2>2, AddParent
  <2>4. /\ Serial!ParentsIn(W, q.target, Serial!SireSexes)
              = Serial!ParentsIn(V, q.target, Serial!SireSexes)
        /\ Serial!ParentsIn(W, q.target, Serial!DamSexes)
              = Serial!ParentsIn(V, q.target, Serial!DamSexes) \cup {q.dam}
    BY <2>2, <2>3 DEF Serial!SireSexes, Serial!DamSexes
  <2> QED
    BY <1>2, <2>1, <2>2, <2>3, <2>4 DEF At, Now
<1>3. CASE k = 9
  <2>1. "foals" \in q.fields /\ StatementAt(q, k).pairs = FoalLinks(q.target, q.foals)
    BY <1>3, StepOps DEF Put, FoalLinks
  <2>2. q.foals \in SUBSET Horses /\ q.target \notin q.foals
    BY DEF Sane, Serial!Present
  <2>3. /\ \A sexes : Serial!ParentsIn(W, q.target, sexes) = Serial!ParentsIn(V, q.target, sexes)
        /\ Serial!FoalsIn(W, q.target) = Serial!FoalsIn(V, q.target) \cup q.foals
    BY <2>1, <2>2, AddFoals
  <2> QED
    BY <1>3, <2>1, <2>3 DEF At, Now
<1> QED
  BY <1>1, <1>2, <1>3

\* What a request asks for links nobody to itself.
LEMMA AskedAreTwo ==
    ASSUME NEW q, Sane(q), NEW x \in AskedLinks(q)
    PROVE  /\ x[1] # x[2]
           /\ x[2] = q.target \/ (x[1] = q.target /\ x[2] \in q.foals)
  BY DEF Sane, AskedLinks

\* What a request has been accepted for does not change while it runs.
LEMMA StaysSame ==
    ASSUME UNCHANGED <<horses, links>>, NEW CONSTANT q, NEW CONSTANT V, NEW CONSTANT k
    PROVE  /\ Sane(q) => Sane(q)'
           /\ FoalsFit(q) => FoalsFit(q)'
           /\ At(q, V, k) => At(q, V, k)'
<1>1. Serial!Present' = Serial!Present
  BY DEF Serial!Present
<1>2. Sane(q) => Sane(q)'
  BY <1>1 DEF Sane
<1>3. \A U, h, sexes : Serial!ParentsIn(U, h, sexes)' = Serial!ParentsIn(U, h, sexes)
  BY <1>1 DEF Serial!ParentsIn
<1>4. \A h : Serial!FoalsIn(links, h)' = Serial!FoalsIn(links, h)
  BY DEF Serial!FoalsIn
<1>5. \A h, sexes : Serial!ParentsIn(links, h, sexes)' = Serial!ParentsIn(links, h, sexes)
  BY <1>1 DEF Serial!ParentsIn
<1>6. FoalsFit(q) => FoalsFit(q)'
  BY <1>4, <1>5 DEF FoalsFit, Role, Serial!DamSexes, Serial!SireSexes
<1>7. At(q, V, k) => At(q, V, k)'
  BY <1>3, <1>4, <1>5 DEF At, Now, Serial!DamSexes, Serial!SireSexes
<1> QED
  BY <1>2, <1>6, <1>7

LEMMA KeepPlan ==
    ASSUME NEW s, UNCHANGED <<horses, links>>, req'[s] = req[s], mark'[s] = mark[s],
           Sane(req[s]), FoalsFit(req[s]), mark[s] = "none",
           \A r \in added'[s] : <<ParentOf(r), ChildOf(r)>> \in AskedLinks(req[s]),
           NEW k \in Steps, plan'[s] = From(req[s], k), At(req[s], Serial!Visible(s)', k)
    PROVE  InPlan(s)'
<1>1. PICK q : q = req[s]
  OBVIOUS
<1>2. PICK V : V = Serial!Visible(s)'
  OBVIOUS
<1>3. Sane(q)' /\ FoalsFit(q)' /\ At(q, V, k)'
  BY <1>1, <1>2, StaysSame
<1>4. req'[s] = q
  BY <1>1
<1>5. Sane(req[s])' /\ FoalsFit(req[s])' /\ At(req[s], Serial!Visible(s), k)'
  BY <1>2, <1>3, <1>4 DEF Sane, FoalsFit, At
<1> QED
  BY <1>1, <1>4, <1>5 DEF InPlan

\* Where a request is: at one of its own statements.
LEMMA AtStatement ==
    ASSUME NEW s, InPlan(s)
    PROVE  \E k \in Steps : /\ Has(req[s], k) /\ plan[s] = From(req[s], k)
                            /\ At(req[s], Serial!Visible(s), k)
                            /\ plan[s] # <<>> /\ Head(plan[s]) = StatementAt(req[s], k)
                            /\ k # 10 => Tail(plan[s]) = From(req[s], k + 1)
<1>1. PICK j \in Steps : plan[s] = From(req[s], j) /\ At(req[s], Serial!Visible(s), j)
  BY DEF InPlan
<1>2. PICK k \in Steps : /\ Has(req[s], k) /\ From(req[s], k) = From(req[s], j)
                         /\ At(req[s], Serial!Visible(s), k)
  BY <1>1, Settle
<1>3. /\ From(req[s], k) # <<>> /\ Head(From(req[s], k)) = StatementAt(req[s], k)
      /\ k # 10 => Tail(From(req[s], k)) = From(req[s], k + 1)
  BY <1>2, NextStatement
<1> QED
  BY <1>1, <1>2, <1>3

\* The statement that is executed tells where the request is.
LEMMA WhichStatement ==
    ASSUME NEW q, Sane(q), NEW k \in Steps, Has(q, k)
    PROVE  /\ StatementAt(q, k).op \in Clears => k \in {1, 2, 3, 4, 6, 8}
           /\ StatementAt(q, k).op = "put" => k \in {5, 7, 9}
           /\ StatementAt(q, k).op = "commit" => k = 10
           /\ StatementAt(q, k).op \in Clears \cup {"put", "commit"}
<1>1. /\ k \in {1, 2, 3, 4, 6, 8} => StatementAt(q, k).op \in Clears
      /\ k \in {5, 7, 9} => StatementAt(q, k).op = "put"
      /\ k = 10 => StatementAt(q, k).op = "commit"
  BY StepOps DEF Do, Put, Clears
<1>2. k \in {1, 2, 3, 4, 6, 8} \/ k \in {5, 7, 9} \/ k = 10
  BY StepNumbers
<1> QED
  BY <1>1, <1>2 DEF Clears

LEMMA SeesNoSelf ==
    ASSUME SerialInv, NEW s \in Clients, InPlan(s)
    PROVE  \A r \in Serial!Visible(s) : ParentOf(r) # ChildOf(r)
<1> SUFFICES ASSUME NEW r \in Serial!Visible(s) PROVE ParentOf(r) # ChildOf(r)
  OBVIOUS
<1>1. CASE r \in links
  BY <1>1 DEF SerialInv
<1>2. CASE r \in added[s]
  <2>1. Sane(req[s]) /\ <<ParentOf(r), ChildOf(r)>> \in AskedLinks(req[s])
    BY <1>2 DEF InPlan
  <2> QED
    BY <2>1, AskedAreTwo
<1> QED
  BY <1>1, <1>2 DEF Serial!Visible

LEMMA AfterDelete ==
    ASSUME SerialInv, NEW s \in Clients, NEW R, Serial!Delete(s, R), UNCHANGED links
    PROVE  /\ Serial!Visible(s)' = Serial!Visible(s) \ R
           /\ added'[s] = added[s] \ R
<1>1. added'[s] = added[s] \ R /\ removed'[s] = removed[s] \cup (R \cap links)
  BY DEF SerialInv, Serial!Delete
<1> QED
  BY <1>1 DEF Serial!Visible

LEMMA ClearKeepsPlan ==
    ASSUME SerialInv, NEW s \in Clients, Serial!ClearLinks(s), req[s].op = "set"
    PROVE  InPlan(s)'
<1> DEFINE q == req[s]
           V == Serial!Visible(s)
<1>1. InPlan(s) /\ Sane(q) /\ FoalsFit(q) /\ mark[s] = "none"
  BY DEF SerialInv, InPlan
<1>2. PICK k \in Steps : /\ Has(q, k) /\ plan[s] = From(q, k) /\ At(q, V, k)
                         /\ plan[s] # <<>> /\ Head(plan[s]) = StatementAt(q, k)
                         /\ k # 10 => Tail(plan[s]) = From(q, k + 1)
  BY <1>1, AtStatement
<1>3. /\ Head(plan[s]).op \in Clears
      /\ Serial!Delete(s, Serial!Doomed(s)) /\ Serial!Advance(s)
      /\ UNCHANGED <<horses, links, mark, req>>
  BY DEF Serial!ClearLinks, Serial!Runs, Clears, Serial!Clears
<1>4. k \in {1, 2, 3, 4, 6, 8} /\ k + 1 \in Steps
  BY <1>1, <1>2, <1>3, WhichStatement DEF Steps
<1>5. Serial!Doomed(s) = Match(V, q.target, StatementAt(q, k).op)
  <2>1. Serial!Doomed(s) = Serial!Matching(s)
    BY DEF SerialInv, Serial!Doomed
  <2>2. Head(plan[s]).op = "sire" \/ Head(plan[s]).op = "dam" \/ Head(plan[s]).op = "foals"
    BY <1>3 DEF Clears
  <2> QED
    BY <1>2, <2>1, <2>2 DEF Serial!Matching, Match, Serial!Target, Serial!ParentOf, Serial!ChildOf,
                            ParentOf, ChildOf
<1>6. /\ Serial!Visible(s)' = V \ Match(V, q.target, StatementAt(q, k).op)
      /\ \A r \in added'[s] : r \in added[s]
  BY <1>3, <1>5, AfterDelete
<1>7. At(q, Serial!Visible(s)', k + 1)
  BY <1>1, <1>2, <1>4, <1>6, SeesNoSelf, AfterClear
<1>8. plan'[s] = From(q, k + 1)
  BY <1>2, <1>3, <1>4 DEF Serial!Advance, SerialInv, RowsTyped
<1>9. \A r \in added'[s] : <<ParentOf(r), ChildOf(r)>> \in AskedLinks(q)
  BY <1>1, <1>6 DEF InPlan
<1> QED
  BY <1>1, <1>3, <1>4, <1>7, <1>8, <1>9, KeepPlan

LEMMA PutKeepsPlan ==
    ASSUME SerialInv, NEW s \in Clients, Serial!PutLinks(s), req[s].op = "set"
    PROVE  InPlan(s)'
<1> DEFINE q == req[s]
           V == Serial!Visible(s)
           pairs == Head(plan[s]).pairs
           taken == links \cup UNION {added[o] : o \in Clients}
           free(p) == {c \in Copies : <<p[1], p[2], c>> \notin taken}
           row(p) == <<p[1], p[2], CHOOSE c \in free(p) : \A d \in free(p) : c <= d>>
           N == {row(p) : p \in pairs}
<1>1. InPlan(s) /\ Sane(q) /\ FoalsFit(q) /\ mark[s] = "none"
  BY DEF SerialInv, InPlan
<1>2. PICK k \in Steps : /\ Has(q, k) /\ plan[s] = From(q, k) /\ At(q, V, k)
                         /\ plan[s] # <<>> /\ Head(plan[s]) = StatementAt(q, k)
                         /\ k # 10 => Tail(plan[s]) = From(q, k + 1)
  BY <1>1, AtStatement
<1>3. /\ Head(plan[s]).op = "put"
      /\ added' = [added EXCEPT ![s] = @ \cup N] /\ Serial!Advance(s)
      /\ UNCHANGED <<horses, links, removed, mark, req>>
  BY DEF Serial!PutLinks, Serial!Runs
<1>4. k \in {5, 7, 9} /\ k + 1 \in Steps
  BY <1>1, <1>2, <1>3, WhichStatement DEF Steps
<1>5. pairs \subseteq AskedLinks(q)
  <2>1. StatementAt(q, k).pairs \subseteq AskedLinks(q)
    BY <1>1, <1>4, <1>2, StepOps DEF Put, AskedLinks
  <2> QED
    BY <1>2, <2>1
<1>6. \A p \in pairs : p = <<p[1], p[2]>>
  BY <1>5 DEF AskedLinks
<1> HIDE DEF free
<1>7. \A p \in pairs : <<ParentOf(row(p)), ChildOf(row(p))>> = p
  BY <1>6 DEF ParentOf, ChildOf
<1> HIDE DEF row
<1>8. /\ \A r \in N : <<ParentOf(r), ChildOf(r)>> \in pairs
      /\ \A x \in pairs : \E r \in N : <<ParentOf(r), ChildOf(r)>> = x
  BY <1>7
<1> HIDE DEF pairs, N
<1>9. added'[s] = added[s] \cup N
  BY <1>3 DEF SerialInv
<1>10. Serial!Visible(s)' = V \cup N
  BY <1>3, <1>9 DEF Serial!Visible
<1>11. Inserted(V, Serial!Visible(s)', pairs)
  BY <1>8, <1>10 DEF Inserted
<1>12. pairs = StatementAt(q, k).pairs
  BY <1>2 DEF pairs
<1>13. At(q, Serial!Visible(s)', k + 1)
  BY <1>1, <1>2, <1>4, <1>11, <1>12, AfterPut
<1>14. plan'[s] = From(q, k + 1)
  BY <1>2, <1>3, <1>4 DEF Serial!Advance, SerialInv, RowsTyped
<1>15. \A r \in added'[s] : <<ParentOf(r), ChildOf(r)>> \in AskedLinks(q)
  BY <1>1, <1>5, <1>8, <1>9 DEF InPlan
<1> QED
  BY <1>1, <1>3, <1>4, <1>13, <1>14, <1>15, KeepPlan

\* What set_horse_pedigree accepts from the offered lists.
LEMMA AcceptedIsSane ==
    ASSUME NEW t \in Serial!Present, NEW fields, NEW newSire, NEW newDam, NEW newFoals,
           NEW q, q = Serial!SetRequest(t, fields, newSire, newDam, newFoals),
           Nobody \notin newFoals,
           "sire" \notin fields => newSire = Nobody,
           "dam" \notin fields => newDam = Nobody,
           "foals" \notin fields => newFoals = {},
           NEW sire, NEW dam, Serial!Accepted(q, sire, dam, Serial!FoalsIn(links, t)),
           Serial!Offered(q, sire, dam)
    PROVE  Sane(q) /\ FoalsFit(q)
<1>1. /\ q.target = t /\ q.fields = fields /\ q.sire = newSire /\ q.dam = newDam
      /\ q.foals = newFoals
  BY DEF Serial!SetRequest
<1>2. /\ ({q.target, q.sire, q.dam} \cup q.foals) \ {Nobody} \subseteq Serial!Present
      /\ q.sire # Nobody => q.sire # q.target /\ horses[q.sire].sex = "male"
      /\ q.dam # Nobody => q.dam # q.target /\ horses[q.dam].sex = "female"
      /\ \A c \in q.foals : c # q.target
  BY DEF Serial!Accepted, Serial!SireOk, Serial!DamOk, Serial!FoalOk, Serial!Related
<1>3. t # Nobody
  BY PedigreeConstants DEF Serial!Present
<1>4. Sane(q)
  BY <1>1, <1>2, <1>3 DEF Sane
<1>5. \A c \in Serial!OfferedFoals(t, sire, dam) : Serial!ParentsIn(links, c, Role(t)) = {}
  BY DEF Serial!OfferedFoals, Role
<1>6. q.foals \subseteq Serial!OfferedFoals(t, sire, dam) \cup Serial!FoalsIn(links, t)
  BY <1>1 DEF Serial!Offered
<1>7. FoalsFit(q)
  BY <1>1, <1>5, <1>6 DEF FoalsFit
<1> QED
  BY <1>4, <1>7

LEMMA SetStarts ==
    ASSUME SerialInv, NEW s \in Clients, Serial!SetPedigree(s)
    PROVE  InPlan(s)' /\ req'[s].op = "set" /\ \E q, sts : Serial!Start(s, q, sts)
<1>1. PICK t \in Serial!Present, fields \in SUBSET Serial!Clears,
           newSire, newDam \in Serial!Present \cup {Nobody}, newFoals \in SUBSET Serial!Present :
        LET q == Serial!SetRequest(t, fields, newSire, newDam, newFoals)
        IN  /\ "sire" \notin fields => newSire = Nobody
            /\ "dam" \notin fields => newDam = Nobody
            /\ "foals" \notin fields => newFoals = {}
            /\ \E sire, dam : /\ Serial!Accepted(q, sire, dam, Serial!FoalsIn(links, t))
                              /\ Serial!Offered(q, sire, dam)
            /\ Serial!Start(s, q, Serial!Statements(q))
  BY SMTT(60) DEF Serial!SetPedigree
<1> DEFINE q == Serial!SetRequest(t, fields, newSire, newDam, newFoals)
<1>2. Nobody \notin newFoals
  BY PedigreeConstants DEF Serial!Present
<1>3. Sane(q) /\ FoalsFit(q)
  BY <1>1, <1>2, AcceptedIsSane
<1>4. q.op = "set"
  BY DEF Serial!SetRequest
<1>5. Serial!Start(s, q, Statements(q))
  BY <1>1, SameStatements
<1> HIDE DEF q
<1>6. added[s] = {} /\ removed[s] = {} /\ mark[s] = "none"
  BY DEF SerialInv, RowsTyped, Serial!SetPedigree, Serial!Idle
<1>7. /\ req'[s] = q /\ plan'[s] = From(q, 1)
      /\ UNCHANGED <<horses, links, added, removed, mark>>
  BY <1>5, StatementsFromStart DEF Serial!Start, SerialInv, RowsTyped
<1>8. Serial!Visible(s)' = links
  BY <1>6, <1>7 DEF Serial!Visible
<1>9. At(q, links, 1)
  BY DEF At, Now
<1>10. Sane(q)' /\ FoalsFit(q)' /\ At(q, links, 1)'
  <2>1. PICK V : V = links
    OBVIOUS
  <2>2. At(q, V, 1)'
    BY <1>7, <1>9, <2>1, StaysSame
  <2> QED
    BY <1>3, <1>7, <2>1, <2>2, StaysSame DEF At
<1>11. Sane(req[s])' /\ FoalsFit(req[s])' /\ At(req[s], Serial!Visible(s), 1)'
  BY <1>7, <1>8, <1>10 DEF Sane, FoalsFit, At
<1>12. InPlan(s)'
  BY <1>6, <1>7, <1>11 DEF InPlan, Steps
<1> QED
  BY <1>4, <1>5, <1>7, <1>12

\* Requests of one client at a time.
LEMMA StartKeepsSerial ==
    ASSUME SerialInv, RowsTyped', NEW s \in Clients, Serial!Idle(s), Serial!Admitted(s),
           NEW q, q.op # "none", NEW sts, Serial!Start(s, q, sts),
           q.op = "set" => InPlan(s)',
           q.op # "set" => \A i \in 1..Len(sts) : sts[i].op # "put"
    PROVE  SerialInv'
<1>1. /\ req' = [req EXCEPT ![s] = q] /\ plan' = [plan EXCEPT ![s] = sts]
      /\ UNCHANGED <<links, added, removed, waiting>>
  BY DEF Serial!Start
<1>2. /\ req'[s] = q /\ plan'[s] = sts
      /\ \A t \in Clients \ {s} : req'[t] = req[t] /\ plan'[t] = plan[t]
  BY <1>1 DEF SerialInv, RowsTyped
<1>3. \A t \in Clients : req[t].op = "none"
  BY DEF Serial!Admitted, Serial!Idle
<1>4. /\ DOMAIN added' = Clients /\ DOMAIN removed' = Clients /\ waiting' = {}
      /\ \A r \in links' : ParentOf(r) # ChildOf(r)
      /\ \A t \in Clients : added'[t] = {} /\ removed'[t] = {}
  BY <1>1, <1>3 DEF SerialInv, Serial!Idle
<1>5. \A t \in Clients : ~Serial!Idle(t)' => Apart(t)'
  BY <1>2, <1>3 DEF Serial!Idle, Apart
<1>6. ASSUME NEW t \in Clients \ {s}
      PROVE  /\ req'[t].op = "none"
             /\ \A i \in 1..Len(plan'[t]) : plan'[t][i].op # "put"
  BY <1>2, <1>3 DEF SerialInv
<1> QED
  BY <1>2, <1>4, <1>5, <1>6 DEF SerialInv, Serial!Idle

LEMMA RunKeepsSerial ==
    ASSUME SerialInv, RowsTyped', NEW s \in Clients, Serial!Busy(s), Serial!Advance(s),
           UNCHANGED <<links, req>>, DOMAIN added' = Clients, DOMAIN removed' = Clients,
           \A t \in Clients \ {s} : added'[t] = added[t] /\ removed'[t] = removed[t],
           req[s].op = "set" => InPlan(s)',
           req[s].op # "set" => added'[s] = {}
    PROVE  SerialInv'
<1>1. /\ waiting' = {} /\ plan'[s] = Tail(plan[s])
      /\ \A t \in Clients \ {s} : plan'[t] = plan[t]
  BY DEF Serial!Advance, SerialInv, RowsTyped
<1>2. ~Serial!Idle(s) /\ plan[s] \in Seq(Serial!Statement) /\ plan[s] # <<>>
  BY DEF Serial!Busy, SerialInv, RowsTyped
<1>3. /\ \A t \in Clients \ {s} : req[t].op = "none"
      /\ \A t \in Clients : req'[t] = req[t]
  BY <1>2 DEF SerialInv, Apart, Serial!Idle
<1>4. \A t \in Clients : ~Serial!Idle(t)' => Apart(t)'
  BY <1>3 DEF Serial!Idle, Apart
<1>5. \A t \in Clients \ {s} : added'[t] = {} /\ removed'[t] = {}
  BY <1>3 DEF SerialInv, Serial!Idle
<1>6. ASSUME NEW t \in Clients, req[t].op # "set"
      PROVE  \A i \in 1..Len(plan'[t]) : plan'[t][i].op # "put"
  <2>1. \A i \in 1..Len(plan[t]) : plan[t][i].op # "put"
    BY <1>6 DEF SerialInv
  <2>2. CASE t = s
    <3>1. \A i \in 1..Len(Tail(plan[s])) :
              i + 1 \in 1..Len(plan[s]) /\ Tail(plan[s])[i] = plan[s][i + 1]
      BY <1>2
    <3>2. \A i \in 1..Len(Tail(plan[s])) : Tail(plan[s])[i].op # "put"
      BY <2>1, <2>2, <3>1
    <3>3. plan'[t] = Tail(plan[s])
      BY <1>1, <2>2
    <3> QED
      BY <3>2, <3>3
  <2> QED
    BY <1>1, <2>1, <2>2
<1> QED
  BY <1>1, <1>2, <1>3, <1>4, <1>5, <1>6 DEF SerialInv, Serial!Idle

LEMMA EndKeepsSerial ==
    ASSUME SerialInv, RowsTyped', NEW s \in Clients, ~Serial!Idle(s), Serial!EndSession(s),
           links' = links \/ links' = Serial!Visible(s)
    PROVE  SerialInv'
<1>1. /\ req' = [req EXCEPT ![s] = Serial!NoRequest]
      /\ plan' = [plan EXCEPT ![s] = <<>>]
      /\ added' = [added EXCEPT ![s] = {}] /\ removed' = [removed EXCEPT ![s] = {}]
      /\ waiting' = waiting \ {s}
  BY DEF Serial!EndSession
<1>2. \A t \in Clients \ {s} : req[t].op = "none"
  BY DEF SerialInv, Apart, Serial!Idle
<1>3. \A t \in Clients : req'[t].op = "none"
  BY <1>1, <1>2 DEF SerialInv, RowsTyped, Serial!NoRequest
<1>4. \A r \in links' : ParentOf(r) # ChildOf(r)
  <2>1. CASE links' = links
    BY <2>1 DEF SerialInv
  <2>2. CASE links' = Serial!Visible(s) /\ req[s].op = "set"
    BY <2>2, SeesNoSelf DEF SerialInv
  <2>3. CASE links' = Serial!Visible(s) /\ req[s].op # "set"
    BY <2>3 DEF SerialInv, Serial!Visible
  <2> QED
    BY <2>1, <2>2, <2>3
<1>5. /\ DOMAIN added' = Clients /\ DOMAIN removed' = Clients /\ waiting' = {}
      /\ \A t \in Clients : added'[t] = {} /\ removed'[t] = {}
  BY <1>1, <1>2 DEF SerialInv, Serial!Idle
<1>6. ASSUME NEW t \in Clients PROVE \A i \in 1..Len(plan'[t]) : plan'[t][i].op # "put"
  <2>1. CASE t = s
    <3>1. plan'[t] = <<>>
      BY <1>1, <2>1 DEF SerialInv, RowsTyped
    <3> QED
      BY <3>1
  <2>2. CASE t # s
    <3>1. plan'[t] = plan[t]
      BY <1>1, <2>2 DEF SerialInv, RowsTyped
    <3> QED
      BY <1>2, <2>2, <3>1 DEF SerialInv
  <2> QED
    BY <2>1, <2>2
<1> QED
  BY <1>3, <1>4, <1>5, <1>6 DEF SerialInv, Serial!Idle

LEMMA SerialInit == Serial!Init => SerialInv
<1> SUFFICES ASSUME Serial!Init PROVE SerialInv
  OBVIOUS
<1>1. \A s \in Clients : req[s].op = "none" /\ plan[s] = <<>> /\ added[s] = {} /\ removed[s] = {}
  BY DEF Serial!Init, Serial!NoRequest
<1>2. DOMAIN added = Clients /\ DOMAIN removed = Clients /\ waiting = {} /\ links = {}
  BY DEF Serial!Init
<1> QED
  BY <1>1, <1>2, RowsTypedInit DEF SerialInv, Serial!Idle

LEMMA SerialStep ==
    ASSUME SerialInv, RowsTyped', NEW s \in Clients,
           \/ Serial!CreateHorse(s) \/ Serial!UpdateHorse(s) \/ Serial!DeleteHorse(s)
           \/ Serial!SetPedigree(s) \/ Serial!ClearLinks(s) \/ Serial!Wait(s)
           \/ Serial!PutLinks(s) \/ Serial!WriteHorse(s) \/ Serial!EraseHorse(s)
           \/ Serial!Commit(s) \/ Serial!Rollback(s)
    PROVE  SerialInv'
<1>1. CASE Serial!CreateHorse(s)
  <2>1. UNCHANGED <<links, added, removed, req, plan, waiting>>
    BY <1>1 DEF Serial!CreateHorse
  <2>2. \A t \in Clients : req[t].op = "none"
    BY <1>1 DEF Serial!CreateHorse, Serial!Admitted, Serial!Idle
  <2> QED
    BY <2>1, <2>2 DEF SerialInv, Serial!Idle, Apart
<1>2. CASE Serial!UpdateHorse(s)
  <2>1. PICK h \in Serial!Present, info \in Undated :
            Serial!Start(s, [Serial!NoRequest EXCEPT
                                !.op = IF info = horses[h] \/ TRUE THEN "update" ELSE "redate",
                                !.target = h, !.info = info],
                         <<Serial!Do("write"), Serial!Do("commit")>>)
    BY <1>2 DEF Serial!UpdateHorse
  <2> DEFINE q == [Serial!NoRequest EXCEPT
                        !.op = IF info = horses[h] \/ TRUE THEN "update" ELSE "redate",
                        !.target = h, !.info = info]
             sts == <<Serial!Do("write"), Serial!Do("commit")>>
  <2>2. Serial!NoRequest = NoRequest
    BY DEF Serial!NoRequest, NoRequest
  <2>3. q.op = "update"
    BY <2>2, UpdateRequest
  <2>4. \A i \in 1..Len(sts) : sts[i].op # "put"
    BY DEF Serial!Do
  <2>5. Serial!Idle(s) /\ Serial!Admitted(s)
    BY <1>2 DEF Serial!UpdateHorse
  <2>6. Serial!Start(s, q, sts)
    BY <2>1
  <2> HIDE DEF q, sts
  <2> QED
    BY <2>3, <2>4, <2>5, <2>6, StartKeepsSerial
<1>3. CASE Serial!DeleteHorse(s)
  <2>1. PICK h \in Serial!Present :
            Serial!Start(s, [Serial!NoRequest EXCEPT !.op = "delete", !.target = h],
                         <<Serial!Do("erase"), Serial!Do("commit")>>)
    BY <1>3 DEF Serial!DeleteHorse
  <2> DEFINE q == [Serial!NoRequest EXCEPT !.op = "delete", !.target = h]
             sts == <<Serial!Do("erase"), Serial!Do("commit")>>
  <2>2. Serial!NoRequest = NoRequest
    BY DEF Serial!NoRequest, NoRequest
  <2>3. q.op = "delete"
    BY <2>2, DeleteRequest
  <2>4. \A i \in 1..Len(sts) : sts[i].op # "put"
    BY DEF Serial!Do
  <2>5. Serial!Idle(s) /\ Serial!Admitted(s)
    BY <1>3 DEF Serial!DeleteHorse
  <2>6. Serial!Start(s, q, sts)
    BY <2>1
  <2> HIDE DEF q, sts
  <2> QED
    BY <2>3, <2>4, <2>5, <2>6, StartKeepsSerial
<1>4. CASE Serial!SetPedigree(s)
  <2>1. InPlan(s)' /\ req'[s].op = "set"
    BY <1>4, SetStarts
  <2>2. PICK q, sts : Serial!Start(s, q, sts)
    BY <1>4, SetStarts
  <2>3. q.op = "set"
    BY <2>1, <2>2 DEF Serial!Start, SerialInv, RowsTyped
  <2>4. Serial!Idle(s) /\ Serial!Admitted(s)
    BY <1>4 DEF Serial!SetPedigree
  <2> QED
    BY <2>1, <2>2, <2>3, <2>4, StartKeepsSerial
<1>5. CASE Serial!ClearLinks(s)
  <2>1. /\ Serial!Busy(s) /\ Serial!Advance(s) /\ Serial!Delete(s, Serial!Doomed(s))
        /\ UNCHANGED <<links, req>>
    BY <1>5 DEF Serial!ClearLinks, Serial!Runs
  <2>2. /\ DOMAIN added' = Clients /\ DOMAIN removed' = Clients
        /\ \A t \in Clients \ {s} : added'[t] = added[t] /\ removed'[t] = removed[t]
    BY <2>1 DEF Serial!Delete, SerialInv
  <2>3. req[s].op = "set" => InPlan(s)'
    BY <1>5, ClearKeepsPlan
  <2>4. req[s].op # "set" => added'[s] = {}
    BY <2>1, AfterDelete DEF SerialInv
  <2> QED
    BY <2>1, <2>2, <2>3, <2>4, RunKeepsSerial
<1>6. CASE Serial!Wait(s)
  <2>1. PICK o \in Clients \ {s} : removed[o] \cap Serial!Doomed(s) # {}
    BY <1>6 DEF Serial!Wait, Serial!Blocked, Serial!Others, Serial!Clears
  <2>2. removed[o] = {}
    BY <1>6 DEF Serial!Wait, Serial!Busy, SerialInv, Apart
  <2> QED
    BY <2>1, <2>2
<1>7. CASE Serial!PutLinks(s)
  <2>1. /\ Serial!Busy(s) /\ Serial!Advance(s) /\ Head(plan[s]).op = "put"
        /\ UNCHANGED <<links, req, removed>>
        /\ \E N : added' = [added EXCEPT ![s] = N]
    BY <1>7 DEF Serial!PutLinks, Serial!Runs
  <2>2. /\ DOMAIN added' = Clients /\ DOMAIN removed' = Clients
        /\ \A t \in Clients \ {s} : added'[t] = added[t] /\ removed'[t] = removed[t]
    BY <2>1 DEF SerialInv
  <2>3. req[s].op = "set" => InPlan(s)'
    BY <1>7, PutKeepsPlan
  <2>4. req[s].op = "set"
    <3>1. Head(plan[s]) = plan[s][1] /\ 1 \in 1..Len(plan[s])
      BY <2>1 DEF Serial!Busy, SerialInv, RowsTyped
    <3> QED
      BY <2>1, <3>1 DEF SerialInv
  <2> QED
    BY <2>1, <2>2, <2>3, <2>4, RunKeepsSerial
<1>8. CASE Serial!WriteHorse(s) \/ Serial!EraseHorse(s)
  <2>1. /\ Serial!Busy(s) /\ Serial!Advance(s) /\ Head(plan[s]).op \in {"write", "erase"}
        /\ UNCHANGED <<links, req>>
        /\ UNCHANGED <<added, removed>> \/ \E R : Serial!Delete(s, R)
    BY <1>8 DEF Serial!WriteHorse, Serial!EraseHorse, Serial!Runs
  <2>2. req[s].op # "set"
    <3> SUFFICES ASSUME req[s].op = "set" PROVE FALSE
      OBVIOUS
    <3>1. InPlan(s) /\ Sane(req[s])
      BY DEF SerialInv, InPlan
    <3>2. PICK k \in Steps : Has(req[s], k) /\ Head(plan[s]) = StatementAt(req[s], k)
      BY <3>1, AtStatement
    <3>3. Head(plan[s]).op \in Clears \cup {"put", "commit"}
      BY <3>1, <3>2, WhichStatement
    <3> QED
      BY <2>1, <3>3 DEF Clears
  <2>3. /\ DOMAIN added' = Clients /\ DOMAIN removed' = Clients
        /\ \A t \in Clients \ {s} : added'[t] = added[t] /\ removed'[t] = removed[t]
        /\ added'[s] = {}
    <3>1. CASE UNCHANGED <<added, removed>>
      BY <2>2, <3>1 DEF SerialInv
    <3>2. ASSUME NEW R, Serial!Delete(s, R)
          PROVE  /\ DOMAIN added' = Clients /\ DOMAIN removed' = Clients
                 /\ \A t \in Clients \ {s} : added'[t] = added[t] /\ removed'[t] = removed[t]
                 /\ added'[s] = {}
      BY <2>2, <3>2 DEF SerialInv, Serial!Delete
    <3> QED
      BY <2>1, <3>1, <3>2
  <2> QED
    BY <2>1, <2>2, <2>3, RunKeepsSerial
<1>9. CASE Serial!Commit(s)
  <2>1. ~Serial!Idle(s) /\ Serial!EndSession(s) /\ links' = Serial!Visible(s)
    BY <1>9 DEF Serial!Commit, Serial!Runs, Serial!Busy
  <2> QED
    BY <2>1, EndKeepsSerial
<1>10. CASE Serial!Rollback(s)
  <2>1. ~Serial!Idle(s) /\ Serial!EndSession(s) /\ links' = links
    BY <1>10 DEF Serial!Rollback
  <2> QED
    BY <2>1, EndKeepsSerial
<1> QED
  BY <1>1, <1>2, <1>3, <1>4, <1>5, <1>6, <1>7, <1>8, <1>9, <1>10

LEMMA SerialInvariant == MCSpec => [](~crowded => SerialInv)
<1> DEFINE SInv == ~crowded => SerialInv
<1>1. MCInit => SInv
  BY SerialInit DEF MCInit
<1>2. ASSUME SInv, [MCNext]_<<vars, crowded>> PROVE SInv'
  <2>1. CASE ~crowded /\ Serial!Next /\ crowded' = crowded
    <3>1. SerialInv /\ RowsTyped
      BY <1>2, <2>1 DEF SerialInv
    <3>2. PICK s \in Clients :
              \/ Serial!CreateHorse(s) \/ Serial!UpdateHorse(s) \/ Serial!DeleteHorse(s)
              \/ Serial!SetPedigree(s) \/ Serial!ClearLinks(s) \/ Serial!Wait(s)
              \/ Serial!PutLinks(s) \/ Serial!WriteHorse(s) \/ Serial!EraseHorse(s)
              \/ Serial!Commit(s) \/ Serial!Rollback(s)
      BY <2>1 DEF Serial!Next
    <3>3. RowsTyped'
      BY <3>1, <3>2, RowsTypedStep, ChangeKeepsRows, SetKeepsRows
    <3> QED
      BY <3>1, <3>2, <3>3, SerialStep
  <2>2. CASE crowded /\ crowded' = crowded
    BY <2>2
  <2>3. CASE UNCHANGED <<vars, crowded>>
    <3>1. UNCHANGED <<horses, links, added, removed, mark, req, plan, waiting>>
      BY <2>3 DEF vars
    <3>2. SerialInv => SerialInv'
      <4>1. RowsTyped => RowsTyped'
        BY <3>1 DEF RowsTyped
      <4>2. ASSUME NEW s \in Clients, InPlan(s) PROVE InPlan(s)'
        <5>1. PICK k \in Steps : plan[s] = From(req[s], k) /\ At(req[s], Serial!Visible(s), k)
          BY <4>2 DEF InPlan
        <5>2. Serial!Visible(s)' = Serial!Visible(s)
          BY <3>1 DEF Serial!Visible
        <5>3. \A r \in added'[s] : <<ParentOf(r), ChildOf(r)>> \in AskedLinks(req[s])
          BY <3>1, <4>2 DEF InPlan
        <5> QED
          BY <3>1, <4>2, <5>1, <5>2, <5>3, KeepPlan DEF InPlan
      <4> QED
        BY <3>1, <4>1, <4>2 DEF SerialInv, Serial!Idle, Apart
    <3> QED
      BY <1>2, <2>3, <3>2
  <2> QED
    BY <1>2, <2>1, <2>2, <2>3 DEF MCNext
<1> QED
  BY <1>1, <1>2, PTL DEF MCSpec

\* Where a request for a pedigree commits.
LEMMA AtCommit ==
    ASSUME SerialInv, NEW s \in Clients, Serial!Commit(s), req[s].op = "set"
    PROVE  /\ InPlan(s) /\ At(req[s], Serial!Visible(s), 10)
           /\ horses' = horses /\ links' = Serial!Visible(s)
<1>1. InPlan(s) /\ Sane(req[s]) /\ mark[s] = "none"
  BY DEF SerialInv, InPlan
<1>2. PICK k \in Steps : /\ Has(req[s], k) /\ At(req[s], Serial!Visible(s), k)
                         /\ Head(plan[s]) = StatementAt(req[s], k)
  BY <1>1, AtStatement
<1>3. Head(plan[s]).op = "commit" /\ links' = Serial!Visible(s)
  BY DEF Serial!Commit, Serial!Runs
<1>4. k = 10
  BY <1>1, <1>2, <1>3, WhichStatement
<1>5. horses' = horses
  BY <1>1 DEF Serial!Commit
<1> QED
  BY <1>1, <1>2, <1>3, <1>4, <1>5

LEMMA RolesStep == ASSUME SerialInv PROVE Serial!RolesAsRequestedStep
<1> SUFFICES ASSUME NEW s \in Clients, Serial!Commit(s), req[s].op = "set"
             PROVE  LET t == Serial!Target(s)
                        Want(field, named, old) ==
                            IF field \in req[s].fields THEN named \ {Nobody} ELSE old
                    IN  /\ Serial!ParentsIn(links', t, Serial!SireSexes)
                                = Want("sire", {req[s].sire}, Serial!ParentsIn(links, t, Serial!SireSexes))
                        /\ Serial!ParentsIn(links', t, Serial!DamSexes)
                                = Want("dam", {req[s].dam}, Serial!ParentsIn(links, t, Serial!DamSexes))
                        /\ Serial!FoalsIn(links', t)
                                = Want("foals", req[s].foals, Serial!FoalsIn(links, t))
  BY DEF Serial!RolesAsRequestedStep
<1>1. /\ InPlan(s) /\ At(req[s], Serial!Visible(s), 10)
      /\ links' = Serial!Visible(s)
  BY AtCommit
<1>2. req[s].foals \ {Nobody} = req[s].foals
  BY <1>1 DEF InPlan, Sane
<1> QED
  BY <1>1, <1>2 DEF At, Now, Serial!Target

\* A pedigree that is set is the one that was asked for, for any number of
\* horses, of rows between two of them and of named foals, whoever changed the
\* sex or the dates of relatives before.
THEOREM RolesStayAsRequested == MCSpec => SerialRolesAsRequested
<1>1. (~crowded => SerialInv) /\ [MCNext]_<<vars, crowded>>
        => [~crowded => Serial!RolesAsRequestedStep]_<<vars, crowded>>
  BY RolesStep
<1> QED
  BY <1>1, SerialInvariant, PTL DEF MCSpec, SerialRolesAsRequested

\* Parents of one role are no more than they were, or one horse alone.
LEMMA FewParents ==
    ASSUME IsFiniteSet(Horses), NEW P \in SUBSET Horses, NEW Q \in SUBSET Horses, NEW x,
           Cardinality(Q) <= 1, P \subseteq Q \/ P \subseteq {x}
    PROVE  Cardinality(P) <= 1
<1>1. IsFiniteSet(P) /\ IsFiniteSet(Q)
  BY FS_Subset
<1>2. Cardinality(P) \in Nat /\ Cardinality(Q) \in Nat
  BY <1>1, FS_CardinalityType
<1>3. CASE P \subseteq Q
  <2>1. Cardinality(P) <= Cardinality(Q)
    BY <1>1, <1>3, FS_Subset
  <2> QED
    BY <1>2, <2>1
<1>4. CASE P \subseteq {x}
  <2>1. IsFiniteSet({x}) /\ Cardinality({x}) = 1
    BY FS_Singleton
  <2>2. Cardinality(P) <= Cardinality({x})
    BY <2>1, <1>4, FS_Subset
  <2> QED
    BY <2>1, <2>2
<1> QED
  BY <1>3, <1>4

\* A request that commits leaves a horse the parents it had, or one parent.
LEMMA ParentsLeft ==
    ASSUME SerialInv, NEW s \in Clients, Serial!Commit(s), req[s].op = "set",
           NEW h \in Horses, NEW sexes \in {Serial!SireSexes, Serial!DamSexes}
    PROVE  \E x : \/ Serial!ParentsIn(links', h, sexes) \subseteq Serial!ParentsIn(links, h, sexes)
                  \/ Serial!ParentsIn(links', h, sexes) \subseteq {x}
<1> DEFINE q == req[s]
           t == q.target
           Was(S) == Serial!ParentsIn(links, h, S)
           Left(S) == Serial!ParentsIn(links', h, S)
<1>1. /\ Sane(q) /\ FoalsFit(q) /\ At(q, links', 10)
      /\ \A r \in added[s] : <<ParentOf(r), ChildOf(r)>> \in AskedLinks(q)
      /\ links' \subseteq links \cup added[s]
  BY AtCommit DEF InPlan, Serial!Visible
<1>2. CASE h = t
  <2>1. Left(Serial!SireSexes) \in {Was(Serial!SireSexes), {q.sire} \ {Nobody}}
    BY <1>1, <1>2 DEF At, Now
  <2>2. Left(Serial!DamSexes) \in {Was(Serial!DamSexes), {q.dam} \ {Nobody}}
    BY <1>1, <1>2 DEF At, Now
  <2> QED
    BY <2>1, <2>2
<1>3. CASE h # t
  <2>1. ASSUME NEW r \in links', ChildOf(r) = h, r \notin links
        PROVE  ParentOf(r) = t /\ h \in q.foals
    BY <1>1, <1>3, <2>1, AskedAreTwo
  <2>2. ASSUME NEW p \in Left(sexes), p \notin Was(sexes)
        PROVE  p = t /\ h \in q.foals /\ horses[t].sex \in sexes
    BY <2>1, <2>2 DEF Serial!ParentsIn, ParentOf, ChildOf, Serial!ParentOf, Serial!ChildOf
  <2>3. CASE Left(sexes) \subseteq Was(sexes)
    BY <2>3
  <2>4. CASE ~(Left(sexes) \subseteq Was(sexes))
    <3>1. PICK p \in Left(sexes) : p \notin Was(sexes)
      BY <2>4
    <3>2. p = t /\ h \in q.foals /\ horses[t].sex \in sexes /\ t \in Serial!Present
      BY <2>2, <3>1 DEF Serial!ParentsIn
    <3>3. Role(t) = sexes
      BY <3>2 DEF Role, Serial!SireSexes, Serial!DamSexes
    <3>4. h \notin Serial!FoalsIn(links, t)
      BY <3>1, <3>2 DEF Serial!ParentsIn, Serial!FoalsIn, Serial!ParentOf, Serial!ChildOf
    <3>5. Was(sexes) = {}
      BY <1>1, <3>2, <3>3, <3>4 DEF FoalsFit
    <3>6. Left(sexes) \subseteq {t}
      BY <2>2, <3>5
    <3> QED
      BY <3>6
  <2> QED
    BY <2>3, <2>4
<1> QED
  BY <1>2, <1>3

LEMMA OneCount == \A S : Serial!Cardinality(S) = Cardinality(S)
  BY DEF Serial!Cardinality, Cardinality

LEMMA OneParentStep ==
    ASSUME IsFiniteSet(Horses), SerialInv PROVE Serial!OffersKeepOneParentStep
<1> SUFFICES ASSUME NEW s \in Clients, NEW h \in Horses, Serial!Commit(s), req[s].op = "set",
                    Serial!OneParent(links, h)
             PROVE  Serial!OneParent(links', h)
  BY DEF Serial!OffersKeepOneParentStep
<1>1. ASSUME NEW sexes \in {Serial!SireSexes, Serial!DamSexes},
             Cardinality(Serial!ParentsIn(links, h, sexes)) <= 1
      PROVE  Cardinality(Serial!ParentsIn(links', h, sexes)) <= 1
  <2>1. PICK x : \/ Serial!ParentsIn(links', h, sexes) \subseteq Serial!ParentsIn(links, h, sexes)
                 \/ Serial!ParentsIn(links', h, sexes) \subseteq {x}
    BY ParentsLeft
  <2>2. /\ Serial!ParentsIn(links', h, sexes) \in SUBSET Horses
        /\ Serial!ParentsIn(links, h, sexes) \in SUBSET Horses
    BY DEF Serial!ParentsIn, Serial!Present
  <2> QED
    BY <1>1, <2>1, <2>2, FewParents
<1> QED
  BY <1>1, OneCount DEF Serial!OneParent

\* Clients that pick from the lists give no horse a second sire or dam, for
\* any finite number of horses and any pedigrees there are already.
THEOREM SerialKeepsOneParent ==
    ASSUME IsFiniteSet(Horses) PROVE MCSpec => SerialOneParent
<1>1. (~crowded => SerialInv) /\ [MCNext]_<<vars, crowded>>
        => [~crowded => Serial!OffersKeepOneParentStep]_<<vars, crowded>>
  BY OneParentStep
<1> QED
  BY <1>1, SerialInvariant, PTL DEF MCSpec, SerialOneParent
================================================================================
