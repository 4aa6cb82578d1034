------------------------------ MODULE PriceOrder ------------------------------
(***************************************************************************)
(* The order of the prices of a price group: table price_groups_relations, *)
(* whose rows link a price to a group and carry its display_order.  A      *)
(* partial unique index keeps two rows of a group from having the same     *)
(* order, unless it is NULL; nothing keeps a price from being linked to a  *)
(* group twice.                                                            *)
(*                                                                         *)
(* The module models PriceService.create, update and delete,               *)
(* PriceGroupService.reorder_prices_in_group and delete, and the           *)
(* statements of PriceRepository behind them, in requests that run         *)
(* concurrently on PostgreSQL at READ COMMITTED: a statement sees what was *)
(* committed before it started and what its own transaction wrote, waits   *)
(* for rows and index keys another transaction has written, and after the  *)
(* wait goes on with the rows it had found at its start.                   *)
(*                                                                         *)
(* Definitions named Bug... are mutated forms of the one that follows      *)
(* them; no specification uses them, they show what a property would catch.*)
(***************************************************************************)
EXTENDS Integers, Sequences, FiniteSets

CONSTANTS
    Sessions,      \* concurrent requests
    Prices,        \* price ids
    Groups,        \* price group ids
    Copies,        \* numbers that tell apart rows linking one price to one group
    Absent, Keep, NoPrice, NoGroup,
    Touches,       \* may an update leave the row of table prices alone?
    Overlap,       \* do requests run at the same time?
    MaxOrder,      \* bound on display_order
    MaxChanges     \* bound on the changes of one reorder request

Null == 0          \* display_order IS NULL; orders start at 1

\* A row is known by what it links, which no statement ever changes.
Rows == Prices \X Groups \X Copies
PriceOf(r) == r[1]
GroupOf(r) == r[2]

\* What table price_groups_relations has for a row: its display_order.
Orders == 0..MaxOrder

ASSUME PriceConstants ==
    /\ Copies \subseteq Nat /\ Copies # {}
    /\ IsFiniteSet(Prices) /\ IsFiniteSet(Groups) /\ IsFiniteSet(Copies)
    /\ Absent \notin Orders
    /\ Keep \notin Orders \cup {Absent}
    /\ NoPrice \notin Prices
    /\ NoGroup \notin Groups
    /\ Touches \subseteq BOOLEAN
    /\ Overlap \in BOOLEAN
    /\ MaxOrder \in Nat /\ Cardinality(Prices) <= MaxOrder
    /\ MaxChanges \in Nat

VARIABLES
    links,    \* links[r]: order of row r in committed price_groups_relations
    prices,   \* committed ids of table prices
    groups,   \* committed ids of table price_groups
    pend,     \* pend[s][r]: what s has written to row r and not committed
    mark,     \* what s has written to the price or group it was called for
    pc,       \* next statement of the request
    req,      \* what was asked
    job,      \* the local variables of the service method
    waiting,  \* sessions whose statement has started and waits
    found     \* the rows it found at its start

vars == <<links, prices, groups, pend, mark, pc, req, job, waiting, found>>

Steps == {"idle", "touch", "old", "drop", "max", "insert", "erase", "erasegroup",
          "number", "null", "put", "commit"}

Request == [
    op      : {"none", "create", "update", "delete", "reorder", "deletegroup"},
    price   : Prices \cup {NoPrice},  \* reorder: the price changed last
    group   : Groups \cup {NoGroup},
    groups  : SUBSET Groups,          \* group_ids
    moved   : SUBSET Prices,          \* reorder: all the prices it changes
    to      : Orders ]                \* reorder: where it puts the last one

Job == [
    add   : SUBSET Groups,            \* groups still to be linked
    fix   : SUBSET Groups,            \* groups still to be renumbered
    group : Groups \cup {NoGroup},    \* the one being linked or numbered
    top   : Orders,                   \* current_max
    plan  : Seq([price: Prices, ord: Orders]) ]   \* rest of order_map

NoRequest == [op |-> "none", price |-> NoPrice, group |-> NoGroup,
              groups |-> {}, moved |-> {}, to |-> 0]
NoJob == [add |-> {}, fix |-> {}, group |-> NoGroup, top |-> 0, plan |-> <<>>]
NothingWritten == [r \in Rows |-> Keep]

(***************************************************************************)
(* What a transaction sees                                                 *)
(***************************************************************************)

Seen(s, r) == IF pend[s][r] = Keep THEN links[r] ELSE pend[s][r]
Visible(s) == {r \in Rows : Seen(s, r) # Absent}
InGroup(s, g) == {r \in Visible(s) : GroupOf(r) = g}
OfPrice(s, p) == {r \in Visible(s) : PriceOf(r) = p}

PriceSeen(s, p) ==
    IF req[s].price = p /\ mark[s] = "new" THEN TRUE
    ELSE p \in prices /\ ~(req[s].price = p /\ mark[s] = "gone")
GroupSeen(s, g) ==
    g \in groups /\ ~(req[s].group = g /\ mark[s] = "gone")

BugBefore(s, q, r) == FALSE   \* the listing has no ORDER BY

\* ORDER BY display_order ASC NULLS LAST; rows without an order come in any.
Before(s, q, r) ==
    /\ Seen(s, q) # Null
    /\ Seen(s, r) = Null \/ Seen(s, q) < Seen(s, r)
Listings(s, R) ==
    {q \in [1..Cardinality(R) -> R] :
        \A i, j \in 1..Cardinality(R) : i < j => q[i] # q[j] /\ ~Before(s, q[j], q[i])}

(***************************************************************************)
(* What a statement waits for                                              *)
(***************************************************************************)

Matching(s) ==
    CASE pc[s] = "drop" -> OfPrice(s, req[s].price)
      [] pc[s] = "null" -> InGroup(s, job[s].group)
      [] pc[s] = "put"  -> InGroup(s, job[s].group) \cap OfPrice(s, Head(job[s].plan).price)
      [] OTHER -> {}

\* The rows the statement writes: those it found at its start, less those
\* that were deleted while it waited.
Target(s) == IF s \in waiting THEN found[s] \cap Visible(s) ELSE Matching(s)

RowHolders(s, R) == {t \in Sessions \ {s} : \E r \in R : pend[t][r] # Keep}

\* An open transaction has written the key, or has taken it off a row.
KeyHolders(s, g, k) ==
    {t \in Sessions \ {s} : \E r \in Rows :
        GroupOf(r) = g /\ pend[t][r] # Keep /\ k \in {links[r], pend[t][r]}}

\* An open transaction has linked, unlinked or numbered price p (group g).
PriceUsers(s, p) == RowHolders(s, {r \in Rows : PriceOf(r) = p})
GroupUsers(s, g) == RowHolders(s, {r \in Rows : GroupOf(r) = g})
PriceMarked(s, p, marks) ==
    {t \in Sessions \ {s} : req[t].price = p /\ mark[t] \in marks}
GroupErased(s, g) == {t \in Sessions \ {s} : req[t].group = g /\ mark[t] = "gone"}

\* Transactions that have to end before the next statement of s can.
Blockers(s) ==
    CASE pc[s] = "touch" -> PriceMarked(s, req[s].price, {"held", "gone"})
      [] pc[s] \in {"drop", "null"} -> RowHolders(s, Target(s))
      [] pc[s] = "insert" ->
            KeyHolders(s, job[s].group, job[s].top + 1)
                \cup PriceMarked(s, req[s].price, {"gone"})
                \cup GroupErased(s, job[s].group)
      [] pc[s] = "erase" ->
            PriceMarked(s, req[s].price, {"held", "gone"}) \cup PriceUsers(s, req[s].price)
      [] pc[s] = "erasegroup" ->
            GroupErased(s, req[s].group) \cup GroupUsers(s, req[s].group)
      [] pc[s] = "put" ->
            RowHolders(s, Target(s))
                \cup (IF Target(s) = {} THEN {}
                      ELSE KeyHolders(s, job[s].group, Head(job[s].plan).ord))
      [] OTHER -> {}

Runs(s, step) == pc[s] = step /\ Blockers(s) = {}
Goto(s, step) ==
    /\ pc' = [pc EXCEPT ![s] = step]
    /\ waiting' = waiting \ {s}
    /\ found' = [found EXCEPT ![s] = {}]

\* What is left to do, in the order of the code: link, then renumber.
NextStep(work) ==
    IF work.add # {} THEN "max" ELSE IF work.fix # {} THEN "number" ELSE "commit"

\* A statement starts and has to wait.
Wait(s) ==
    /\ pc[s] \in {"drop", "null", "put"} /\ Blockers(s) # {}
    /\ s \notin waiting
    /\ waiting' = waiting \cup {s}
    /\ found' = [found EXCEPT ![s] = Matching(s)]
    /\ UNCHANGED <<links, prices, groups, pend, mark, pc, req, job>>

\* The environment of the runs in which a request starts after the last ended.
Admitted(s) == Overlap \/ \A t \in Sessions \ {s} : pc[t] = "idle"

(***************************************************************************)
(* PriceService.create and update                                          *)
(***************************************************************************)

\* A new uuid: nothing in the system mentions it.
FreshPrice(p) ==
    /\ p \notin prices
    /\ \A s \in Sessions : /\ req[s].price # p
                           /\ \A i \in DOMAIN job[s].plan : job[s].plan[i].price # p

CreatePrice(s) ==
    /\ pc[s] = "idle" /\ Admitted(s)
    /\ \E p \in Prices, gs \in SUBSET groups :
        /\ FreshPrice(p)
        /\ req' = [req EXCEPT ![s] = [NoRequest EXCEPT !.op = "create", !.price = p,
                                                       !.groups = gs]]
        /\ job' = [job EXCEPT ![s].add = gs]
        /\ Goto(s, IF gs = {} THEN "commit" ELSE "max")
    /\ mark' = [mark EXCEPT ![s] = "new"]
    /\ UNCHANGED <<links, prices, groups, pend>>

\* An update with the list of groups.  The row of prices is written only when
\* the request has another field as well.
UpdatePrice(s) ==
    /\ pc[s] = "idle" /\ Admitted(s)
    /\ \E p \in prices, gs \in SUBSET groups, touch \in Touches :
        /\ req' = [req EXCEPT ![s] = [NoRequest EXCEPT !.op = "update", !.price = p,
                                                       !.groups = gs]]
        /\ job' = [job EXCEPT ![s].add = gs]
        /\ Goto(s, IF touch THEN "touch" ELSE "old")
    /\ UNCHANGED <<links, prices, groups, pend, mark>>

\* The statement is skipped although the request has other fields.
BugTouchPrice(s) ==
    /\ Runs(s, "touch")
    /\ Goto(s, "old")
    /\ UNCHANGED <<links, prices, groups, pend, mark, req, job>>

\* UPDATE prices; it finds nothing when the price has been deleted meanwhile,
\* and nobody looks at the row count.
TouchPrice(s) ==
    /\ Runs(s, "touch")
    /\ mark' = IF req[s].price \in prices THEN [mark EXCEPT ![s] = "held"] ELSE mark
    /\ Goto(s, "old")
    /\ UNCHANGED <<links, prices, groups, pend, req, job>>

\* The old groups are read after the links were replaced.
BugReadOldGroups(s) ==
    /\ Runs(s, "old")
    /\ Goto(s, "drop")
    /\ UNCHANGED <<links, prices, groups, pend, mark, req, job>>

\* get_price_groups, before the links are replaced.
ReadOldGroups(s) ==
    /\ Runs(s, "old")
    /\ job' = [job EXCEPT ![s].fix =
                 {GroupOf(r) : r \in OfPrice(s, req[s].price)} \ req[s].groups]
    /\ Goto(s, "drop")
    /\ UNCHANGED <<links, prices, groups, pend, mark, req>>

\* Links to groups of the new list are kept, and inserted all the same.
BugDropLinks(s) ==
    /\ Runs(s, "drop")
    /\ pend' = [pend EXCEPT ![s] =
                  [r \in Rows |-> IF r \in Target(s) /\ GroupOf(r) \notin req[s].groups
                                 THEN Absent ELSE @[r]]]
    /\ Goto(s, NextStep(job[s]))
    /\ UNCHANGED <<links, prices, groups, mark, req, job>>

\* The DELETE of set_price_groups.
DropLinks(s) ==
    /\ Runs(s, "drop")
    /\ pend' = [pend EXCEPT ![s] =
                  [r \in Rows |-> IF r \in Target(s) THEN Absent ELSE @[r]]]
    /\ Goto(s, NextStep(job[s]))
    /\ UNCHANGED <<links, prices, groups, mark, req, job>>

MaxOf(S) == CHOOSE m \in S : \A k \in S : k <= m

\* The maximum of an empty group is taken as it comes, without "or 0".
BugReadMax(s) ==
    /\ Runs(s, "max")
    /\ \E g \in job[s].add :
        LET orders == {Seen(s, r) : r \in InGroup(s, g)}
            top == IF orders = {} THEN Absent ELSE MaxOf(orders)
        IN  /\ orders # {} => top < MaxOrder
            /\ job' = [job EXCEPT ![s].group = g, ![s].top = top]
    /\ Goto(s, "insert")
    /\ UNCHANGED <<links, prices, groups, pend, mark, req>>

\* SELECT max(display_order) of one more group; bounded by MaxOrder.
ReadMax(s) ==
    /\ Runs(s, "max")
    /\ \E g \in job[s].add :
        LET top == MaxOf({Null} \cup {Seen(s, r) : r \in InGroup(s, g)})
        IN  /\ top < MaxOrder
            /\ job' = [job EXCEPT ![s].group = g, ![s].top = top]
    /\ Goto(s, "insert")
    /\ UNCHANGED <<links, prices, groups, pend, mark, req>>

\* A new row for price p and group g; which one makes no difference.
Free(p, g) ==
    {c \in Copies : \A t \in Sessions : links[<<p, g, c>>] = Absent /\ pend[t][<<p, g, c>>] = Keep}
NewRow(p, g) == <<p, g, CHOOSE c \in Free(p, g) : \A d \in Free(p, g) : c <= d>>
FirstCopy == CHOOSE c \in Copies : \A d \in Copies : c <= d

\* The unique index or a foreign key refuses the row.
InsertRefused(s) ==
    \/ \E r \in InGroup(s, job[s].group) : Seen(s, r) = job[s].top + 1
    \/ ~PriceSeen(s, req[s].price)
    \/ job[s].group \notin groups

\* INSERT of display_order = current_max + 1.
InsertLink(s) ==
    LET work == [job[s] EXCEPT !.add = @ \ {job[s].group}, !.group = NoGroup, !.top = 0]
    IN  /\ Runs(s, "insert") /\ ~InsertRefused(s)
        /\ Free(req[s].price, job[s].group) # {}
        /\ pend' = [pend EXCEPT ![s][NewRow(req[s].price, job[s].group)] = job[s].top + 1]
        /\ job' = [job EXCEPT ![s] = work]
        /\ Goto(s, NextStep(work))
        /\ UNCHANGED <<links, prices, groups, mark, req>>

(***************************************************************************)
(* set_display_orders, called for every group a price has left and by      *)
(* reorder_prices_in_group                                                 *)
(***************************************************************************)

\* order_map built from a listing q of rows and the order val[i] of its i-th
\* row: one entry per price, in the order the prices first come up, and a
\* price that comes up again overwrites its order.
OrderMaps(q, val) ==
    LET price(i) == PriceOf(q[i])
        Again(i) == {j \in DOMAIN q : price(j) = price(i)}
        firsts == {i \in DOMAIN q : \A j \in Again(i) : i <= j}
        n == Cardinality(firsts)
    IN  {[k \in 1..n |-> [price |-> price(f[k]), ord |-> val[MaxOf(Again(f[k]))]]] :
            f \in {h \in [1..n -> firsts] : \A k, l \in 1..n : k < l => h[k] < h[l]}}

\* The rest of a group that lost the price is numbered 1, 2, ... (nothing is
\* written when it is empty, or gone); bounded by MaxOrder.
Renumber(s) ==
    /\ Runs(s, "number")
    /\ \E g \in job[s].fix :
        LET rest == IF GroupSeen(s, g) THEN InGroup(s, g) ELSE {}
            work == [job[s] EXCEPT !.fix = @ \ {g}]
        IN  IF rest = {}
            THEN job' = [job EXCEPT ![s] = work] /\ Goto(s, NextStep(work))
            ELSE /\ Cardinality(rest) <= MaxOrder
                 /\ \E q \in Listings(s, rest) :
                    \E plan \in OrderMaps(q, [i \in 1..Len(q) |-> i]) :
                        job' = [job EXCEPT ![s] = [work EXCEPT !.group = g, !.plan = plan]]
                 /\ Goto(s, "null")
    /\ UNCHANGED <<links, prices, groups, pend, mark, req>>

\* Phase 1 is left out.
BugNullOrders(s) ==
    /\ Runs(s, "null")
    /\ Goto(s, "put")
    /\ UNCHANGED <<links, prices, groups, pend, mark, req, job>>

\* Phase 1: all rows of the group lose their order.
NullOrders(s) ==
    /\ Runs(s, "null")
    /\ pend' = [pend EXCEPT ![s] =
                  [r \in Rows |-> IF r \in Target(s) THEN Null ELSE @[r]]]
    /\ Goto(s, "put")
    /\ UNCHANGED <<links, prices, groups, mark, req, job>>

\* The unique index refuses the order: another row of the group has it, or the
\* statement gives it to two rows.
PutRefused(s) ==
    \/ Cardinality(Target(s)) > 1
    \/ /\ Target(s) # {}
       /\ \E r \in InGroup(s, job[s].group) \ Target(s) : Seen(s, r) = Head(job[s].plan).ord

\* The loop stops one entry early.
BugPutOrder(s) ==
    LET rest == Tail(job[s].plan)
        work == IF Len(rest) > 1 THEN [job[s] EXCEPT !.plan = rest]
                ELSE [job[s] EXCEPT !.plan = <<>>, !.group = NoGroup]
    IN  /\ Runs(s, "put") /\ ~PutRefused(s)
        /\ pend' = [pend EXCEPT ![s] =
                      [r \in Rows |-> IF r \in Target(s) THEN Head(job[s].plan).ord
                                                         ELSE @[r]]]
        /\ job' = [job EXCEPT ![s] = work]
        /\ Goto(s, IF Len(rest) > 1 THEN "put" ELSE NextStep(work))
        /\ UNCHANGED <<links, prices, groups, mark, req>>

\* Phase 2: one UPDATE per entry of order_map.
PutOrder(s) ==
    LET rest == Tail(job[s].plan)
        work == IF rest # <<>> THEN [job[s] EXCEPT !.plan = rest]
                ELSE [job[s] EXCEPT !.plan = rest, !.group = NoGroup]
    IN  /\ Runs(s, "put") /\ ~PutRefused(s)
        /\ pend' = [pend EXCEPT ![s] =
                      [r \in Rows |-> IF r \in Target(s) THEN Head(job[s].plan).ord
                                                         ELSE @[r]]]
        /\ job' = [job EXCEPT ![s] = work]
        /\ Goto(s, IF rest # <<>> THEN "put" ELSE NextStep(work))
        /\ UNCHANGED <<links, prices, groups, mark, req>>

(***************************************************************************)
(* reorder_prices_in_group                                                 *)
(***************************************************************************)

\* The requested position is not clipped to the size of the group.
BugMoved(cur, n, p, to) ==
    LET pos == cur[p]
    IN  [x \in DOMAIN cur |->
            IF x = p THEN to
            ELSE IF to <= cur[x] /\ cur[x] < pos THEN cur[x] + 1
            ELSE IF pos < cur[x] /\ cur[x] <= to THEN cur[x] - 1
            ELSE cur[x]]

\* One change of the request: price p of an n-row group moves to position to
\* (clipped to 1..n) and the orders in between shift by one.
Moved(cur, n, p, to) ==
    LET target == IF to > n THEN n ELSE IF to < 1 THEN 1 ELSE to
        pos == cur[p]
    IN  [x \in DOMAIN cur |->
            IF x = p THEN target
            ELSE IF target <= cur[x] /\ cur[x] < pos THEN cur[x] + 1
            ELSE IF pos < cur[x] /\ cur[x] <= target THEN cur[x] - 1
            ELSE cur[x]]

\* The state of the order after the first i changes.
AfterChanges(cur, n, changes) ==
    LET after[i \in 0..Len(changes)] ==
            IF i = 0 THEN cur ELSE Moved(after[i-1], n, changes[i].price, changes[i].to)
    IN  after[Len(changes)]

\* The listing is read, the new order computed; a request that names a price
\* of another group, or an empty group, is refused before it writes; bounded
\* by MaxOrder.
Reorder(s) ==
    /\ pc[s] = "idle" /\ Admitted(s)
    /\ \E g \in groups, n \in 1..MaxChanges :
       \E q \in Listings(s, InGroup(s, g)) :
       \E entries \in OrderMaps(q, [i \in 1..Len(q) |->
                          IF Seen(s, q[i]) # Null THEN Seen(s, q[i]) ELSE i]) :
        LET named == {entries[k].price : k \in DOMAIN entries}
            cur == [p \in named |-> (CHOOSE e \in {entries[k] : k \in DOMAIN entries} :
                                        e.price = p).ord]
        IN  /\ q # <<>>
            /\ \E changes \in [1..n -> [price: named, to: 1..MaxOrder]] :
                LET final == AfterChanges(cur, Len(q), changes)
                IN  /\ final \in [named -> Orders]
                    /\ req' = [req EXCEPT ![s] = [NoRequest EXCEPT !.op = "reorder",
                                     !.price = changes[n].price, !.group = g,
                                     !.moved = {changes[i].price : i \in 1..n},
                                     !.to = changes[n].to]]
                    /\ job' = [job EXCEPT ![s].group = g, ![s].plan =
                                 [k \in DOMAIN entries |->
                                    [price |-> entries[k].price,
                                     ord   |-> final[entries[k].price]]]]
    /\ Goto(s, "null")
    /\ UNCHANGED <<links, prices, groups, pend, mark>>

(***************************************************************************)
(* PriceService.delete and PriceGroupService.delete                        *)
(***************************************************************************)

\* The groups of the price are read before it is deleted.
DeletePrice(s) ==
    /\ pc[s] = "idle" /\ Admitted(s)
    /\ \E p \in prices :
        /\ req' = [req EXCEPT ![s] = [NoRequest EXCEPT !.op = "delete", !.price = p]]
        /\ job' = [job EXCEPT ![s].fix = {GroupOf(r) : r \in OfPrice(s, p)}]
    /\ Goto(s, "erase")
    /\ UNCHANGED <<links, prices, groups, pend, mark>>

\* DELETE of the price; its links go with it (ON DELETE CASCADE).
ErasePrice(s) ==
    /\ Runs(s, "erase")
    /\ IF req[s].price \in prices
       THEN /\ mark' = [mark EXCEPT ![s] = "gone"]
            /\ pend' = [pend EXCEPT ![s] =
                          [r \in Rows |-> IF r \in OfPrice(s, req[s].price) THEN Absent
                                                                            ELSE @[r]]]
       ELSE UNCHANGED <<mark, pend>>
    /\ Goto(s, NextStep(job[s]))
    /\ UNCHANGED <<links, prices, groups, req, job>>

DeleteGroup(s) ==
    /\ pc[s] = "idle" /\ Admitted(s)
    /\ \E g \in groups :
        req' = [req EXCEPT ![s] = [NoRequest EXCEPT !.op = "deletegroup", !.group = g]]
    /\ Goto(s, "erasegroup")
    /\ UNCHANGED <<links, prices, groups, pend, mark, job>>

EraseGroup(s) ==
    /\ Runs(s, "erasegroup")
    /\ IF req[s].group \in groups
       THEN /\ mark' = [mark EXCEPT ![s] = "gone"]
            /\ pend' = [pend EXCEPT ![s] =
                          [r \in Rows |-> IF r \in InGroup(s, req[s].group) THEN Absent
                                                                            ELSE @[r]]]
       ELSE UNCHANGED <<mark, pend>>
    /\ Goto(s, "commit")
    /\ UNCHANGED <<links, prices, groups, req, job>>

(***************************************************************************)
(* get_session                                                             *)
(***************************************************************************)

EndSession(s) ==
    /\ Goto(s, "idle")
    /\ pend' = [pend EXCEPT ![s] = NothingWritten]
    /\ mark' = [mark EXCEPT ![s] = "none"]
    /\ req' = [req EXCEPT ![s] = NoRequest]
    /\ job' = [job EXCEPT ![s] = NoJob]

Commit(s) ==
    /\ pc[s] = "commit"
    /\ links' = [r \in Rows |-> Seen(s, r)]
    /\ prices' = {p \in Prices : PriceSeen(s, p)}
    /\ groups' = {g \in Groups : GroupSeen(s, g)}
    /\ EndSession(s)

\* A constraint refuses the statement, a statement or the commit fails, a
\* deadlock makes PostgreSQL pick a victim, the worker dies: the transaction
\* leaves nothing.
Rollback(s) ==
    /\ pc[s] # "idle"
    /\ EndSession(s)
    /\ UNCHANGED <<links, prices, groups>>

-----------------------------------------------------------------------------

\* The groups as requests that ran one after the other have filled them: all
\* prices linked to one group, in some order.
Init ==
    /\ \E g \in Groups, order \in [Prices -> 1..Cardinality(Prices)] :
        /\ \A p, q \in Prices : p # q => order[p] # order[q]
        /\ links = [r \in Rows |-> IF GroupOf(r) = g /\ r[3] = FirstCopy THEN order[PriceOf(r)]
                                                                        ELSE Absent]
    /\ prices = Prices
    /\ groups = Groups
    /\ pend = [s \in Sessions |-> NothingWritten]
    /\ mark = [s \in Sessions |-> "none"]
    /\ pc = [s \in Sessions |-> "idle"]
    /\ req = [s \in Sessions |-> NoRequest]
    /\ job = [s \in Sessions |-> NoJob]
    /\ waiting = {}
    /\ found = [s \in Sessions |-> {}]

Next ==
    \E s \in Sessions :
        \/ CreatePrice(s) \/ UpdatePrice(s) \/ DeletePrice(s) \/ DeleteGroup(s)
        \/ Reorder(s)
        \/ TouchPrice(s) \/ ReadOldGroups(s) \/ DropLinks(s) \/ ReadMax(s)
        \/ InsertLink(s) \/ Renumber(s) \/ NullOrders(s) \/ PutOrder(s)
        \/ ErasePrice(s) \/ EraseGroup(s) \/ Wait(s)
        \/ Commit(s) \/ Rollback(s)

Spec == Init /\ [][Next]_vars

(***************************************************************************)
(* Properties                                                              *)
(***************************************************************************)

\* Every variable stays in its type.
TypeOK ==
    /\ links \in [Rows -> Orders \cup {Absent}]
    /\ prices \in SUBSET Prices
    /\ groups \in SUBSET Groups
    /\ pend \in [Sessions -> [Rows -> Orders \cup {Absent, Keep}]]
    /\ mark \in [Sessions -> {"none", "new", "held", "gone"}]
    /\ pc \in [Sessions -> Steps]
    /\ req \in [Sessions -> Request]
    /\ job \in [Sessions -> Job]
    /\ waiting \in SUBSET Sessions
    /\ found \in [Sessions -> SUBSET Rows]

Linked(table) == {r \in Rows : table[r] # Absent}
Dense(table, g) ==
    LET rows == {r \in Linked(table) : GroupOf(r) = g}
    IN  {table[r] : r \in rows} = 1..Cardinality(rows)
OrdersOf(table, p, g) ==
    {table[r] : r \in {x \in Linked(table) : PriceOf(x) = p /\ GroupOf(x) = g}}
Named(s) == {req[s].price} \cup req[s].moved

\* Every committed link has an order: nothing is left between the two phases
\* of set_display_orders, so "display_order is None" is legacy data only.
AllNumbered == \A r \in Linked(links) : links[r] # Null

\* No price is linked to a group twice, though no constraint of the table
\* says so: only the order of the statements in update does.
NoDuplicateLink ==
    \A q, r \in Linked(links) :
        q # r => PriceOf(q) # PriceOf(r) \/ GroupOf(q) # GroupOf(r)

\* The two phases avoid a violation of the unique index: whenever an UPDATE of
\* phase 2 can run, the order it writes is free in the group.
NumberingNeverRefused ==
    \A s \in Sessions : Runs(s, "put") => ~PutRefused(s)

\* A commit leaves the prices a request does not name in the order they had.
OthersKeepOrderStep ==
    \A s \in Sessions : Commit(s) =>
        \A q, r \in Linked(links) \cap Linked(links') :
            /\ GroupOf(q) = GroupOf(r) /\ links[q] < links[r]
            /\ PriceOf(q) \notin Named(s) /\ PriceOf(r) \notin Named(s)
            => links'[q] < links'[r]

OthersKeepOrder == [][OthersKeepOrderStep]_vars

\* A group that loses a price to an update or a deletion is numbered 1..n
\* again, even if it had gaps before.
DenseAfterLossStep ==
    \A s \in Sessions, g \in groups :
        /\ Commit(s) /\ req[s].op \in {"update", "delete"}
        /\ OrdersOf(links, req[s].price, g) # {} /\ OrdersOf(links', req[s].price, g) = {}
        => Dense(links', g)

DenseAfterLoss == [][DenseAfterLossStep]_vars

\* A reorder of a group numbered 1..n leaves it numbered 1..n, and the price
\* changed last stands where the request put it, or at the end.
ReorderLandsStep ==
    \A s \in Sessions, g \in Groups :
        /\ Commit(s) /\ req[s].op = "reorder" /\ req[s].group = g /\ Dense(links, g)
        => LET n == Cardinality({r \in Linked(links) : GroupOf(r) = g})
           IN  /\ Dense(links', g)
               /\ OrdersOf(links', req[s].price, g) = {IF req[s].to > n THEN n ELSE req[s].to}

ReorderLands == [][ReorderLandsStep]_vars

\* When a create or update commits, the price is linked to exactly the groups
\* the request listed, whoever else was changing its links meanwhile.
GroupsAsRequestedStep ==
    \A s \in Sessions :
        /\ Commit(s) /\ req[s].op \in {"create", "update"}
        => {g \in Groups : OrdersOf(links', req[s].price, g) # {}} = req[s].groups

GroupsAsRequested == [][GroupsAsRequestedStep]_vars

\* "After any reorder all display_order are in the range 1..N."
RangeAfterReorder ==
    [][\A s \in Sessions :
        /\ Commit(s) /\ req[s].op = "reorder"
        => Dense(links', req[s].group)]_vars
=============================================================================
