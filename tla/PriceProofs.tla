------------------------------ MODULE PriceProofs ------------------------------
(***************************************************************************)
(* The theorems of PriceOrderProofs for the two instances that MCPrices    *)
(* puts together: requests that work at once, and requests one after the   *)
(* other.                                                                  *)
(***************************************************************************)
EXTENDS MCPrices, PriceOrderProofs

(***************************************************************************)
(* The crowded instance                                                    *)
(***************************************************************************)

LEMMA CrowdedInv ==
    ASSUME ~Overlap \/ Touches = {TRUE} PROVE MCSpec => [](crowded => Inv)
<1>1. MCInit => (crowded => Inv)
  BY InvInit DEF MCInit
<1>2. (crowded => Inv) /\ [MCNext]_<<vars, crowded>> => (crowded => Inv)'
  <2> SUFFICES ASSUME crowded => Inv, [MCNext]_<<vars, crowded>>, crowded' PROVE Inv'
    OBVIOUS
  <2>1. crowded' = crowded
    BY DEF MCNext
  <2>2. [Next]_vars
    BY <2>1 DEF MCNext
  <2> QED
    BY <2>1, <2>2, NextKeepsInv
<1> QED
  BY <1>1, <1>2, PTL DEF MCSpec

\* No price is ever linked to a group twice, however requests interleave.
THEOREM CrowdedLinkedOnce ==
    ASSUME ~Overlap \/ Touches = {TRUE} PROVE MCSpec => []NeverLinkedTwice
<1>1. (crowded => Inv) => NeverLinkedTwice
  BY DEF Inv, NeverLinkedTwice
<1> QED
  BY CrowdedInv, <1>1, PTL

\* A committed create or update leaves the price in exactly the groups it lists.
THEOREM CrowdedGroupsAsAsked ==
    ASSUME ~Overlap \/ Touches = {TRUE} PROVE MCSpec => CrowdedGroupsAsRequested
<1>1. (crowded => Inv) /\ [MCNext]_<<vars, crowded>>
      => [crowded => GroupsAsRequestedStep]_<<vars, crowded>>
  BY GroupsStep
<1> QED
  BY CrowdedInv, <1>1, PTL DEF MCSpec, CrowdedGroupsAsRequested

(***************************************************************************)
(* The serial instance: two instances of PriceOrder with the same          *)
(* parameters, one of them with its theorems, are the same by their        *)
(* definitions.                                                            *)
(***************************************************************************)

SerialProofs == INSTANCE PriceOrderProofs
    WITH Sessions <- Clients, Prices <- ManyPrices, Touches <- BOOLEAN, Overlap <- FALSE

LEMMA SameInit == Serial!Init => SerialProofs!Init
  BY DEF Serial!Init, SerialProofs!Init, Serial!Cardinality, SerialProofs!Cardinality, Serial!Rows,
         SerialProofs!Rows, Serial!GroupOf, SerialProofs!GroupOf, Serial!FirstCopy,
         SerialProofs!FirstCopy, Serial!PriceOf, SerialProofs!PriceOf, Serial!NothingWritten,
         SerialProofs!NothingWritten, Serial!NoRequest, SerialProofs!NoRequest, Serial!NoJob,
         SerialProofs!NoJob

LEMMA SameNext == Serial!Next => SerialProofs!Next
  BY DEF Serial!Next, SerialProofs!Next, Serial!CreatePrice, SerialProofs!CreatePrice,
         Serial!Admitted, SerialProofs!Admitted, Serial!FreshPrice, SerialProofs!FreshPrice,
         Serial!NoRequest, SerialProofs!NoRequest, Serial!Goto, SerialProofs!Goto,
         Serial!UpdatePrice, SerialProofs!UpdatePrice, Serial!DeletePrice,
         SerialProofs!DeletePrice, Serial!GroupOf, SerialProofs!GroupOf, Serial!OfPrice,
         SerialProofs!OfPrice, Serial!Visible, SerialProofs!Visible, Serial!Rows,
         SerialProofs!Rows, Serial!Seen, SerialProofs!Seen, Serial!PriceOf, SerialProofs!PriceOf,
         Serial!DeleteGroup, SerialProofs!DeleteGroup, Serial!Reorder, SerialProofs!Reorder,
         Serial!Listings, SerialProofs!Listings, Serial!Cardinality, SerialProofs!Cardinality,
         Serial!Before, SerialProofs!Before, Serial!Null, SerialProofs!Null, Serial!InGroup,
         SerialProofs!InGroup, Serial!OrderMaps, SerialProofs!OrderMaps, Serial!MaxOf,
         SerialProofs!MaxOf, Serial!AfterChanges, SerialProofs!AfterChanges, Serial!Moved,
         SerialProofs!Moved, Serial!Orders, SerialProofs!Orders, Serial!TouchPrice,
         SerialProofs!TouchPrice, Serial!Runs, SerialProofs!Runs, Serial!Blockers,
         SerialProofs!Blockers, Serial!PriceMarked, SerialProofs!PriceMarked, Serial!RowHolders,
         SerialProofs!RowHolders, Serial!Target, SerialProofs!Target, Serial!Matching,
         SerialProofs!Matching, Serial!KeyHolders, SerialProofs!KeyHolders, Serial!GroupErased,
         SerialProofs!GroupErased, Serial!PriceUsers, SerialProofs!PriceUsers, Serial!GroupUsers,
         SerialProofs!GroupUsers, Serial!ReadOldGroups, SerialProofs!ReadOldGroups,
         Serial!DropLinks, SerialProofs!DropLinks, Serial!NextStep, SerialProofs!NextStep,
         Serial!ReadMax, SerialProofs!ReadMax, Serial!InsertLink, SerialProofs!InsertLink,
         Serial!InsertRefused, SerialProofs!InsertRefused, Serial!PriceSeen,
         SerialProofs!PriceSeen, Serial!Free, SerialProofs!Free, Serial!NewRow,
         SerialProofs!NewRow, Serial!Renumber, SerialProofs!Renumber, Serial!GroupSeen,
         SerialProofs!GroupSeen, Serial!NullOrders, SerialProofs!NullOrders, Serial!PutOrder,
         SerialProofs!PutOrder, Serial!PutRefused, SerialProofs!PutRefused, Serial!ErasePrice,
         SerialProofs!ErasePrice, Serial!EraseGroup, SerialProofs!EraseGroup, Serial!Wait,
         SerialProofs!Wait, Serial!Commit, SerialProofs!Commit, Serial!EndSession,
         SerialProofs!EndSession, Serial!NothingWritten, SerialProofs!NothingWritten, Serial!NoJob,
         SerialProofs!NoJob, Serial!Rollback, SerialProofs!Rollback

LEMMA SameNumbers ==
    /\ SerialProofs!AllNumbered => Serial!AllNumbered
    /\ SerialProofs!NoDuplicateLink => Serial!NoDuplicateLink
    /\ SerialProofs!NumberingNeverRefused => Serial!NumberingNeverRefused
  BY DEF Serial!AllNumbered, SerialProofs!AllNumbered, Serial!NoDuplicateLink,
         SerialProofs!NoDuplicateLink, Serial!NumberingNeverRefused,
         SerialProofs!NumberingNeverRefused, Serial!Linked, SerialProofs!Linked, Serial!Rows,
         SerialProofs!Rows, Serial!Null, SerialProofs!Null, Serial!PriceOf, SerialProofs!PriceOf,
         Serial!GroupOf, SerialProofs!GroupOf, Serial!Runs, SerialProofs!Runs, Serial!Blockers,
         SerialProofs!Blockers, Serial!PriceMarked, SerialProofs!PriceMarked, Serial!RowHolders,
         SerialProofs!RowHolders, Serial!Target, SerialProofs!Target, Serial!Visible,
         SerialProofs!Visible, Serial!Seen, SerialProofs!Seen, Serial!Matching,
         SerialProofs!Matching, Serial!OfPrice, SerialProofs!OfPrice, Serial!InGroup,
         SerialProofs!InGroup, Serial!KeyHolders, SerialProofs!KeyHolders, Serial!GroupErased,
         SerialProofs!GroupErased, Serial!PriceUsers, SerialProofs!PriceUsers, Serial!GroupUsers,
         SerialProofs!GroupUsers, Serial!PutRefused, SerialProofs!PutRefused, Serial!Cardinality,
         SerialProofs!Cardinality

LEMMA SameOthersKeepOrder == SerialProofs!OthersKeepOrderStep => Serial!OthersKeepOrderStep
  BY DEF Serial!OthersKeepOrderStep, SerialProofs!OthersKeepOrderStep, Serial!Commit,
         SerialProofs!Commit, Serial!Rows, SerialProofs!Rows, Serial!Seen, SerialProofs!Seen,
         Serial!PriceSeen, SerialProofs!PriceSeen, Serial!GroupSeen, SerialProofs!GroupSeen,
         Serial!EndSession, SerialProofs!EndSession, Serial!Goto, SerialProofs!Goto,
         Serial!NothingWritten, SerialProofs!NothingWritten, Serial!NoRequest,
         SerialProofs!NoRequest, Serial!NoJob, SerialProofs!NoJob, Serial!Linked,
         SerialProofs!Linked, Serial!GroupOf, SerialProofs!GroupOf, Serial!PriceOf,
         SerialProofs!PriceOf, Serial!Named, SerialProofs!Named

LEMMA SameReorderLands == SerialProofs!ReorderLandsStep => Serial!ReorderLandsStep
  BY DEF Serial!ReorderLandsStep, SerialProofs!ReorderLandsStep, Serial!Commit,
         SerialProofs!Commit, Serial!Rows, SerialProofs!Rows, Serial!Seen, SerialProofs!Seen,
         Serial!PriceSeen, SerialProofs!PriceSeen, Serial!GroupSeen, SerialProofs!GroupSeen,
         Serial!EndSession, SerialProofs!EndSession, Serial!Goto, SerialProofs!Goto,
         Serial!NothingWritten, SerialProofs!NothingWritten, Serial!NoRequest,
         SerialProofs!NoRequest, Serial!NoJob, SerialProofs!NoJob, Serial!Dense,
         SerialProofs!Dense, Serial!Linked, SerialProofs!Linked, Serial!GroupOf,
         SerialProofs!GroupOf, Serial!Cardinality, SerialProofs!Cardinality, Serial!OrdersOf,
         SerialProofs!OrdersOf, Serial!PriceOf, SerialProofs!PriceOf

LEMMA SameDenseAfterLoss == SerialProofs!DenseAfterLossStep => Serial!DenseAfterLossStep
  BY DEF Serial!DenseAfterLossStep, SerialProofs!DenseAfterLossStep, Serial!Commit,
         SerialProofs!Commit, Serial!Rows, SerialProofs!Rows, Serial!Seen, SerialProofs!Seen,
         Serial!PriceSeen, SerialProofs!PriceSeen, Serial!GroupSeen, SerialProofs!GroupSeen,
         Serial!EndSession, SerialProofs!EndSession, Serial!Goto, SerialProofs!Goto,
         Serial!NothingWritten, SerialProofs!NothingWritten, Serial!NoRequest,
         SerialProofs!NoRequest, Serial!NoJob, SerialProofs!NoJob, Serial!OrdersOf,
         SerialProofs!OrdersOf, Serial!Linked, SerialProofs!Linked, Serial!PriceOf,
         SerialProofs!PriceOf, Serial!GroupOf, SerialProofs!GroupOf, Serial!Dense,
         SerialProofs!Dense, Serial!Cardinality, SerialProofs!Cardinality

\* What PriceOrderProofs assumes of its constants holds of the serial instance's.
LEMMA SerialMeetsAssumptions == SerialProofs!PriceConstants
  BY PriceConstants, SerialConstants DEF PriceConstants, Orders, IsFiniteSet, Cardinality,
         SerialProofs!PriceConstants, SerialProofs!Orders,
         SerialProofs!IsFiniteSet, SerialProofs!Cardinality

SerialInv == ~crowded => SerialProofs!Inv /\ SerialProofs!NumInv /\ SerialProofs!GoalInv

LEMMA SerialKeepsInv == MCSpec => []SerialInv
<1>1. MCInit => SerialInv
  BY SerialMeetsAssumptions, SameInit, SerialProofs!InvInit, SerialProofs!NumInit,
     SerialProofs!GoalInit DEF MCInit, SerialInv
<1>2. SerialInv /\ [MCNext]_<<vars, crowded>> => SerialInv'
  <2> SUFFICES ASSUME SerialInv, [MCNext]_<<vars, crowded>>, ~crowded'
               PROVE  SerialProofs!Inv' /\ SerialProofs!NumInv' /\ SerialProofs!GoalInv'
    BY DEF SerialInv
  <2>1. ~crowded
    BY DEF MCNext
  <2>2. SerialProofs!Inv /\ SerialProofs!NumInv /\ SerialProofs!GoalInv
    BY <2>1 DEF SerialInv
  <2>3. [SerialProofs!Next]_(SerialProofs!vars)
    BY <2>1, SameNext DEF MCNext, vars, SerialProofs!vars
  <2>4. SerialProofs!Inv'
    BY SerialMeetsAssumptions, <2>2, <2>3, SerialProofs!NextKeepsInv
  <2>5. SerialProofs!NumInv'
    BY SerialMeetsAssumptions, <2>2, <2>3, SerialProofs!NumStep
  <2>6. SerialProofs!GoalInv'
    BY SerialMeetsAssumptions, <2>2, <2>3, SerialProofs!GoalStep
  <2> QED
    BY <2>4, <2>5, <2>6
<1> QED
  BY <1>1, <1>2, PTL DEF MCSpec

\* Requests one after the other leave every link with an order, one per price,
\* and phase 2 of set_display_orders never meets an order that is taken.
THEOREM SerialNumbersDiffer == MCSpec => []SerialNumbering
<1>1. SerialInv => SerialNumbering
  <2> SUFFICES ASSUME SerialInv, ~crowded
               PROVE  Serial!AllNumbered /\ Serial!NoDuplicateLink /\ Serial!NumberingNeverRefused
    BY DEF SerialNumbering
  <2>1. SerialProofs!OneByOne
    BY DEF SerialInv, SerialProofs!OneByOne
  <2>2. SerialProofs!AllNumbered /\ SerialProofs!NoDuplicateLink
    BY <2>1 DEF SerialProofs!OneByOne, SerialProofs!Inv, SerialProofs!NumInv
  <2>3. SerialProofs!NumberingNeverRefused
    BY SerialMeetsAssumptions, <2>1, SerialProofs!PutIsFree
  <2> QED
    BY SerialMeetsAssumptions, <2>2, <2>3, SameNumbers
<1> QED
  BY <1>1, SerialKeepsInv, PTL

LEMMA SerialOneByOne ==
    ASSUME SerialInv, ~crowded PROVE SerialProofs!OneByOne /\ SerialProofs!GoalInv
  BY DEF SerialInv, SerialProofs!OneByOne

\* Requests one after the other: a commit keeps the prices it does not name in
\* their order, and a reorder of a group numbered 1..n puts the price moved
\* last where the request wants it.
THEOREM SerialOrderAsRequested == MCSpec => OrderAsRequested
<1>1. SerialInv => [~crowded => Serial!OthersKeepOrderStep /\ Serial!ReorderLandsStep]_<<vars, crowded>>
  <2> SUFFICES ASSUME SerialInv, ~crowded
               PROVE  Serial!OthersKeepOrderStep /\ Serial!ReorderLandsStep
    OBVIOUS
  <2>1. SerialProofs!OthersKeepOrderStep
    BY SerialMeetsAssumptions, SerialOneByOne, SerialProofs!CommitKeepsOrder
  <2>2. SerialProofs!ReorderLandsStep
    BY SerialMeetsAssumptions, SerialOneByOne, SerialProofs!CommitLands
  <2> QED
    BY <2>1, <2>2, SameOthersKeepOrder, SameReorderLands
<1> QED
  BY <1>1, SerialKeepsInv, PTL DEF OrderAsRequested

\* Requests one after the other: a group that an update or a deletion takes a
\* price from is numbered 1..n again when they commit.
THEOREM SerialGroupsStayDense == MCSpec => SerialDenseAfterLoss
<1>1. SerialInv => [~crowded => Serial!DenseAfterLossStep]_<<vars, crowded>>
  <2> SUFFICES ASSUME SerialInv, ~crowded PROVE Serial!DenseAfterLossStep
    OBVIOUS
  <2>1. SerialProofs!DenseAfterLossStep
    BY SerialMeetsAssumptions, SerialOneByOne, SerialProofs!CommitDenseAfterLoss
  <2> QED
    BY <2>1, SameDenseAfterLoss
<1> QED
  BY <1>1, SerialKeepsInv, PTL DEF SerialDenseAfterLoss
================================================================================
