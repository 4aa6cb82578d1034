------------------------------- MODULE MCPrices -------------------------------
(***************************************************************************)
(* Two instances of PriceOrder in one run.  In the cfg's, the crowded one, *)
(* two requests work at once on one price, and every update writes its     *)
(* row.  In the serial one, requests come one after the other and work on  *)
(* several prices.                                                         *)
(***************************************************************************)
EXTENDS MCPriceOrder

CONSTANTS Clients,     \* the requests of the serial instance
          ManyPrices    \* and its prices

ASSUME SerialConstants ==
    /\ IsFiniteSet(ManyPrices) /\ Cardinality(ManyPrices) <= MaxOrder
    /\ NoPrice \notin ManyPrices

VARIABLE crowded       \* which instance the behaviour is of

Serial == INSTANCE PriceOrder
    WITH Sessions <- Clients, Prices <- ManyPrices, Touches <- BOOLEAN, Overlap <- FALSE

MCInit ==
    \/ crowded = TRUE /\ Init
    \/ crowded = FALSE /\ Serial!Init

MCNext ==
    /\ \/ crowded /\ Next
       \/ ~crowded /\ Serial!Next
    /\ UNCHANGED crowded

MCSpec == MCInit /\ [][MCNext]_<<vars, crowded>>

\* Requests, prices and groups are interchangeable within an instance.
Symmetries == Symmetry \cup Permutations(Clients) \cup Permutations(ManyPrices)

\* No price is ever linked to a group twice, which no constraint says, however
\* requests interleave.
NeverLinkedTwice == crowded => TypeOK /\ NoDuplicateLink

\* Requests one after the other leave every link with an order, one per price,
\* and the two phases of a renumbering avoid a violation of the unique index.
SerialNumbering ==
    ~crowded => Serial!AllNumbered /\ Serial!NoDuplicateLink /\ Serial!NumberingNeverRefused

\* Requests one after the other give every price the place that was asked for:
\* what is not named keeps its order, and a group numbered 1..n has the price
\* that was moved last where the request puts it.
OrderAsRequested ==
    [][~crowded => Serial!OthersKeepOrderStep /\ Serial!ReorderLandsStep]_<<vars, crowded>>

\* A group that loses a price is numbered 1..n again.
SerialDenseAfterLoss == [][~crowded => Serial!DenseAfterLossStep]_<<vars, crowded>>

\* A committed create or update leaves the price in the groups it lists, also
\* when two requests set the groups of one price.
CrowdedGroupsAsRequested == [][crowded => GroupsAsRequestedStep]_<<vars, crowded>>
===============================================================================
