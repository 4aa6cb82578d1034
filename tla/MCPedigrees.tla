------------------------------ MODULE MCPedigrees ------------------------------
(***************************************************************************)
(* Two instances of Pedigree in one run.  In the cfg's, the crowded one,   *)
(* two requests are validated before either commits, with any pedigree     *)
(* that is accepted.  In the serial one, requests come one after the       *)
(* other, clients pick from the offered lists, and sex and dates change at *)
(* any time.                                                               *)
(***************************************************************************)
EXTENDS MCPedigree

CONSTANTS Clients        \* the requests of the serial instance

VARIABLE crowded         \* which instance the behaviour is of

Serial == INSTANCE Pedigree
    WITH Sessions <- Clients, Infos <- Undated, Overlap <- FALSE, OffersOnly <- TRUE,
         Redate <- TRUE, MaxFields <- 2

MCInit ==
    \/ crowded = TRUE /\ Init
    \/ crowded = FALSE /\ Serial!Init

MCNext ==
    /\ \/ crowded /\ Next
       \/ ~crowded /\ Serial!Next
    /\ UNCHANGED crowded

MCSpec == MCInit /\ [][MCNext]_<<vars, crowded>>

\* Requests and horses are interchangeable within an instance.
Symmetries == Symmetry \cup Permutations(Clients)

\* As long as sex and dates are not changed under existing links, every parent
\* is older than its child and every dam alive at its birth, however requests
\* interleave that were validated against what was committed before.
ParentsFit == crowded => TypeOK /\ ParentsOlder /\ DamAlive

\* The lists that are offered agree with the checks of what is set.
OffersAccepted == ~crowded => Serial!OfferedIsAccepted

\* Clients that pick from the lists give no horse a second sire or dam.
SerialOneParent == [][~crowded => Serial!OffersKeepOneParentStep]_<<vars, crowded>>

\* A pedigree that is set is the one that was asked for.
SerialRolesAsRequested == [][~crowded => Serial!RolesAsRequestedStep]_<<vars, crowded>>
================================================================================
