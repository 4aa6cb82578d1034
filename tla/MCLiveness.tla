------------------------------ MODULE MCLiveness ------------------------------
(***************************************************************************)
(* What must come to an end: the start of the workers, and the photo       *)
(* requests of a worker that serves.  They share no state, so one run      *)
(* checks both: MCInit chooses what goes on, the rest keeps its initial    *)
(* state.  Batches of deletions and requests for one photo at a time are   *)
(* checked apart; the run photo_safety mixes them and looks for deadlocks. *)
(***************************************************************************)
EXTENDS Startup, TLC

CONSTANTS Sessions, Photos, Files, Names, Bases,
          NoRow, NoFile, NoBase, NoPhoto, Keep, a, n1, n2

VARIABLES part,
          mild, rows, objects, born, issued, pend, pc, req, ent, bat, failed

\* One name with two candidates; one call to S3 fails in each request.
OneName == a :> <<n1, n2>>

Batches == INSTANCE PhotoStore
    WITH faults <- failed, MaxFaults <- 1, Faults <- {"s3"}, Candidates <- OneName,
         Overlap <- FALSE, MaxBatch <- 2

Meeting == INSTANCE PhotoStore
    WITH faults <- failed, MaxFaults <- 1, Faults <- {"s3"}, Candidates <- OneName,
         Overlap <- TRUE, MaxBatch <- 1

photoVars == <<mild, rows, objects, born, issued, pend, pc, req, ent, bat, failed>>

MCInit ==
    /\ part \in {"start", "batches", "meeting"}
    /\ Init
    /\ mild = FALSE
    /\ Batches!Init
    /\ part # "start" => version = 0 /\ registry = {} /\ statuses = {} /\ ~used

MCNext ==
    \/ part = "start" /\ Next /\ UNCHANGED <<part, photoVars>>
    \/ part = "batches" /\ Batches!Next /\ UNCHANGED <<part, vars>>
    \/ part = "meeting" /\ Meeting!Next /\ UNCHANGED <<part, vars>>

\* The two instances differ in the requests that come, not in how they go on.
MCSpec ==
    MCInit /\ [][MCNext]_<<part, vars, photoVars>> /\ Fairness /\ Batches!Fairness

\* Requests that wait for each other's rows and names, and fail at S3, end.
RequestsEnd == Batches!RequestsEnd
===============================================================================
