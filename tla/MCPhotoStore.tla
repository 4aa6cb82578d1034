---------------------------- MODULE MCPhotoStore ----------------------------
(***************************************************************************)
(* Small instances of PhotoStore for TLC.  Requested name "a" has two      *)
(* candidates and the second one is what requested name "b" starts with,   *)
(* so that requests for different names meet as well.                      *)
(***************************************************************************)
EXTENDS PhotoStore, TLC

CONSTANTS a, b, n1, n2, n3

MCCandidates == a :> <<n1, n2>> @@ b :> <<n2, n3>>

\* One requested name, for the runs whose question is not about names.
OneName == a :> <<n1, n2>>

\* Requests, photos and files are interchangeable.
Symmetry == Permutations(Sessions) \cup Permutations(Photos) \cup Permutations(Files)
=============================================================================
