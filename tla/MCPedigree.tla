------------------------------ MODULE MCPedigree ------------------------------
(***************************************************************************)
(* Small instances of Pedigree for TLC: horses of every sex, with and      *)
(* without dates, around the boundaries of the date rules.                 *)
(***************************************************************************)
EXTENDS Pedigree, TLC

Horse(sex, born, died) == [sex |-> sex, born |-> born, died |-> died]

\* Three generations; the mare of the first died in the year of the second.
Generations == {Horse("male", 2, 0), Horse("female", 1, 2), Horse("female", 3, 0)}

\* A mare that died before the stallion was born, and a gelding of unknown age.
Undated == {Horse("male", 2, 0), Horse("geld", 0, 0), Horse("female", 1, 1)}

\* Requests and horses are interchangeable.
Symmetry == Permutations(Sessions) \cup Permutations(Horses)
=============================================================================
