SPECIFICATION Spec
CONSTANTS
    Sessions = {s1, s2}
    Photos = {p1, p2}
    Files = {f1, f2, f3}
    Names = {n1, n2, n3}
    Bases = {a, b}
    Candidates <- MCCandidates
    a = a
    b = b
    n1 = n1
    n2 = n2
    n3 = n3
    NoRow = NoRow
    NoFile = NoFile
    NoBase = NoBase
    NoPhoto = NoPhoto
    Keep = Keep
    Faults = {}
    MaxFaults = 0
    Overlap = TRUE
    MaxBatch = 2
SYMMETRY Symmetry
PROPERTIES OnlyProvidedFields
