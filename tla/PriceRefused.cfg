SPECIFICATION Spec
CONSTANTS
    Sessions = {s1, s2}
    Prices = {p1, p2}
    Groups = {g1}
    Copies = {1, 2}
    Absent = Absent
    NoPrice = NoPrice
    NoGroup = NoGroup
    Keep = Keep
    Touches = {TRUE, FALSE}
    Overlap = TRUE
    MaxOrder = 3
    MaxChanges = 1
SYMMETRY Symmetry
INVARIANTS NumberingNeverRefused
