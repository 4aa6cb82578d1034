SPECIFICATION Spec
CONSTANTS
    Sessions = {s1}
    Prices = {p1, p2, p3}
    Groups = {g1}
    Copies = {1, 2}
    Absent = Absent
    NoPrice = NoPrice
    NoGroup = NoGroup
    Keep = Keep
    Touches = {TRUE, FALSE}
    Overlap = FALSE
    MaxOrder = 4
    MaxChanges = 1
SYMMETRY Symmetry
PROPERTIES RangeAfterReorder
