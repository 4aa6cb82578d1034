SPECIFICATION MCSpec
CONSTANTS
    Sessions = {r1, r2}
    Prices = {q1}
    Clients = {s1}
    ManyPrices = {p1, p2, p3}
    Groups = {g1, g2}
    Copies = {1, 2}
    Absent = Absent
    NoPrice = NoPrice
    NoGroup = NoGroup
    Keep = Keep
    Touches = {TRUE}
    Overlap = TRUE
    MaxOrder = 3
    MaxChanges = 1
SYMMETRY Symmetries
INVARIANTS NeverLinkedTwice SerialNumbering
PROPERTIES OrderAsRequested SerialDenseAfterLoss CrowdedGroupsAsRequested
