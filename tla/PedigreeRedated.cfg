SPECIFICATION Spec
CONSTANTS
    Sessions = {s1}
    Horses = {h1, h2, h3}
    Copies = {1, 2}
    Infos <- Undated
    NoRow = NoRow
    Nobody = Nobody
    Overlap = FALSE
    OffersOnly = FALSE
    Redate = TRUE
    MaxFoals = 1
    MaxFields = 2
SYMMETRY Symmetry
INVARIANTS ParentsOlder
