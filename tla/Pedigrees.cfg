SPECIFICATION MCSpec
CONSTANTS
    Sessions = {r1, r2}
    Clients = {s1}
    Horses = {h1, h2, h3}
    Copies = {1, 2}
    Infos <- Generations
    NoRow = NoRow
    Nobody = Nobody
    Overlap = TRUE
    OffersOnly = FALSE
    Redate = FALSE
    MaxFoals = 1
    MaxFields = 1
SYMMETRY Symmetries
INVARIANTS ParentsFit OffersAccepted
PROPERTIES SerialOneParent SerialRolesAsRequested
