SPECIFICATION MCSpec
CONSTANTS
    Sessions = {s1, s2}
    Ids = {i1, i2}
    Forms = {f1, f2}
    NoRow = NoRow
    Images = {p1, p2, p3}
    Crowd = {p1, p2}
    Copies = {1, 2}
    NoPhoto = NoPhoto
    KeepList = KeepList
    MaxFiles = 2
    UserTenant = UserTenant
    KeyTenant = KeyTenant
    Nobody = Nobody
    Tenants = {t1, t2}
    Accounts = {a1, a2, a3}
    NoTarget = NoTarget
    PageSize = 1
    Disturbances = 1
SYMMETRY Symmetry
INVARIANTS TypeOK SpamIsClosed NamesBeforeWords BrowserMayCall AsInventoried
    AnswerMatchesPeer
PROPERTIES NoLostChange KeepsPromise SerialListAsAsked CommittedLands
