SPECIFICATION MCSpec
CONSTANTS
    Workers = {w1, w2, w3}
    NoWorker = NoWorker
    Seeds = {seo, admin}
    Seo = seo
    Latest = 2
    MaxAttempts = 2
    MaxFaults = 1
    Sessions = {s1, s2}
    Photos = {p1, p2}
    Files = {f1, f2}
    Names = {n1, n2}
    Bases = {a}
    a = a
    n1 = n1
    n2 = n2
    NoRow = NoRow
    NoFile = NoFile
    NoBase = NoBase
    NoPhoto = NoPhoto
    Keep = Keep
INVARIANTS ServingIsReady NobodyGivesUp
PROPERTIES StartupEnds RequestsEnd
CHECK_DEADLOCK FALSE
