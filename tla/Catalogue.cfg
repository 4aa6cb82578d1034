SPECIFICATION MCSpec
CONSTANTS
    Sessions = {s1, s2}
    Users = {u1, u2}
    Usernames = {n1, n2}
    Founder = u1
    NoUser = NoUser
    KeepName = KeepName
    KeepScopes = KeepScopes
    Single = {s0}
    Ids = {i1, i2, i3}
    Unset = Unset
    Blank = Blank
    NoRow = NoRow
    Refused = Refused
    PairIds = {i1, i2}
    Settings = {k1}
    NoSetting = NoSetting
    Items = {x1}
    Titles = {t1, t2}
    Nothing = Nothing
    NoItem = NoItem
    Rows = {1, 2, 3}
    Own = Own
    Other = Other
    Keys = {1, 2}
    MaxFilters = 1
    Limit = 1
    MaxWrites = 1
    MaxTime = 2
    ReportAfter = 2
    MaxErrors = 5
    MaxOutages = 3
    Watched = {"breeds", "coat_color", "horse", "horse_service", "photos", "prices", "site_settings", "price_groups_relations", "horse_service_relations", "news", "users"}
    Nobody = Nobody
SYMMETRY Symmetry
INVARIANTS SuperuserRemains RacersOnlyFail AllNamesDiffer ValueFitsType PagesPartition SchemaIsOfVersion
    OutageReportedOnce
PROPERTIES ScopesAsRequested DeletedIsFinal VisibilityOnPurpose LegalDataMigrates
CHECK_DEADLOCK FALSE
