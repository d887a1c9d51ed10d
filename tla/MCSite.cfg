SPECIFICATION SiteSpec
CONSTANTS
    \* archive
    Locators = {one, two}
    Sums = {sa, sb}
    FileSum <- SameFile
    Purchases = {ka}
    Desks = {req1, req2}
    GrantTtl = 1
    MaxArchiveTime = 1
    MaxArchiveCalls = 5
    MaxResolves = 1
    \* identity
    Providers = {local, remote}
    Local = local
    Windows = {req1, req2}
    ChallengeTtl = 1
    MaxIdentityTime = 2
    MaxChallenges = 3
    MaxIdentityCalls = 5
    \* comments
    Targets = {ta, tb}
    Moderators = {req1, req2}
    MaxComments = 3
    MaxCommentCalls = 5
    \* taxonomy
    Slugs = {one, two}
    MinItems = 0
    MaxItems = 1
    Librarians = {req1, req2}
    MaxTaxonomyCalls = 3
    \* admin session
    Logins = {login}
    Sessions = {one, two}
    Tabs = {req1, req2}
    Idle = 1
    Absolute = 1
    LoginTtl = 1
    MaxSessionTime = 2
    MaxUses = 2
    \* quotes
    Manifests <- SomeManifests
    PartBytes = 2
    UnitPoints = 100
    MaxPoints = 1000
    Buyers = {one, two}
    RequestKeys = {rka}
    QuoteTtl = 1
    MaxQuotes = 1
    MaxWorkEdits = 3
    MaxReleases = 1
    MaxQuoteTime = 1
    \* points replay
    Pots = {soon, kept}
    Lasting = kept
    PotRank <- SoonFirst
    PotSums = {1, 2}
    MaxEntries = 4
    \* payment providers
    Paypals = {live, other, test}
    test = test
    Epays = {ea}
    Env <- Environments
    Cashiers = {req1, req2}
    Attempts = {aa}
    RefundKeys = {ra}
    Charge = 3
    Back = 1
    MaxCashierCalls = 3
    MaxReconfigured = 1
    \* site session
    Views = {req1, req2}
    RefreshAt = 2
    IdleTtl = 1
    AbsoluteTtl = 2
    TransactionTtl = 0
    MaxSiteTime = 3
    MaxViews = 4
    MaxLogins = 1
    \* mailers
    MaxMails = 2
    MaxMailRetries = 2
    MaxMailEdits = 2
    MaxMailCuts = 1
    \* check-ins
    Clickers = {req1, req2}
    MaxDays = 2
    MaxCheckTries = 2
    MaxClicks = 3
    \* programs
    Stewards = {req1, req2}
    Holders = {one, two}
    Units = {points, coins}
    MaxStewardCalls = 5
    \* membership levels
    LevelKeys = {lka}
    Grants = {1, 2}
    Nodes = {one, two}
    Managers = {req1, req2}
    MaxLevelCalls = 4
    \* pages of a listing
    PageSize = 2
    MaxFirst = 3
    MaxRows = 6
SYMMETRY Interchangeable
INVARIANTS
    SiteTypeOK
    
    
    EventsTellHistory
    ReplacedWhole
    SessionsEnd
    ChargedAsQuoted
    
    AgreesWithProviders
    ReplaysNeedOverlap
    
    EachDateItsCredit
    
    KnownAsStored
    NothingMissed
CHECK_DEADLOCK FALSE
