SPECIFICATION ServicesSpec
CONSTANTS
    \* membership
    Purchases = {one, two}
    Members = {rq1, rq2}
    MaxMemberTime = 1
    MaxMemberCalls = 4
    \* gift cards
    Cards = {card1}
    Claims = {claim1}
    GiftKeys = {one, two}
    Desks = {rq1, rq2}
    CancelsAny = FALSE
    ReserveTtl = 1
    BatchEnds = 3
    MaxGiftTime = 1
    MaxGiftCalls = 2
    \* sign in
    Requests = {one, two}
    CodeLife = 1
    IdleLife = 1
    AbsoluteLife = 2
    MaxSignTime = 2
    MaxCodes = 2
    MaxTokens = 5
    MaxSecrets = 3
    MaxSignCalls = 6
    \* community
    Discussions = {disc1}
    ReplyKeys = {one, two}
    Speakers = {rq1, rq2}
    MaxPosts = 3
    MaxCommunityCalls = 4
    \* tags
    Tags = {tag1, tag2, tag3}
    Topics = {disc1}
    Curators = {rq1, rq2}
    MaxSecondary = 1
    MaxTagCalls = 4
    \* assets
    Intents = {i1}
    Hands = {rq1, rq2}
    MaxImages = 2
    MaxStepAttempts = 2
    MaxOverlaps = 1
    MaxAssetCalls = 4
    \* access
    Subjects = {one, two}
    Permissions = {perm1, perm2}
    UserKeys = {perm1}
    Clerks = {rq1, rq2}
    MaxAccessCalls = 4
    \* settings
    SettingGroups = {sg1}
    Shown = {va, vb}
    DefaultShown = va
    Editing = {rq1, rq2}
    MaxSettingVersion = 4
    MaxDeployments = 1
    \* signing keys
    Keyrings = {kr1, kr2, kr3}
    Operators = {rq1, rq2}
    TokenLife = 2
    ClockSkew = 2
    Slowest = 1
    MaxKeyTime = 5
    MaxIssued = 1
    \* engagement
    Fans = {f1}
    ViewKeys = {vk1}
    Stars = {2}
    Visitors = {rq1, rq2}
    MaxArticleVersion = 3
    MaxVisits = 2
    \* notification
    Couriers = {rq1, rq2}
    Staff = {st1}
    MaxSends = 2
    MaxNotices = 2
    \* consumption
    Runners = {r1}
    Callers = {}
    Starters = {c1}
    Senders = {}
    Signals = {}
    WaitsFor <- NoWaits
    StepCount = 4
    MaxAttempts = 2
    MaxFaults = 1
    ProviderFails = FALSE
    \* payments and fulfillment
    Payers = {one, two}
    Refunds = {ref1, ref2}
    Price = 2
    MaxPayCalls = 3
    \* points
    perpetual = perpetual
    expiring = expiring
    credit = credit
    gift = gift
    debit = debit
    lower = lower
    undo = undo
    redo = redo
    revoke = revoke
    freeze = freeze
    thaw = thaw
    Users = {u1, u2}
    Sweeper = sweeper
    Sweep = sweep
    Commands = {credit, debit, lower, undo, redo, revoke, freeze}
    Kind <- LedgerKind
    Amount <- LedgerAmount
    Of <- LedgerOf
    Buckets = {perpetual, expiring}
    Perpetual = perpetual
    Rank <- LedgerRank
    AdminAlone = TRUE
SYMMETRY Interchangeable
INVARIANTS
    ServicesTypeOK
    
    CommunityAddsUp
    
    InstallBindsOne
    TokensVerify
    StatisticsAgree
    MoneyAddsUp
    LedgerStands
    BucketsMatchBalance
PROPERTIES
    ImplementsPurchase
    TokensAreSpent
    NoBlindOverwrite
    SendsDoNotOverwrite
CHECK_DEADLOCK FALSE
