SPECIFICATION FlowsSpec
CONSTANTS
    \* tasks and cron
    Workers = {w1, w2}
    MaxTasks = 2
    MaxTaskAttempts = 2
    Batch = 1
    MaxOverruns = 1
    MaxTaskCrashes = 1
    Keys = {key1}
    Tickers = {t1, t2}
    MaxTime = 2
    FireTimes <- EveryInstant
    \* publishing
    editor = editor
    author = author
    Contents = {1}
    Editors = {editor, author}
    Rights <- EditorRights
    MaxSchedules = 2
    MaxEdits = 4
    MaxScanCrashes = 1
    \* payments and fulfillment
    Payers = {pay1, pay2}
    Refunds = {ref1, ref2}
    Price = 2
    MaxPayCalls = 3
    \* points
    perpetual = perpetual
    expiring = expiring
    credit = credit
    gift = gift
    debit = debit
    lower = lower
    undo = undo
    redo = redo
    revoke = revoke
    freeze = freeze
    thaw = thaw
    Users = {u1, u2}
    Sweeper = sweeper
    Sweep = sweep
    Commands = {credit, gift, revoke, freeze, thaw}
    Kind <- LedgerKind
    Amount <- LedgerAmount
    Of <- LedgerOf
    Buckets = {perpetual, expiring}
    Perpetual = perpetual
    Rank <- LedgerRank
    AdminAlone = TRUE
INVARIANTS
    WorkedOnce
PROPERTIES
    
    TasksSettle
    CapturedIsCredited
    DuePointsGo
CHECK_DEADLOCK FALSE
