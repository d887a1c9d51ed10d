SPECIFICATION PointsSpec
CONSTANTS
    perpetual = perpetual
    expiring = expiring
    credit = credit
    gift = gift
    debit = debit
    lower = lower
    undo = undo
    redo = redo
    revoke = revoke
    freeze = freeze
    thaw = thaw
    Users = {u1, u2}
    Sweeper = sweeper
    Sweep = sweep
    Commands = {credit, gift, debit, lower}
    Kind <- LedgerKind
    Amount <- LedgerAmount
    Of <- LedgerOf
    Buckets = {perpetual, expiring}
    Perpetual = perpetual
    Rank <- LedgerRank
    AdminAlone = FALSE
PROPERTY DebitNeverOverdraws
CHECK_DEADLOCK FALSE
