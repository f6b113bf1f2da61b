\* Violation: a start that fails before loading the payment cache still
\* dumps its empty ledger over mnpayments.dat, and the next start loads it.
CONSTANTS
    me = me
    m1 = m1
    m2 = m2
    pa = pa
    pb = pb
    h1 = h1
    h2 = h2
    Masternodes <- MCMasternodes
    Me = me
    Payees <- MCPayees
    NoPayee = NoPayee
    Handlers <- MCHandlers
    BlockThread = BlockThread
    SignaturesRequired = 2
    SignaturesTotal = 2
    Lookahead = 1
    VoteAhead = 1
    MaxLag = 1
    Score <- MCScore
    Equivocators = {}
    KeepFloor = 4
    MaxTip = 2
    MaxMsgs = 1
    MaxRestarts = 1
    FailedStarts = TRUE
SPECIFICATION Spec
PROPERTY RestartRestoresLedger
