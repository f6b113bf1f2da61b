\* Violation: once mnpayments.dat is torn by a crash during the dump, later
\* clean shutdowns never rewrite it and every restart loses the ledger.
CONSTANTS
    me = me
    m1 = m1
    m2 = m2
    pa = pa
    pb = pb
    h1 = h1
    h2 = h2
    Masternodes <- MCMasternodes
    Me = me
    Payees <- MCPayees
    NoPayee = NoPayee
    Handlers <- MCHandlers
    BlockThread = BlockThread
    SignaturesRequired = 2
    SignaturesTotal = 2
    Lookahead = 1
    VoteAhead = 1
    MaxLag = 1
    Score <- MCScore
    Equivocators = {}
    KeepFloor = 4
    MaxTip = 2
    MaxMsgs = 1
    MaxRestarts = 3
    FailedStarts = FALSE
SPECIFICATION Spec
PROPERTY RestartRestoresLedger
