\* Violation: CleanPaymentList erases a height between the locked insert
\* and the unlocked AddPayee, which re-creates the entry with no vote.
CONSTANTS
    me = me
    m1 = m1
    m2 = m2
    pa = pa
    pb = pb
    h1 = h1
    h2 = h2
    Masternodes <- MCMasternodes
    Me = me
    Payees <- MCPayees
    NoPayee = NoPayee
    Handlers <- MCHandlers
    BlockThread = BlockThread
    SignaturesRequired = 2
    SignaturesTotal = 2
    Lookahead = 1
    VoteAhead = 1
    MaxLag = 1
    Score <- MCScore
    Equivocators = {}
    KeepFloor = 3
    MaxTip = 5
    MaxMsgs = 1
    MaxRestarts = 0
    FailedStarts = FALSE
SPECIFICATION Spec
INVARIANT TallyBoundedByVoters
