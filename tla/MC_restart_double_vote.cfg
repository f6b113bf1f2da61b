\* Violation: CanVote's record is not saved with the ledger, so after a
\* restart an equivocating voter gets a second vote for a height tallied.
CONSTANTS
    me = me
    m1 = m1
    m2 = m2
    pa = pa
    pb = pb
    h1 = h1
    h2 = h2
    Masternodes <- MCMasternodes
    Me = me
    Payees <- MCPayees
    NoPayee = NoPayee
    Handlers <- MCHandlers
    BlockThread = BlockThread
    SignaturesRequired = 2
    SignaturesTotal = 2
    Lookahead = 1
    VoteAhead = 1
    MaxLag = 1
    Score <- MCScore
    Equivocators = {m1}
    KeepFloor = 4
    MaxTip = 3
    MaxMsgs = 2
    MaxRestarts = 1
    FailedStarts = FALSE
SPECIFICATION Spec
INVARIANT TallyBoundedByVoters
