\* Violation: a vote with a bad signature makes CanVote refuse the real
\* vote of the same masternode for the same height.
CONSTANTS
    me = me
    m1 = m1
    m2 = m2
    pa = pa
    pb = pb
    h1 = h1
    h2 = h2
    Masternodes <- MCMasternodes
    Me = me
    Payees <- MCPayees
    NoPayee = NoPayee
    Handlers <- MCHandlers
    BlockThread = BlockThread
    SignaturesRequired = 2
    SignaturesTotal = 2
    Lookahead = 1
    VoteAhead = 1
    MaxLag = 1
    Score <- MCScore
    Equivocators = {}
    KeepFloor = 4
    MaxTip = 2
    MaxMsgs = 2
    MaxRestarts = 0
    FailedStarts = FALSE
SPECIFICATION Spec
INVARIANT GenuineVoteNotShadowed
