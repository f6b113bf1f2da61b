\* One vote per voter per height and tally consistency under concurrent
\* handlers, an equivocating voter, forged signatures and garbage collection.
CONSTANTS
    me = me
    m1 = m1
    m2 = m2
    pa = pa
    pb = pb
    h1 = h1
    h2 = h2
    Masternodes <- MCMasternodes
    Me = me
    Payees <- MCPayees
    NoPayee = NoPayee
    Handlers <- MCHandlers
    BlockThread = BlockThread
    SignaturesRequired = 2
    SignaturesTotal = 2
    Lookahead = 1
    VoteAhead = 1
    MaxLag = 1
    Score <- MCScore
    Equivocators = {m1}
    KeepFloor = 4
    MaxTip = 5
    MaxMsgs = 2
    MaxRestarts = 0
    FailedStarts = FALSE
SPECIFICATION Spec
INVARIANT TypeOK
INVARIANT OneVotePerVoterHeight
INVARIANT TallyMatchesVotes
INVARIANT FilledBlockAccepted
