\* Tally consistency across clean shutdowns, crashes before the dump and
\* crashes in the middle of it. The retention limit is 3 blocks (the
\* 1000-block floor scaled to 0), so the CleanPaymentList that Read runs
\* on the loaded maps drops votes of heights 0 and 1 once the tip reaches
\* 4 and 5. The tip does not move while a handler is between its checks
\* and AddPayee (MaxLag 0): that window is the clean_race finding.
CONSTANTS
    me = me
    m1 = m1
    m2 = m2
    pa = pa
    pb = pb
    h1 = h1
    h2 = h2
    Masternodes <- MCMasternodes
    Me = me
    Payees <- MCPayees
    NoPayee = NoPayee
    Handlers <- MCHandlers
    BlockThread = BlockThread
    SignaturesRequired = 2
    SignaturesTotal = 2
    Lookahead = 1
    VoteAhead = 1
    MaxLag = 0
    Score <- MCScore
    Equivocators = {}
    KeepFloor = 0
    MaxTip = 5
    MaxMsgs = 1
    MaxRestarts = 1
    FailedStarts = TRUE
SPECIFICATION Spec
INVARIANT TallyMatchesVotes
