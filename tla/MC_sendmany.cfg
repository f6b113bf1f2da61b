\* Two concurrent z_sendmany operations: coinbase shielding rules and
\* termination of every operation.
CONSTANTS
    Ops = {o1, o2}
    Coins = {c1, c2, c3, n1, n2}
    ta = ta
    tb = tb
    zs = zs
    zp = zp
    c1 = c1
    c2 = c2
    c3 = c3
    n1 = n1
    n2 = n2
    AnyTaddr = AnyTaddr
    Owner <- MCOwner
    Val <- MCVal
    Coinbase = {c2}
    Pool <- MCPool
    Dust = 2
    Requests <- MCRequests
SPECIFICATION FairSpec
\* The queue idles once every operation has ended.
CHECK_DEADLOCK FALSE
INVARIANT TypeOK
INVARIANT CoinbaseOnlyShielded
PROPERTY EveryOperationEnds
