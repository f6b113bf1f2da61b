\* Two concurrent z_sendmany operations: is a transaction ever refused for
\* a reason other than a conflict with the other operation?
CONSTANTS
    Ops = {o1, o2}
    Coins = {c1, c2, c3, n1, n2}
    ta = ta
    tb = tb
    zs = zs
    zp = zp
    c1 = c1
    c2 = c2
    c3 = c3
    n1 = n1
    n2 = n2
    AnyTaddr = AnyTaddr
    Owner <- MCOwner
    Val <- MCVal
    Coinbase = {c2}
    Pool <- MCPool
    Dust = 2
    Requests <- MCRequests
SPECIFICATION Spec
CHECK_DEADLOCK FALSE
INVARIANT RejectedOnlyOnConflict
