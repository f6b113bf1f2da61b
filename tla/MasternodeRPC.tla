---------------------------- MODULE MasternodeRPC ----------------------------
(***************************************************************************)
(* The collateral lock as the masternode RPCs report it                    *)
(* (src/rpc/masternode.cpp). A collateral is locked for GetmnLockBlocks    *)
(* blocks after the last block that paid it (GetLastPaymentBlock, not part *)
(* of the repository); both RPCs take the lock length at the current tip   *)
(* height H. Formatting is left out: a view is what it says of the lock.   *)
(***************************************************************************)
EXTENDS ChainParams

CONSTANTS
    MaxLock      \* bound: mnLockBlocks

\* Variant: the comparison leaves out the lock length.
ListMasternodesUnlockHeightNoLock(H, nHeight, lock) ==
    IF H > nHeight THEN 0 ELSE nHeight + lock

\* listmasternodes: unlockheight is 0 once H > nHeight + lock, else the
\* height the lock ends at.
ListMasternodesUnlockHeight(H, nHeight, lock) ==
    IF H > nHeight + lock THEN 0 ELSE nHeight + lock

\* getmasternodepayments (one outpoint, or every collateral output of the
\* wallet): the output is listed iff lastHeight + lock > H.
PaymentsListsLocked(H, lastHeight, lock) == lastHeight + lock > H

\* Variant: the reset test counts the first unlocked height as locked.
GetAllDataLastPaymentInclusive(H, lastHeight, lock) ==
    IF lastHeight <= H + 1 - lock THEN 0 ELSE lastHeight

\* getalldata's lockedtxs row for a masternode coin of the wallet: the last
\* payment height is reset to 0 once lastHeight < H + 1 - lock, and the
\* unlock height is lastHeight + lock while it is not 0. (When
\* GetLastPaymentBlock finds no payment, lastHeight keeps 2167201.)
GetAllDataLastPayment(H, lastHeight, lock) ==
    IF lastHeight < H + 1 - lock THEN 0 ELSE lastHeight

GetAllDataLockedTx(H, lastHeight, lock) ==
    LET last == GetAllDataLastPayment(H, lastHeight, lock)
    IN  [lastpayment |-> last, unlocked |-> IF last > 0 THEN lastHeight + lock ELSE 0]

-----------------------------------------------------------------------------
\* The three lock views of a collateral last paid at height last (>= 1):
\* getalldata's lockedtxs shows a last payment iff getmasternodepayments
\* lists the collateral as locked, and then the same unlock height;
\* listmasternodes shows a non-zero unlock height iff the collateral is
\* listed as locked, except at the single height H = last + lock, where it
\* still reports the lock and the other two no longer do. At every tip
\* height and for every lock length before and after Latverion halves it.
LockViewsAgree ==
    \A latverion \in BOOLEAN, mnLockBlocks \in 1 .. MaxLock, last \in 1 .. MaxLock,
       H \in 0 .. 3 * MaxLock :
        LET lock   == LockBlocks(latverion, mnLockBlocks)
            listed == PaymentsListsLocked(H, last, lock)
            row    == GetAllDataLockedTx(H, last, lock)
        IN  /\ (row.lastpayment # 0) <=> listed
            /\ listed => row.unlocked = last + lock
            /\ H # last + lock =>
                  ((ListMasternodesUnlockHeight(H, last, lock) # 0) <=> listed)
=============================================================================
