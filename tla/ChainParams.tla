----------------------------- MODULE ChainParams -----------------------------
(***************************************************************************)
(* The height-dependent getters of CChainParams (src/chainparams.cpp): the *)
(* rotation of the founders, treasury and developers reward addresses, and *)
(* the values that switch at a network upgrade (the coinbase protection,   *)
(* the masternode collateral lock, the collateral, the outpoint blacklist).*)
(* An address list is abstracted to its length, an address to its index   *)
(* in its list; the upgrade-dependent getters read the table of            *)
(* UpgradeGate.                                                            *)
(***************************************************************************)
EXTENDS UpgradeGate

CONSTANTS
    Atlantis, Latverion,      \* UPGRADE_ATLANTIS, UPGRADE_LATVERION
    MaxList,                  \* bound: length of a reward address list
    MaxRepeat                 \* bound: GetFoundersRewardRepeatInterval

ASSUME {Atlantis, Latverion} \subseteq Upgrades /\ MaxList \in Nat /\ MaxRepeat \in Nat

\* Consensus::Params::GetFoundersRewardRepeatInterval (params.h).
GetFoundersRewardRepeatInterval(nSubsidyHalvingInterval, nSubsidySlowStartInterval) ==
    nSubsidyHalvingInterval + nSubsidySlowStartInterval \div 2 - 1

\* Variant: the interval without the rounding up (maxHeight / n).
RewardAddressIndexFloor(maxHeight, n, nHeight) ==
    (nHeight \div (maxHeight \div n)) % n

\* The index a list of n addresses uses at nHeight, with maxHeight the
\* repeat interval: addressChangeInterval = (maxHeight + n) / n, then
\* (nHeight / addressChangeInterval) % n, in size_t arithmetic.
RewardAddressIndex(maxHeight, n, nHeight) ==
    LET addressChangeInterval == (maxHeight + n) \div n
    IN  (nHeight \div addressChangeInterval) % n

\* GetFoundersRewardAddressAtHeight: before Atlantis the first list; from
\* Atlantis on, odd heights take the same index of vFoundersRewardAddress2.
GetFoundersRewardAddressAtHeight(maxHeight, n, nHeight) ==
    [list  |-> IF NetworkUpgradeActive(nHeight, Atlantis) /\ nHeight % 2 # 0 THEN 2 ELSE 1,
     index |-> RewardAddressIndex(maxHeight, n, nHeight)]

GetTreasuryRewardAddressAtHeight(maxHeight, n, nHeight) == RewardAddressIndex(maxHeight, n, nHeight)

GetDevelopersRewardAddressAtHeight(maxHeight, n, nHeight) == RewardAddressIndex(maxHeight, n, nHeight)

GetCoinbaseProtected(nHeight) == ~NetworkUpgradeActive(nHeight, Atlantis)

\* GetmnLockBlocks, given whether Latverion is active at the height.
LockBlocks(latverion, mnLockBlocks) == IF latverion THEN mnLockBlocks \div 2 ELSE mnLockBlocks

GetmnLockBlocks(nHeight, mnLockBlocks) ==
    LockBlocks(NetworkUpgradeActive(nHeight, Latverion), mnLockBlocks)

GetMasternodeCollateral(nHeight, masternodeCollateral, masternodeCollateralNew) ==
    IF NetworkUpgradeActive(nHeight, Morag) THEN masternodeCollateralNew ELSE masternodeCollateral

\* IsBlocked: from Latverion on, a whitelisted outpoint is never blocked;
\* otherwise an outpoint is blocked iff it is blacklisted.
IsBlocked(nHeight, whitelisted, blacklisted) ==
    IF NetworkUpgradeActive(nHeight, Latverion) /\ whitelisted THEN FALSE ELSE blacklisted

-----------------------------------------------------------------------------
\* Reference: the heights of 1 .. maxHeight at which index j is used.
HeightsOf(maxHeight, n, j) == {h \in 1 .. maxHeight : RewardAddressIndex(maxHeight, n, h) = j}
IsInterval(S) == \A a, b \in S : a .. b \subseteq S

\* The reward rotation: with n addresses and a repeat interval of at least
\* n * (n - 1) blocks, as on every network (20 addresses against 2106399
\* blocks on main), each address of the list is paid over one unbroken run
\* of heights of the repeat interval, and every address gets its run.
\* (The code asserts only n <= the last founders reward height, which
\* does not suffice: 3 addresses over 3 blocks leave the third unpaid.)
RewardRotation ==
    \A n \in 1 .. MaxList, maxHeight \in 1 .. MaxRepeat :
        maxHeight >= n * (n - 1) =>
            \A j \in 0 .. n - 1 : HeightsOf(maxHeight, n, j) # {} /\ IsInterval(HeightsOf(maxHeight, n, j))

=============================================================================
