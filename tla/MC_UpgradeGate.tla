---------------------------- MODULE MC_UpgradeGate ----------------------------
(***************************************************************************)
(* The upgrade tables of chainparams.cpp with activation heights replaced  *)
(* by their rank among the distinct heights of the table, so that equal    *)
(* heights stay equal and the order is kept; the branch ids of             *)
(* NetworkUpgradeInfo replaced by small numbers, equal where the code's    *)
(* are equal. With them, the transaction value sum of TxValue: CAmount    *)
(* scaled to 6 bits, MAX_MONEY to 10. And two gemlinkd processes on one   *)
(* data directory (NodeStartup), which run independently of the upgrade    *)
(* tables: the two specifications are interleaved. The address-index RPCs *)
(* over every history of two transactions of up to two outputs, paying     *)
(* two addresses amounts 1 or 2. The payment-vote sync at tips up to 4    *)
(* with up to 6 enabled masternodes.                                       *)
(***************************************************************************)
EXTENDS MasternodeRPC, TxValue, NodeStartup, AddressIndex, PaymentSync

\* Sprout, TestDummy, Overwinter, Sapling, Difa, Alfheimr, Knowhere, Wakanda,
\* Atlantis, Morag, Xandar, Latveria, Krakoa, Latverion.
MCNumUpgrades == 14

\* 0 for 0, 1 for 0x74736554, 2 for 0x5ba81b19, 3 for 0x76b809bb.
MCBranchId == [i \in 0 .. 13 |-> <<0, 1, 2, 3, 0, 3, 3, 3, 3, 3, 3, 3, 3, 3>>[i + 1]]

\* CMainParams: Sprout always active, TestDummy never, Overwinter and
\* Sapling together (520000), then one height per upgrade.
MainTable == [i \in 0 .. 13 |-> CASE i = 0 -> 0
                                  [] i = 1 -> -1
                                  [] i \in {2, 3} -> 1
                                  [] OTHER -> i - 2]

\* CRegTestParams sets Sprout, TestDummy, Overwinter and Sapling only; the
\* other entries of the static object keep their zero initialisation,
\* which is ALWAYS_ACTIVE.
RegtestTable == [i \in 0 .. 13 |-> IF i \in {1, 2, 3} THEN -1 ELSE 0]

MCTable(net) == IF net = "regtest" THEN RegtestTable ELSE MainTable

\* -nuparams arguments: Overwinter's and Sapling's branch ids and an
\* unknown one, at heights that disable the upgrade, make it always
\* active, or activate it at 2, after the always-active Difa..Latverion
\* of regtest (an unsorted table).
MCNuParams == [branch : {2, 3, 4}, height : {-1, 0, 2}]

\* Amounts around the edges of MoneyRange and INT64_MIN (-32 at 6 bits).
MCAmounts == {-32, -1, 0, 1, 10, 11}

MCAtlantis == 8
MCLatverion == 13
MCMorag  == 9
MCXandar == 10

\* Two processes, started at most three times in all: enough for one to run
\* while another fails at the lock, and for a restart after either.
MCProcs == {"p1", "p2"}

\* NoInflationAccepted of TxValue, in every state of a running node: the
\* block-value check never accepts a coinbase whose parts are out of
\* MoneyRange or whose true sum exceeds the expected value.
NoInflationOnChain == phase = "running" => NoInflationAccepted

\* RewardRotation of ChainParams, in every state of a running node: every
\* reward address is paid over one unbroken run of heights.
RewardRotationOnChain == phase = "running" => RewardRotation

\* LockViewsAgree of MasternodeRPC, in every state of a running node: the
\* lock views of listmasternodes and getmasternodepayments differ only at
\* last payment + lock.
LockViewsOnChain == phase = "running" => LockViewsAgree

\* TxidsOnceInHeightOrder of AddressIndex, in every state of a running
\* node: getaddresstxids lists each transaction once, in height order.
TxidsOnChain == phase = "running" => TxidsOnceInHeightOrder

\* SyncOffersWhatPeersKeep of PaymentSync, in every state of a running
\* node: mnget offers the votes a peer's mnw check keeps.
SyncOnChain == phase = "running" => SyncOffersWhatPeersKeep

GateStartupInit == Init /\ StartupInit

GateStartupSpec ==
    /\ GateStartupInit
    /\ [][\/ Next /\ UNCHANGED startupVars
          \/ StartupNext /\ UNCHANGED vars]_<<vars, startupVars>>
=============================================================================
