----------------------------- MODULE UpgradeGate -----------------------------
(***************************************************************************)
(* The network-upgrade table (src/consensus/upgrades.cpp) and the one      *)
(* place it changes at run time: the regtest-only -nuparams option, which  *)
(* AppInit2 applies before the chain starts (src/init.cpp). After that the *)
(* table is fixed and the chain height only grows. Every query of          *)
(* upgrades.cpp is an operator over the current table; the properties      *)
(* compare the loops of the code with set-based definitions of what they   *)
(* compute, for every height of the bounded chain.                         *)
(***************************************************************************)
EXTENDS Integers, Sequences, FiniteSets, SequencesExt

CONSTANTS
    NumUpgrades,     \* Consensus::MAX_NETWORK_UPGRADES
    BranchId,        \* NetworkUpgradeInfo[idx].nBranchId, abstracted to small numbers
    Networks,        \* the networks a node may be started on
    Table(_),        \* Table(net)[idx]: vUpgrades[idx].nActivationHeight of CChainParams
    NuParams,        \* the -nuparams arguments considered: [branch, height] records
    MaxArgs,         \* bound: number of -nuparams arguments on the command line
    MaxHeight,       \* bound: chain height explored
    Morag, Xandar,   \* UPGRADE_MORAG, UPGRADE_XANDAR
    ProtoDefault, ProtoMorag, ProtoXandar  \* MIN_PEER_PROTO_VERSION_ENFORCEMENT[_MORAG|_XANDAR]

Upgrades == 0 .. NumUpgrades - 1
BaseSprout == 0

\* NetworkUpgrade::NO_ACTIVATION_HEIGHT (ALWAYS_ACTIVE is 0).
NoActivation == -1

\* std::nullopt of NextEpoch and NextActivationHeight.
None == -2

ASSUME /\ NumUpgrades \in Nat \ {0}
       /\ BranchId \in [Upgrades -> Nat]
       /\ \A net \in Networks : Table(net) \in [Upgrades -> {NoActivation} \cup Nat]
       /\ {Morag, Xandar} \subseteq Upgrades
       /\ MaxArgs \in Nat /\ MaxHeight \in Nat

VARIABLES
    network,   \* Params().NetworkIDString()
    act,       \* consensus.vUpgrades[*].nActivationHeight
    args,      \* -nuparams arguments not yet applied
    phase,     \* "config" (AppInit2 step 3), "running", or "failed" (InitError)
    height     \* chainActive.Height()

vars == <<network, act, args, phase, height>>

-----------------------------------------------------------------------------
(* upgrades.cpp *)

NetworkUpgradeState(nHeight, idx) ==
    CASE act[idx] = NoActivation -> "disabled"
      [] nHeight >= act[idx]     -> "active"
      [] OTHER                   -> "pending"

NetworkUpgradeActive(nHeight, idx) == NetworkUpgradeState(nHeight, idx) = "active"

\* The loop from MAX_NETWORK_UPGRADES - 1 down to BASE_SPROUT.
RECURSIVE EpochDownFrom(_, _)
EpochDownFrom(nHeight, i) ==
    IF i < BaseSprout THEN BaseSprout
    ELSE IF NetworkUpgradeActive(nHeight, i) THEN i
    ELSE EpochDownFrom(nHeight, i - 1)

\* Variant: the loop starts one upgrade too low.
CurrentEpochFromSecondLast(nHeight) == EpochDownFrom(nHeight, NumUpgrades - 2)

CurrentEpoch(nHeight) == EpochDownFrom(nHeight, NumUpgrades - 1)

CurrentEpochBranchId(nHeight) == BranchId[CurrentEpoch(nHeight)]

IsActivationHeight(nHeight, idx) ==
    /\ idx # BaseSprout
    /\ nHeight >= 0 /\ nHeight = act[idx]

IsActivationHeightForAnyUpgrade(nHeight) ==
    /\ nHeight >= 0
    /\ \E idx \in Upgrades \ {BaseSprout} : nHeight = act[idx]

\* The loop from BASE_SPROUT + 1 up: the first pending upgrade.
RECURSIVE EpochUpFrom(_, _)
EpochUpFrom(nHeight, i) ==
    IF i >= NumUpgrades THEN None
    ELSE IF NetworkUpgradeState(nHeight, i) = "pending" THEN i
    ELSE EpochUpFrom(nHeight, i + 1)

NextEpoch(nHeight) == IF nHeight < 0 THEN None ELSE EpochUpFrom(nHeight, BaseSprout + 1)

NextActivationHeight(nHeight) ==
    LET idx == NextEpoch(nHeight) IN IF idx = None THEN None ELSE act[idx]

\* CMasternodePayments::GetMinMasternodePaymentsProto at tip height nHeight.
GetMinMasternodePaymentsProto(nHeight) ==
    CASE NetworkUpgradeActive(nHeight, Morag)  -> ProtoMorag
      [] NetworkUpgradeActive(nHeight, Xandar) -> ProtoXandar
      [] OTHER                                 -> ProtoDefault

\* The -nuparams loop: the first upgrade after Sprout whose branch id
\* matches the argument, or None.
NuParamTarget(branch) ==
    LET hits == {i \in Upgrades \ {BaseSprout} : BranchId[i] = branch}
    IN  IF hits = {} THEN None ELSE Min(hits)

-----------------------------------------------------------------------------
Init ==
    /\ network \in Networks
    /\ act = Table(network)
    /\ args \in BoundedSeq(NuParams, MaxArgs)
    /\ phase = "config"
    /\ height = 0

\* -nuparams given on another network: InitError.
RejectNuParams ==
    /\ phase = "config" /\ args # <<>>
    /\ network # "regtest"
    /\ phase' = "failed"
    /\ UNCHANGED <<network, act, args, height>>

\* One -nuparams argument on regtest: UpdateNetworkUpgradeParameters for
\* the first matching upgrade, or InitError "Invalid network upgrade".
ApplyNuParam ==
    LET a   == Head(args)
        idx == NuParamTarget(a.branch)
    IN
    /\ phase = "config" /\ args # <<>>
    /\ network = "regtest"
    /\ IF idx = None
       THEN /\ phase' = "failed"
            /\ UNCHANGED <<act, args>>
       ELSE /\ act' = [act EXCEPT ![idx] = a.height]
            /\ args' = Tail(args)
            /\ UNCHANGED phase
    /\ UNCHANGED <<network, height>>

\* AppInit2 goes on to load the chain.
StartChain ==
    /\ phase = "config" /\ args = <<>>
    /\ phase' = "running"
    /\ UNCHANGED <<network, act, args, height>>

ConnectBlock ==
    /\ phase = "running" /\ height < MaxHeight
    /\ height' = height + 1
    /\ UNCHANGED <<network, act, args, phase>>

Next == RejectNuParams \/ ApplyNuParam \/ StartChain \/ ConnectBlock

Spec == Init /\ [][Next]_vars

-----------------------------------------------------------------------------
(* Properties *)

\* Reference definitions of what the loops of upgrades.cpp compute.
HighestActive(h) == Max({BaseSprout} \cup {i \in Upgrades : NetworkUpgradeActive(h, i)})
LowestPending(h) ==
    LET p == {i \in Upgrades \ {BaseSprout} : NetworkUpgradeState(h, i) = "pending"}
    IN  IF h < 0 \/ p = {} THEN None ELSE Min(p)

\* On the table the node runs with (after any -nuparams), CurrentEpoch's
\* downward loop returns the highest active upgrade, NextEpoch's upward
\* loop the lowest pending one, NextActivationHeight lies above the height,
\* and IsActivationHeightForAnyUpgrade agrees with IsActivationHeight, at
\* every height of the chain.
GateMatchesReference ==
    phase = "running" =>
      \A h \in -1 .. MaxHeight :
        /\ h >= 0 => CurrentEpoch(h) = HighestActive(h)
        /\ NextEpoch(h) = LowestPending(h)
        /\ NextActivationHeight(h) = None \/ NextActivationHeight(h) > h
        /\ IsActivationHeightForAnyUpgrade(h)
              <=> \E idx \in Upgrades : IsActivationHeight(h, idx)

\* The spec's UpgradeGate contract, on which the callers of
\* NetworkUpgradeActive rely (params.h: "several functions depend on the
\* enum being sorted"): an upgrade that can activate is active at a height
\* iff its index is at most the current epoch. It holds only if the table
\* the node runs with is sorted, which -nuparams on regtest does not ensure.
EpochsOrdered ==
    phase = "running" =>
      \A h \in 0 .. MaxHeight, s \in Upgrades :
        NetworkUpgradeActive(h, s) <=> (act[s] # NoActivation /\ s <= CurrentEpoch(h))

\* The minimum protocol version for masternode payments is the one of the
\* latest active upgrade that sets one (GetMinMasternodePaymentsProto):
\* once Xandar is active, Xandar's minimum applies.
MinProtoFollowsLatestUpgrade ==
    phase = "running" =>
      \A h \in 0 .. MaxHeight :
        GetMinMasternodePaymentsProto(h) =
            CASE NetworkUpgradeActive(h, Xandar) -> ProtoXandar
              [] NetworkUpgradeActive(h, Morag)  -> ProtoMorag
              [] OTHER                           -> ProtoDefault

=============================================================================
