\* The upgrade-table queries on the main network and on regtest with
\* -nuparams arguments, including ones that unsort the table; the transaction value
\* sum over every transaction of at most two outputs and one JoinSplit.
CONSTANTS
    NumUpgrades <- MCNumUpgrades
    BranchId <- MCBranchId
    Table <- MCTable
    Morag <- MCMorag
    Xandar <- MCXandar
    Atlantis <- MCAtlantis
    Latverion <- MCLatverion
    MaxList = 4
    MaxRepeat = 16
    MaxLock = 4
    ProtoDefault = ProtoDefault
    ProtoMorag = ProtoMorag
    ProtoXandar = ProtoXandar
    Networks = {"main", "regtest"}
    NuParams <- MCNuParams
    MaxArgs = 2
    MaxHeight = 12
    Width = 6
    MaxMoney = 10
    Amounts <- MCAmounts
    MaxOutputs = 2
    Procs <- MCProcs
    NoProc = NoProc
    MaxStarts = 3
    Addrs = {A, B}
    Invalid = Invalid
    OutputAmounts = {1, 2}
    MaxTx = 2
    MaxOuts = 2
    MaxSyncHeight = 4
    MaxEnabled = 6
    MaxNeeded = 10
SPECIFICATION GateStartupSpec
CHECK_DEADLOCK FALSE
INVARIANT GateMatchesReference
INVARIANT NoInflationOnChain
INVARIANT ExclusiveDataDir
INVARIANT RewardRotationOnChain
INVARIANT LockViewsOnChain
INVARIANT TxidsOnChain
INVARIANT SyncOnChain
