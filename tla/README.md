# TLA+ models of the gemlink masternode consensus subsystem

This directory holds TLA+ models of the masternode payment machinery in
`src/src/`, of the node's start-up and shut-down, of the chain parameters
and RPC views the masternode code reads, of the transaction value sum, and
of the wallet's `z_sendmany` operation. It also holds the TLC configurations that check them, and
`PROJECT.json`, which records the components, runs, mutants, the
definition-to-source map, findings and hazards.

## 1. The system and its parts

| Part | Source | State | Operations | Status |
|---|---|---|---|---|
| PaymentVoteLedger | `masternode-payments.cpp` | `mapMasternodePayeeVotes` (hash → winner vote); `mapMasternodeBlocks` (height → payee → nVotes); CanVote's record of (voter, height) | mnw handler (`ProcessMessageMasternodePayments`), `AddWinningMasternode`, `CleanPaymentList` | modelled |
| PaymentScheduler | `masternode-payments.cpp` | `nLastBlockHeight` | `ProcessBlock(tip+10)`; `FillBlockPayee`, `IsBlockPayeeValid`, `IsTransactionValid` | modelled (`MasternodePayments.tla`), except the budget branch and the reward arithmetic |
| PaymentPersistence | `masternode-payments.cpp`, `init.cpp` | `mnpayments.dat` | `CMasternodePaymentDB::Write/Read`, `DumpMasternodePayments`, the startup load | modelled |
| ScoringEngine | `masternode.cpp` | none (a pure function of chain history) | `CalculateScore`, `GetMasternodeRank` | abstracted: `Score` is a CONSTANT operator |
| MasternodeRegistry | `masternode.cpp`, `masternode.h` | per-entry `activeState`, `lastPing`, `sigTime` | `Check`, `UpdateFromNewBroadcast`, mnb `CheckAndUpdate`/`CheckInputsAndAdd`, mnp `CheckAndUpdate`, `Create` | modelled (`Masternode.tla`, refining `MasternodeLifecycle.tla`); the payment ledger sees only the churn of the ENABLED set |
| UpgradeGate | `consensus/upgrades.cpp`, `consensus/params.h`, `chainparams.cpp`, `init.cpp` (-nuparams) | activation-height table | `NetworkUpgradeState`, `CurrentEpoch`, `NextEpoch`, `NextActivationHeight`, `IsActivationHeight*`, regtest overrides | modelled |
| PaymentSync | `masternode-payments.cpp` | a peer's fulfilled-request flag | `mnget`, `Sync` | modelled (`PaymentSync.tla`, as operators: Sync sends inventory only) |
| SendManyOperation | `wallet/asyncrpcoperation_sendmany.cpp` | per operation: `OperationStatus` and the built transaction; the wallet's outputs and notes | the constructor's checks, `cancel`, `main()` (`FindSpendableInputs`, `LimitToAmount`, the throws of `main_impl`, the builder's input loops), `SendTransaction` | partly (`SendMany.tla`): witnesses, proofs, memos and the result text are left out |
| NodeStartupShutdown | `init.cpp` | per process: the AppInit2 step reached, what it read, which modules it initialised; the data directory's lock, pid file and files | the steps of `AppInit2` and their failures, `StartShutdown`/SIGTERM, `Shutdown`, an abort | modelled (`NodeStartup.tla`; the payment cache's load and dump also in `MasternodePayments.tla`) |
| ChainParams | `chainparams.cpp`, `consensus/params.h` | constant tables | the height-dependent getters: reward-address rotation, coinbase protection, `GetmnLockBlocks`, `GetMasternodeCollateral`, `IsBlocked` | partly (`ChainParams.tla`); the tables of addresses, seeds and checkpoints are data |
| RPC | `rpc/masternode.cpp`, `rpc/misc.cpp` | — | the collateral-lock views of `listmasternodes`, `getmasternodepayments` and `getalldata`; the address-index queries `getaddressdeltas`, `getaddressbalance`, `getaddresstxids`, `getaddressutxos` | partly (`MasternodeRPC.tla`, `AddressIndex.tla`); the rest formats replies or calls code outside the repository |
| WalletAndTransactions | `primitives/transaction.cpp`, `wallet/` | — | `CTransaction::GetValueOut` and its use by `IsBlockValueValid` | partly (`TxValue.tla`) |
| transaction builder, tests | `transaction_builder.h`, `zcash/`, `gtest/` | — | — | not modelled (builder internals, address encoding, test harness) |

### How the parts interact

Several actors run concurrently against the payment ledger:

- **Message-handler threads** run the `mnw` branch of the message handler. Each one:
  1. reads the tip height under a `TRY_LOCK`;
  2. checks "already seen", the range `[h − 1.25·CountEnabled, h + 20]` and `IsValid` (rank ≤ SIGNATURES_TOTAL);
  3. calls `CanVote`, which *records* the voter for the height;
  4. checks the signature;
  5. calls `AddWinningMasternode`. That function stores the vote and creates the height entry under `LOCK2`, then calls `AddPayee` **after the lock is released**.
- **The block thread**, on every new tip, calls `ProcessBlock(tip + 10)`. If this node ranks in the top SIGNATURES_TOTAL and has not yet voted for that height, it signs a vote for the next payee in the queue and feeds it through the same `AddWinningMasternode`. When no payee is found, or the height is a budget block, the vote keeps height 0 and an empty payee. On success it relays the vote and sets `nLastBlockHeight`.
- **The maintenance thread** runs `CleanPaymentList`. It erases votes with `tip − h > max(1.25·size, 1000)`, together with the whole tally entry of each of their heights.
- **Shutdown** runs `DumpMasternodePayments`. It first does a dry `Read` and writes the file only if the dry read returned Ok or FileError. **Startup** `Read`s the file and runs `CleanPaymentList` on it.
- **The network** delivers votes signed by remote masternodes, who may sign two payees for one height. It also delivers votes whose signature does not verify, and it can deliver any vote again.

The wallet runs apart from the masternode code. `z_sendmany` queues an `AsyncRPCOperation_sendmany`, and a worker thread of the RPC queue runs its `main()`. Several operations can run at once. Their inputs are not locked (note 3 of `main_impl`), so two of them may select the same output; the mempool then refuses the later transaction.

Around all of this is the process itself. `gemlinkd` runs `AppInit2`, a sequence of steps each of which may fail with `InitError`; whether it fails or the node later stops on `StartShutdown` or SIGTERM, `Shutdown` runs next. Step 4 takes a `file_lock` on `<datadir>/.lock`, so a second process started on the same data directory fails there, but it still runs `Shutdown`. `Shutdown` must therefore cope with a partial start (its own comment says so): it flushes the wallet, the fee estimates and the chain state only if those modules were initialised, but dumps `mncache.dat`, `budget.dat` and `mnpayments.dat` and removes the pid file unconditionally.

The masternode list, which the ledger reads through `CountEnabled` and the rank, changes on its own:

- **An operator** announces a collateral with a broadcast (`mnb`, built by `CMasternodeBroadcast::Create` together with a first ping) and then pings every few minutes (`mnp`).
- **The message handler** checks a broadcast with `CheckAndUpdate`, which may update a known entry via `UpdateFromNewBroadcast`. If that passes, `CheckInputsAndAdd` adds a new entry or replaces an entry that is not announced. A ping goes through `CMasternodePing::CheckAndUpdate`, which stores it and forces a `Check`. The seen maps of `CMasternodeMan` drop duplicates, and a broadcast that is to be retried is erased from them.
- **`Check`** derives `activeState` from the clock, the last ping, the broadcast's `sigTime`, the collateral's UTXO and the epoch. Morag and Xandar (from `UpgradeGate`) change the timeouts and add `RE_ENABLED` and `UNLOCKING`. The maintenance pass `CheckAndRemove` runs `Check` and prunes `REMOVE` and `VIN_SPENT` entries.

## 2. Modules

### `MasternodePayments.tla`

This module models the vote ledger of one node and every actor listed above.

State:

| Variable | Code |
|---|---|
| `votes` | `mapMasternodePayeeVotes`. A vote is the record (voter, height, payee); `GetHash` covers exactly these fields and not the signature. |
| `blocks` | `mapMasternodeBlocks`, as a function height → payee → count |
| `lastVotes` | CanVote's record |
| `nLastBlockHeight` | same name |
| `th` | per-thread program counter and locals |
| `disk` | `mnpayments.dat`: `none`, `torn` or an `ok` snapshot |
| `enabled` | the registry's ENABLED set |
| `accepted`, `shadowed` | history variables used only by properties |

One atomic step of the model is the code between two points where another thread can observe the shared state:

| Action | Code |
|---|---|
| `ReceiveVote` | The handler's checks up to and including CanVote and CheckSignature. These read state under no common lock; what matters is their order relative to the stores. |
| `ReceiveBadSignature` | The same path, ending at a failed CheckSignature after CanVote has recorded the voter. |
| `ReceiveDoubleVote` | The path where CanVote refuses the vote. |
| `InsertVote` | The `LOCK2` block of `AddWinningMasternode`, including its re-check of the hash. |
| `TallyVote` | The unlocked `AddPayee`, followed by the caller's relay. For the block thread it also sets `nLastBlockHeight`. |
| `AdvanceTip` | A new block. |
| `ProcessBlockSkip` and `ProcessBlock(p)` | The early returns of `ProcessBlock` (outside the top SIGNATURES_TOTAL, or already voted that high), and its signed vote. `p = NoPayee` is the payee-less winner at height 0. The returns on a failed `GetKeysFromSecret` or `Sign`, which a configured masternode key does not take, and rank −1 for a vin missing from the list are not modelled. |
| `CleanPaymentList` | One run of the whole loop. It runs under `LOCK2`, so it is atomic with respect to `InsertVote`. |
| `ChurnRegistry(m)` | Environment: `Check` moving a masternode in or out of ENABLED. |
| `Gossip(m)` | Environment: remote masternodes sign and `Relay` votes, and anyone relays a forged one. |
| `Restart(kind, failed)` | The node stops and starts again. `clean`: threads stopped, then the dump. `torn`: the process dies in the middle of `Write`. `killed`: the process dies before the dump. At start the node runs `Read` and the clean; CanVote's record, `nLastBlockHeight` and the threads start afresh. With `failed` (allowed when `FailedStarts`), the start fails in `AppInit2` before Step 10 and its `Shutdown` dumps the empty ledger of that process (`FailedStartDump`); the node then starts again. |

Modelled from the spec, because the code is not in this repository:

- `CanVote` and `AddPayee` come from `masternode-payments.h`.
- `Rank` (GetMasternodeRank) comes from `masternodeman.cpp`.
- `AdvanceTip`, the call of `ProcessBlock` on a new tip, comes from `main.cpp`.

Payout validation is a set of operators over the ledger, not actions: they read it and never change it.

| Operator | Code |
|---|---|
| `GetPayee(h)` | `CMasternodeBlockPayees::GetPayee` (in `masternode-payments.h`, not in this repository). It returns a payee with the most votes. Ties go to the first in `vecPayments`, an order the model does not keep, so every tied payee is a possible answer. |
| `IsTransactionValid(h, paid)` | `CMasternodePayments::IsTransactionValid` and `CMasternodeBlockPayees::IsTransactionValid`. A coinbase is abstracted to the set of payees it pays in full. |
| `IsBlockPayeeValid(h, paid, synced, morag, spork8, spork19)` | `IsBlockPayeeValid` with SPORK_13 (budgets) off; the budget code is not in this repository. |
| `FillBlockPayee(h)` | `CMasternodePayments::FillBlockPayee`: the payee sets the coinbase may get. This is `GetBlockPayee`'s payee when there is one. Otherwise it is `GetCurrentMasterNode`'s payee (any payee), or no masternode output at all. The founders, treasury, developers and premine outputs do not name a masternode payee and are left out. |

`Score` is a CONSTANT operator: the model needs only that scores order masternodes per height, not the hash arithmetic that produces them.

`GetBlockHash(h − 100)` in `AddWinningMasternode` is not modelled. For a height the handler accepts it always succeeds: a negative argument yields the tip's hash. So it never rejects a vote.

### `UpgradeGate.tla`

This module models the network-upgrade table as state, and every query of `upgrades.cpp` that the masternode code uses as an operator over it.

State: `network`, `act` (the `nActivationHeight` column of `vUpgrades`), the `-nuparams` arguments not yet applied (`args`), `phase` and `height`.

Actions:

- `ApplyNuParam` and `RejectNuParams` are the `-nuparams` loop of `AppInit2`. It runs on regtest only. It takes the first upgrade after Sprout whose branch id matches the argument, and raises InitError when none does.
- `StartChain` and `ConnectBlock` follow. After them the table no longer changes.

Queries as operators:

- `CurrentEpoch` and `NextEpoch` are the code's loops, written as RECURSIVE operators that walk down and up the indices.
- `GetMinMasternodePaymentsProto` (`masternode-payments.cpp:447`) is the payment code's consumer of the table.

`MC_UpgradeGate.tla` also instantiates `TxValue`, `ChainParams`, `MasternodeRPC` and `NodeStartup`, which are independent of the upgrade tables: `GateStartupSpec` interleaves `UpgradeGate`'s steps with `NodeStartup`'s, and the constant-level properties of the other modules are checked beside them. It gives the tables of `CMainParams` and `CRegTestParams`:

- Activation heights are replaced by their rank among the table's distinct heights. Overwinter and Sapling stay equal at 1, the later upgrades get 2..11, and `MaxHeight = 12` passes every activation.
- The testnet table has the same order as main's, so it adds nothing.
- On regtest, the entries the constructor does not set keep the zero of a static object, which is ALWAYS_ACTIVE.
- Branch ids become 0..3, equal where the code's are equal.

The sources disagree on the number of upgrades. The `UpgradeIndex` enum in `consensus/params.h` lists 12, while `NetworkUpgradeInfo` (`upgrades.cpp`) and `chainparams.cpp` have 14, including Krakoa and Latverion. The model follows the two files that define the table.

`UpgradeGate` is checked with `CHECK_DEADLOCK FALSE`. An InitError really ends the process, and the chain is cut at `MaxHeight`.

### `TxValue.tla`

Pure operators: `CTransaction::GetValueOut` (`primitives/transaction.cpp`) over a transaction abstracted to its transparent output values, its Sapling `valueBalance` and its JoinSplits' `vpub_old`, and `IsBlockValueValid` (`masternode-payments.cpp:273`), which applies it to the coinbase. `CAmount` is a signed 64-bit integer scaled to `Width` bits; the additions overflow, which is undefined in C++ and wraps in the build, so `Wrap` wraps them. `AddChecked` is one step of the loops: add, then throw unless both the amount and the sum are in `MoneyRange`. The check (`NoInflationAccepted`) compares the accepted coinbases with the true, unwrapped sum.

### `NodeStartup.tla`

Processes `Procs` on one data directory. State: `pc[p]` (the phase of `AppInit2` reached, `running`, `stopping` or `down`), `mem[p][f]` (what the process read of file `f`, or `none`), `init[p]` (which of the wallet, fee estimates and chain state it initialised: `pwalletMain`, `fFeeEstimatesInitialized`, `pcoinsTip`), `lockHolder`, `file[f]` (`data`, or `empty` once a process wrote a state it never read), `pidfile` and `starts`.

| Action | Code |
|---|---|
| `Start(p)` | `gemlinkd` starts (`AppInit`, not in this repository) |
| `ParameterInteraction(p)` | Steps 1-3 (`init.cpp:845-1210`): argument checks, each of which may fail |
| `LockDataDir(p)` | Step 4: libsodium and the sanity check may fail; `try_lock` fails if another process holds the lock; the holder writes the pid file and may still fail later in the step |
| `VerifyAndNetwork(p)` | Steps 5-6: `CWallet::Verify`, the network set-up |
| `LoadBlockChain(p)` | Step 7: `pcoinsTip` is created before the checks that can still fail; on success the fee estimates are read and `fFeeEstimatesInitialized` set |
| `LoadWallet(p)` | Step 8: `-disablewallet`, a failed `InitLoadWallet`, or a loaded wallet that may still fail the `-mineraddress` check |
| `ImportAndLoadCaches(p)` | Steps 9-10: import, then read the three masternode caches (read errors are only logged) |
| `MasternodeConfig(p)`, `StartNode(p)` | the masternode checks of Step 10 and Step 11, which may fail |
| `RequestShutdown(p)` | `StartShutdown` or SIGTERM |
| `Shutdown(p)` | `Shutdown`: the guarded flushes (`Writes`), the unconditional dumps, the pid file removal; the process then exits and the lock is released |
| `Crash(p)` | an abort (`CCoinsViewErrorCatcher`) or a kill: nothing written, the lock released |

### `ChainParams.tla` and `MasternodeRPC.tla`

`ChainParams` extends `UpgradeGate` and gives the height-dependent getters of `CChainParams` as operators. An address list is abstracted to its length `n` and an address to its index: `RewardAddressIndex` is `(nHeight / ((maxHeight + n) / n)) % n`, shared by the founders, treasury and developers lists; from Atlantis on the founders' odd heights take the same index of the second list. `GetmnLockBlocks` (halved at Latverion), `GetMasternodeCollateral` (switched at Morag), `GetCoinbaseProtected` and `IsBlocked` read the upgrade table.

`MasternodeRPC` extends it with the three RPC views of the collateral lock: `listmasternodes`'s `unlockheight` (`ListMasternodesUnlockHeight`), whether `getmasternodepayments` lists a collateral (`PaymentsListsLocked`), and the `lockedtxs` row of `getalldata` (`GetAllDataLastPayment`, `GetAllDataLockedTx`: the last payment reset to 0 once it is below `tip + 1 − lock`, and the unlock height). All three take the lock length at the tip height.

### `AddressIndex.tla`

The insight-explorer RPCs of `rpc/misc.cpp`, as operators over the indexes a short transaction history leaves. A history (`HistoriesOf`) is a sequence of transactions, each in the block of the one before or the next, spending earlier unspent outputs and paying outputs of an address and an amount. What `ConnectBlock` writes for it (a credit per output, a debit per input, and the unspent outputs) and the key order of `CAddressIndexKey` are modelled from their use here, because that code is not in the repository (`AddressIndexOf`, `KeyLess`, `GetAddressIndex`, `GetAddressUnspent`).

| Operator | Code |
|---|---|
| `GetAddressesFromParams` | `getAddressesFromParams` with `getIndexKey`: a string or an `addresses` array, kept in order with duplicates; an error for anything else or an address that does not decode |
| `GetAddressDeltas` | `getaddressdeltas`: the help text thrown for a parameter that is not an object, both bounds positive and ordered, the index read (with the range when both are positive), then with `chainInfo` the check that both lie within the chain |
| `GetAddressBalance` | `getaddressbalance`: `balance` sums every delta, `received` the positive ones |
| `GetAddressUtxos` | `getaddressutxos`: the unspent outputs of each address appended, then `std::sort` by height (`SortByHeight`, one of the orders an unstable sort may give) |
| `GetAddressTxids` | `getaddresstxids`: start and end unchecked; with several addresses the `(height, txid)` pairs go through a `std::set`, with one a txid is pushed when its pair is first inserted |

### `PaymentSync.tla`

The `mnget` branch of `ProcessMessageMasternodePayments` (`MnGet`) and `CMasternodePayments::Sync` (`Sync`), with the `mnw` range check a peer applies to what it is offered (`MnwAccepted`). On the main network a repeated request is penalised and answered with nothing. Otherwise the request is marked fulfilled, and `Sync` caps the peer's `nCountNeeded` at `CountEnabled·1.25` and offers every vote in `[tip − nCountNeeded, tip + 20]`. `Sync` returns at once when `TRY_LOCK(cs_main)` fails. A vote is its height. Sync only sends inventory, so these are operators, not actions: the peer's fetch of each vote is the vote delivery the ledger model already has.

### `Masternode.tla`

This module models the masternode list of one node, for each collateral outpoint (vin), together with the owners' broadcasts and pings and the network that carries them.

State:

| Variable | Code |
|---|---|
| `reg[vin]` | the `CMasternode` entry: `activeState`, `sigTime`, `lastPing.sigTime`, and `lastTimeChecked` abstracted to `never`/`before`/`now` (the 5-second throttle is below one tick); `NoEntry` when `Find` returns NULL |
| `now` | `GetAdjustedTime()` and `GetTime()`, which are not told apart |
| `epoch` | Morag and Xandar at `chainActive.Height() + 1` |
| `coll`, `confTime` | the collateral UTXO (young, mature or spent) and the time of its MIN_CONFIRMATIONS block |
| `mnbs`, `pings` | the messages sent; the network may deliver each one late, in any order, or again |
| `seen`, `seenPing` | `mapSeenMasternodeBroadcast` and `mapSeenMasternodePing` |

Operators and actions:

| Definition | Code |
|---|---|
| `CheckedState`, `Check` | `CMasternode::Check`: spent → removal → expiration → warm-up (keeping `RE_ENABLED` under Xandar) → `TRY_LOCK` → `AcceptableInputs` → `UNLOCKING` → ENABLED |
| `PingUpdate` | `CMasternodePing::CheckAndUpdate`: the ±1 h window, the available-state test, the "too early" test, the anchor block test, then store and `Check(true)` |
| `UpdateFromNewBroadcast` | the same name, including its own `mnb.sigTime > sigTime` guard and the nested check of the broadcast's own ping |
| `MnbCheckAndUpdate` | `CMasternodeBroadcast::CheckAndUpdate`, every early return in order |
| `CheckInputsAndAdd`, `NewEntry` | the same name; `NewEntry` is the copy of the deserialised broadcast |
| `CreateBroadcast`, `CreatePing` | `Create` and the ping constructor on the owner's side |
| `ReceiveBroadcast`, `ReceivePing`, `CheckAndRemove` | the `mnb` and `mnp` branches and the maintenance pass of `CMasternodeMan`. That file is not in this repository, so these are modelled from the spec and from how `masternode.cpp` uses them. |
| `Tick`, `AdvanceEpoch`, `Mature`, `Spend` | the environment: the clock, the chain, and the owner's wallet |

`TRY_LOCK(cs_main)` failing is a real branch in `Check` and in `CheckInputsAndAdd`, so it is an input (`lockOk`). Whether a ping's block is still on this node's chain within 24 blocks is also an input (`anchorOk`). Protocol-version, port and signature checks pass for the owner's messages. Forged broadcasts and pings are left out: the owner's key is needed to sign either, and `IsInputAssociatedWithPubkey` binds the collateral to the key.

`MC_Masternode.tla` scales the time constants to small numbers, keeping their order:

| Constant | Code | Model |
|---|---|---|
| `MinMnb` | `MASTERNODE_MIN_MNB_SECONDS` (300 s) | 1 |
| `MinMnp - Slack` | `MASTERNODE_MIN_MNP_SECONDS - 60` (540 s) | 2 |
| `MinMnp` | `MASTERNODE_MIN_MNP_SECONDS` (600 s) | 3 |
| `Window` | the ping's ±1 h (3600 s) | 4 |
| `Expiration` | `MASTERNODE_EXPIRATION_SECONDS` (7200 s) | 5 |
| `Removal` | `MASTERNODE_REMOVAL_SECONDS` (7800 s) | 6 |
| `LockTime` | `Params().GetMnLockTime()` | 1 |
| `StartUnlock` | `Params().GetMnStartUnlockTime()` | 2 |

`GetMnLockTime` and `GetMnStartUnlockTime` are not defined in this repository's `chainparams`, so their values are chosen so that `UNLOCKING` can be reached before expiry.

Entries of different vins never read each other in this code, so one vin is enough. The checks use `CHECK_DEADLOCK FALSE` because the bounded clock and message budget stop; the real node does not.

### `MasternodeLifecycle.tla` and the refinement

`MasternodeLifecycle` is an abstract specification of what the list promises about the entry of each collateral. It has one variable, `entry[vin]`, holding a status, the broadcast's `sigTime` and the last ping's `sigTime`. The clock, the epochs, the collateral and the sent messages are its environment: they may change in any step that leaves `entry` alone (`Environment`).

| Status | `activeState` (via `AbsStatus` in `Masternode.tla`) |
|---|---|
| `admitted` | ENABLED with the ping not yet `MinMnp` after the broadcast: the copy `CheckInputsAndAdd` adds |
| `warmup` | PRE_ENABLED |
| `enabled` | ENABLED after warm-up |
| `reannounced` | RE_ENABLED |
| `unlocking` | UNLOCKING |
| `lapsed` | EXPIRED or REMOVE |
| `spent` | VIN_SPENT |

| Action | Promise | Code it abstracts |
|---|---|---|
| `Admit` | an entry is made only from a sent broadcast of a matured collateral, signed no earlier than the confirmation block | `CheckInputsAndAdd` |
| `Replace` | a known entry disappears or is re-made only for a strictly newer broadcast | the `mnodeman.Remove` before `TRY_LOCK` in `CheckInputsAndAdd` |
| `Supersede` | an announced entry takes a strictly newer broadcast's `sigTime`; its ping moves only forward by at least `MinMnp - Slack` | mnb `CheckAndUpdate`, `UpdateFromNewBroadcast` |
| `Ping` | an available entry's ping moves forward by at least `MinMnp - Slack`, for a ping with a good block | mnp `CheckAndUpdate` |
| `Evaluate` | the status changes only as `Verdict` allows | `Check` |
| `Drop` | an entry is pruned only past the removal time or with a spent collateral | `CMasternodeMan::CheckAndRemove` |

`Verdict` lists what an evaluation may conclude rather than how:
- spent is final, and needs a spent collateral;
- an entry not pinged within the expiration time is lapsed (or spent);
- warm-up needs the ping to be less than `MinMnp` after the broadcast;
- enabled and unlocking need warm-up done and an unspent collateral;
- unlocking needs Xandar, and an unlocking entry does not become enabled.

Any status may also be kept, because `Check` may be throttled or `TRY_LOCK` may fail. The status is evaluated against the current expiration time, so an entry that lapsed before Xandar may become enabled again when the lock time is added. This is the code's behaviour, and the abstract specification states it openly (see the hazard at `masternode.cpp:358`).

`Masternode.tla` maps `reg` to `entry` (`AbsEntry`) and checks `LifecycleSpec == Lifecycle!Spec` as a property of the registry run. Every step of the detailed module is then one of these abstract actions, or leaves the entries alone. The mapping drops `lastTimeChecked` and the seen maps, which the promises do not mention.

### `SendMany.tla`

One wallet, a set `Ops` of queued operations, and `Coins`, the wallet's outputs and notes. Each coin has an owner address, an amount `Val[c]` and possibly the coinbase mark; `Pool[a]` says whether an address is transparent, Sprout or Sapling. Amounts are small integers; `Dust` stands for `DefaultDustThreshold()`.

| Variable | Code |
|---|---|
| `req[o]` | the operation's payment source, recipients, fee, minconf and `allowRevealedAmounts` |
| `state[o]` | `OperationStatus`: ready, executing, success, failed, cancelled |
| `ran` | operations a worker has taken off the queue |
| `tx[o]` | the inputs added to the builder, the change, and whether the change goes to a transparent address |
| `err[o]` | which throw of `main_impl` ended the operation, or `rejected` for a refused `SendTransaction` |
| `spent` | outputs and notes spent by committed transactions |

| Action | Code |
|---|---|
| `Init` | the operations `z_sendmany` queued: only requests that pass the constructor's checks (`Constructible`) |
| `Cancel(o)` | `AsyncRPCOperation::cancel`, which only takes effect on an operation still READY |
| `Skip(o)` | `main()` of a cancelled operation returns at once |
| `Reject(o)` | `main()`: `FindSpendableInputs`, `LimitToAmount`, then the first throw of `main_impl` (`FirstThrow`) ends it FAILED |
| `Build(o)` | the same with no throw: the builder's input loops (`BuilderInputs`) and the change (`Built`); the operation is EXECUTING |
| `SendAccepted(o)`, `SendRejected(o)` | `SendTransaction`: the mempool refuses a transaction that spends an output already spent, or whose transparent change is dust; the operation ends SUCCESS or FAILED |

`LimitToAmount` sorts each pool by value, largest first, and takes inputs until the total is exact or leaves change above the dust threshold. `std::sort` may leave equal values in any order, so `SortedOrders` offers every such order. Only one pool is non-empty for any source, so the three loops are one prefix (`ShortestPrefix`). The builder loops of `main_impl` add those inputs one by one and stop as soon as the sum reaches the target. `SendTransaction` and the mempool are not in the repository: `Refused` models only their conflict and dust rules, and is marked spec-modelled.

`MC_SendMany.tla` has two transparent addresses, `ta` (an output of 5 and a coinbase output of 3) and `tb` (an output of 2), a Sapling note of 4 and a Sprout note of 3, and `Dust = 2`. The requests cover every payment source with Sapling, transparent, mixed and Sprout recipients. Their transparent amounts are at least the dust threshold, so only change can be dust.

### `MC_MasternodePayments.tla`

This module instantiates the model for TLC:

- three masternodes `{me, m1, m2}`, where `me` is this node;
- two payees;
- one handler thread beside the block thread;
- `MCScore(m, h) = (base[m] + h) % 3`, which rotates the ranks with the height, so that this node and each remote node are in and out of the top 2.

## 3. Runs

| Run | cfg | Expect | Shows |
|---|---|---|---|
| ledger | `MC_ledger.cfg` | pass | With an equivocating voter (m1), forged votes, churn, the cleaner and concurrent block and handler threads, the ledger never holds two votes of one voter for a height within one run of the node (`OneVotePerVoterHeight`): the two votes of an equivocator differ in hash, so only CanVote keeps the second out. The run has no restarts; `restart_double_vote` shows that a restart breaks this. It also shows that every tally equals the votes behind it, counting those between the locked insert and the unlocked `AddPayee` (`TallyMatchesVotes`). And the payee `FillBlockPayee` puts in this node's own next block passes its own `IsBlockPayeeValid` under every spork and sync setting, including a height whose entry exists but has no payee yet (`FilledBlockAccepted`). About 3.3M distinct states, about 1¾ min. |
| restart | `MC_restart.cfg` | pass | Through clean, torn, killed and failed restarts, the reloaded and cleaned tallies still match the reloaded votes (`TallyMatchesVotes`). With a retention limit of 3 blocks and tips up to 5, the `CleanPaymentList` that `Read` runs on the loaded maps really drops votes, of height 0 from tip 4 and of height 1 at tip 5, so the check covers a reload that erases heights. About 5.8M distinct states, 2 min. |
| restart_double_vote | `MC_restart_double_vote.cfg` | violation of `TallyBoundedByVoters` | m1 votes h2 → pa, and the vote is stored. After a clean restart CanVote has forgotten it, so m1's vote h2 → pb is also stored and counted: two counts, one voter. |
| clean_race | `MC_clean_race.cfg` | violation of `TallyBoundedByVoters` | A vote passes `InsertVote`, then `CleanPaymentList` erases its height, then `AddPayee` re-creates the entry with a count of 1 and no vote. |
| forged_vote | `MC_forged_vote.cfg` | violation of `GenuineVoteNotShadowed` | A forged vote for (m1, h) is checked by CanVote before its signature. m1's genuine vote for h is then refused as "already voted". |
| torn_dump | `MC_torn_dump.cfg` | violation of `RestartRestoresLedger` | A crash during the dump tears the file. Every later clean shutdown sees IncorrectHash on its dry read and returns without writing, so every restart loses the ledger. |
| gate | `MC_gate.cfg` | pass | The downward and upward loops of `CurrentEpoch` and `NextEpoch`, `NextActivationHeight` and `IsActivationHeightForAnyUpgrade` agree at every height with set-based reference definitions (`GateMatchesReference`). This is checked on the main table and on regtest with overrides to −1, 0 or 2, including an unknown branch id; an override to 2 leaves the regtest table unsorted. In the same run: `IsBlockValueValid` never accepts a coinbase whose parts are out of range or whose true sum exceeds the expected value, however the 64-bit sum wraps (`NoInflationAccepted`, checked as `NoInflationOnChain`); two processes on one data directory never both hold data read from it (`ExclusiveDataDir`); with a repeat interval of at least n·(n−1) blocks every reward address is paid over one unbroken run of heights (`RewardRotation`, as `RewardRotationOnChain`); and the three RPC lock views agree, except that `listmasternodes` still reports the lock at the height last payment + lock (`LockViewsAgree`, as `LockViewsOnChain`). Over every history of two transactions, `getaddresstxids` lists each transaction once and in height order, also for a transaction that both spends from and pays to the address (`TxidsOnceInHeightOrder`, as `TxidsOnChain`). A first `mnget` is offered only votes the peer's `mnw` check keeps, and all of them when it asks for at least `CountEnabled·1.25` (`SyncOffersWhatPeersKeep`, as `SyncOnChain`). The constant-level properties are checked in every state in which the node runs; TLC evaluates them once. About 1,000,000 states, 1¼ min. |
| failed_start | `MC_failed_start.cfg` | violation of `RestartRestoresLedger` | The node stops cleanly with votes in its ledger and `mnpayments.dat`. The next start fails in `AppInit2` before Step 10, and its `Shutdown` dumps the empty ledger of that process over the file. The start after that loads nothing. |
| registry | `MC_registry.cfg` | pass | The properties hold over every order of broadcasts, pings, `Check` passes, lock failures, collateral maturing and spending, and the Morag and Xandar activations. A checked ENABLED entry has passed its warm-up (`WarmupBeforeEnabled`). A registered entry was signed after its collateral's confirmation block, even when retried (`SignedAfterConfirmation`). A spent collateral is never enabled (`NoEnableOnSpentCollateral`). Only a strictly newer broadcast replaces an entry (`BroadcastNewerOnly`). UNLOCKING is left only by lapsing or re-announcing (`UnlockingSticky`). The list implements `MasternodeLifecycle` (`LifecycleSpec`): for example, a late ping never moves `lastPing` backwards. About 3.8M distinct states, 2.5 min. |
| registry_reenabled | `MC_registry_reenabled.cfg` | violation of `DuePingAccepted` | Under Xandar the owner re-announces an ENABLED masternode, and the entry becomes RE_ENABLED. Its next ping, on time and with a good block, is refused. |
| sendmany | `MC_sendmany.cfg` | pass | Two operations run at once, each from any payment source, and either may be cancelled. A committed transaction that spends a coinbase output comes from one transparent address, pays no transparent recipient and has no change (`CoinbaseOnlyShielded`). Every queued operation ends SUCCESS, FAILED or CANCELLED (`EveryOperationEnds`, under the fairness of section 5). About 26,000 states, 70 s, most of it in the liveness check. |
| sendmany_dust | `MC_sendmany_dust.cfg` | violation of `RejectedOnlyOnConflict` | ANY_TADDR sends 3 with fee 1 from outputs 5 and 2. `LimitToAmount` selects both, because the 5 alone leaves change 1, which is not above the dust threshold 2. The builder loop stops after the 5, the change is 1, and the mempool refuses the transaction. |

### Findings

1. **Clean/AddPayee race** (code bug, `masternode-payments.cpp:623`). `AddPayee` runs after `LOCK2` is released. A `CleanPaymentList` in that window erases the height, and `operator[]` then re-creates the entry with a count that has no vote behind it.
   - At real heights this needs votes at the edge of the retention window. That takes more than 800 ENABLED masternodes, or a handler that is slow relative to the chain.
   - At height 0 it is reachable on any masternode past height 1000: that is where `ProcessBlock` stores its payee-less winner whenever the queue is empty or the block is a budget block.
2. **Forged vote shadows the genuine one** (spec/code divergence, `:530`). `CanVote` records (voter, height) before `CheckSignature` runs.
3. **Double vote after restart** (spec/code divergence, `:530`, `:37`). The ledger is persisted but CanVote's record is not.
4. **A torn dump is never repaired** (spec/code divergence, `:256`). `DumpMasternodePayments` deliberately refuses to overwrite a file whose checksum fails, and that is exactly the state a crash during `Write` leaves.

5. **A failed start erases the payment cache** (code bug, `init.cpp:229`). `Shutdown`'s own note asks that anything that writes files do so only if its module was initialised, and the wallet, fee-estimate and chain-state flushes are guarded that way. `DumpMasternodePayments` is not: after an `AppInit2` that failed before Step 10 (a wallet that does not verify, a bad argument, a data directory another process has locked) it writes the empty `CMasternodePayments` of that process over `mnpayments.dat`. `DumpMasternodes` and `DumpBudgets` sit beside it unguarded too.
6. **RE_ENABLED is a trap** (code bug, `masternode.cpp:828`). Under Xandar, `UpdateFromNewBroadcast` makes a re-announced entry `RE_ENABLED`. `Check` keeps it there until a ping `MIN_MNP` seconds after the broadcast is stored. But the ping handler refuses pings to entries that are not ENABLED or PRE_ENABLED. So that ping can never arrive, and the entry stays `RE_ENABLED` and unpaid until it expires. `UNLOCKING` entries refuse pings the same way. Related: the `state` enum in `masternode.h` has no `MASTERNODE_RE_ENABLED` or `MASTERNODE_UNLOCKING`, and it declares neither `IsUnlocking` nor `IsReEnabled`, although `masternode.cpp` uses all of them.

7. **`LimitToAmount` cannot keep the builder's change out of the dust** (code bug, `wallet/asyncrpcoperation_sendmany.cpp:470`). `LimitToAmount` (`:573`) selects inputs until the change is zero or above the dust threshold, as its comment promises. But the builder loops of `main_impl` add those inputs one at a time and `break` as soon as the sum reaches the target. When the selection needed a later, smaller input only to get past the dust threshold, the builder drops it, and the change left is dust again. For a transparent source that change goes to a transparent output, and the mempool's dust rule refuses the transaction, so the operation fails although the wallet had enough funds. For a shielded source the builder still drops inputs, but dust change to a note is accepted.

Further observations have no run. Three of them had violation runs in an earlier version of the project; those slots now hold the `sendmany` and `failed_start` runs.

- **The Xandar minimum protocol is unreachable** (code bug, `masternode-payments.cpp:457`). `GetMinMasternodePaymentsProto` tests Morag first, and Morag is active whenever Xandar is. Broadcasts and pings (`masternode.cpp:551`, `:827`) are therefore held to Morag's minimum after Xandar. `MinProtoFollowsLatestUpgrade` of `UpgradeGate.tla` states the intended rule and is violated on the main table from Xandar's height on.
- **A second process damages the running one** (`init.cpp:1241`, `:275`). A `gemlinkd` started on a data directory that is in use fails at the lock, but its `Shutdown` still dumps its empty masternode caches over the running node's files and removes the running node's pid file. The running node rewrites the caches when it stops cleanly, so only a crash of it loses them; `NodeStartup.tla` reaches both states, and no property of a passing run rejects them.
- **The rotation's assert is too weak** (`chainparams.cpp:487`). The constructors assert only that a list has no more addresses than the last founders reward height. With 3 addresses over 3 blocks, `GetFoundersRewardAddressAtHeight` never reaches the third. Every network has far more blocks than n·(n−1), which is the condition `RewardRotation` is checked under.
- **The RPC lock views disagree for one block** (`rpc/masternode.cpp:131`, `:826`, `:875`). `listmasternodes` reports a collateral locked while H ≤ last payment + lock, `getmasternodepayments` while H < last payment + lock. Both take the lock length at the tip, so Latverion halves the remaining lock of collaterals already paid.
- **A lost sync answer cannot be asked for again** (`masternode-payments.cpp:489`, `:838`). `mnget` marks the peer's request fulfilled before `Sync` runs, and `Sync` returns without sending anything, not even the `ssc` count, when `TRY_LOCK(cs_main)` fails. On the main network the peer's next `mnget` is then penalised by 20 and answered with nothing. `MnGet` of `PaymentSync.tla` has this path; `SyncOffersWhatPeersKeep` is stated for a request made while `cs_main` is free.
- `getalldata` (`rpc/misc.cpp:309`) starts `lastHeight` at 2167201 and ignores whether `GetLastPaymentBlock` found a payment. A collateral never paid is therefore shown with last payment 2167201 until the tip passes 2167201 + lock, while `getmasternodepayments` does not list it. This assumes `GetLastPaymentBlock`, which is not in the repository, leaves the height alone when it finds nothing. `LockViewsAgree` is stated for collaterals with a payment.
- `listmasternodes` (`rpc/masternode.cpp:138`) shows an EXPIRED masternode as UNLOCKING whenever `GetLastPaymentBlock` found any payment, including one whose lock ended long ago and whose `unlockheight` it reports as 0.
- The address-index RPCs keep a repeated address (`rpc/misc.cpp:935`). `getaddressbalance` then counts its balance twice, and `getaddressdeltas` and `getaddressutxos` list its entries twice, while `getaddresstxids` lists each transaction once.
- A masternode sets `nMaxConnections` to `DEFAULT_MAX_PEER_CONNECTIONS_MASTERNODE` after the file-descriptor clamp of Step 2, so it may accept more connections than it has descriptors for.
- `CheckSignature` (`masternode.cpp:787`) verifies under the `nMessVersion` the message carries, so after Morag a legacy-signed message is still accepted.
- `GetBlockHash` (`masternode.cpp:36`) caches anchor hashes for good: after a reorg, scores keep using the abandoned block.
- `getalldata` (`rpc/misc.cpp:309`) starts its scan at 2167201, mainnet's Morag height plus one, on every network.
- `startmasternode` ignores its `lockwallet` argument on the "local" path of a node already started and on the not-synced path, and the alias path skips a bad output index without an error.

- **Regtest overrides can unsort the table** (spec/code divergence, `init.cpp:1199`). Regtest leaves Difa..Latverion always active. `-nuparams` can then put Overwinter or Sapling after them, and `IsActive(h, s) ⇔ StageAt(h) ≥ s` fails. `EpochsOrdered` of `UpgradeGate.tla` states the sorted-table contract; with the gate run's constants it is violated on regtest by `-nuparams` putting Overwinter at height 2. Every run slot is taken, so no cfg checks it; the `gate` run applies such overrides and checks that the loops still agree with their reference definitions.
- **A new entry is ENABLED before its warm-up** (spec/code divergence, `masternode.cpp:696`). `CheckInputsAndAdd` adds a copy of the deserialised broadcast. `activeState` is not serialised, so the entry keeps the constructor's `MASTERNODE_ENABLED` until the next `Check`. The spec says the first broadcast gives `PRE_ENABLED`. `MasternodeLifecycle.tla` states this behaviour as its `admitted` status, and `WarmupBeforeEnabled` only constrains checked entries.
- **A change exactly equal to the dust threshold is refused** (`wallet/asyncrpcoperation_sendmany.cpp:580`). `haveSufficientFunds` asks for change strictly above the threshold, so a wallet with enough funds fails with "Insufficient funds, have X, need Y", where X > Y. In the model, `ta` sending 2 with fee 1 to a transparent address ends with `insufficient`.

- **`-nuparams` cannot name Alfheimr..Latverion** (`init.cpp:1198`). They share Sapling's branch id, and the lookup stops at the first match, so `-nuparams=76b809bb:h` always sets Sapling. This is a fact of the constant tables, visible without any behaviour: `NuParamTarget` of `UpgradeGate.tla` maps every one of those branch ids to Sapling.
- When Xandar activates, `GetExpirationTime` grows by the lock time (`masternode.cpp:358`). An EXPIRED entry whose ping is younger than the new bound then becomes ENABLED or UNLOCKING on its next `Check`, without a ping.
- Under Morag a broadcast for an ENABLED entry whose stored ping is more than an hour old is refused (`masternode.cpp:578`). So a masternode whose pings stopped reaching this node cannot re-announce itself there until it expires.

- The spec (§"Ambiguous behaviour") says votes from voters ranked beyond SIGNATURES_TOTAL are still tallied. In the code, `IsValid` (`:226`) rejects them outright.
- `GetMasternodeRank` returns −1 for a masternode it does not rank, and `IsValid` lets −1 through.

### Mutants

Each property of a passing run is shown to be sensitive to the code it is about. Each variant operator is defined just before the definition it replaces:

| Mutant | What it changes | Breaks |
|---|---|---|
| `ReceiveVoteNoCanVote` | the handler skips CanVote | `OneVotePerVoterHeight` |
| `InsertVoteReset` | the height entry is re-constructed on every insert | `TallyMatchesVotes` |
| `TallyVoteShifted` | `nLastBlockHeight` gets the lookahead added twice | `TypeOK` |
| `SnapshotVotesOnly` | `Write` serialises only the vote map | `TallyMatchesVotes` in the restart run |
| `CurrentEpochFromSecondLast` | `CurrentEpoch`'s loop starts one index too low | `GateMatchesReference` |
| `UpdateFromNewBroadcastKeepChecked` | `lastTimeChecked` is not reset when a broadcast overwrites the entry | `WarmupBeforeEnabled` |
| `CheckInputsAndAddNoSigTimeCheck` | the sigTime is not compared with the confirmation block | `SignedAfterConfirmation` |
| `CheckedStateNoInputs` | `Check` never calls `AcceptableInputs` | `NoEnableOnSpentCollateral` |
| `MnbCheckAndUpdateUnannouncedFirst` | "not enabled, nothing to update" is tested before the sigTime comparison | `BroadcastNewerOnly` |
| `CheckedStateUnlockingFallsThrough` | the `if (activeState == MASTERNODE_UNLOCKING) return;` line is missing | `UnlockingSticky` |
| `PingUpdateNoRateLimit` | the ping check has no "arrived too early" test, so an older ping overwrites a newer one | `LifecycleSpec` |
| `IsTransactionValidStrict` | the second loop of `IsTransactionValid` asks for more than SIGNATURES_REQUIRED votes | `FilledBlockAccepted` |
| `BuiltFeeTwice` | the builder takes the fee off the change a second time | `TypeOK` of `SendMany` (the change goes negative) |
| `AllowTransparentCoinbaseAnySource` | coinbase outputs are also offered to an ANY_TADDR source | `CoinbaseOnlyShielded` |
| `SendRejectedNoFinalState` | a refused `SendTransaction` sets the error but leaves the operation EXECUTING | `EveryOperationEnds` |
| `AddCheckedSumOnly` | `GetValueOut` checks the running sum but not the amount just added | `NoInflationOnChain` |
| `LockDataDirNoTry` | Step 4 takes the lock without `try_lock`'s answer | `ExclusiveDataDir` |
| `RewardAddressIndexFloor` | the address change interval is `maxHeight / n`, not rounded up | `RewardRotationOnChain` |
| `ListMasternodesUnlockHeightNoLock` | `listmasternodes` compares the tip with the last payment without the lock length | `LockViewsOnChain` |
| `GetAllDataLastPaymentInclusive` | `getalldata` resets the last payment with `<=` | `LockViewsOnChain` |
| `GetAddressTxidsNoDedup` | the single-address branch of `getaddresstxids` pushes every entry's txid | `TxidsOnChain` |
| `SyncUncapped` | `Sync` does not cap the peer's `nCountNeeded` | `SyncOnChain` |

## 4. Bounds and why they suffice

The code's constants are scaled down together, keeping the relations between them:

| Code | Model | Relation kept |
|---|---|---|
| SIGNATURES_TOTAL = 10 of about 1000 | 2 of 3 | some voters, including this node at some heights, fall outside the quorum |
| +20 lookahead | 1 | |
| `ProcessBlock(tip+10)` | 1 | |
| 1000-block retention floor | `KeepFloor` | see below |

- **`MaxLag`** bounds how many blocks the tip may advance while a handler is between reading the tip and storing. In the code this is a timing assumption: the handler's work takes milliseconds, a block takes a minute. With `MaxLag = 1`, the run shows consistency given that assumption.
- **`KeepFloor`** plays the same role as the 1000-block retention floor.
  - The ledger run uses `KeepFloor = 4 > CountEnabledScaled + MaxLag − 1`. This mirrors mainnet, where the range check's 1.25·CountEnabled window is far inside the 1000-block floor: a vote at a real height is never due for cleaning while it is being stored.
  - The restart run uses `KeepFloor = 0` (limit 3, from the three masternodes) with `MaxTip = 5`, so that the clean at load time drops votes, and `MaxLag = 0`: with the limit at the window's edge and a lag of one block, TLC finds the race of finding 1 at height 1 (a vote received at tip 4 for height 1, the tip moves to 5, the cleaner erases height 1, and `AddPayee` re-creates it with a count of 1).
  - `clean_race` lowers it to 3. That reproduces a registry big enough that 1.25·size ≥ 1000, where the two windows touch.
- **`MaxTip`, `MaxMsgs` and `MaxRestarts`** are small. They still allow every sequence the properties concern:
  - two votes of one voter at one height;
  - a vote on each side of a clean;
  - a restart between a vote and its conflicting twin;
  - a torn dump followed by a clean one.
- **Symmetry** is not used, because `Score` tells the masternodes apart.
- **Registry.** `MaxTime = 6` (7 with Xandar's lock time) reaches every timeout. `MaxMnb = 2` and `MaxPings = 2` allow a re-announcement, a broadcast overtaken by a newer one, and a ping arriving after the next one. These are the shortest sequences that break each property when the code is changed as the mutants change it.

- **SendMany.** Two operations are the fewest that can select the same output. `Dust = 2` with values 5, 3, 2, 4 and 3 makes every branch of `haveSufficientFunds` and every throw of `main_impl` reachable. It reaches exact change, change equal to the threshold, change above it, and a selection that needs a smaller second input to get past the threshold (finding 7). One payment source of each kind, plus ANY_TADDR, covers every branch of `FindSpendableInputs`.

- **Restart.** `MaxRestarts = 1` with `FailedStarts = TRUE`: one restart of any kind, failed or not, which is what the failed-start and torn-dump findings need; a second restart doubled the run time without reaching a new kind of state.
- **TxValue.** `CAmount` at 6 bits (−32..31) with `MAX_MONEY = 10`, so that two amounts in range still add without wrapping, as 2·21·10¹⁴ fits in 2⁶³. The amounts −32 (INT64_MIN), −1, 0, 1, 10 and 11 sit on every edge of `MoneyRange` and of the wrap. Two outputs and one JoinSplit allow a negative amount offsetting a positive one and a sum that wraps.
- **NodeStartup.** Two processes and three starts: one process can run while the other fails at the lock, and either can start again after a crash or a stop.
- **ChainParams, MasternodeRPC.** Lists of 1 to 4 addresses against repeat intervals up to 16 blocks, and every height up to the interval; lock lengths 1 to 4, before and after Latverion's halving, every last-payment height from 1 to 4 and every tip height up to three lock lengths.
- **AddressIndex.** Two transactions of up to two outputs, two addresses, amounts 1 and 2, and every parameter of up to two addresses including a repeated and an invalid one. That is the fewest that give a transaction spending from and paying to one address (two index entries of one txid), entries of two addresses at different heights, and a spent and an unspent output. Every start/end pair from −1 to 3 covers zero, negative, reversed and out-of-chain ranges.
- **PaymentSync.** Tips 0 to 4, 0 to 6 enabled masternodes (so `CountEnabled·1.25` truncates: 1→1, 3→3, 5→6), requests from −2 to 10, and votes at every height from three below the look-back to three above the look-ahead.

## 5. Fairness

`SendMany.tla` checks one liveness property, `EveryOperationEnds`, under `FairSpec == Spec /\ WF_vars(Work)`. `Work` is what the worker threads of the RPC queue do: run an operation (`Skip`, `Reject` or `Build`) and hand its transaction to `SendTransaction`. The queue's threads loop over waiting operations for as long as the node runs, so an operation that stays runnable is eventually run. `Cancel` gets no fairness, because it is a user's request. The queue and `SendTransaction` are not in the repository, so this fairness is an assumption about them. The check shows that `main()` itself never leaves an operation outside a final state.

The masternode specifications (`MasternodePayments`, `Masternode`, `MasternodeLifecycle`) are safety specifications. Their environment owes the node nothing: peers owe it no votes or broadcasts, the chain owes it no blocks, the clock and the owners act when they choose, and a restart is the operator's choice.

## 6. Not modelled, and why

- In the registry, these are left out: `CalculateScore`, `GetLastPaid` and `SecondsSincePayment` (reads only); the DoS scores; the protocol-version minimum (see the observations in section 3); null pings; and clock skew between nodes.
- `PrevEpochBranchId` and `IsConsensusBranchId` in `upgrades.cpp` are not modelled, because nothing under `src/` calls them.
- `IsScheduled` and `GetRequiredPaymentsString` are not modelled. The first is called only by the list manager, which is not in this repository; the second is text.
- `FilledBlockAccepted` compares filling and validation against one ledger state. A block template is filled at one moment and judged after it is mined, when more votes may have arrived. Then a different payee may have reached SIGNATURES_REQUIRED, and the node would refuse its own block. The template is not a state variable, so this is not checked.
- In `NodeStartup`, the steps that only check arguments are grouped into one action per phase, since each either fails or passes on; what threads the steps start, and what the files hold beyond "the data a process read" or "empty", are left out. `-daemon`'s fork, `-reindex`'s restart of the load loop and the pruning of Step 9 are left out: each runs in a process that already holds the lock, inside a step that is modelled.
- The rest of `chainparams.cpp` is constant data (genesis blocks, checkpoints, seeds, the address strings); `Get*RewardScriptAtHeight` only encodes the address the modelled getter picks.
- The operator RPCs that start a masternode (`startmasternode`, `startalias`, `relaymasternodebroadcast`) are not modelled. They pass the broadcast to `CMasternodeMan::UpdateMasternodeList`, which is not in this repository. That call adds or updates the local entry without `CheckAndUpdate` or `CheckInputsAndAdd`. A draft model of them, on the registry's node, broke `SignedAfterConfirmation` and `NoEnableOnSpentCollateral` at once, in 2 and 3 steps:
  - a start with a collateral of fewer than 15 confirmations;
  - a `createmasternodebroadcast` hex relayed after the collateral was spent.

  Both properties are about the path peers run, so the RPCs are kept out of the registry module. The bypass is listed as a hazard.
- In `SendMany`, these are left out: Sprout witnesses and anchors, proofs, memos, the `minconf` depth of each note, the builder's own errors, and the text of the result. The joinsplit path for Sprout sources is reduced to the rule the constructor enforces (`allowRevealedAmounts`). `SendTransaction` and the mempool are reduced to the conflict and dust rules.
- Of `rpc/misc.cpp`, `getaddressmempool` and `getspentinfo` read the mempool's address index and the spent index, which are written by code outside the repository. `getinfo`, `validateaddress`, `z_validateaddress`, `createmultisig`, `verifymessage` and `setmocktime` format replies or call key and script code outside it. `mnsync` and `spork` call into `masternodeSync` and the spork manager, also outside it. Of `getalldata`, only the `lockedtxs` rows are modelled; the rest reports wallet balances. These RPCs, the rest of the wallet and the transaction builder are not modelled.
- The address-index RPCs are pure operators over one index. They read the index without `cs_main`, and `getaddressdeltas` takes `cs_main` only afterwards, for the chain-info check. A block connected or disconnected in between is not modelled.
- Logging and the DoS scoring (`Misbehaving`, `AskForMN`) are left out. Neither changes the ledger.
- The failure path of `TRY_LOCK(cs_main)` is left out. It returns before any state change.
- The `masternodeSync` bookkeeping (`AddedMasternodeWinner`, `mapSeenSyncMNW`) is left out.

## 7. Plan for the next sittings

1. Justify the ledger's `ChurnRegistry` by `MasternodeLifecycle`: the ENABLED set changes only as the lifecycle allows.
2. A block-template variable between `FillBlockPayee` and `IsBlockPayeeValid`, to check the stale-template race described in section 6.
3. Compose `NodeStartup` with the payment ledger, so that a second process's dump and a crash of the first reach `mnpayments.dat` in one model.
4. A two-handler run, for handler/handler interleavings of the same vote.
5. `SendMany`: the `minconf` depth of each note and the wallet's locked outputs, and a third operation once the liveness check runs fast enough.
