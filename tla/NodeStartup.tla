---------------------------- MODULE NodeStartup ----------------------------
(***************************************************************************)
(* Start-up and shut-down of gemlinkd processes that share one data        *)
(* directory: AppInit2's steps and Shutdown (src/init.cpp). A process runs *)
(* AppInit2; any step may fail (InitError, return false), and the daemon   *)
(* then runs Shutdown just as after a normal stop. Only the process that   *)
(* holds the file_lock on <datadir>/.lock gets past Step 4.                *)
(*                                                                         *)
(* Data is abstracted to what the files hold: a file is "data" or "empty". *)
(* A process's memory holds, per file, what it read ("none" before it read *)
(* it). Shutdown writes a file from memory: the wallet, the fee estimates  *)
(* and the chain state only when that module was initialised (pwalletMain, *)
(* fFeeEstimatesInitialized, pcoinsTip), the masternode caches always.     *)
(***************************************************************************)
EXTENDS Naturals, FiniteSets

CONSTANTS
    Procs,       \* gemlinkd processes started on the data directory
    NoProc,      \* no process: the lock is free, the pid file is absent
    MaxStarts    \* bound: process starts in a behaviour

ASSUME NoProc \notin Procs /\ MaxStarts \in Nat

Files    == {"chainstate", "feeest", "wallet", "mncache", "budget", "mnpayments"}
MnCaches == {"mncache", "budget", "mnpayments"}

\* The files Shutdown flushes only if the process initialised them.
Guarded == {"chainstate", "feeest", "wallet"}

\* AppInit2's phases, then the daemon's main loop and its Shutdown.
Phases == {"down", "params", "lock", "verify", "chain", "wallet", "import",
           "mnconfig", "startnode", "running", "stopping"}

VARIABLES
    pc,          \* per process: its phase
    mem,         \* per process and file: what it read, or "none"
    init,        \* per process: the Guarded modules it initialised
    lockHolder,  \* the process holding the lock on <datadir>/.lock, or NoProc
    file,        \* per file: its content on disk
    pidfile,     \* the pid gemlinkd.pid holds, or NoProc
    starts

startupVars == <<pc, mem, init, lockHolder, file, pidfile, starts>>

NoneRead == [f \in Files |-> "none"]

StartupTypeOK ==
    /\ pc \in [Procs -> Phases]
    /\ mem \in [Procs -> [Files -> {"none", "data", "empty"}]]
    /\ init \in [Procs -> SUBSET Guarded]
    /\ lockHolder \in Procs \cup {NoProc}
    /\ file \in [Files -> {"data", "empty"}]
    /\ pidfile \in Procs \cup {NoProc}
    /\ starts \in 0 .. MaxStarts

StartupInit ==
    /\ pc = [p \in Procs |-> "down"]
    /\ mem = [p \in Procs |-> NoneRead]
    /\ init = [p \in Procs |-> {}]
    /\ lockHolder = NoProc
    /\ file = [f \in Files |-> "data"]
    /\ pidfile = NoProc
    /\ starts = 0

\* Reading files into memory, and marking modules initialised.
Read(p, fs) == mem' = [mem EXCEPT ![p] = [f \in Files |-> IF f \in fs THEN file[f] ELSE mem[p][f]]]
Initialised(p, ms) == init' = [init EXCEPT ![p] = init[p] \cup ms]

\* A step of AppInit2 that returns false: the daemon goes to Shutdown.
Fail(p) == pc' = [pc EXCEPT ![p] = "stopping"]
Goto(p, ph) == pc' = [pc EXCEPT ![p] = ph]

\* gemlinkd is started (AppInit, then AppInit2 from Step 1).
Start(p) ==
    /\ pc[p] = "down"
    /\ starts < MaxStarts
    /\ pc' = [pc EXCEPT ![p] = "params"]
    /\ mem' = [mem EXCEPT ![p] = NoneRead]
    /\ init' = [init EXCEPT ![p] = {}]
    /\ starts' = starts + 1
    /\ UNCHANGED <<lockHolder, file, pidfile>>

\* Steps 1 to 3: networking, argument and parameter checks; each may fail
\* with InitError, before the data directory is locked.
ParameterInteraction(p) ==
    /\ pc[p] = "params"
    /\ Goto(p, "lock") \/ Fail(p)
    /\ UNCHANGED <<mem, init, lockHolder, file, pidfile, starts>>

\* Variant: the lock is taken without try_lock's answer.
LockDataDirNoTry(p) ==
    /\ pc[p] = "lock"
    /\ \/ /\ Fail(p)
          /\ UNCHANGED <<lockHolder, pidfile>>
       \/ /\ lockHolder' = p
          /\ pidfile' = p
          /\ Goto(p, "verify") \/ Fail(p)
    /\ UNCHANGED <<mem, init, file, starts>>

\* Step 4: libsodium and the sanity check may fail; then try_lock on
\* .lock, which fails if another process holds it; the holder writes its
\* pid file, and may still fail later in the step.
LockDataDir(p) ==
    /\ pc[p] = "lock"
    /\ \/ /\ Fail(p)
          /\ UNCHANGED <<lockHolder, pidfile>>
       \/ /\ lockHolder = NoProc
          /\ lockHolder' = p
          /\ pidfile' = p
          /\ Goto(p, "verify") \/ Fail(p)
    /\ UNCHANGED <<mem, init, file, starts>>

\* Steps 5 and 6: CWallet::Verify and the network set-up; each may fail.
VerifyAndNetwork(p) ==
    /\ pc[p] = "verify"
    /\ Goto(p, "chain") \/ Fail(p)
    /\ UNCHANGED <<mem, init, lockHolder, file, pidfile, starts>>

\* Step 7: load the block index. pcoinsTip is created before the checks
\* that may still fail (genesis block, load error, shutdown requested); on
\* success the fee estimates are read and fFeeEstimatesInitialized is set.
LoadBlockChain(p) ==
    /\ pc[p] = "chain"
    /\ \/ /\ Fail(p)
          /\ UNCHANGED <<mem, init>>
       \/ /\ Fail(p)
          /\ Read(p, {"chainstate"})
          /\ Initialised(p, {"chainstate"})
       \/ /\ Goto(p, "wallet")
          /\ Read(p, {"chainstate", "feeest"})
          /\ Initialised(p, {"chainstate", "feeest"})
    /\ UNCHANGED <<lockHolder, file, pidfile, starts>>

\* Step 8: with -disablewallet pwalletMain stays NULL; InitLoadWallet may
\* fail (pwalletMain NULL, return false); a loaded wallet may still fail
\* the -mineraddress check.
LoadWallet(p) ==
    /\ pc[p] = "wallet"
    /\ \/ /\ Goto(p, "import")
          /\ UNCHANGED <<mem, init>>
       \/ /\ Fail(p)
          /\ UNCHANGED <<mem, init>>
       \/ /\ Goto(p, "import") \/ Fail(p)
          /\ Read(p, {"wallet"})
          /\ Initialised(p, {"wallet"})
    /\ UNCHANGED <<lockHolder, file, pidfile, starts>>

\* Steps 9 and 10: prune, import blocks, then read mncache.dat, budget.dat
\* and mnpayments.dat. A read error is only logged.
ImportAndLoadCaches(p) ==
    /\ pc[p] = "import"
    /\ Goto(p, "mnconfig")
    /\ Read(p, MnCaches)
    /\ UNCHANGED <<init, lockHolder, file, pidfile, starts>>

\* Step 10: the masternode configuration checks (-txindex, the address,
\* the private key, litemode) may fail.
MasternodeConfig(p) ==
    /\ pc[p] = "mnconfig"
    /\ Goto(p, "startnode") \/ Fail(p)
    /\ UNCHANGED <<mem, init, lockHolder, file, pidfile, starts>>

\* Step 11: the disk space check, accumulated errors and a requested
\* shutdown make AppInit2 return false; otherwise the node runs.
StartNode(p) ==
    /\ pc[p] = "startnode"
    /\ Goto(p, "running") \/ Fail(p)
    /\ UNCHANGED <<mem, init, lockHolder, file, pidfile, starts>>

\* StartShutdown or SIGTERM: the main loop leaves WaitForShutdown.
RequestShutdown(p) ==
    /\ pc[p] = "running"
    /\ Goto(p, "stopping")
    /\ UNCHANGED <<mem, init, lockHolder, file, pidfile, starts>>

\* Whether Shutdown writes file f, and what it writes.
Writes(p, f) == f \in Guarded => f \in init[p]
Written(p, f) == IF mem[p][f] = "none" THEN "empty" ELSE mem[p][f]

\* Shutdown: flush the wallet if pwalletMain, dump the masternode caches
\* unconditionally, write the fee estimates if fFeeEstimatesInitialized,
\* flush the chain state if pcoinsTip, remove the pid file; the process
\* then exits, which releases the lock.
Shutdown(p) ==
    /\ pc[p] = "stopping"
    /\ file' = [f \in Files |-> IF Writes(p, f) THEN Written(p, f) ELSE file[f]]
    /\ pidfile' = NoProc
    /\ lockHolder' = IF lockHolder = p THEN NoProc ELSE lockHolder
    /\ pc' = [pc EXCEPT ![p] = "down"]
    /\ UNCHANGED <<mem, init, starts>>

\* The process is killed, or aborts (CCoinsViewErrorCatcher): nothing is
\* written, the OS releases the lock, the pid file stays.
Crash(p) ==
    /\ pc[p] \notin {"down", "stopping"}
    /\ pc' = [pc EXCEPT ![p] = "down"]
    /\ lockHolder' = IF lockHolder = p THEN NoProc ELSE lockHolder
    /\ UNCHANGED <<mem, init, file, pidfile, starts>>

StartupNext ==
    \E p \in Procs :
        \/ Start(p)
        \/ ParameterInteraction(p)
        \/ LockDataDir(p)
        \/ VerifyAndNetwork(p)
        \/ LoadBlockChain(p)
        \/ LoadWallet(p)
        \/ ImportAndLoadCaches(p)
        \/ MasternodeConfig(p)
        \/ StartNode(p)
        \/ RequestShutdown(p)
        \/ Shutdown(p)
        \/ Crash(p)

StartupSpec == StartupInit /\ [][StartupNext]_startupVars

-----------------------------------------------------------------------------
\* A process has read a file of the data directory and not yet exited.
Holds(p) == pc[p] # "down" /\ \E f \in Files : mem[p][f] # "none"

\* The data directory lock: two live processes never both hold data read
\* from the directory, whatever order their AppInit2 steps, failures,
\* crashes and restarts interleave in.
ExclusiveDataDir ==
    \A p, q \in Procs : p # q => ~(Holds(p) /\ Holds(q))

=============================================================================
