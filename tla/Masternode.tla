------------------------------ MODULE Masternode ------------------------------
(***************************************************************************)
(* The masternode list of one node (src/masternode.cpp): for every         *)
(* collateral outpoint (vin) the entry CMasternode, changed by the         *)
(* periodic Check pass, by broadcasts (mnb: CheckAndUpdate followed by     *)
(* CheckInputsAndAdd) and by pings (mnp: CheckAndUpdate). The operator of  *)
(* a collateral sends broadcasts and pings; the network delivers each sent *)
(* message any number of times, late and in any order. Time is one clock   *)
(* (GetTime and GetAdjustedTime are not told apart) in units of the        *)
(* constants below. The chain enters the Morag and Xandar epochs once.     *)
(***************************************************************************)
EXTENDS Integers, FiniteSets

CONSTANTS
    MNs,          \* collateral outpoints (vin) of the masternodes
    MaxTime,      \* bound: the clock
    MaxMnb,       \* bound: broadcasts created
    MaxPings,     \* bound: pings created
    MinMnb,       \* MASTERNODE_MIN_MNB_SECONDS
    MinMnp,       \* MASTERNODE_MIN_MNP_SECONDS
    Slack,        \* the 60 seconds of "MASTERNODE_MIN_MNP_SECONDS - 60"
    Window,       \* the 60 * 60 seconds a ping's sigTime may differ from the clock
    Expiration,   \* MASTERNODE_EXPIRATION_SECONDS
    Removal,      \* MASTERNODE_REMOVAL_SECONDS
    LockTime,     \* Params().GetMnLockTime()
    StartUnlock,  \* Params().GetMnStartUnlockTime()
    CollInit      \* the states the collateral output may start in

ASSUME /\ 0 < MinMnb /\ MinMnb < MinMnp - Slack /\ 0 < Slack
       /\ MinMnp < Window /\ Window < Expiration /\ Expiration < Removal
       /\ LockTime >= 0 /\ StartUnlock > 0

Times == 0 .. MaxTime

\* lastTimeChecked, abstracted to what the throttle "GetTime() -
\* lastTimeChecked < MASTERNODE_CHECK_SECONDS" tells apart when the check
\* interval is below one tick: "now" (checked in this tick), "before", or
\* "never" (lastTimeChecked = 0, as the copy constructor and
\* UpdateFromNewBroadcast set it).
Checked == {"never", "before", "now"}

States == {"PRE_ENABLED", "ENABLED", "RE_ENABLED", "UNLOCKING",
           "EXPIRED", "REMOVE", "VIN_SPENT"}

\* No entry for the vin in the list (mnodeman.Find returns NULL).
NoEntry == [state |-> "NONE", sigTime |-> 0, ping |-> 0, checked |-> "never"]

VARIABLES
    now,       \* GetAdjustedTime()
    epoch,     \* 0 before Morag, 1 Morag, 2 Xandar, at chainActive.Height() + 1
    coll,      \* the collateral output: "young", "mature" or "spent"
    confTime,  \* time of the block at which it reached MASTERNODE_MIN_CONFIRMATIONS
    reg,       \* reg[vin]: activeState, sigTime, lastPing.sigTime, lastTimeChecked
    mnbs,      \* broadcasts sent: [vin, sigTime]
    pings,     \* pings sent: [vin, sigTime, anchorOk]
    seen,      \* mapSeenMasternodeBroadcast
    seenPing   \* mapSeenMasternodePing

vars == <<now, epoch, coll, confTime, reg, mnbs, pings, seen, seenPing>>


Present(e) == e.state # "NONE"
Morag  == epoch >= 1
Xandar == epoch = 2

-----------------------------------------------------------------------------
(* CMasternode *)

IsPingedWithin(e, seconds, t) == t - e.ping < seconds
IsBroadcastedWithin(e, seconds) == now - e.sigTime < seconds
IsAvailableState(e) == e.state \in {"ENABLED", "PRE_ENABLED"}
\* IsEnabled() || IsUnlocking() || IsReEnabled()
IsAnnounced(e) == e.state \in {"ENABLED", "UNLOCKING", "RE_ENABLED"}

GetExpirationTime == IF Xandar THEN Expiration + LockTime ELSE Expiration
GetRemovalTime    == IF Xandar THEN Removal + LockTime ELSE Removal

\* Variant: Check does not look at the collateral (no AcceptableInputs).
CheckedStateNoInputs(e, m, lockOk) ==
    CASE e.state = "VIN_SPENT"                      -> "VIN_SPENT"
      [] ~IsPingedWithin(e, GetRemovalTime, now)    -> "REMOVE"
      [] ~IsPingedWithin(e, GetExpirationTime, now) -> "EXPIRED"
      [] e.ping - e.sigTime < MinMnp ->
             IF Xandar /\ e.state = "RE_ENABLED" THEN "RE_ENABLED" ELSE "PRE_ENABLED"
      [] ~lockOk                                    -> e.state
      [] Xandar /\ ~IsPingedWithin(e, StartUnlock, now)
                /\ e.state # "UNLOCKING"            -> "UNLOCKING"
      [] e.state = "UNLOCKING"                      -> "UNLOCKING"
      [] OTHER                                      -> "ENABLED"

\* Variant: an UNLOCKING entry falls through to ENABLED.
CheckedStateUnlockingFallsThrough(e, m, lockOk) ==
    CASE e.state = "VIN_SPENT"                      -> "VIN_SPENT"
      [] ~IsPingedWithin(e, GetRemovalTime, now)    -> "REMOVE"
      [] ~IsPingedWithin(e, GetExpirationTime, now) -> "EXPIRED"
      [] e.ping - e.sigTime < MinMnp ->
             IF Xandar /\ e.state = "RE_ENABLED" THEN "RE_ENABLED" ELSE "PRE_ENABLED"
      [] ~lockOk                                    -> e.state
      [] coll[m] = "spent"                          -> "VIN_SPENT"
      [] Xandar /\ ~IsPingedWithin(e, StartUnlock, now)
                /\ e.state # "UNLOCKING"            -> "UNLOCKING"
      [] OTHER                                      -> "ENABLED"

\* The state Check gives an entry of collateral m; lockOk is whether
\* TRY_LOCK(cs_main) succeeds, which decides nothing but is a real branch.
CheckedState(e, m, lockOk) ==
    CASE e.state = "VIN_SPENT"                      -> "VIN_SPENT"
      [] ~IsPingedWithin(e, GetRemovalTime, now)    -> "REMOVE"
      [] ~IsPingedWithin(e, GetExpirationTime, now) -> "EXPIRED"
      [] e.ping - e.sigTime < MinMnp ->
             IF Xandar /\ e.state = "RE_ENABLED" THEN "RE_ENABLED" ELSE "PRE_ENABLED"
      [] ~lockOk                                    -> e.state
      [] coll[m] = "spent"                          -> "VIN_SPENT"
      [] Xandar /\ ~IsPingedWithin(e, StartUnlock, now)
                /\ e.state # "UNLOCKING"            -> "UNLOCKING"
      [] e.state = "UNLOCKING"                      -> "UNLOCKING"
      [] OTHER                                      -> "ENABLED"

\* CMasternode::Check(forceCheck): throttled to once per tick.
Check(e, m, force, lockOk) ==
    IF ~force /\ e.checked = "now" THEN e
    ELSE [e EXCEPT !.state = CheckedState(e, m, lockOk), !.checked = "now"]

-----------------------------------------------------------------------------
(* CMasternodePing::CheckAndUpdate for a ping of the owner (its signature  *)
(* is valid) to the present entry e: the entry afterwards.                 *)

PingSigTimeOk(t) == t <= now + Window /\ t > now - Window

\* Variant: no "arrived too early" test (lastPing is not compared).
PingUpdateNoRateLimit(e, m, t, anchorOk, fRequireEnabled, lockOk) ==
    IF /\ PingSigTimeOk(t)
       /\ fRequireEnabled => IsAvailableState(e)
       /\ anchorOk
    THEN Check([e EXCEPT !.ping = t], m, TRUE, lockOk)
    ELSE e

PingUpdate(e, m, t, anchorOk, fRequireEnabled, lockOk) ==
    IF /\ PingSigTimeOk(t)
       /\ fRequireEnabled => IsAvailableState(e)
       /\ ~IsPingedWithin(e, MinMnp - Slack, t)
       /\ anchorOk
    THEN Check([e EXCEPT !.ping = t], m, TRUE, lockOk)
    ELSE e

-----------------------------------------------------------------------------
(* CMasternodeBroadcast *)

\* Variant: lastTimeChecked is not reset.
UpdateFromNewBroadcastKeepChecked(e, b, anchorOk, lockOk) ==
    LET e1 == [e EXCEPT !.sigTime = b.sigTime,
                        !.state = IF Xandar /\ IsAnnounced(e) THEN "RE_ENABLED" ELSE e.state]
    IN  IF b.sigTime > e.sigTime THEN PingUpdate(e1, b.vin, b.sigTime, anchorOk, FALSE, lockOk)
        ELSE e

\* UpdateFromNewBroadcast: if b is newer than the entry, the fields are
\* overwritten, lastTimeChecked reset, an announced entry is
\* RE_ENABLED under Xandar, and the broadcast's ping (created together with
\* it, so of the same sigTime; anchorOk is whether its block passes) goes
\* through the ping check without the available-state requirement.
UpdateFromNewBroadcast(e, b, anchorOk, lockOk) ==
    LET e1 == [e EXCEPT !.sigTime = b.sigTime, !.checked = "never",
                        !.state = IF Xandar /\ IsAnnounced(e) THEN "RE_ENABLED" ELSE e.state]
    IN  IF b.sigTime > e.sigTime THEN PingUpdate(e1, b.vin, b.sigTime, anchorOk, FALSE, lockOk)
        ELSE e

\* Variant: "nothing to update" for an entry that is not announced is
\* tested before the sigTime comparison.
MnbCheckAndUpdateUnannouncedFirst(e, b, anchorOk, lockOk) ==
    CASE b.sigTime > now + Window -> [ok |-> FALSE, entry |-> e]
      [] ~Present(e)              -> [ok |-> TRUE,  entry |-> e]
      [] Morag /\ ~PingSigTimeOk(e.ping) /\ e.state = "ENABLED"
                                  -> [ok |-> FALSE, entry |-> e]
      [] ~IsAnnounced(e)          -> [ok |-> TRUE,  entry |-> e]
      [] e.sigTime >= b.sigTime   -> [ok |-> FALSE, entry |-> e]
      [] ~IsBroadcastedWithin(e, MinMnb) ->
             [ok |-> TRUE, entry |-> Check(UpdateFromNewBroadcast(e, b, anchorOk, lockOk), b.vin, FALSE, lockOk)]
      [] OTHER                    -> [ok |-> TRUE,  entry |-> e]

\* CheckAndUpdate(nDos) of broadcast b against the entry e of its vin: the
\* verdict and the entry afterwards. The protocol version, signature and
\* port checks pass for a broadcast made by the owner's Create.
MnbCheckAndUpdate(e, b, anchorOk, lockOk) ==
    CASE b.sigTime > now + Window -> [ok |-> FALSE, entry |-> e]
      [] ~Present(e)              -> [ok |-> TRUE,  entry |-> e]
      [] Morag /\ ~PingSigTimeOk(e.ping) /\ e.state = "ENABLED"
                                  -> [ok |-> FALSE, entry |-> e]
      [] e.sigTime >= b.sigTime   -> [ok |-> FALSE, entry |-> e]
      [] ~IsAnnounced(e)          -> [ok |-> TRUE,  entry |-> e]
      [] ~IsBroadcastedWithin(e, MinMnb) ->
             [ok |-> TRUE, entry |-> Check(UpdateFromNewBroadcast(e, b, anchorOk, lockOk), b.vin, FALSE, lockOk)]
      [] OTHER                    -> [ok |-> TRUE,  entry |-> e]

\* The entry a broadcast creates: the copy CMasternode mn(*this) of the
\* deserialised broadcast, whose activeState is the constructor's
\* MASTERNODE_ENABLED (activeState is not serialised in a broadcast).
NewEntry(b) == [state |-> "ENABLED", sigTime |-> b.sigTime, ping |-> b.sigTime, checked |-> "never"]

\* Variant: the sigTime is not compared with the confirmation block.
CheckInputsAndAddNoSigTimeCheck(e, b, lockOk) ==
    CASE Present(e) /\ ~PingSigTimeOk(e.ping) /\ e.state = "ENABLED"
                                       -> [entry |-> e, retry |-> FALSE]
      [] Present(e) /\ IsAnnounced(e)  -> [entry |-> e, retry |-> FALSE]
      [] ~lockOk                       -> [entry |-> NoEntry, retry |-> TRUE]
      [] coll[b.vin] = "spent"         -> [entry |-> NoEntry, retry |-> FALSE]
      [] coll[b.vin] = "young"         -> [entry |-> NoEntry, retry |-> TRUE]
      [] OTHER                         -> [entry |-> NewEntry(b), retry |-> FALSE]

\* CheckInputsAndAdd(nDoS): the entry afterwards, and whether the broadcast
\* is erased from the seen maps to be checked again later. A known entry
\* that is not announced is removed before TRY_LOCK(cs_main).
CheckInputsAndAdd(e, b, lockOk) ==
    CASE Present(e) /\ ~PingSigTimeOk(e.ping) /\ e.state = "ENABLED"
                                       -> [entry |-> e, retry |-> FALSE]
      [] Present(e) /\ IsAnnounced(e)  -> [entry |-> e, retry |-> FALSE]
      [] ~lockOk                       -> [entry |-> NoEntry, retry |-> TRUE]
      [] coll[b.vin] = "spent"         -> [entry |-> NoEntry, retry |-> FALSE]
      [] coll[b.vin] = "young"         -> [entry |-> NoEntry, retry |-> TRUE]
      [] confTime[b.vin] > b.sigTime   -> [entry |-> NoEntry, retry |-> FALSE]
      [] OTHER                         -> [entry |-> NewEntry(b), retry |-> FALSE]

-----------------------------------------------------------------------------
Init ==
    /\ now = 0
    /\ epoch = 0
    /\ coll \in [MNs -> CollInit]
    /\ confTime = [m \in MNs |-> 0]
    /\ reg = [m \in MNs |-> NoEntry]
    /\ mnbs = {} /\ pings = {}
    /\ seen = {} /\ seenPing = {}

Tick ==
    /\ now < MaxTime
    /\ now' = now + 1
    /\ reg' = [m \in MNs |-> IF reg[m].checked = "now" THEN [reg[m] EXCEPT !.checked = "before"]
                             ELSE reg[m]]
    /\ UNCHANGED <<epoch, coll, confTime, mnbs, pings, seen, seenPing>>

\* The chain reaches the Morag, then the Xandar activation height.
AdvanceEpoch ==
    /\ epoch < 2
    /\ epoch' = epoch + 1
    /\ UNCHANGED <<now, coll, confTime, reg, mnbs, pings, seen, seenPing>>

\* The collateral transaction gets MASTERNODE_MIN_CONFIRMATIONS.
Mature(m) ==
    /\ coll[m] = "young"
    /\ coll' = [coll EXCEPT ![m] = "mature"]
    /\ confTime' = [confTime EXCEPT ![m] = now]
    /\ UNCHANGED <<now, epoch, reg, mnbs, pings, seen, seenPing>>

\* The owner spends the collateral.
Spend(m) ==
    /\ coll[m] # "spent"
    /\ coll' = [coll EXCEPT ![m] = "spent"]
    /\ UNCHANGED <<now, epoch, confTime, reg, mnbs, pings, seen, seenPing>>

\* CMasternodeBroadcast::Create: a ping and the broadcast carrying it, both
\* signed now.
CreateBroadcast(m) ==
    /\ coll[m] # "spent"
    /\ Cardinality(mnbs) < MaxMnb
    /\ mnbs' = mnbs \cup {[vin |-> m, sigTime |-> now]}
    /\ UNCHANGED <<now, epoch, coll, confTime, reg, pings, seen, seenPing>>

\* The started masternode signs a ping; anchorOk is whether its block (12
\* below the sender's tip) is on this node's chain within 24 blocks when
\* it arrives.
CreatePing(m) ==
    /\ \E b \in mnbs : b.vin = m
    /\ Cardinality(pings) < MaxPings
    /\ \E a \in BOOLEAN : pings' = pings \cup {[vin |-> m, sigTime |-> now, anchorOk |-> a]}
    /\ UNCHANGED <<now, epoch, coll, confTime, reg, mnbs, seen, seenPing>>

\* "mnb" message: a broadcast not in mapSeenMasternodeBroadcast is
\* recorded there, checked with CheckAndUpdate and, if that passes, with
\* CheckInputsAndAdd.
ReceiveBroadcast(b) ==
    /\ b \in mnbs \ seen
    /\ \E anchorOk, lockCheck, lockAdd \in BOOLEAN :
         LET cu == MnbCheckAndUpdate(reg[b.vin], b, anchorOk, lockCheck)
             ia == CheckInputsAndAdd(cu.entry, b, lockAdd)
         IN  /\ reg' = [reg EXCEPT ![b.vin] = IF cu.ok THEN ia.entry ELSE cu.entry]
             /\ seen' = IF cu.ok /\ ia.retry THEN seen ELSE seen \cup {b}
    /\ UNCHANGED <<now, epoch, coll, confTime, mnbs, pings, seenPing>>

\* "mnp" message: a ping not in mapSeenMasternodePing is recorded there
\* and checked with CheckAndUpdate(nDoS) (fRequireEnabled).
ReceivePing(p) ==
    /\ p \in pings \ seenPing
    /\ seenPing' = seenPing \cup {p}
    /\ \E lockOk \in BOOLEAN :
         reg' = [reg EXCEPT ![p.vin] =
                   IF Present(@) THEN PingUpdate(@, p.vin, p.sigTime, p.anchorOk, TRUE, lockOk)
                   ELSE @]
    /\ UNCHANGED <<now, epoch, coll, confTime, mnbs, pings, seen>>

\* CMasternodeMan::CheckAndRemove: Check the entry, then remove it with its
\* broadcast from the seen map if it is REMOVE or VIN_SPENT.
CheckAndRemove(m) ==
    /\ Present(reg[m])
    /\ \E lockOk \in BOOLEAN :
         LET e == Check(reg[m], m, FALSE, lockOk)
             gone == e.state \in {"REMOVE", "VIN_SPENT"}
         IN  /\ reg' = [reg EXCEPT ![m] = IF gone THEN NoEntry ELSE e]
             /\ seen' = IF gone THEN {b \in seen : b.vin # m \/ b.sigTime # reg[m].sigTime}
                        ELSE seen
    /\ UNCHANGED <<now, epoch, coll, confTime, mnbs, pings, seenPing>>

Next ==
    \/ Tick \/ AdvanceEpoch
    \/ \E m \in MNs : Mature(m) \/ Spend(m) \/ CreateBroadcast(m) \/ CreatePing(m)
                      \/ CheckAndRemove(m)
    \/ \E b \in mnbs : ReceiveBroadcast(b)
    \/ \E p \in pings : ReceivePing(p)

Spec == Init /\ [][Next]_vars

-----------------------------------------------------------------------------
(* Properties *)

Enabled(m) == reg[m].state = "ENABLED"

\* Rule 4 of Check, as kept across every handler: an entry that some Check
\* pass has seen is ENABLED only if its last ping is at least
\* MASTERNODE_MIN_MNP_SECONDS after its broadcast, although broadcasts
\* overwrite sigTime, pings arrive late and out of order, and Check is
\* throttled by lastTimeChecked.
WarmupBeforeEnabled ==
    \A m \in MNs : Enabled(m) /\ reg[m].checked # "never" => reg[m].ping - reg[m].sigTime >= MinMnp

\* No step of Check, a ping or a broadcast makes the entry of a spent
\* collateral ENABLED (Check's AcceptableInputs and CheckInputsAndAdd's
\* GetCoins are the only places the collateral is looked at).
NoEnableOnSpentCollateral ==
    [][\A m \in MNs : coll[m] = "spent" /\ Enabled(m)' => Enabled(m)]_vars

\* A known entry is only ever replaced by a strictly newer broadcast
\* (CheckAndUpdate: "this broadcast is older or equal than the one that we
\* already have"), even when CheckInputsAndAdd removes and re-adds it and
\* broadcasts arrive late and in any order.
BroadcastNewerOnly ==
    [][\A m \in MNs : Present(reg[m]) /\ Present(reg'[m]) => reg'[m].sigTime >= reg[m].sigTime]_vars

\* UNLOCKING is left only to a lapsed state or by a new broadcast
\* (RE_ENABLED): neither Check nor a ping makes an unlocking collateral
\* ENABLED again.
UnlockingSticky ==
    [][\A m \in MNs : reg[m].state = "UNLOCKING" /\ Present(reg'[m]) =>
          reg'[m].state \in {"UNLOCKING", "RE_ENABLED", "EXPIRED", "REMOVE", "VIN_SPENT"}]_vars

\* Pre-dating (spec 4.3, "Full insertion"): a registered entry's broadcast
\* is signed no earlier than the block at which its collateral got
\* MASTERNODE_MIN_CONFIRMATIONS, although a broadcast of a young collateral
\* is erased from the seen map and checked again once it has matured.
SignedAfterConfirmation ==
    \A m \in MNs : Present(reg[m]) => coll[m] # "young" /\ reg[m].sigTime >= confTime[m]

\* Ping acceptance (spec 4.3): a ping of the owner within the hour, with a
\* good block, at least MASTERNODE_MIN_MNP_SECONDS - 60 after the last one,
\* is accepted by an entry that has not lapsed; the spec's re-announcement
\* "resets trust level" from which pings bring the entry back.
DuePingAccepted ==
    [][\A p \in pings :
         LET e == reg[p.vin] IN
         /\ p \notin seenPing /\ p \in seenPing'
         /\ Present(e) /\ e.state \notin {"EXPIRED", "REMOVE", "VIN_SPENT"}
         /\ p.anchorOk /\ PingSigTimeOk(p.sigTime)
         /\ p.sigTime - e.ping >= MinMnp - Slack
         => reg'[p.vin].ping = p.sigTime]_vars

-----------------------------------------------------------------------------
(* Refinement of the lifecycle specification *)

\* The status an entry has in MasternodeLifecycle: the copy a broadcast
\* creates keeps the constructor's ENABLED until a ping warms it up.
AbsStatus(e) ==
    CASE e.state = "ENABLED" /\ e.ping - e.sigTime < MinMnp -> "admitted"
      [] e.state = "ENABLED"              -> "enabled"
      [] e.state = "PRE_ENABLED"          -> "warmup"
      [] e.state = "RE_ENABLED"           -> "reannounced"
      [] e.state = "UNLOCKING"            -> "unlocking"
      [] e.state \in {"EXPIRED", "REMOVE"} -> "lapsed"
      [] e.state = "VIN_SPENT"            -> "spent"

AbsEntry ==
    [m \in MNs |-> IF Present(reg[m])
                   THEN [status |-> AbsStatus(reg[m]), sigTime |-> reg[m].sigTime, ping |-> reg[m].ping]
                   ELSE [status |-> "none", sigTime |-> 0, ping |-> 0]]

Lifecycle == INSTANCE MasternodeLifecycle WITH entry <- AbsEntry

\* The list implements its lifecycle promises (MasternodeLifecycle): every
\* step of Check, of a broadcast (CheckAndUpdate then CheckInputsAndAdd,
\* with its removal before TRY_LOCK) and of a ping (CheckAndUpdate, whose
\* "arrived too early" test keeps lastPing moving forward when pings come
\* late and out of order) is a lifecycle step or leaves the entry alone.
LifecycleSpec == Lifecycle!Spec

=============================================================================
