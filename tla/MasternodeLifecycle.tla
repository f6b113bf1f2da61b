-------------------------- MODULE MasternodeLifecycle --------------------------
(***************************************************************************)
(* What the masternode list of one node promises about the entry of each   *)
(* collateral, whatever the order in which broadcasts, pings and Check     *)
(* passes reach it. An entry has a status, the sigTime of the broadcast it *)
(* was made from and the sigTime of its last ping. The environment (clock, *)
(* epochs, collateral, messages signed by the owner) is the one of the     *)
(* Masternode module; this module only says how entries may change:        *)
(*   - an entry is admitted from a sent broadcast of a matured collateral  *)
(*     signed no earlier than its confirmation;                            *)
(*   - it is superseded only by a strictly newer sent broadcast, and its   *)
(*     last ping only moves forward by at least the minimum ping interval; *)
(*   - its status is re-evaluated by the rules of Verdict;                 *)
(*   - it disappears only when pruned (lapsed past removal, or spent) or   *)
(*     when a strictly newer broadcast replaces it.                        *)
(* The Masternode module implements this specification (the refinement     *)
(* LifecycleSpec there).                                                   *)
(***************************************************************************)
EXTENDS Integers

CONSTANTS MNs, MinMnp, Slack, Expiration, Removal, LockTime

VARIABLES now, epoch, coll, confTime, mnbs, pings, entry

env == <<now, epoch, coll, confTime, mnbs, pings>>
vars == <<env, entry>>

\* "admitted" is the copy a broadcast creates, ENABLED before any
\* evaluation; "warmup" is PRE_ENABLED; "reannounced" is an announced
\* entry a newer broadcast reached under Xandar; "lapsed" is EXPIRED or
\* REMOVE; "spent" is VIN_SPENT.
Statuses == {"admitted", "warmup", "enabled", "reannounced", "unlocking",
             "lapsed", "spent"}

Absent == [status |-> "none", sigTime |-> 0, ping |-> 0]

Known(m) == entry[m].status # "none"

ExpiryAt  == IF epoch = 2 THEN Expiration + LockTime ELSE Expiration
RemovalAt == IF epoch = 2 THEN Removal + LockTime ELSE Removal

\* Pinged within the expiration time, and pinged long enough after the
\* broadcast to have finished warming up.
Live(e) == now - e.ping < ExpiryAt
Warm(e) == e.ping - e.sigTime >= MinMnp

\* An evaluation that keeps the status: Check throttled or TRY_LOCK failed;
\* the admitted copy is ENABLED already, so it stays "enabled".
Kept(e, s) == s = e.status \/ (e.status = "admitted" /\ s = "enabled" /\ Warm(e))

\* The statuses s an evaluation may give the entry e of collateral m.
Verdict(m, e, s) ==
    /\ s \in Statuses
    /\ e.status = "spent" => s = "spent"
    /\ s = "spent" => coll[m] = "spent"
    /\ ~Live(e) => s \in {"lapsed", "spent"}
    /\ \/ Kept(e, s)
       \/ /\ s \notin {"admitted", "reannounced"}
          /\ s = "lapsed" => ~Live(e)
          /\ s = "warmup" => ~Warm(e)
          /\ s \in {"enabled", "unlocking"} => Warm(e) /\ coll[m] # "spent"
          /\ s = "enabled" => e.status # "unlocking"
          /\ s = "unlocking" => epoch = 2

\* The entry broadcast b makes, if its collateral may be admitted.
Admissible(b) == coll[b.vin] = "mature" /\ b.sigTime >= confTime[b.vin]
Admitted(b) == [status |-> "admitted", sigTime |-> b.sigTime, ping |-> b.sigTime]

Init == entry = [m \in MNs |-> Absent]

-----------------------------------------------------------------------------
(* The environment: the clock, the epochs, the collateral outputs and the  *)
(* messages the owners sign may change in any way in a step that leaves    *)
(* the list alone; the list's promises hold whatever they do.              *)

Environment == UNCHANGED entry

-----------------------------------------------------------------------------
(* The list *)

Admit(m) ==
    /\ ~Known(m)
    /\ \E b \in mnbs : b.vin = m /\ Admissible(b) /\ entry' = [entry EXCEPT ![m] = Admitted(b)]
    /\ UNCHANGED env

\* A strictly newer broadcast replaces the entry by its own, or only
\* removes it when its collateral cannot be admitted (yet).
Replace(m) ==
    /\ Known(m)
    /\ \E b \in mnbs :
         /\ b.vin = m /\ b.sigTime > entry[m].sigTime
         /\ \/ entry' = [entry EXCEPT ![m] = Absent]
            \/ Admissible(b) /\ entry' = [entry EXCEPT ![m] = Admitted(b)]
    /\ UNCHANGED env

\* A strictly newer broadcast updates an announced entry in place; the
\* ping it carries counts only if due; the entry is then re-evaluated as
\* "reannounced" under Xandar.
Supersede(m) ==
    /\ entry[m].status \in {"admitted", "enabled", "reannounced", "unlocking"}
    /\ \E b \in mnbs : \E ping \in {entry[m].ping, b.sigTime}, s \in Statuses :
         LET e  == entry[m]
             e2 == [e EXCEPT !.sigTime = b.sigTime, !.ping = ping,
                             !.status = IF epoch = 2 THEN "reannounced" ELSE e.status]
         IN  /\ b.vin = m /\ b.sigTime > e.sigTime
             /\ ping = e.ping \/ ping - e.ping >= MinMnp - Slack
             /\ Verdict(m, e2, s)
             /\ entry' = [entry EXCEPT ![m] = [e2 EXCEPT !.status = s]]
    /\ UNCHANGED env

\* A due ping with a good block moves the last ping of an entry that is
\* available (warmup or enabled) forward; the entry is re-evaluated.
Ping(m) ==
    /\ entry[m].status \in {"admitted", "warmup", "enabled"}
    /\ \E p \in pings, s \in Statuses :
         LET e2 == [entry[m] EXCEPT !.ping = p.sigTime] IN
         /\ p.vin = m /\ p.anchorOk
         /\ p.sigTime - entry[m].ping >= MinMnp - Slack
         /\ Verdict(m, e2, s)
         /\ entry' = [entry EXCEPT ![m] = [e2 EXCEPT !.status = s]]
    /\ UNCHANGED env

Evaluate(m) ==
    /\ Known(m)
    /\ \E s \in Statuses :
         /\ Verdict(m, entry[m], s)
         /\ entry' = [entry EXCEPT ![m].status = s]
    /\ UNCHANGED env

\* Pruning: an entry is dropped only when not pinged within the removal
\* time or when its collateral is spent.
Drop(m) ==
    /\ Known(m)
    /\ now - entry[m].ping >= RemovalAt \/ coll[m] = "spent"
    /\ entry' = [entry EXCEPT ![m] = Absent]
    /\ UNCHANGED env

Next ==
    \/ Environment
    \/ \E m \in MNs : Admit(m) \/ Replace(m) \/ Supersede(m) \/ Ping(m) \/ Evaluate(m) \/ Drop(m)

Spec == Init /\ [][Next]_vars

=============================================================================
