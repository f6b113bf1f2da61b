------------------------------- MODULE SendMany -------------------------------
(***************************************************************************)
(* The z_sendmany operation of the wallet (AsyncRPCOperation_sendmany):   *)
(* the RPC queues an operation built from a request; a worker thread runs *)
(* main(), which selects inputs (FindSpendableInputs, LimitToAmount),     *)
(* runs the checks of main_impl, adds inputs to the transaction builder   *)
(* and hands the transaction to SendTransaction. Several operations may   *)
(* run at once and their inputs are not locked (note 3 of main_impl), so  *)
(* two of them may select the same coin.                                  *)
(*                                                                         *)
(* Amounts are small integers; the dust threshold is the constant Dust.   *)
(* A coin is a transparent output or a note, owned by one address.        *)
(* SendTransaction and the mempool are not in the repository: a           *)
(* transaction is refused when one of its inputs is already spent, or     *)
(* when its transparent change is dust (below Dust), as IsStandardTx does. *)
(***************************************************************************)
EXTENDS Integers, Sequences, FiniteSets, SequencesExt

CONSTANTS
    Ops,        \* operations queued by z_sendmany
    Coins,      \* the wallet's outputs and notes
    Owner,      \* Owner[c]: the address holding coin c
    Val,        \* Val[c]: its amount
    Coinbase,   \* the transparent coinbase outputs
    Pool,       \* Pool[a] \in {"t", "sprout", "sapling"}: the kind of address a
    AnyTaddr,   \* the ANY_TADDR payment source
    Dust,       \* DefaultDustThreshold()
    Requests    \* the requests z_sendmany may queue

VARIABLES
    req,        \* the request of each operation
    state,      \* OperationStatus of each operation
    ran,        \* operations a worker has taken off the queue
    tx,         \* the transaction main_impl built, before SendTransaction
    err,        \* the error an operation ended with
    spent       \* coins spent by committed transactions

vars == <<req, state, ran, tx, err, spent>>

Final   == {"success", "failed", "cancelled"}
NoTx    == [ins |-> <<>>, change |-> 0, tchange |-> FALSE]
Errors  == {"none", "dust_change", "insufficient", "insufficient_t", "insufficient_z",
            "coinbase_change", "coinbase_to_t", "rejected"}

-----------------------------------------------------------------------------
(* The request *)

\* isfromtaddr_: ANY_TADDR or a transparent address; otherwise a note pool.
FromT(r) == r.from = AnyTaddr \/ Pool[r.from] = "t"

TRecipients(r) == {x \in r.recipients : x.to = "t"}
Amounts(S) == MapThenSumSet(LAMBDA x : x.amount, S)

\* sendAmount + fee_
Target(r) == Amounts(r.recipients) + r.fee

\* The checks of the constructor: a request that fails them is refused by
\* z_sendmany and never queued.
Constructible(r) ==
    /\ r.recipients # {}
    /\ ~FromT(r) => r.minDepth > 0
    /\ \A x \in r.recipients : x.to # "sprout"
    /\ r.from # AnyTaddr /\ Pool[r.from] = "sprout" /\ r.recipients # TRecipients(r)
          => r.allowRevealed

\* Variant: coinbase also for ANY_TADDR.
AllowTransparentCoinbaseAnySource(r) == TRecipients(r) = {}

\* Coinbase is selected only from a single transparent address with no
\* transparent recipient.
AllowTransparentCoinbase(r) == r.from # AnyTaddr /\ TRecipients(r) = {}

\* The inputs the wallet offers: transparent outputs of the source (of any
\* transparent address for ANY_TADDR), or the notes of a shielded source.
\* Coins another running operation has selected are not excluded.
FindSpendableInputs(r) ==
    {c \in Coins \ spent :
        IF FromT(r)
        THEN /\ Pool[Owner[c]] = "t"
             /\ r.from = AnyTaddr \/ Owner[c] = r.from
             /\ c \in Coinbase => AllowTransparentCoinbase(r)
        ELSE Owner[c] = r.from}

-----------------------------------------------------------------------------
(* Input selection *)

RECURSIVE Total(_)
Total(s) == IF s = <<>> THEN 0 ELSE Val[Head(s)] + Total(Tail(s))

\* The orders std::sort may leave the inputs in: by value, largest first;
\* equal values in any order.
SortedOrders(S) ==
    {s \in SetToSeqs(S) : \A i \in 1 .. Len(s) - 1 : Val[s[i]] >= Val[s[i + 1]]}

\* The prefix of s that ends at the least index of ok; all of s when ok
\* is empty (the loop ran to the end).
ShortestPrefix(s, ok) == IF ok = {} THEN s ELSE SubSeq(s, 1, Min(ok))

\* haveSufficientFunds: exact, or change above the dust threshold.
Sufficient(total, required) == total = required \/ total - required > Dust

\* Only one pool is non-empty for a source, so the three loops of
\* LimitToAmount take a prefix of that pool in sorted order.
LimitToAmount(s, required) ==
    ShortestPrefix(s, {i \in 0 .. Len(s) : Sufficient(Total(SubSeq(s, 1, i)), required)})

HasTransparentCoinbase(s) == \E i \in DOMAIN s : s[i] \in Coinbase

\* The loops of main_impl that add the selected inputs to the builder:
\* each adds an input, then stops once the sum reaches the target.
BuilderInputs(s, target) ==
    ShortestPrefix(s, {i \in 1 .. Len(s) : Total(SubSeq(s, 1, i)) >= target})

\* The first throw of main_impl, in the order it reaches them; "none" when
\* the transaction is built.
FirstThrow(r, s) ==
    LET target == Target(r)
        total  == Total(s)
        change == total - target
    IN  IF ~Sufficient(total, target)
        THEN IF change > 0 /\ change < Dust THEN "dust_change" ELSE "insufficient"
        ELSE IF FromT(r) /\ total < target THEN "insufficient_t"
        ELSE IF ~FromT(r) /\ total < target THEN "insufficient_z"
        ELSE IF HasTransparentCoinbase(s) /\ total # target THEN "coinbase_change"
        ELSE IF HasTransparentCoinbase(s) /\ Amounts(TRecipients(r)) # 0
             THEN "coinbase_to_t"
        ELSE "none"

\* Variant: the fee, already part of the target, taken off the change again.
BuiltFeeTwice(r, s) ==
    LET ins == BuilderInputs(s, Target(r))
    IN  [ins |-> ins, change |-> Total(ins) - Target(r) - r.fee, tchange |-> FromT(r)]

\* The transaction the builder makes; change goes to a transparent
\* address when the source is transparent, to the source note address
\* otherwise.
Built(r, s) ==
    LET ins == BuilderInputs(s, Target(r))
    IN  [ins |-> ins, change |-> Total(ins) - Target(r), tchange |-> FromT(r)]

-----------------------------------------------------------------------------

Init ==
    /\ req \in [Ops -> {r \in Requests : Constructible(r)}]
    /\ state = [o \in Ops |-> "ready"]
    /\ ran = {}
    /\ tx = [o \in Ops |-> NoTx]
    /\ err = [o \in Ops |-> "none"]
    /\ spent = {}

\* AsyncRPCOperation::cancel: only an operation still waiting in the queue.
Cancel(o) ==
    /\ state[o] = "ready"
    /\ state' = [state EXCEPT ![o] = "cancelled"]
    /\ UNCHANGED <<req, ran, tx, err, spent>>

\* main() of a cancelled operation returns at once.
Skip(o) ==
    /\ o \notin ran /\ state[o] = "cancelled"
    /\ ran' = ran \cup {o}
    /\ UNCHANGED <<req, state, tx, err, spent>>

\* main() runs main_impl up to SendTransaction; a throw ends it FAILED.
Reject(o) ==
    /\ o \notin ran /\ state[o] = "ready"
    /\ \E s \in SortedOrders(FindSpendableInputs(req[o])) :
         LET e == FirstThrow(req[o], LimitToAmount(s, Target(req[o]))) IN
         /\ e # "none"
         /\ state' = [state EXCEPT ![o] = "failed"]
         /\ err' = [err EXCEPT ![o] = e]
    /\ ran' = ran \cup {o}
    /\ UNCHANGED <<req, tx, spent>>

\* ... or the checks pass and the transaction is built, EXECUTING.
Build(o) ==
    /\ o \notin ran /\ state[o] = "ready"
    /\ \E s \in SortedOrders(FindSpendableInputs(req[o])) :
         LET sel == LimitToAmount(s, Target(req[o])) IN
         /\ FirstThrow(req[o], sel) = "none"
         /\ tx' = [tx EXCEPT ![o] = Built(req[o], sel)]
    /\ state' = [state EXCEPT ![o] = "executing"]
    /\ ran' = ran \cup {o}
    /\ UNCHANGED <<req, err, spent>>

\* SendTransaction: the mempool refuses a conflicting or dust transaction.
Refused(t) ==
    \/ Range(t.ins) \cap spent # {}
    \/ t.tchange /\ t.change > 0 /\ t.change < Dust

SendAccepted(o) ==
    /\ state[o] = "executing" /\ ~Refused(tx[o])
    /\ spent' = spent \cup Range(tx[o].ins)
    /\ state' = [state EXCEPT ![o] = "success"]
    /\ UNCHANGED <<req, ran, tx, err>>

\* Variant: a refused transaction leaves the operation EXECUTING.
SendRejectedNoFinalState(o) ==
    /\ state[o] = "executing" /\ Refused(tx[o])
    /\ err' = [err EXCEPT ![o] = "rejected"]
    /\ UNCHANGED <<req, state, ran, tx, spent>>

SendRejected(o) ==
    /\ state[o] = "executing" /\ Refused(tx[o])
    /\ state' = [state EXCEPT ![o] = "failed"]
    /\ err' = [err EXCEPT ![o] = "rejected"]
    /\ UNCHANGED <<req, ran, tx, spent>>

Run(o)  == Skip(o) \/ Reject(o) \/ Build(o)
Send(o) == SendAccepted(o) \/ SendRejected(o)

\* What the worker threads of the RPC queue do.
Work == \E o \in Ops : Run(o) \/ Send(o)

Next == Work \/ \E o \in Ops : Cancel(o)

Spec == Init /\ [][Next]_vars

\* The worker threads never stop while an operation waits or runs.
FairSpec == Spec /\ WF_vars(Work)

-----------------------------------------------------------------------------
(* Properties *)

TypeOK ==
    /\ req \in [Ops -> Requests]
    /\ state \in [Ops -> {"ready", "executing"} \cup Final]
    /\ ran \subseteq Ops
    /\ tx \in [Ops -> [ins : Seq(Coins), change : Nat, tchange : BOOLEAN]]
    /\ err \in [Ops -> Errors]
    /\ spent \subseteq Coins

\* A committed transaction that spends a transparent coinbase output comes
\* from a single transparent address, pays no transparent recipient and
\* leaves no change: what allowTransparentCoinbase and the coinbase checks
\* of main_impl enforce on the inputs LimitToAmount selected, although the
\* builder loops add only a prefix of them.
CoinbaseOnlyShielded ==
    \A o \in Ops :
        state[o] = "success" /\ HasTransparentCoinbase(tx[o].ins)
            => /\ req[o].from # AnyTaddr
               /\ TRecipients(req[o]) = {}
               /\ tx[o].change = 0

\* Every queued operation ends, SUCCESS, FAILED or CANCELLED, once the
\* worker threads run it: main() sets a final state on every path.
EveryOperationEnds == \A o \in Ops : <>(o \in ran /\ state[o] \in Final)

\* SendTransaction refuses an operation's transaction only because another
\* operation has spent one of its inputs (note 3 of main_impl): the
\* selection of LimitToAmount, whose comment says it avoids change below the
\* dust threshold, never makes the mempool refuse dust change.
RejectedOnlyOnConflict ==
    \A o \in Ops : err[o] = "rejected" => Range(tx[o].ins) \cap spent # {}

=============================================================================
