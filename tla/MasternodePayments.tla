------------------------- MODULE MasternodePayments -------------------------
(***************************************************************************)
(* The payment-winner vote ledger of one node (src/masternode-payments.cpp)*)
(* and the actors that touch it concurrently:                              *)
(*   - message-handler threads running the "mnw" branch of                 *)
(*     ProcessMessageMasternodePayments, each one a sequence of three      *)
(*     atomic steps (checks + CanVote, the locked half of                  *)
(*     AddWinningMasternode, then the unlocked AddPayee);                  *)
(*   - the block thread: a new tip followed by ProcessBlock(tip+VoteAhead),*)
(*     which signs this node's own vote and feeds it to the same ledger;   *)
(*   - the maintenance thread running CleanPaymentList;                    *)
(*   - shutdown (DumpMasternodePayments) and startup (CMasternodePaymentDB *)
(*     ::Read), including a crash before or in the middle of the dump;     *)
(*   - the network: remote masternodes signing votes (possibly two         *)
(*     conflicting ones for one height) and anyone relaying a vote with a  *)
(*     bad signature.                                                      *)
(* The masternode registry is an environment here: which masternodes are   *)
(* ENABLED changes arbitrarily (ChurnRegistry).                            *)
(***************************************************************************)
EXTENDS Integers, FiniteSets, FiniteSetsExt, Functions, TLC

CONSTANTS
    Masternodes,        \* collateral outpoints of the known masternodes
    Equivocators,       \* remote masternodes that may sign two payees for a height
    Me,                 \* this node's own masternode (fMasterNode is set)
    Payees,             \* payee scripts a vote can name
    NoPayee,            \* the empty CScript of a winner with no payee
    Handlers,           \* message-handler threads
    BlockThread,        \* the thread that connects blocks
    SignaturesRequired, \* MNPAYMENTS_SIGNATURES_REQUIRED
    SignaturesTotal,    \* MNPAYMENTS_SIGNATURES_TOTAL
    Lookahead,          \* mnw accepted up to nHeight + 20
    VoteAhead,          \* ProcessBlock is called for tip + 10
    KeepFloor,          \* CleanPaymentList keeps at least 1000 blocks
    MaxTip,             \* bound: highest chain tip explored
    MaxMsgs,            \* bound: votes put on the network
    MaxRestarts,        \* bound: node restarts
    FailedStarts,       \* whether a start may fail in AppInit2 before Step 10
    MaxLag              \* blocks the tip may advance while a handler is busy

\* Score(m, h): the deterministic score of masternode m for height h
\* (CalculateScore); distinct masternodes have distinct scores.
CONSTANT Score(_, _)

ASSUME /\ Me \in Masternodes
       /\ Equivocators \subseteq Masternodes \ {Me}
       /\ NoPayee \notin Payees
       /\ BlockThread \notin Handlers
       /\ SignaturesRequired \in Nat /\ SignaturesTotal \in Nat
       /\ {Lookahead, VoteAhead, KeepFloor, MaxTip, MaxMsgs, MaxRestarts, MaxLag} \subseteq Nat
       /\ FailedStarts \in BOOLEAN

VARIABLES
    tip,          \* chainActive.Height()
    enabled,      \* masternodes currently ENABLED in the registry
    msgs,         \* mnw messages available from peers
    votes,        \* mapMasternodePayeeVotes (a vote is its own hash)
    blocks,       \* mapMasternodeBlocks: height -> payee -> nVotes
    lastVotes,    \* the (voter, height) pairs CanVote has recorded
    th,           \* per-thread program counter and locals
    nLastBlockHeight, \* CMasternodePayments::nLastBlockHeight
    disk,         \* contents of mnpayments.dat
    restarts,     \* number of restarts so far
    accepted,     \* history: every vote ever inserted in the ledger
    shadowed      \* history: validly signed votes CanVote refused

vars == <<tip, enabled, msgs, votes, blocks, lastVotes, th, nLastBlockHeight,
          disk, restarts, accepted, shadowed>>

Threads  == Handlers \cup {BlockThread}
Heights  == 0 .. MaxTip + Lookahead + VoteAhead
AnyPayee == Payees \cup {NoPayee}
Vote     == [voter : Masternodes, height : Heights, payee : AnyPayee]
Msg      == [voter : Masternodes, height : Heights, payee : AnyPayee, sig : BOOLEAN]
Tally    == [AnyPayee -> Nat]
NoTally  == [p \in AnyPayee |-> 0]

\* The vote a message carries; its hash is (payee, height, voter) and does
\* not cover the signature (CMasternodePaymentWinner::GetHash).
VoteOf(m) == [voter |-> m.voter, height |-> m.height, payee |-> m.payee]

\* CountEnabled() * 1.25 truncated to int, as in the mnw range check.
CountEnabledScaled == (Cardinality(enabled) * 5) \div 4

\* GetMasternodeRank(vin, h): 1-based position of m by ascending score.
Rank(m, h) == 1 + Cardinality({x \in Masternodes : Score(x, h) < Score(m, h)})

\* CMasternodePaymentWinner::IsValid: the voter must rank within the top
\* SignaturesTotal (ranks beyond 2*SignaturesTotal are only logged louder).
IsValid(v, h) == Rank(v, h) <= SignaturesTotal

\* The mnw range check: [nHeight - CountEnabled*1.25, nHeight + 20].
InRange(h, nHeight) == /\ h >= nHeight - CountEnabledScaled
                       /\ h <= nHeight + Lookahead

\* CleanPaymentList's retention: max(mnodeman.size() * 1.25, 1000).
CleanLimit == LET s == (Cardinality(Masternodes) * 5) \div 4
              IN  IF s > KeepFloor THEN s ELSE KeepFloor

\* Votes CleanPaymentList keeps at chain height n.
Retained(vs, n) == {w \in vs : n - w.height <= CleanLimit}

\* mapMasternodeBlocks after erasing the heights of every dropped vote.
EraseHeights(bs, dropped) ==
    Restrict(bs, DOMAIN bs \ {w.height : w \in dropped})

\* CMasternodeBlockPayees::AddPayee(payee, 1) through operator[]: a
\* missing height is default-constructed first.
AddPayee(bs, h, p) ==
    LET old == IF h \in DOMAIN bs THEN bs[h] ELSE NoTally
    IN  [x \in DOMAIN bs \cup {h} |-> IF x = h THEN [old EXCEPT ![p] = @ + 1]
                                               ELSE bs[x]]

Idle == [pc |-> "idle", vote |-> [voter |-> Me, height |-> 0, payee |-> NoPayee],
         nHeight |-> 0, target |-> 0]

\* mnpayments.dat absent, or cut short by a crash while being written.
NoFile == [kind |-> "none", votes |-> {}, blocks |-> [h \in {} |-> NoTally]]
TornFile == [NoFile EXCEPT !.kind = "torn"]

-----------------------------------------------------------------------------
Init ==
    /\ tip = 1
    /\ enabled \in SUBSET Masternodes
    /\ msgs = {}
    /\ votes = {}
    /\ blocks = [h \in {} |-> NoTally]
    /\ lastVotes = {}
    /\ th = [t \in Threads |-> Idle]
    /\ nLastBlockHeight = 0
    /\ disk = NoFile
    /\ restarts = 0
    /\ accepted = {}
    /\ shadowed = {}

\* A remote masternode signs a vote, or any peer relays a vote whose
\* signature does not verify. Nothing stops a remote voter from signing two
\* different payees for one height.
Gossip(m) ==
    /\ Cardinality(msgs) < MaxMsgs
    /\ m.voter # Me /\ m.payee # NoPayee
    /\ m.height \in 1 .. tip + Lookahead
    /\ m \notin msgs
    /\ m.sig /\ m.voter \notin Equivocators =>
          ~\E x \in msgs : x.sig /\ x.voter = m.voter /\ x.height = m.height
    /\ msgs' = msgs \cup {m}
    /\ UNCHANGED <<tip, enabled, votes, blocks, lastVotes, th, nLastBlockHeight,
                   disk, restarts, accepted, shadowed>>

\* The checks of the mnw handler that pass before the signature check:
\* not already seen, in range, IsValid, CanVote (which records the vote).
PassesChecks(m) ==
    /\ VoteOf(m) \notin votes
    /\ InRange(m.height, tip)
    /\ IsValid(m.voter, m.height)

\* CanVote(outpoint, height): refuses a second vote of a voter for a
\* height, otherwise records this one.
CanVote(v, h) == <<v, h>> \notin lastVotes

\* Variant: the handler goes on to AddWinningMasternode without asking
\* CanVote whether the voter already voted for the height.
ReceiveVoteNoCanVote(t, m) ==
    /\ th[t].pc = "idle"
    /\ m \in msgs /\ m.sig
    /\ PassesChecks(m)
    /\ lastVotes' = lastVotes \cup {<<m.voter, m.height>>}
    /\ th' = [th EXCEPT ![t] = [pc |-> "insert", vote |-> VoteOf(m),
                                nHeight |-> tip, target |-> m.height]]
    /\ UNCHANGED <<tip, enabled, msgs, votes, blocks, nLastBlockHeight, disk,
                   restarts, accepted, shadowed>>

\* mnw with a good signature: checks pass, CanVote records the vote, and
\* AddWinningMasternode is entered.
ReceiveVote(t, m) ==
    /\ th[t].pc = "idle"
    /\ m \in msgs /\ m.sig
    /\ PassesChecks(m)
    /\ CanVote(m.voter, m.height)
    /\ lastVotes' = lastVotes \cup {<<m.voter, m.height>>}
    /\ th' = [th EXCEPT ![t] = [pc |-> "insert", vote |-> VoteOf(m),
                                nHeight |-> tip, target |-> m.height]]
    /\ UNCHANGED <<tip, enabled, msgs, votes, blocks, nLastBlockHeight, disk,
                   restarts, accepted, shadowed>>

\* mnw with a bad signature: CanVote has already recorded the voter for
\* the height when CheckSignature fails and the message is dropped.
ReceiveBadSignature(t, m) ==
    /\ th[t].pc = "idle"
    /\ m \in msgs /\ ~m.sig
    /\ PassesChecks(m)
    /\ CanVote(m.voter, m.height)
    /\ lastVotes' = lastVotes \cup {<<m.voter, m.height>>}
    /\ UNCHANGED <<tip, enabled, msgs, votes, blocks, th, nLastBlockHeight,
                   disk, restarts, accepted, shadowed>>

\* mnw whose CanVote fails: "masternode already voted".
ReceiveDoubleVote(t, m) ==
    /\ th[t].pc = "idle"
    /\ m \in msgs
    /\ PassesChecks(m)
    /\ ~CanVote(m.voter, m.height)
    /\ m.sig /\ m \notin shadowed
    /\ shadowed' = shadowed \cup {m}
    /\ UNCHANGED <<tip, enabled, msgs, votes, blocks, lastVotes, th,
                   nLastBlockHeight, disk, restarts, accepted>>

\* Variant: the height's entry is (re)constructed on every insert,
\* discarding the counts already there.
InsertVoteReset(t) ==
    LET w == th[t].vote IN
    /\ th[t].pc = "insert"
    /\ IF w \in votes
       THEN /\ th' = [th EXCEPT ![t] = Idle]
            /\ UNCHANGED <<votes, blocks, accepted>>
       ELSE /\ votes' = votes \cup {w}
            /\ accepted' = accepted \cup {w}
            /\ blocks' = (w.height :> NoTally) @@ blocks
            /\ th' = [th EXCEPT ![t].pc = "tally"]
    /\ UNCHANGED <<tip, enabled, msgs, lastVotes, nLastBlockHeight, disk,
                   restarts, shadowed>>

\* The half of AddWinningMasternode under LOCK2(cs_mapMasternodeBlocks,
\* cs_mapMasternodePayeeVotes): store the vote, create the height's entry.
InsertVote(t) ==
    LET w == th[t].vote IN
    /\ th[t].pc = "insert"
    /\ IF w \in votes
       THEN /\ th' = [th EXCEPT ![t] = Idle]
            /\ UNCHANGED <<votes, blocks, accepted>>
       ELSE /\ votes' = votes \cup {w}
            /\ accepted' = accepted \cup {w}
            /\ blocks' = IF w.height \in DOMAIN blocks THEN blocks
                         ELSE blocks @@ (w.height :> NoTally)
            /\ th' = [th EXCEPT ![t].pc = "tally"]
    /\ UNCHANGED <<tip, enabled, msgs, lastVotes, nLastBlockHeight, disk,
                   restarts, shadowed>>

\* Variant: nLastBlockHeight records the voted height shifted by the
\* lookahead a second time.
TallyVoteShifted(t) ==
    LET w == th[t].vote IN
    /\ th[t].pc = "tally"
    /\ blocks' = AddPayee(blocks, w.height, w.payee)
    /\ th' = [th EXCEPT ![t] = Idle]
    /\ IF t = BlockThread
       THEN /\ nLastBlockHeight' = th[t].target + VoteAhead
            /\ msgs' = msgs \cup {[voter |-> w.voter, height |-> w.height,
                                   payee |-> w.payee, sig |-> TRUE]}
       ELSE UNCHANGED <<nLastBlockHeight, msgs>>
    /\ UNCHANGED <<tip, enabled, votes, lastVotes, disk, restarts, accepted,
                   shadowed>>

\* The rest of AddWinningMasternode, outside the lock, and what its caller
\* does on success: the mnw handler relays; ProcessBlock relays and sets
\* nLastBlockHeight.
TallyVote(t) ==
    LET w == th[t].vote IN
    /\ th[t].pc = "tally"
    /\ blocks' = AddPayee(blocks, w.height, w.payee)
    /\ th' = [th EXCEPT ![t] = Idle]
    /\ IF t = BlockThread
       THEN /\ nLastBlockHeight' = th[t].target
            /\ msgs' = msgs \cup {[voter |-> w.voter, height |-> w.height,
                                   payee |-> w.payee, sig |-> TRUE]}
       ELSE UNCHANGED <<nLastBlockHeight, msgs>>
    /\ UNCHANGED <<tip, enabled, votes, lastVotes, disk, restarts, accepted,
                   shadowed>>

\* A new block is connected; the block thread then runs ProcessBlock. The
\* tip cannot run more than MaxLag blocks past a handler's nHeight.
AdvanceTip ==
    /\ th[BlockThread].pc = "idle"
    /\ tip < MaxTip
    /\ \A t \in Handlers : th[t].pc # "idle" => tip + 1 - th[t].nHeight <= MaxLag
    /\ tip' = tip + 1
    /\ th' = [th EXCEPT ![BlockThread].pc = "process"]
    /\ UNCHANGED <<enabled, msgs, votes, blocks, lastVotes, nLastBlockHeight,
                   disk, restarts, accepted, shadowed>>

\* CMasternodePayments::ProcessBlock(tip + VoteAhead), early returns: not
\* in the top SignaturesTotal, or already voted that high. (The returns on
\* a failed GetKeysFromSecret or Sign, which a configured masternode
\* private key does not take, and rank -1 for a vin missing from the
\* list are not modelled.)
ProcessBlockSkip ==
    LET h == tip + VoteAhead IN
    /\ th[BlockThread].pc = "process"
    /\ ~IsValid(Me, h) \/ h <= nLastBlockHeight
    /\ th' = [th EXCEPT ![BlockThread] = Idle]
    /\ UNCHANGED <<tip, enabled, msgs, votes, blocks, lastVotes,
                   nLastBlockHeight, disk, restarts, accepted, shadowed>>

\* ProcessBlock picks the next masternode in the payment queue; when there
\* is none, newWinner keeps nBlockHeight 0 and an empty payee, and is still
\* signed and handed to AddWinningMasternode.
ProcessBlock(p) ==
    LET h == tip + VoteAhead
        w == IF p = NoPayee THEN [voter |-> Me, height |-> 0, payee |-> NoPayee]
             ELSE [voter |-> Me, height |-> h, payee |-> p]
    IN
    /\ th[BlockThread].pc = "process"
    /\ IsValid(Me, h) /\ h > nLastBlockHeight
    /\ th' = [th EXCEPT ![BlockThread] = [pc |-> "insert", vote |-> w,
                                          nHeight |-> tip, target |-> h]]
    /\ UNCHANGED <<tip, enabled, msgs, votes, blocks, lastVotes,
                   nLastBlockHeight, disk, restarts, accepted, shadowed>>

\* CleanPaymentList: drop votes older than the retention limit and the
\* whole entry of each of their heights.
CleanPaymentList ==
    LET kept    == Retained(votes, tip)
        dropped == votes \ kept
    IN
    /\ dropped # {}
    /\ votes' = kept
    /\ blocks' = EraseHeights(blocks, dropped)
    /\ UNCHANGED <<tip, enabled, msgs, lastVotes, th, nLastBlockHeight, disk,
                   restarts, accepted, shadowed>>

\* The registry's own transitions change which masternodes are ENABLED.
ChurnRegistry(m) ==
    /\ enabled' = IF m \in enabled THEN enabled \ {m} ELSE enabled \cup {m}
    /\ UNCHANGED <<tip, msgs, votes, blocks, lastVotes, th, nLastBlockHeight,
                   disk, restarts, accepted, shadowed>>

-----------------------------------------------------------------------------
(* Persistence. mnpayments.dat holds a snapshot of both maps ("ok"), does *)
(* not exist ("none"), or was cut short by a crash while being written     *)
(* ("torn"): Read then reports IncorrectHash or HashReadError.             *)

\* DumpMasternodePayments: a dry Read first; on FileError or Ok the ledger
\* is written, on IncorrectHash/HashReadError ("file format is unknown or
\* invalid, please fix it manually") it returns without writing.
DumpWrites(d) == d.kind \in {"none", "ok"}

\* Variant: a Write that serialises the vote map only.
SnapshotVotesOnly == [kind |-> "ok", votes |-> votes, blocks |-> NoFile.blocks]

\* CMasternodePaymentDB::Write: magic, network, both maps, checksum.
Snapshot == [kind |-> "ok", votes |-> votes, blocks |-> blocks]

\* CMasternodePaymentDB::Read at startup: on Ok the maps are loaded and
\* CleanPaymentList runs; on any error the ledger stays empty.
LoadVotes(d)  == IF d.kind = "ok" THEN Retained(d.votes, tip) ELSE {}
LoadBlocks(d) == IF d.kind = "ok"
                 THEN EraseHeights(d.blocks, d.votes \ Retained(d.votes, tip))
                 ELSE NoFile.blocks

\* A start whose AppInit2 returns false before Step 10 (the block or wallet
\* database fails to load, ...) never loads the payment cache, but the
\* Shutdown that follows still runs DumpMasternodePayments, over the empty
\* CMasternodePayments of that process.
FailedStartDump(d) ==
    IF DumpWrites(d) THEN [kind |-> "ok", votes |-> {}, blocks |-> NoFile.blocks] ELSE d

\* Shutdown and restart. "clean": threads have stopped, the dump runs.
\* "torn": the dump starts writing and the process dies mid-write.
\* "killed": the process dies before the dump (or fopen fails).
\* failed: one start fails before Step 10 before the start that succeeds.
\* Everything not in mnpayments.dat starts afresh: CanVote's record,
\* nLastBlockHeight, the threads.
Restart(kind, failed) ==
    LET d0 == CASE kind = "clean"  -> IF DumpWrites(disk) THEN Snapshot ELSE disk
                [] kind = "torn"   -> TornFile
                [] kind = "killed" -> disk
        d  == IF failed THEN FailedStartDump(d0) ELSE d0
    IN
    /\ restarts < MaxRestarts
    /\ kind = "clean" => \A t \in Threads : th[t].pc = "idle"
    /\ kind = "torn" => DumpWrites(disk)
    /\ failed => FailedStarts
    /\ disk' = d
    /\ votes' = LoadVotes(d)
    /\ blocks' = LoadBlocks(d)
    /\ lastVotes' = {}
    /\ th' = [t \in Threads |-> Idle]
    /\ nLastBlockHeight' = 0
    /\ restarts' = restarts + 1
    /\ UNCHANGED <<tip, enabled, msgs, accepted, shadowed>>

-----------------------------------------------------------------------------
Next ==
    \/ \E m \in Msg : Gossip(m)
    \/ \E t \in Handlers, m \in msgs : ReceiveVote(t, m)
    \/ \E t \in Handlers, m \in msgs : ReceiveBadSignature(t, m)
    \/ \E t \in Handlers, m \in msgs : ReceiveDoubleVote(t, m)
    \/ \E t \in Threads : InsertVote(t)
    \/ \E t \in Threads : TallyVote(t)
    \/ AdvanceTip
    \/ ProcessBlockSkip
    \/ \E p \in AnyPayee : ProcessBlock(p)
    \/ CleanPaymentList
    \/ \E m \in Masternodes : ChurnRegistry(m)
    \/ \E k \in {"clean", "torn", "killed"}, f \in BOOLEAN : Restart(k, f)

Spec == Init /\ [][Next]_vars

-----------------------------------------------------------------------------
(* Payouts. A coinbase is abstracted to the set of payee scripts it pays  *)
(* at least GetMasternodePayment(h, GetBlockSubsidy(h)); an output that    *)
(* pays less never sets "found". The budget (superblock) branch is not     *)
(* modelled: its code is not part of the repository.                      *)

\* CMasternodeBlockPayees::GetPayee: a payee with the most votes (the
\* first such in vecPayments, an order the ledger does not keep), or
\* none when vecPayments is still empty.
GetPayee(h) ==
    LET t == blocks[h]
        listed == {p \in AnyPayee : t[p] > 0}
    IN  {p \in listed : \A q \in listed : t[q] <= t[p]}

\* Variant: the second loop of IsTransactionValid asks for more than
\* MNPAYMENTS_SIGNATURES_REQUIRED votes.
IsTransactionValidStrict(h, paid) ==
    LET t == blocks[h]
        nMax == Max({0} \cup {t[p] : p \in {q \in AnyPayee : t[q] >= SignaturesRequired}})
    IN  \/ h \notin DOMAIN blocks
        \/ nMax < SignaturesRequired
        \/ \E p \in AnyPayee : t[p] > SignaturesRequired /\ p \in paid

\* CMasternodePayments::IsTransactionValid and CMasternodeBlockPayees::
\* IsTransactionValid: no entry for the height, or no payee with
\* MNPAYMENTS_SIGNATURES_REQUIRED votes, accepts any coinbase; otherwise
\* one such payee must be paid in full.
IsTransactionValid(h, paid) ==
    LET t == blocks[h]
        nMax == Max({0} \cup {t[p] : p \in {q \in AnyPayee : t[q] >= SignaturesRequired}})
    IN  \/ h \notin DOMAIN blocks
        \/ nMax < SignaturesRequired
        \/ \E p \in AnyPayee : t[p] >= SignaturesRequired /\ p \in paid

\* IsBlockPayeeValid with SPORK_13 off: a node that is not synced accepts;
\* an invalid masternode payment is refused before Morag under SPORK_8,
\* and under SPORK_19 at any height.
IsBlockPayeeValid(h, paid, synced, morag, spork8, spork19) ==
    \/ ~synced
    \/ IsTransactionValid(h, paid)
    \/ ~(~morag /\ spork8) /\ ~spork19

\* CMasternodePayments::FillBlockPayee for the block at height h = tip + 1:
\* the payee sets the coinbase may get. GetBlockPayee's payee if the
\* height has one; otherwise GetCurrentMasterNode(1)'s, any payee, or no
\* masternode output at all (hasPayment = false).
FillBlockPayee(h) ==
    IF h \in DOMAIN blocks /\ GetPayee(h) # {}
    THEN {{p} : p \in GetPayee(h)}
    ELSE {{p} : p \in Payees} \cup {{}}

-----------------------------------------------------------------------------
(* Properties *)

TypeOK ==
    /\ tip \in 1 .. MaxTip
    /\ enabled \subseteq Masternodes
    /\ msgs \subseteq Msg
    /\ votes \subseteq Vote
    /\ \A h \in DOMAIN blocks : h \in Heights /\ blocks[h] \in Tally
    /\ lastVotes \subseteq Masternodes \X Heights
    /\ \A t \in Threads : th[t].pc \in {"idle", "insert", "tally", "process"}
    /\ nLastBlockHeight \in 0 .. MaxTip + VoteAhead
    /\ restarts \in 0 .. MaxRestarts
    /\ disk.kind \in {"none", "torn", "ok"} /\ disk.votes \subseteq Vote

\* One vote per voter per height within one run of the node: the ledger
\* never holds two votes of one masternode for one height, although an
\* equivocating masternode signs two payees for it, the two votes differ
\* in hash (so the "already seen" check at the top of the mnw handler and
\* the re-check in AddWinningMasternode let both through), and handlers
\* and the block thread interleave. Only CanVote, consulted before the
\* vote is stored, keeps the second one out. (A restart forgets CanVote's
\* record; the restart_double_vote run shows what follows.)
OneVotePerVoterHeight ==
    \A v, w \in votes : v.voter = w.voter /\ v.height = w.height => v = w

\* Votes stored by AddWinningMasternode whose AddPayee has not run yet.
PendingTally(h, p) ==
    Cardinality({t \in Threads : th[t].pc = "tally" /\ th[t].vote.height = h
                                 /\ th[t].vote.payee = p})

\* The tally of every payable height (h >= 1) equals the votes the ledger
\* holds for it, counting those still between the locked insert and the
\* unlocked AddPayee; in particular the sum of the counts never exceeds
\* the number of distinct voters for the height. Mutual consistency of
\* mapMasternodeBlocks and mapMasternodePayeeVotes across handlers,
\* CleanPaymentList and reloads. (Height 0 only ever carries this node's
\* own payee-less votes.)
TallyMatchesVotes ==
    \A h \in DOMAIN blocks \ {0} : \A p \in AnyPayee :
        blocks[h][p] + PendingTally(h, p)
            = Cardinality({w \in votes : w.height = h /\ w.payee = p})

\* The spec's weaker form: counts at a height never exceed its voters.
TallyBoundedByVoters ==
    \A h \in DOMAIN blocks :
        SumFunction(blocks[h]) <= Cardinality({w.voter : w \in {x \in votes : x.height = h}})

\* A validly signed vote is refused as a double vote only when that
\* masternode really had a vote for that height accepted.
GenuineVoteNotShadowed ==
    \A m \in shadowed : \E w \in accepted : w.voter = m.voter /\ w.height = m.height


\* Save then Load reproduces the ledger: a clean shutdown followed by a
\* restart gives back every vote the retention window keeps
\* (DumpMasternodePayments, CMasternodePaymentDB::Read), also when a start
\* in between failed before loading the cache: Shutdown must write only
\* what an initialised module holds (the note at the top of Shutdown).
RestartRestoresLedger ==
    [][\A f \in BOOLEAN : Restart("clean", f) => votes' = Retained(votes, tip)]_vars

\* The block this node mines is accepted by its own validation: the payee
\* FillBlockPayee (through GetBlockPayee) puts in the coinbase for the next
\* height passes IsBlockPayeeValid under every spork and sync setting, in
\* every interleaving of vote handlers, the block thread, CleanPaymentList
\* and reloads, including a height whose entry exists with no payee yet.
FilledBlockAccepted ==
    \A paid \in FillBlockPayee(tip + 1) :
        \A synced, morag, spork8, spork19 \in BOOLEAN :
            IsBlockPayeeValid(tip + 1, paid, synced, morag, spork8, spork19)

=============================================================================
