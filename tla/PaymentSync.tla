---------------------------- MODULE PaymentSync ----------------------------
(***************************************************************************)
(* The payment-vote sync of src/masternode-payments.cpp: the "mnget"       *)
(* branch of ProcessMessageMasternodePayments, which answers a peer's      *)
(* request with CMasternodePayments::Sync, and the range check the "mnw"   *)
(* branch applies to the votes the peer then fetches. A vote is its block  *)
(* height; nHeight is the tip height, enabled is mnodeman.CountEnabled().  *)
(* Sync sends inventory only: what it offers is returned, and the "ssc"    *)
(* count it sends after it (-1 when it sends none).                        *)
(***************************************************************************)
EXTENDS Integers, FiniteSets

CONSTANTS
    MaxSyncHeight,   \* bound: tip height
    MaxEnabled,      \* bound: enabled masternodes
    MaxNeeded        \* bound: nCountNeeded a peer asks for

\* int(mnodeman.CountEnabled() * 1.25): exact in double for these counts,
\* truncated toward zero.
CountScaled(enabled) == (enabled * 5) \div 4

\* The mnw range check: nFirstBlock = nHeight - CountEnabled * 1.25, and a
\* vote outside [nFirstBlock, nHeight + 20] is dropped.
MnwAccepted(h, nHeight, enabled) ==
    h >= nHeight - CountScaled(enabled) /\ h <= nHeight + 20

\* Variant: the peer's nCountNeeded is not capped.
SyncUncapped(votes, nHeight, nCountNeeded, enabled) ==
    {h \in votes : h >= nHeight - nCountNeeded /\ h <= nHeight + 20}

\* Sync: nCountNeeded is capped at CountEnabled * 1.25, and every vote with
\* a height in [nHeight - nCountNeeded, nHeight + 20] is offered.
Sync(votes, nHeight, nCountNeeded, enabled) ==
    LET n == IF nCountNeeded > CountScaled(enabled) THEN CountScaled(enabled) ELSE nCountNeeded
    IN  {h \in votes : h >= nHeight - n /\ h <= nHeight + 20}

\* The mnget branch (after the blockchain-synced and lite-mode returns): on
\* the main network a peer that already asked is penalised and answered
\* with nothing; otherwise the request is marked fulfilled and Sync runs,
\* which returns at once when TRY_LOCK(cs_main) fails (locked = FALSE).
MnGet(main, fulfilled, locked, votes, nHeight, nCountNeeded, enabled) ==
    IF main /\ fulfilled
    THEN [misbehaving |-> 20, fulfilled |-> TRUE, inv |-> {}, ssc |-> -1]
    ELSE LET inv == IF locked THEN Sync(votes, nHeight, nCountNeeded, enabled) ELSE {}
         IN  [misbehaving |-> 0, fulfilled |-> TRUE, inv |-> inv,
              ssc |-> IF locked THEN Cardinality(inv) ELSE -1]

-----------------------------------------------------------------------------
\* Votes at every height from below the look-back to above the look-ahead.
AllVotes(nHeight, enabled) == nHeight - CountScaled(enabled) - 3 .. nHeight + 23

\* What the peer's mnw range check keeps of the votes it is offered, when it
\* is at the same height and counts the same enabled masternodes.
Kept(votes, nHeight, enabled) == {h \in votes : MnwAccepted(h, nHeight, enabled)}

\* A first mnget while cs_main is free is answered with only votes the
\* peer's mnw check will keep, and, when the peer asked for at least
\* CountEnabled * 1.25 votes, with every vote it would keep; the "ssc"
\* count is the number offered. A repeated mnget on the main network gets
\* nothing. (For every tip height up to MaxSyncHeight, enabled count up
\* to MaxEnabled and request from -2 to MaxNeeded.)
SyncOffersWhatPeersKeep ==
    \A nHeight \in 0 .. MaxSyncHeight, enabled \in 0 .. MaxEnabled, n \in -2 .. MaxNeeded,
       main \in BOOLEAN :
        LET votes == AllVotes(nHeight, enabled)
            first == MnGet(main, FALSE, TRUE, votes, nHeight, n, enabled)
            again == MnGet(main, TRUE, TRUE, votes, nHeight, n, enabled)
        IN  /\ first.inv \subseteq Kept(votes, nHeight, enabled)
            /\ n >= CountScaled(enabled) => first.inv = Kept(votes, nHeight, enabled)
            /\ first.ssc = Cardinality(first.inv)
            /\ main => again.inv = {} /\ again.misbehaving > 0
=============================================================================
