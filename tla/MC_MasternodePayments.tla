----------------------- MODULE MC_MasternodePayments -----------------------
(* Instantiates MasternodePayments for TLC: three masternodes, two payees,  *)
(* a fixed score order that rotates with the height.                       *)
EXTENDS MasternodePayments

CONSTANTS me, m1, m2, pa, pb, h1, h2

MCMasternodes == {me, m1, m2}
MCPayees == {pa, pb}
MCHandlers == {h1}

\* Position of each masternode in the score order at height 0.
ScoreBase == (me :> 0) @@ (m1 :> 1) @@ (m2 :> 2)

\* Scores rotate by one position per height, so every masternode is ranked
\* first at some heights and last at others.
MCScore(m, h) == (ScoreBase[m] + h) % 3
=============================================================================
