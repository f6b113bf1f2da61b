---------------------------- MODULE MC_Masternode ----------------------------
(***************************************************************************)
(* The registry's time constants scaled to small numbers with their order  *)
(* kept: MIN_MNB (300 s) < MIN_MNP - 60 (540 s) < MIN_MNP (600 s) < the    *)
(* ping window (3600 s) < EXPIRATION (7200 s) < REMOVAL (7800 s); the      *)
(* check throttle (5 s) is below one tick.                                 *)
(***************************************************************************)
EXTENDS Masternode

MCMinMnb == 1
MCSlack == 1
MCMinMnp == 3
MCWindow == 4
MCExpiration == 5
MCRemoval == 6
MCLockTime == 1
MCStartUnlock == 2
=============================================================================
