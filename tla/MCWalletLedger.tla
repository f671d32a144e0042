--------------------------- MODULE MCWalletLedger ---------------------------
(***************************************************************************)
(* Instances of WalletLedger for TLC: two wallets, keys shared between     *)
(* them, and postings that compete for both.                               *)
(***************************************************************************)
EXTENDS WalletLedger

MCDeltas == { -1, 1 }
=============================================================================
