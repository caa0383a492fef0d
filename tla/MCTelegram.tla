----------------------------- MODULE MCTelegram -----------------------------
(***************************************************************************)
(* Telegram for TLC: two wallets compete for two accounts that may watch   *)
(* one wallet each, and an event of the first wallet is posted repeatedly. *)
(***************************************************************************)
EXTENDS Telegram
=============================================================================
