--------------------------- MODULE MCTpduTransfer ---------------------------
(* TpduTransfer for TLC; the configurations give the constants their values. *)
EXTENDS TpduTransfer
=============================================================================
