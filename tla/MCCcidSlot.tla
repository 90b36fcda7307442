----------------------------- MODULE MCCcidSlot -----------------------------
(* CcidSlot for TLC; the configurations give the constants their values. *)
EXTENDS CcidSlot
=============================================================================
