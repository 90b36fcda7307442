---------------------------- MODULE MCCcidDevice ----------------------------
(* CcidDevice for TLC; the configurations give the constants their values. *)
EXTENDS CcidDevice
=============================================================================
