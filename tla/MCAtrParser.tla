----------------------------- MODULE MCAtrParser -----------------------------
(* AtrParser for TLC; the configurations give the constants their values. *)
EXTENDS AtrParser
=============================================================================
