----------------------------- MODULE MCUsbQueues -----------------------------
(* UsbQueues for TLC; the configurations give the constants their values. *)
EXTENDS UsbQueues
=============================================================================
