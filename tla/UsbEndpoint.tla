----------------------------- MODULE UsbEndpoint -----------------------------
(***************************************************************************)
(* One bulk or interrupt endpoint as the HAL (hal/src/hal_usb_device.c)   *)
(* and the HPL driver (hpl/usb/hpl_usb.c) see it.  An endpoint is a        *)
(* record; each entry point is an operator from record to record.          *)
(*                                                                         *)
(*   state    hdr.state of the HAL: disabled, idle, data, halted           *)
(*   busy     flags.is_busy of the HPL: a transfer is armed                *)
(*   msg      the message of that transfer, trans_buf                      *)
(*   stalled  flags.is_stalled of the HPL                                  *)
(*   halt     the hardware: no STALLRQ, STALLRQ set, or set and a STALL    *)
(*            has been sent, after which its interrupt is off              *)
(*   on       EPCFG.EPTYPE is not zero: the endpoint answers the host      *)
(***************************************************************************)
CONSTANT None \* no message

\* As memset leaves it, before the first configuration.
EndpointInit == [state |-> "disabled", busy |-> FALSE, msg |-> None,
                 stalled |-> FALSE, halt |-> "clear", on |-> FALSE]

EndpointType(Msgs) ==
  [state   : {"disabled", "idle", "data", "halted"},
   busy    : BOOLEAN,
   msg     : Msgs \cup {None},
   stalled : BOOLEAN,
   halt    : {"clear", "requested", "sent"},
   on      : BOOLEAN]

\* usb_d_ep_transfer and _usb_d_dev_ep_trans return ERR_NONE.
Accepts(ep) == ep.state = "idle" /\ ~ep.stalled /\ ~ep.busy

Armed(ep, m) == [ep EXCEPT !.state = "data", !.busy = TRUE, !.msg = m]

\* The HAL has taken the endpoint for busy before the HPL refuses.
Refused(ep) == IF ep.state = "idle" THEN [ep EXCEPT !.state = "data"] ELSE ep

\* The host can complete the transfer.
Ready(ep) == ep.on /\ ep.busy /\ ep.halt = "clear"

\* _usb_d_dev_trans_done and _usb_d_cb_trans_done
Done(ep) == [ep EXCEPT !.state = "idle", !.busy = FALSE, !.msg = None]

\* The same with USB_TRANS_RESET, for a busy endpoint.
Stopped(ep) == [ep EXCEPT !.state = "disabled", !.busy = FALSE, !.msg = None]

\* SetFeature(ENDPOINT_HALT)
HaltSet(ep) == [ep EXCEPT !.stalled = TRUE, !.halt = "requested"]

\* The interrupt after a STALL handshake: is_busy is left alone.
StallSent(ep) == [ep EXCEPT !.state = "halted", !.halt = "sent"]

\* ClearFeature(ENDPOINT_HALT) of a halted endpoint
HaltCleared(ep) == [ep EXCEPT !.state = "idle", !.stalled = FALSE, !.halt = "clear"]

\* usb_d_ep_deinit, after a transfer has been stopped
Deinit(ep) == [ep EXCEPT !.stalled = FALSE, !.on = FALSE]

\* The hardware's own part in a bus reset.
BusReset(ep) == [ep EXCEPT !.halt = "clear"]

\* usb_d_ep_init
EpInit(ep) == [ep EXCEPT !.stalled = FALSE, !.busy = FALSE, !.msg = None]

\* usb_d_ep_disable and usb_d_ep_enable, after a transfer has been stopped:
\* STALLRQ is cleared, flags.is_stalled is not.
EpEnable(ep) == [ep EXCEPT !.state = "idle", !.halt = "clear", !.on = TRUE]

=============================================================================
