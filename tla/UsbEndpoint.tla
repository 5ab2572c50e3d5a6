------------------------------ MODULE UsbEndpoint ------------------------------
(***************************************************************************)
(* An endpoint of the SAMD21 USB device controller, and the primitives of *)
(* usb_samd.c that drive it.  Bank 0 receives (OUT and SETUP), bank 1     *)
(* sends (IN).  A bank with its ready bit clear accepts one OUT packet; a *)
(* bank with its ready bit set sends one IN packet.  A finished transfer  *)
(* raises TRCPT0 or TRCPT1, a SETUP packet raises RXSTP; a flag that is   *)
(* also in inten asserts the interrupt line.                               *)
(*                                                                         *)
(* The operators of the second part are the controller's own, as the      *)
(* driver relies on them.                                                  *)
(***************************************************************************)
EXTENDS Integers

EndpointFlags == {"RXSTP", "TRCPT0", "TRCPT1"}

Endpoint(Sizes) ==
  [flags : SUBSET EndpointFlags, inten : SUBSET EndpointFlags,
   bk0rdy : BOOLEAN, bk1rdy : BOOLEAN,
   stall : BOOLEAN,   \* STALLRQ of both banks
   size : Sizes]      \* BYTE_COUNT of bank 1

DisabledEndpoint == [flags |-> {}, inten |-> {}, bk0rdy |-> TRUE, bk1rdy |-> FALSE,
                     stall |-> FALSE, size |-> 0]

(* usb_enable_ep: nothing is accepted or sent until a transfer is started. *)
EnableEndpointKeeps(ep) ==   \* mutant: BK1RDY is not cleared
  [ep EXCEPT !.bk0rdy = TRUE, !.stall = FALSE]
EnableEndpoint(ep) == [ep EXCEPT !.bk0rdy = TRUE, !.bk1rdy = FALSE, !.stall = FALSE]

(* usb_ep_start_out and usb_ep_start_in.  The bank becomes ready last, so *)
(* the controller sees the whole of it at once.                            *)
StartOutSilent(ep) ==   \* mutant: EPINTENSET is not written
  [ep EXCEPT !.flags = @ \ {"TRCPT0"}, !.bk0rdy = FALSE]
StartInSilent(ep, n) ==   \* mutant: EPINTENSET is not written
  [ep EXCEPT !.flags = @ \ {"TRCPT1"}, !.bk1rdy = TRUE, !.size = n]
StartOut(ep) == [ep EXCEPT !.flags = @ \ {"TRCPT0"}, !.inten = @ \cup {"TRCPT0"},
                           !.bk0rdy = FALSE]
StartIn(ep, n) == [ep EXCEPT !.flags = @ \ {"TRCPT1"}, !.inten = @ \cup {"TRCPT1"},
                             !.bk1rdy = TRUE, !.size = n]

(* usb_ep0_stall. *)
Stall(ep) == [ep EXCEPT !.stall = TRUE]

(* Writing ones to EPINTFLAG; writing ones to EPINTENCLR. *)
ClearFlags(ep, flags) == [ep EXCEPT !.flags = @ \ flags]
DisableFlags(ep, flags) == [ep EXCEPT !.inten = @ \ flags]
EnableFlags(ep, flags) == [ep EXCEPT !.inten = @ \cup flags]

-----------------------------------------------------------------------------
(* The controller. *)

(* The endpoint's bit in EPINTSMRY. *)
Interrupting(ep) == ep.flags \cap ep.inten # {}

AcceptsOut(ep) == ~ep.bk0rdy /\ ~ep.stall
OutDone(ep) == [ep EXCEPT !.flags = @ \cup {"TRCPT0"}, !.bk0rdy = TRUE]

SendsIn(ep) == ep.bk1rdy /\ ~ep.stall
InDone(ep) == [ep EXCEPT !.flags = @ \cup {"TRCPT1"}, !.bk1rdy = FALSE]

(* A SETUP packet is taken whatever the bank's ready bit says, once the   *)
(* one before it has been acknowledged; it ends any stall and whatever    *)
(* was waiting to be sent.                                                 *)
AcceptsSetup(ep) == "RXSTP" \notin ep.flags
SetupDone(ep) == [ep EXCEPT !.flags = @ \cup {"RXSTP"}, !.bk0rdy = TRUE,
                            !.bk1rdy = FALSE, !.stall = FALSE]

(* A bus reset clears flags, enables and stalls. *)
ResetEndpoint(ep) == [ep EXCEPT !.flags = {}, !.inten = {}, !.stall = FALSE]
=============================================================================
