----------------------------- MODULE MCUsbControl -----------------------------
(***************************************************************************)
(* One request of each kind; descriptors of less than, exactly and more   *)
(* than one packet of two units, a string and one the code does not know. *)
(***************************************************************************)
EXTENDS UsbControl

MCDescriptors == {"short", "exact", "long", "string", "absent"}
MCStrings == {"string"}
MCDescriptorLength == [d \in MCDescriptors |->
  CASE d = "short" -> 1 [] d = "exact" -> 2 [] d = "long" -> 3
    [] d = "string" -> 1 [] d = "absent" -> 0]

Req(kind, value, wLength) ==
  [kind |-> kind, value |-> value, descriptor |-> "none", wLength |-> wLength]
Get(d, wLength) ==
  [kind |-> "GetDescriptor", value |-> 0, descriptor |-> d, wLength |-> wLength]
MCRequests ==
  {Get(d, 4) : d \in MCDescriptors}
  \cup {Get("exact", 2), Get("long", 1),
        Get("long", 2), Req("GetStatus", 0, 1),
        Req("GetLineEncoding", 0, 1), Req("GetConfiguration", 0, 1),
        Req("SetAddress", 1, 0), Req("SetConfiguration", 1, 0),
        Req("SetConfiguration", 2, 0), Req("SetLineEncoding", 5, 1),
        Req("ClearFeature", 0, 0), Req("Unknown", 0, 0),
        Req("Vendor", 0, 0)}
(* Two states that differ only in what neither side reads again before it *)
(* is written are explored once: a packet that is not armed, the source   *)
(* of no more units, a SETUP packet that has been handled and has nothing *)
(* left to complete, the host's last transfer.                             *)
View == <<interruptVars, eorst, address, [ep0 EXCEPT !.size = IF ep0.bk1rdy THEN @ ELSE 0],
          IF ep0.bk1rdy THEN SubSeq(ep0_buf_in, 1, ep0.size) ELSE <<>>,
          IF "RXSTP" \in ep0.flags \cup flags THEN ep0_buf_out ELSE NoRequest,
          pc = "status" /\ summary, flags,
          IF usb_setup.kind \in {"GetDescriptor", "SetAddress"}
          THEN <<usb_setup.kind, usb_setup.value>> ELSE <<>>,
          usb_configuration, usb_ep0_in_size,
          IF usb_ep0_in_size > 0 THEN usb_ep0_in_ptr ELSE <<>>,
          stage, IF stage = "idle" THEN NoRequest ELSE request, received,
          host_address, host_configuration>>

FewRequests == {Get("long", 4), Req("GetStatus", 0, 1)}
=============================================================================
