------------------------------ MODULE UsbControl ------------------------------
(***************************************************************************)
(* Control transfers on endpoint 0: usb_requests.c, the callbacks of      *)
(* usb.c and the first half of usb_handle_function, against a host that   *)
(* runs one transfer at a time and may reset the bus.                      *)
(*                                                                         *)
(* A descriptor is a sequence of units, of which a packet holds EP0_SIZE; *)
(* a unit is the pair of its source and its index.  Requests that the     *)
(* code answers alike are one request here.  The data endpoints and       *)
(* usb_serial_init are in UsbSerial.                                       *)
(***************************************************************************)
EXTENDS UsbEndpoint, UsbInterrupt, Sequences

CONSTANTS
  EP0_SIZE,           \* USB_EP0_SIZE
  Descriptors,        \* what GetDescriptor may name
  Strings,            \* those built in ep0_buf_in by usb_string_to_descriptor
  DescriptorLength,   \* in units, 0 if the code does not know it
  Requests,           \* the SETUP packets of the host
  HostMay             \* "reset": reset the bus, except when the pass has read
                      \*   a flag it has not handled; "reset in pass": then too
                      \* "overlap": send a SETUP before the device has handled
                      \*   a reset, or the end of the transfer before it
                      \* "early": do anything before usb_proc_loop has started

(* ClearFeature stands for SetFeature, SetInterface and the class requests *)
(* SET_CONTROL_LINE_STATE and SEND_BREAK too; Unknown is any request that  *)
(* is stalled, Vendor one that usb_cb_control_setup leaves unanswered: of  *)
(* the vendor type, or of the class type for another interface.            *)
Kinds == {"GetStatus", "GetConfiguration", "GetLineEncoding", "GetDescriptor",
          "SetAddress", "SetConfiguration", "SetLineEncoding", "ClearFeature", "Unknown",
          "Vendor"}
Request == [kind : Kinds, value : Nat, descriptor : Descriptors \cup {"none"},
            wLength : Nat]

ASSUME ControlAssumption ==
  /\ EP0_SIZE \in Nat \ {0}
  /\ Strings \subseteq Descriptors
  /\ DescriptorLength \in [Descriptors -> Nat]
  /\ \A d \in Strings : DescriptorLength[d] < EP0_SIZE
  /\ Requests \subseteq Request
  /\ \A r \in Requests : r.kind = "GetDescriptor" => r.descriptor \in Descriptors
  /\ HostMay \subseteq {"reset", "reset in pass", "overlap", "early"}

VARIABLES
  eorst,              \* INTFLAG.EORST: the host has reset the bus
  address,            \* DADD
  ep0,                \* the registers and banks of endpoint 0
  ep0_buf_out,        \* a SETUP packet, or the value of a data stage
  ep0_buf_in,
  summary,            \* EPINTSMRY, bit 0, as read by the pass
  flags,              \* EPINTFLAG of endpoint 0, as read by the pass
  usb_setup, usb_configuration, line_coding,
  usb_ep0_in_size, usb_ep0_in_ptr,
  stage,              \* the host: the stage of its transfer,
  request,            \*   what it asked for,
  received,           \*   the data it has received,
  host_address, host_configuration   \* and what it believes it has set

deviceVars == <<usb_setup, usb_configuration, line_coding, usb_ep0_in_size, usb_ep0_in_ptr>>
passVars == <<summary, flags>>
hostVars == <<stage, request, received, host_address, host_configuration>>
bufferVars == <<ep0_buf_out, ep0_buf_in>>
vars == <<interruptVars, eorst, address, ep0, bufferVars, passVars, deviceVars, hostVars>>

Stages == {"idle", "data_in", "data_out", "status_in", "status_out"}
Unit == <<"none", 0>>
Units(source, first, n) == [i \in 1 .. n |-> <<source, first + i>>]
NoRequest == [kind |-> "none", value |-> 0, descriptor |-> "none", wLength |-> 0]
Data(v) == [NoRequest EXCEPT !.kind = "data", !.value = v]

Smaller(a, b) == IF a < b THEN a ELSE b

(* memcpy to the start of a buffer. *)
Copied(buffer, chunk) ==
  [i \in 1 .. EP0_SIZE |-> IF i <= Len(chunk) THEN chunk[i] ELSE buffer[i]]

(* The controller's interrupt line. *)
Line == eorst \/ Interrupting(ep0)

Init ==
  /\ InitInterrupt
  /\ eorst = FALSE
  /\ address = 0
  /\ ep0 = EnableFlags(DisabledEndpoint, {"RXSTP"})
  /\ ep0_buf_out = NoRequest
  /\ ep0_buf_in = [i \in 1 .. EP0_SIZE |-> Unit]
  /\ summary = FALSE /\ flags = {}
  /\ usb_setup = NoRequest
  /\ usb_configuration = 0
  /\ line_coding = NoRequest
  /\ usb_ep0_in_size = 0
  /\ usb_ep0_in_ptr = [descriptor |-> "none", offset |-> 0]
  /\ stage = "idle" /\ request = NoRequest /\ received = <<>>
  /\ host_address = 0 /\ host_configuration = 0

-----------------------------------------------------------------------------
(* The host. *)

HostStep ==
  /\ ProcessWaits
  /\ "early" \in HostMay \/ pc # "init"
  /\ UNCHANGED <<deviceVars, passVars>>

(* The request sends data, expects some, or neither. *)
FirstStage(r) ==
  IF r.kind = "SetLineEncoding" THEN "data_out"
  ELSE IF r.kind \in {"GetStatus", "GetConfiguration", "GetLineEncoding", "GetDescriptor"}
          /\ r.wLength > 0
  THEN "data_in" ELSE "status_in"

Setup(r) ==
  /\ HostStep
  /\ stage = "idle" /\ address = host_address
  /\ AcceptsSetup(ep0)
  /\ "overlap" \in HostMay \/ (~eorst /\ ep0.flags = {} /\ flags = {})
  /\ ep0' = SetupDone(ep0)
  /\ ep0_buf_out' = r
  /\ request' = r /\ stage' = FirstStage(r) /\ received' = <<>>
  /\ UNCHANGED <<eorst, address, ep0_buf_in, host_address, host_configuration>>
  /\ Pends(Line')

(* An IN token: the controller sends from ep0_buf_in as it is now.  A     *)
(* short packet, or as much as was asked for, ends the data stage.         *)
In ==
  /\ HostStep
  /\ stage \in {"data_in", "status_in"} /\ address = host_address
  /\ SendsIn(ep0)
  /\ ep0' = InDone(ep0)
  /\ LET packet == SubSeq(ep0_buf_in, 1, ep0.size)
         so_far == received \o packet
     IN \/ /\ stage = "data_in"
           /\ received' = so_far
           /\ stage' = IF Len(packet) < EP0_SIZE \/ Len(so_far) >= request.wLength
                       THEN "status_out" ELSE "data_in"
           /\ UNCHANGED <<host_address, host_configuration>>
        \/ /\ stage = "status_in"
           /\ stage' = "idle"
           /\ host_address' =
                IF request.kind = "SetAddress" THEN request.value ELSE host_address
           /\ host_configuration' =
                IF request.kind = "SetConfiguration" THEN request.value
                ELSE host_configuration
           /\ received' = <<>>
  /\ UNCHANGED <<eorst, address, bufferVars, request>>
  /\ Pends(Line')

Out ==
  /\ HostStep
  /\ stage \in {"data_out", "status_out"} /\ address = host_address
  /\ AcceptsOut(ep0)
  /\ ep0' = OutDone(ep0)
  /\ \/ stage = "data_out" /\ stage' = "status_in" /\ ep0_buf_out' = Data(request.value)
     \/ stage = "status_out" /\ stage' = "idle" /\ UNCHANGED ep0_buf_out
  /\ received' = <<>>
  /\ UNCHANGED <<eorst, address, ep0_buf_in, request, host_address, host_configuration>>
  /\ Pends(Line')

EndsTransfer ==
  /\ HostStep
  /\ stage' = "idle" /\ received' = <<>>
  /\ UNCHANGED <<eorst, address, ep0, bufferVars, request, host_address,
                 host_configuration>>
  /\ Pends(Line')

(* A stall ends the transfer. *)
Stalled ==
  /\ stage # "idle" /\ address = host_address
  /\ ep0.stall
  /\ EndsTransfer

(* Nothing answers a Vendor request: the host may give it up, or wait.    *)
GivesUp ==
  /\ stage # "idle" /\ request.kind = "Vendor"
  /\ EndsTransfer

BusReset ==
  /\ HostStep
  /\ "reset" \in HostMay
  /\ flags = {} \/ "reset in pass" \in HostMay
  /\ eorst' = TRUE
  /\ address' = 0
  /\ ep0' = ResetEndpoint(ep0)
  /\ stage' = "idle" /\ request' = NoRequest /\ received' = <<>>
  /\ host_address' = 0 /\ host_configuration' = 0
  /\ UNCHANGED bufferVars
  /\ Pends(Line')

Host == (\E r \in Requests : Setup(r)) \/ In \/ Out \/ Stalled \/ GivesUp

-----------------------------------------------------------------------------
(* The device. *)

OnlyProcess ==
  UNCHANGED <<eorst, address, ep0, bufferVars, passVars, deviceVars, hostVars>>

Starts == OnlyProcess /\ StartProcess(Line')
Unblocks == OnlyProcess /\ Unblock(Line')
Clears == OnlyProcess /\ ClearInterrupt(Line')
Interrupts == OnlyProcess /\ USB_Handler(Line')
EndsPassClearing ==   \* mutant: the flags are cleared when they have been handled
  /\ ep0' = ClearFlags(ep0, EndpointFlags)
  /\ UNCHANGED <<eorst, address, bufferVars, passVars, deviceVars, hostVars>>
  /\ EndPass(Line')
EndsPass == OnlyProcess /\ EndPass(Line')

ReadSummary ==
  /\ Goes("summary", "status")
  /\ summary' = Interrupting(ep0)
  /\ UNCHANGED <<eorst, address, ep0, bufferVars, flags, deviceVars, hostVars>>
  /\ Pends(Line')

(* usb_reset. *)
UsbResetForgets(ep) == ep   \* mutant: SETUP packets are not enabled again
UsbReset(ep) == EnableFlags(ep, {"RXSTP"})

(* A bus reset ends the pass, but not without enabling the interrupt. *)
AfterResetReturns == "wait"   \* mutant: a return in place of the goto
AfterReset == "end"

ReadStatus ==
  /\ \/ /\ eorst
        /\ Goes("status", AfterReset)
        /\ eorst' = FALSE
        /\ ep0' = UsbReset(ep0)
     \/ /\ ~eorst
        /\ Goes("status", IF summary THEN "flags" ELSE "end")
        /\ UNCHANGED <<eorst, ep0>>
  /\ UNCHANGED <<address, bufferVars, passVars, deviceVars, hostVars>>
  /\ Pends(Line')

(* The flags are read, then all three are cleared, set since or not. *)
ReadFlags ==
  /\ Goes("flags", "ack")
  /\ flags' = ep0.flags
  /\ UNCHANGED <<eorst, address, ep0, bufferVars, summary, deviceVars, hostVars>>
  /\ Pends(Line')

AckFlags ==
  /\ Goes("ack", "setup")
  /\ ep0' = ClearFlags(ep0, EndpointFlags)
  /\ UNCHANGED <<eorst, address, bufferVars, passVars, deviceVars, hostVars>>
  /\ Pends(Line')

(* usb_ep0_in_multi, with the values it finds in usb_ep0_in_size and _ptr. *)
AdvancedNot(ptr, tsize) == ptr   \* mutant: usb_ep0_in_ptr stays
Advanced(ptr, tsize) == [ptr EXCEPT !.offset = @ + tsize]
SendNext(size, ptr) ==
  LET tsize == Smaller(size, EP0_SIZE)
      armed == StartIn(ep0, tsize)
  IN /\ ep0_buf_in' = Copied(ep0_buf_in, Units(ptr.descriptor, ptr.offset, tsize))
     /\ ep0' = IF tsize = 0 THEN StartOut(armed) ELSE armed
     /\ usb_ep0_in_size' = size - tsize
     /\ usb_ep0_in_ptr' = Advanced(ptr, tsize)

(* Answers with n units already in ep0_buf_in, or with a stall. *)
Answers(n) == ep0' = StartOut(StartIn(ep0, n)) /\ UNCHANGED <<usb_ep0_in_size, usb_ep0_in_ptr>>
AnswersFrom(source) == Answers(1) /\ ep0_buf_in' = Copied(ep0_buf_in, Units(source, 0, 1))
Refuses == ep0' = Stall(ep0) /\ UNCHANGED <<ep0_buf_in, usb_ep0_in_size, usb_ep0_in_ptr>>

(* usb_cb_set_configuration. *)
AcceptsEvery(configuration) == TRUE   \* mutant: no check of the number
Accepts(configuration) == configuration <= 1

(* usb_cb_get_descriptor and the case GetDescriptor of usb_handle_setup.  *)
GetDescriptor(d, wLength) ==
  LET size == Smaller(DescriptorLength[d], wLength) IN
  \/ DescriptorLength[d] = 0 /\ Refuses
  \/ /\ DescriptorLength[d] > 0 /\ d \in Strings
     /\ ep0_buf_in' = Copied(ep0_buf_in, Units(d, 0, DescriptorLength[d]))
     /\ ep0' = StartIn(ep0, size)
     /\ usb_ep0_in_size' = 0
     /\ UNCHANGED usb_ep0_in_ptr
  \/ /\ DescriptorLength[d] > 0 /\ d \notin Strings
     /\ SendNext(size, [descriptor |-> d, offset |-> 0])

(* usb_handle_setup and usb_cb_control_setup.  The line coding is copied  *)
(* from ep0_buf_out at once, before its data stage.                        *)
HandleSetup ==
  LET s == ep0_buf_out IN
  /\ Goes("setup", "in")
  /\ \/ /\ "RXSTP" \notin flags
        /\ UNCHANGED <<deviceVars, ep0, ep0_buf_in>>
     \/ /\ "RXSTP" \in flags
        /\ usb_setup' = s
        /\ usb_configuration' =
             IF s.kind = "SetConfiguration" /\ Accepts(s.value) THEN s.value
             ELSE usb_configuration
        /\ line_coding' = IF s.kind = "SetLineEncoding" THEN s ELSE line_coding
        /\ \/ s.kind = "GetDescriptor" /\ GetDescriptor(s.descriptor, s.wLength)
           \/ s.kind = "GetStatus" /\ AnswersFrom("status")
           \/ s.kind = "GetConfiguration" /\ AnswersFrom("configuration")
           \/ s.kind = "GetLineEncoding" /\ AnswersFrom("line_coding")
           \/ /\ s.kind \in {"SetAddress", "SetLineEncoding", "ClearFeature"}
                   \/ (s.kind = "SetConfiguration" /\ Accepts(s.value))
              /\ Answers(0) /\ UNCHANGED ep0_buf_in
           \/ /\ s.kind = "Unknown" \/ (s.kind = "SetConfiguration" /\ ~Accepts(s.value))
              /\ Refuses
           \/ /\ s.kind = "Vendor"
              /\ UNCHANGED <<ep0, ep0_buf_in, usb_ep0_in_size, usb_ep0_in_ptr>>
  /\ UNCHANGED <<eorst, address, ep0_buf_out, passVars, hostVars>>
  /\ Pends(Line')

(* usb_handle_control_out_complete does nothing; then                      *)
(* usb_handle_control_in_complete, for the latest SETUP packet.            *)
CompletedUnflagged(kind) == usb_setup.kind = kind   \* mutant: no test of TRCPT1
Completed(kind) == "TRCPT1" \in flags /\ usb_setup.kind = kind
HandleIn ==
  /\ Goes("in", "end")
  /\ flags' = {}
  /\ \/ /\ Completed("GetDescriptor")
        /\ SendNext(usb_ep0_in_size, usb_ep0_in_ptr)
        /\ UNCHANGED address
     \/ /\ Completed("SetAddress") /\ address' = usb_setup.value
        /\ UNCHANGED <<ep0, ep0_buf_in, usb_ep0_in_size, usb_ep0_in_ptr>>
     \/ /\ ~Completed("GetDescriptor") /\ ~Completed("SetAddress")
        /\ UNCHANGED <<address, ep0, ep0_buf_in, usb_ep0_in_size, usb_ep0_in_ptr>>
  /\ UNCHANGED <<eorst, ep0_buf_out, summary, usb_setup, usb_configuration, line_coding,
                 hostVars>>
  /\ Pends(Line')

Device ==
  \/ Starts \/ Unblocks \/ Clears \/ ReadSummary \/ ReadStatus \/ ReadFlags \/ AckFlags
  \/ HandleSetup \/ HandleIn \/ EndsPass

Next == Host \/ BusReset \/ Interrupts \/ Device

Spec == Init /\ [][Next]_vars

(* The USB process and the interrupt run, as UsbInterrupt says; the host  *)
(* goes on with a transfer that the device goes on with.                   *)
FairSpec ==
  Spec /\ WF_vars(Device) /\ WF_vars(Interrupts) /\ WF_vars(In \/ Out \/ Stalled)

-----------------------------------------------------------------------------
TypeOK ==
  /\ InterruptTypeOK
  /\ eorst \in BOOLEAN
  /\ address \in Nat /\ host_address \in Nat
  /\ ep0 \in Endpoint(0 .. EP0_SIZE)
  /\ DOMAIN ep0_buf_in = 1 .. EP0_SIZE
  /\ summary \in BOOLEAN /\ flags \subseteq EndpointFlags
  /\ usb_setup \in Requests \cup {NoRequest}
  /\ usb_configuration \in 0 .. 1
  /\ usb_ep0_in_size \in Nat
  /\ stage \in Stages
  /\ request \in Requests \cup {NoRequest}

(* What a descriptor request is owed. *)
Expected(r) ==
  IF r.kind = "GetDescriptor"
  THEN Units(r.descriptor, 0, Smaller(DescriptorLength[r.descriptor], r.wLength))
  ELSE Units(CASE r.kind = "GetStatus" -> "status"
               [] r.kind = "GetConfiguration" -> "configuration"
               [] r.kind = "GetLineEncoding" -> "line_coding", 0, 1)

(* The host receives exactly the data it asked for, in order and once,    *)
(* whatever came before: the state that a transfer leaves in              *)
(* usb_ep0_in_size, in the banks and in the flags does not leak into the   *)
(* next (usb_requests.c:11-27, 53-67, 116-118).                            *)
DataIntact == stage = "status_out" => received = Expected(request)

(* The device answers to the address the host uses, except between the     *)
(* status stage of a SetAddress and its handling: not earlier, or the      *)
(* host would never see the status stage, and not for good               *)
(* (usb_requests.c:43-45 and 113-115).                                     *)
AddressAgreed ==
  address # host_address =>
    /\ "TRCPT1" \in ep0.flags \cup flags
    /\ usb_setup.kind = "SetAddress" /\ usb_setup.value = host_address

(* A buffer handed to the controller is left alone until the completion    *)
(* has been handled (usb.h:96-98).                                         *)
ArmedBufferKept ==
  [][ep0.bk1rdy /\ ep0'.bk1rdy =>
       SubSeq(ep0_buf_in', 1, ep0.size) = SubSeq(ep0_buf_in, 1, ep0.size)]_vars

(* Every control transfer comes to an end, by its status stage, by a stall *)
(* or by a reset: the device arms the bank the host needs next, or refuses *)
(* (usb_requests.c:18-22, 29-100).  Except a Vendor request, which         *)
(* usb_cb_control_setup neither answers nor refuses (usb.c:209-288): it    *)
(* hangs until the host gives it up.                                       *)
TransferEnds == stage # "idle" /\ request.kind # "Vendor" ~> stage = "idle"

(* usb_reset is called on every bus reset (usb.h:55). *)
ResetHandled == eorst ~> ~eorst
=============================================================================
