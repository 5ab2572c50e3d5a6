--------------------------- MODULE UsbControlProofs ---------------------------
(***************************************************************************)
(* What holds of endpoint 0 for any descriptors, requests and packet size: *)
(* the interrupt hand-over, the types, the address, the armed buffers and  *)
(* the data of control transfers.  Each part adds what its invariant needs *)
(* to that of the part before.                                             *)
(***************************************************************************)
EXTENDS UsbControl, SequenceTheorems, TLAPS

(* Nothing asserts the interrupt line before usb_proc_loop starts, so the  *)
(* flag it clears has not been set.                                        *)
QuietAtStart ==
  pc = "init" => /\ nvic_enabled /\ ~nvic_pending
                 /\ eorst = FALSE /\ ep0.flags = {}

NeverDeafInv == NeverDeaf /\ QuietAtStart

(* Steps that leave the handler and the process where they are, taken after *)
(* the process has started.                                                *)
LEMMA NeverDeafBeside ==
  ASSUME NeverDeafInv, ProcessWaits, pc # "init"
  PROVE  NeverDeafInv'
BY DEF NeverDeafInv, NeverDeaf, QuietAtStart, ProcessWaits

(* Steps of the pass never end in wait_until. *)
LEMMA NeverDeafPass ==
  ASSUME NEW from, NEW to, Goes(from, to), to \notin {"init", "wait"}
  PROVE  NeverDeafInv'
BY DEF NeverDeafInv, NeverDeaf, QuietAtStart, Goes

LEMMA NeverDeafStep ==
  ASSUME "early" \notin HostMay, NeverDeafInv, [Next]_vars
  PROVE  NeverDeafInv'
<1>1. ASSUME NEW r \in Requests, Setup(r) PROVE NeverDeafInv'
  BY <1>1, NeverDeafBeside DEF Setup, HostStep
<1>2. CASE In \/ Out \/ Stalled \/ GivesUp \/ BusReset
  <2>1. HostStep
    BY <1>2, Zenon DEF In, Out, Stalled, GivesUp, EndsTransfer, BusReset
  <2> QED BY <2>1, NeverDeafBeside DEF HostStep
<1>3. CASE Starts
  BY <1>3 DEF Starts, StartProcess, OnlyProcess, NeverDeafInv, NeverDeaf, QuietAtStart
<1>4. CASE Unblocks
  BY <1>4, NeverDeafPass DEF Unblocks, Unblock
<1>5. CASE Clears
  BY <1>5 DEF Clears, ClearInterrupt, NeverDeafInv, NeverDeaf, QuietAtStart
<1>6. CASE Interrupts
  BY <1>6 DEF Interrupts, USB_Handler, NeverDeafInv, NeverDeaf, QuietAtStart
<1>7. CASE EndsPass
  BY <1>7 DEF EndsPass, EndPass, NeverDeafInv, NeverDeaf, QuietAtStart
<1>8. CASE ReadSummary
  BY <1>8, NeverDeafPass DEF ReadSummary
<1>9. CASE ReadStatus
  <2>1. Goes("status", "end") \/ Goes("status", "flags")
    BY <1>9 DEF ReadStatus, AfterReset
  <2> QED BY <2>1, NeverDeafPass
<1>10. CASE ReadFlags
  BY <1>10, NeverDeafPass DEF ReadFlags
<1>11. CASE AckFlags
  BY <1>11, NeverDeafPass DEF AckFlags
<1>12. CASE HandleSetup
  <2>1. Goes("setup", "in")
    BY <1>12, Zenon DEF HandleSetup
  <2> QED BY <2>1, NeverDeafPass
<1>13. CASE HandleIn
  <2>1. Goes("in", "end")
    BY <1>13, Zenon DEF HandleIn
  <2> QED BY <2>1, NeverDeafPass
<1>14. CASE UNCHANGED vars
  BY <1>14 DEF vars, interruptVars, NeverDeafInv, NeverDeaf, QuietAtStart
<1> QED BY <1>1, <1>2, <1>3, <1>4, <1>5, <1>6, <1>7, <1>8, <1>9, <1>10, <1>11, <1>12, <1>13,
           <1>14 DEF Next, Host, Device

(* While the USB process waits, its interrupt is masked only if the        *)
(* process has been told, whatever the host does once the process has      *)
(* started: it resets the bus at any step of a pass, overlaps transfers or *)
(* sends any request at all (main.c:152-163, usb_samd.c:288-320).          *)
THEOREM DeviceListens == ASSUME "early" \notin HostMay PROVE Spec => []NeverDeaf
<1>1. Init => NeverDeafInv
  BY DEF Init, InitInterrupt, DisabledEndpoint, EnableFlags, NeverDeafInv, NeverDeaf,
         QuietAtStart
<1>2. NeverDeafInv /\ [Next]_vars => NeverDeafInv'
  BY NeverDeafStep
<1>3. NeverDeafInv => NeverDeaf
  BY DEF NeverDeafInv
<1> QED BY <1>1, <1>2, <1>3, PTL DEF Spec

-----------------------------------------------------------------------------
(* A SETUP packet that has not been handled, in the controller or in the   *)
(* flags the pass has read.                                                *)
Unhandled ==
  "RXSTP" \in ep0.flags \/ ("RXSTP" \in flags /\ pc \in {"ack", "setup"})

(* ep0_buf_out is shared by the SETUP packets and the data stages: while a *)
(* SETUP packet in it waits, bank 0 accepts no data that would overwrite   *)
(* it, and the pass that handles it has seen no other since.               *)
SetupKept ==
  /\ Unhandled => ep0.bk0rdy /\ ep0_buf_out \in Requests
  /\ pc \in {"setup", "in"} /\ flags # {} => "RXSTP" \notin ep0.flags

ControlInv == TypeOK /\ SetupKept

(* A packet holds a unit or more, and a string is shorter than a packet.   *)
LEMMA Sizes ==
  /\ EP0_SIZE \in Nat /\ EP0_SIZE > 0
  /\ {0, 1} \subseteq 0 .. EP0_SIZE
  /\ DescriptorLength \in [Descriptors -> Nat]
  /\ \A d \in Strings : DescriptorLength[d] < EP0_SIZE
<1>1. EP0_SIZE \in Nat \ {0}
  BY ControlAssumption, Zenon
<1>2. EP0_SIZE \in Nat /\ EP0_SIZE > 0
  BY <1>1
<1>3. {0, 1} \subseteq 0 .. EP0_SIZE
  BY <1>2
<1>4. DescriptorLength \in [Descriptors -> Nat]
  BY ControlAssumption, Zenon
<1>5. \A d \in Strings : DescriptorLength[d] < EP0_SIZE
  BY ControlAssumption, Zenon
<1> QED BY <1>2, <1>3, <1>4, <1>5

(* The fields of a request, and of none. *)
LEMMA RequestFields ==
  ASSUME NEW r \in Requests \cup {NoRequest}
  PROVE  /\ r.value \in Nat /\ r.wLength \in Nat
         /\ r.kind = "GetDescriptor" => r.descriptor \in Descriptors
<1>1. CASE r \in Requests
  BY <1>1, ControlAssumption DEF Request
<1>2. CASE r = NoRequest
  BY <1>2 DEF NoRequest
<1> QED BY <1>1, <1>2

(* What the primitives of usb_samd.c leave of an endpoint's type.          *)
LEMMA EndpointTypes ==
  ASSUME NEW e \in Endpoint(0 .. EP0_SIZE), NEW n \in 0 .. EP0_SIZE
  PROVE  /\ StartIn(e, n) \in Endpoint(0 .. EP0_SIZE)
         /\ StartOut(e) \in Endpoint(0 .. EP0_SIZE)
         /\ Stall(e) \in Endpoint(0 .. EP0_SIZE)
         /\ SetupDone(e) \in Endpoint(0 .. EP0_SIZE)
         /\ OutDone(e) \in Endpoint(0 .. EP0_SIZE)
         /\ InDone(e) \in Endpoint(0 .. EP0_SIZE)
         /\ ResetEndpoint(e) \in Endpoint(0 .. EP0_SIZE)
         /\ UsbReset(e) \in Endpoint(0 .. EP0_SIZE)
         /\ ClearFlags(e, EndpointFlags) \in Endpoint(0 .. EP0_SIZE)
BY DEF Endpoint, EndpointFlags, StartIn, StartOut, Stall, SetupDone, OutDone, InDone,
       ResetEndpoint, UsbReset, EnableFlags, ClearFlags

(* What they do to the flags and to the ready bit of bank 0.               *)
LEMMA EndpointFields ==
  ASSUME NEW e \in Endpoint(0 .. EP0_SIZE), NEW n
  PROVE  /\ StartIn(e, n).flags \subseteq e.flags
         /\ StartOut(e).flags \subseteq e.flags
         /\ Stall(e).flags = e.flags
         /\ SetupDone(e).bk0rdy
         /\ OutDone(e).flags = e.flags \cup {"TRCPT0"}
         /\ InDone(e).flags = e.flags \cup {"TRCPT1"} /\ InDone(e).bk0rdy = e.bk0rdy
         /\ ResetEndpoint(e).flags = {}
         /\ UsbReset(e).flags = e.flags /\ UsbReset(e).bk0rdy = e.bk0rdy
         /\ ClearFlags(e, EndpointFlags).flags = {}
BY DEF Endpoint, EndpointFlags, StartIn, StartOut, Stall, SetupDone, OutDone, InDone,
       ResetEndpoint, UsbReset, EnableFlags, ClearFlags

(* usb_ep0_in_multi sends no more than a packet, and arms bank 0 only in   *)
(* the pass that has read the flags.                                       *)
LEMMA SendNextTypes ==
  ASSUME TypeOK, NEW size \in Nat, NEW ptr, SendNext(size, ptr)
  PROVE  /\ ep0' \in Endpoint(0 .. EP0_SIZE) /\ ep0'.flags \subseteq ep0.flags
         /\ DOMAIN ep0_buf_in' = 1 .. EP0_SIZE
         /\ usb_ep0_in_size' \in Nat
<1> DEFINE tsize == Smaller(size, EP0_SIZE)
<1>1. tsize \in 0 .. EP0_SIZE /\ size - tsize \in Nat
  BY Sizes DEF Smaller
<1>2. StartIn(ep0, tsize) \in Endpoint(0 .. EP0_SIZE)
  BY <1>1, EndpointTypes DEF TypeOK
<1>3. StartIn(ep0, tsize).flags \subseteq ep0.flags
  BY <1>1, EndpointFields DEF TypeOK
<1>4. /\ StartOut(StartIn(ep0, tsize)) \in Endpoint(0 .. EP0_SIZE)
      /\ StartOut(StartIn(ep0, tsize)).flags \subseteq StartIn(ep0, tsize).flags
  <2> DEFINE e == StartIn(ep0, tsize)
  <2>1. 0 \in 0 .. EP0_SIZE
    BY Sizes
  <2> HIDE DEF e
  <2>2. e \in Endpoint(0 .. EP0_SIZE) => StartOut(e) \in Endpoint(0 .. EP0_SIZE)
    BY <2>1, EndpointTypes
  <2>3. e \in Endpoint(0 .. EP0_SIZE) => StartOut(e).flags \subseteq e.flags
    BY EndpointFields
  <2> QED BY <1>2, <2>2, <2>3 DEF e
<1>5. /\ ep0_buf_in' = Copied(ep0_buf_in, Units(ptr.descriptor, ptr.offset, tsize))
      /\ ep0' = IF tsize = 0 THEN StartOut(StartIn(ep0, tsize)) ELSE StartIn(ep0, tsize)
      /\ usb_ep0_in_size' = size - tsize
  BY Zenon DEF SendNext
<1>6. DOMAIN ep0_buf_in' = 1 .. EP0_SIZE
  BY <1>5 DEF Copied
<1> HIDE DEF tsize
<1>7. ep0' \in Endpoint(0 .. EP0_SIZE) /\ ep0'.flags \subseteq ep0.flags
  BY <1>2, <1>3, <1>4, <1>5
<1> QED BY <1>1, <1>5, <1>6, <1>7

(* An answer of one unit or none, from ep0_buf_in. *)
LEMMA AnswersTypes ==
  ASSUME TypeOK, NEW n \in {0, 1}, Answers(n)
  PROVE  /\ ep0' \in Endpoint(0 .. EP0_SIZE) /\ ep0'.flags \subseteq ep0.flags
         /\ usb_ep0_in_size' \in Nat
<1> DEFINE e == StartIn(ep0, n)
<1>1. n \in 0 .. EP0_SIZE
  BY Sizes
<1>2. e \in Endpoint(0 .. EP0_SIZE) /\ e.flags \subseteq ep0.flags
  BY <1>1, EndpointTypes, EndpointFields DEF TypeOK
<1>3. ep0' = StartOut(e) /\ usb_ep0_in_size' = usb_ep0_in_size
  BY DEF Answers
<1> HIDE DEF e
<1>4. StartOut(e) \in Endpoint(0 .. EP0_SIZE) /\ StartOut(e).flags \subseteq e.flags
  BY <1>1, <1>2, EndpointTypes, EndpointFields
<1> QED BY <1>2, <1>3, <1>4 DEF TypeOK

(* GetDescriptor, of a string or another, known or not. *)
LEMMA GetDescriptorTypes ==
  ASSUME TypeOK, NEW d \in Descriptors, NEW w \in Nat, GetDescriptor(d, w)
  PROVE  /\ ep0' \in Endpoint(0 .. EP0_SIZE) /\ ep0'.flags \subseteq ep0.flags
         /\ DOMAIN ep0_buf_in' = 1 .. EP0_SIZE
         /\ usb_ep0_in_size' \in Nat
<1> DEFINE size == Smaller(DescriptorLength[d], w)
<1>1. DescriptorLength[d] \in Nat /\ size \in Nat
  BY Sizes DEF Smaller
<1>2. CASE Refuses
  <2>1. 0 \in 0 .. EP0_SIZE
    BY Sizes
  <2>2. Stall(ep0) \in Endpoint(0 .. EP0_SIZE) /\ Stall(ep0).flags = ep0.flags
    BY <2>1, EndpointTypes, EndpointFields DEF TypeOK
  <2> QED BY <1>2, <2>2 DEF Refuses, TypeOK
<1>3. CASE /\ d \in Strings
           /\ ep0_buf_in' = Copied(ep0_buf_in, Units(d, 0, DescriptorLength[d]))
           /\ ep0' = StartIn(ep0, size)
           /\ usb_ep0_in_size' = 0
  <2>1. size \in 0 .. EP0_SIZE
    BY <1>1, <1>3, Sizes DEF Smaller
  <2>2. StartIn(ep0, size) \in Endpoint(0 .. EP0_SIZE)
    BY <2>1, EndpointTypes DEF TypeOK
  <2>3. StartIn(ep0, size).flags \subseteq ep0.flags
    BY <2>1, EndpointFields DEF TypeOK
  <2>4. DOMAIN ep0_buf_in' = 1 .. EP0_SIZE
    BY <1>3 DEF Copied
  <2> HIDE DEF size
  <2> QED BY <1>3, <2>2, <2>3, <2>4
<1>4. CASE SendNext(size, [descriptor |-> d, offset |-> 0])
  BY <1>1, <1>4, SendNextTypes
<1> QED BY <1>2, <1>3, <1>4, Zenon DEF GetDescriptor

(* The SETUP packet is still the one the flag announced. *)
LEMMA HandleSetupKeeps ==
  ASSUME ControlInv, HandleSetup
  PROVE  ControlInv'
<1>1. /\ pc = "setup" /\ pc' = "in"
      /\ UNCHANGED <<nvic_enabled, usb_interrupt, eorst, address, ep0_buf_out, summary, flags,
                     stage, request, host_address>>
      /\ nvic_pending' = (nvic_pending \/ Line')
  BY Zenon DEF HandleSetup, Goes, Pends, passVars, hostVars
<1>2. nvic_pending' \in BOOLEAN
  BY <1>1 DEF ControlInv, TypeOK, InterruptTypeOK, Line, Interrupting
<1>3. CASE "RXSTP" \notin flags /\ UNCHANGED <<deviceVars, ep0, ep0_buf_in>>
  BY <1>1, <1>2, <1>3
  DEF ControlInv, TypeOK, InterruptTypeOK, ProcessSteps, PassSteps, SetupKept, Unhandled,
      deviceVars
<1>4. CASE "RXSTP" \in flags
  <2> DEFINE s == ep0_buf_out
  <2>1. s \in Requests /\ "RXSTP" \notin ep0.flags
    BY <1>1, <1>4 DEF ControlInv, SetupKept, Unhandled
  <2>2. usb_setup' = s
    BY <1>4, Zenon DEF HandleSetup
  <2>3. usb_configuration' \in 0 .. 1
    <3>1. s.value \in Nat
      BY <2>1, RequestFields
    <3>2. \/ usb_configuration' = s.value /\ Accepts(s.value)
          \/ UNCHANGED usb_configuration
      BY <1>4, Zenon DEF HandleSetup
    <3> QED BY <3>1, <3>2 DEF Accepts, ControlInv, TypeOK
  <2>4. /\ ep0' \in Endpoint(0 .. EP0_SIZE) /\ ep0'.flags \subseteq ep0.flags
        /\ DOMAIN ep0_buf_in' = 1 .. EP0_SIZE
        /\ usb_ep0_in_size' \in Nat
    <3>1. CASE s.kind = "GetDescriptor" /\ GetDescriptor(s.descriptor, s.wLength)
      <4>1. s.descriptor \in Descriptors /\ s.wLength \in Nat
        BY <2>1, <3>1, RequestFields
      <4> HIDE DEF s
      <4> QED BY <3>1, <4>1, GetDescriptorTypes DEF ControlInv
    <3>2. ASSUME NEW source, AnswersFrom(source)
          PROVE  /\ ep0' \in Endpoint(0 .. EP0_SIZE) /\ ep0'.flags \subseteq ep0.flags
                 /\ DOMAIN ep0_buf_in' = 1 .. EP0_SIZE
                 /\ usb_ep0_in_size' \in Nat
      BY <3>2, AnswersTypes DEF AnswersFrom, Copied, ControlInv
    <3>3. CASE Answers(0) /\ UNCHANGED ep0_buf_in
      BY <3>3, AnswersTypes DEF ControlInv, TypeOK
    <3>4. CASE Refuses
      <4>1. 0 \in 0 .. EP0_SIZE
        BY Sizes
      <4>2. Stall(ep0) \in Endpoint(0 .. EP0_SIZE) /\ Stall(ep0).flags = ep0.flags
        BY <4>1, EndpointTypes, EndpointFields DEF ControlInv, TypeOK
      <4> QED BY <3>4, <4>2 DEF Refuses, ControlInv, TypeOK
    <3>5. CASE UNCHANGED <<ep0, ep0_buf_in, usb_ep0_in_size, usb_ep0_in_ptr>>
      BY <3>5 DEF ControlInv, TypeOK
    <3> QED BY <1>4, <3>1, <3>2, <3>3, <3>4, <3>5, Zenon DEF HandleSetup
  <2> HIDE DEF s
  <2>5. "RXSTP" \notin ep0'.flags
    BY <2>1, <2>4
  <2> QED BY <1>1, <1>2, <2>1, <2>2, <2>3, <2>4, <2>5
          DEF ControlInv, TypeOK, InterruptTypeOK, ProcessSteps, PassSteps, SetupKept, Unhandled
<1> QED BY <1>3, <1>4, Zenon DEF HandleSetup

(* Completing a transfer arms a bank only when no SETUP packet is waiting. *)
LEMMA HandleInKeeps ==
  ASSUME ControlInv, HandleIn
  PROVE  ControlInv'
<1>1. /\ pc = "in" /\ pc' = "end" /\ flags' = {}
      /\ UNCHANGED <<nvic_enabled, usb_interrupt, eorst, ep0_buf_out, summary, usb_setup,
                     usb_configuration, stage, request, host_address>>
      /\ nvic_pending' = (nvic_pending \/ Line')
  BY Zenon DEF HandleIn, Goes, Pends, hostVars
<1>2. nvic_pending' \in BOOLEAN
  BY <1>1 DEF ControlInv, TypeOK, InterruptTypeOK, Line, Interrupting
<1>3. CASE Completed("GetDescriptor") /\ SendNext(usb_ep0_in_size, usb_ep0_in_ptr)
           /\ UNCHANGED address
  <2>1. /\ ep0' \in Endpoint(0 .. EP0_SIZE) /\ ep0'.flags \subseteq ep0.flags
        /\ DOMAIN ep0_buf_in' = 1 .. EP0_SIZE
        /\ usb_ep0_in_size' \in Nat
    BY <1>3, SendNextTypes DEF ControlInv, TypeOK
  <2>2. "RXSTP" \notin ep0.flags
    BY <1>1, <1>3 DEF Completed, ControlInv, SetupKept
  <2>3. "RXSTP" \notin ep0'.flags
    BY <2>1, <2>2
  <2> QED BY <1>1, <1>2, <1>3, <2>1, <2>3
          DEF ControlInv, TypeOK, InterruptTypeOK, ProcessSteps, PassSteps, SetupKept, Unhandled
<1>4. CASE /\ address' \in {address, usb_setup.value}
           /\ UNCHANGED <<ep0, ep0_buf_in, usb_ep0_in_size, usb_ep0_in_ptr>>
  <2>1. usb_setup.value \in Nat
    BY RequestFields DEF ControlInv, TypeOK
  <2> QED BY <1>1, <1>2, <1>4, <2>1
          DEF ControlInv, TypeOK, InterruptTypeOK, ProcessSteps, PassSteps, SetupKept, Unhandled
<1> QED
  <2>1. \/ /\ Completed("GetDescriptor") /\ SendNext(usb_ep0_in_size, usb_ep0_in_ptr)
           /\ UNCHANGED address
        \/ /\ address' = usb_setup.value
           /\ UNCHANGED <<ep0, ep0_buf_in, usb_ep0_in_size, usb_ep0_in_ptr>>
        \/ UNCHANGED <<address, ep0, ep0_buf_in, usb_ep0_in_size, usb_ep0_in_ptr>>
    BY Zenon DEF HandleIn
  <2> QED BY <1>3, <1>4, <2>1

(* The interrupt line is a Boolean, and so is what it pends. *)
LEMMA PendsTypes ==
  ASSUME InterruptTypeOK, Pends(Line')
  PROVE  nvic_pending' \in BOOLEAN
BY DEF InterruptTypeOK, Pends, Line, Interrupting

(* The host's steps.  It sends a SETUP packet only when the pass has       *)
(* nothing in hand, and data only into a bank that is armed.               *)
LEMMA HostKeeps ==
  ASSUME "overlap" \notin HostMay, ControlInv, Host \/ BusReset
  PROVE  ControlInv'
<1> USE DEF ControlInv
<1>0. 0 \in 0 .. EP0_SIZE
  BY Sizes
<1>1. ASSUME NEW r \in Requests, Setup(r) PROVE ControlInv'
  <2>1. SetupDone(ep0) \in Endpoint(0 .. EP0_SIZE) /\ SetupDone(ep0).bk0rdy
    BY <1>0, EndpointTypes, EndpointFields DEF TypeOK
  <2>2. /\ HostStep /\ flags = {} /\ Pends(Line')
        /\ ep0' = SetupDone(ep0) /\ ep0_buf_out' = r
        /\ request' = r /\ stage' = FirstStage(r)
        /\ UNCHANGED <<eorst, address, ep0_buf_in, host_address>>
    BY <1>1, Zenon DEF Setup
  <2>3. nvic_pending' \in BOOLEAN
    BY <2>2, PendsTypes DEF TypeOK
  <2>4. stage' \in Stages
    BY <2>2 DEF FirstStage, Stages
  <2>5. TypeOK'
    BY <2>1, <2>2, <2>3, <2>4
    DEF HostStep, ProcessWaits, deviceVars, passVars, TypeOK, InterruptTypeOK
  <2>6. SetupKept'
    BY <2>1, <2>2 DEF HostStep, ProcessWaits, passVars, SetupKept, Unhandled
  <2> QED BY <2>5, <2>6
<1>2. CASE In
  <2>1. /\ InDone(ep0) \in Endpoint(0 .. EP0_SIZE)
        /\ InDone(ep0).flags = ep0.flags \cup {"TRCPT1"} /\ InDone(ep0).bk0rdy = ep0.bk0rdy
    BY <1>0, EndpointTypes, EndpointFields DEF TypeOK
  <2>2. /\ HostStep /\ Pends(Line')
        /\ ep0' = InDone(ep0)
        /\ UNCHANGED <<eorst, address, ep0_buf_out, ep0_buf_in, request>>
    BY <1>2, Zenon DEF In, bufferVars
  <2>3. nvic_pending' \in BOOLEAN
    BY <2>2, PendsTypes DEF TypeOK
  <2>4. stage' \in Stages
    BY <1>2 DEF In, Stages
  <2>5. host_address' \in Nat
    <3>1. request.value \in Nat
      BY RequestFields DEF TypeOK
    <3>2. host_address' \in {host_address, request.value}
      BY <1>2, Zenon DEF In
    <3> QED BY <3>1, <3>2 DEF TypeOK
  <2>6. TypeOK'
    BY <2>1, <2>2, <2>3, <2>4, <2>5
    DEF HostStep, ProcessWaits, deviceVars, passVars, TypeOK, InterruptTypeOK
  <2>7. SetupKept'
    BY <2>1, <2>2 DEF HostStep, ProcessWaits, passVars, SetupKept, Unhandled
  <2> QED BY <2>6, <2>7
<1>3. CASE Out
  <2>1. /\ OutDone(ep0) \in Endpoint(0 .. EP0_SIZE)
        /\ OutDone(ep0).flags = ep0.flags \cup {"TRCPT0"}
    BY <1>0, EndpointTypes, EndpointFields DEF TypeOK
  <2>2. /\ HostStep /\ Pends(Line') /\ ~ep0.bk0rdy
        /\ ep0' = OutDone(ep0)
        /\ stage' \in {"status_in", "idle"}
        /\ UNCHANGED <<eorst, address, ep0_buf_in, request, host_address>>
    BY <1>3, Zenon DEF Out, AcceptsOut
  <2>3. nvic_pending' \in BOOLEAN
    BY <2>2, PendsTypes DEF TypeOK
  <2>4. TypeOK'
    BY <2>1, <2>2, <2>3
    DEF HostStep, ProcessWaits, deviceVars, passVars, TypeOK, InterruptTypeOK, Stages
  <2>5. ~Unhandled
    BY <2>2 DEF SetupKept
  <2>6. SetupKept'
    BY <2>1, <2>2, <2>5 DEF HostStep, ProcessWaits, passVars, SetupKept, Unhandled
  <2> QED BY <2>4, <2>6
<1>4. CASE Stalled \/ GivesUp
  <2>1. /\ HostStep /\ Pends(Line') /\ stage' = "idle"
        /\ UNCHANGED <<eorst, address, ep0, ep0_buf_out, ep0_buf_in, request, host_address>>
    BY <1>4, Zenon DEF Stalled, GivesUp, EndsTransfer, bufferVars
  <2>2. nvic_pending' \in BOOLEAN
    BY <2>1, PendsTypes DEF TypeOK
  <2>3. TypeOK'
    BY <2>1, <2>2
    DEF HostStep, ProcessWaits, deviceVars, passVars, TypeOK, InterruptTypeOK, Stages
  <2>4. SetupKept'
    BY <2>1 DEF HostStep, ProcessWaits, passVars, SetupKept, Unhandled
  <2> QED BY <2>3, <2>4
<1>5. CASE BusReset
  <2>1. /\ ResetEndpoint(ep0) \in Endpoint(0 .. EP0_SIZE)
        /\ ResetEndpoint(ep0).flags = {} /\ ResetEndpoint(ep0).bk0rdy = ep0.bk0rdy
    BY <1>0, EndpointTypes, EndpointFields DEF TypeOK, ResetEndpoint, Endpoint
  <2>2. /\ HostStep /\ Pends(Line') /\ stage' = "idle" /\ request' = NoRequest
        /\ eorst' = TRUE /\ address' = 0 /\ host_address' = 0
        /\ ep0' = ResetEndpoint(ep0)
        /\ UNCHANGED <<ep0_buf_out, ep0_buf_in>>
    BY <1>5, Zenon DEF BusReset, bufferVars
  <2>3. nvic_pending' \in BOOLEAN
    BY <2>2, PendsTypes DEF TypeOK
  <2>4. TypeOK'
    BY <2>1, <2>2, <2>3
    DEF HostStep, ProcessWaits, deviceVars, passVars, TypeOK, InterruptTypeOK, Stages
  <2>5. SetupKept'
    BY <2>1, <2>2 DEF HostStep, ProcessWaits, passVars, SetupKept, Unhandled
  <2> QED BY <2>4, <2>5
<1> QED BY <1>1, <1>2, <1>3, <1>4, <1>5, Zenon DEF Host

(* The process and the interrupt, outside usb_handle_setup and             *)
(* usb_handle_control_in_complete.                                         *)
LEMMA ProcessKeeps ==
  ASSUME ControlInv,
         Interrupts \/ Starts \/ Unblocks \/ Clears \/ EndsPass
  PROVE  ControlInv'
<1> USE DEF ControlInv
<1>1. OnlyProcess
  BY Zenon DEF Interrupts, Starts, Unblocks, Clears, EndsPass
<1>2. UNCHANGED <<eorst, address, ep0, ep0_buf_out, ep0_buf_in, summary, flags, usb_setup,
                  usb_configuration, usb_ep0_in_size, stage, request, host_address>>
  BY <1>1 DEF OnlyProcess, bufferVars, passVars, deviceVars, hostVars
<1>3. Line' \in BOOLEAN
  BY DEF Line, Interrupting
<1>4. /\ pc' = pc \/ pc' \in {"wait", "clear", "summary"}
      /\ InterruptTypeOK'
  BY <1>3 DEF TypeOK, InterruptTypeOK, Pends, Goes, ProcessSteps, PassSteps, Interrupts,
      Starts, Unblocks, Clears, EndsPass, USB_Handler, StartProcess, Unblock, ClearInterrupt,
      EndPass
<1>5. TypeOK'
  BY <1>2, <1>4 DEF TypeOK
<1>6. SetupKept'
  BY <1>2, <1>4 DEF SetupKept, Unhandled
<1> QED BY <1>5, <1>6

(* The steps by which the pass reads and acknowledges.  It acknowledges    *)
(* what it has read, which is then in flags and nowhere else.              *)
LEMMA ReadKeeps ==
  ASSUME ControlInv, ReadSummary \/ ReadStatus \/ ReadFlags \/ AckFlags
  PROVE  ControlInv'
<1> USE DEF ControlInv
<1>0. 0 \in 0 .. EP0_SIZE
  BY Sizes
<1>1. Pends(Line') /\ nvic_pending' \in BOOLEAN
  BY PendsTypes DEF ReadSummary, ReadStatus, ReadFlags, AckFlags, TypeOK
<1>2. UNCHANGED <<nvic_enabled, usb_interrupt, address, ep0_buf_out, ep0_buf_in, usb_setup,
                  usb_configuration, usb_ep0_in_size, stage, request, host_address>>
  BY DEF ReadSummary, ReadStatus, ReadFlags, AckFlags, Goes, bufferVars, passVars, deviceVars,
      hostVars
<1>3. CASE ReadSummary
  <2>1. pc' = "status" /\ summary' \in BOOLEAN /\ UNCHANGED <<eorst, ep0, flags>>
    BY <1>3 DEF ReadSummary, Goes, Interrupting
  <2> QED BY <1>1, <1>2, <2>1
          DEF TypeOK, InterruptTypeOK, ProcessSteps, PassSteps, SetupKept, Unhandled
<1>4. CASE ReadStatus
  <2>1. pc' \in {"end", "flags"} /\ UNCHANGED <<summary, flags>>
    BY <1>4 DEF ReadStatus, Goes, AfterReset, passVars
  <2>2. eorst' \in BOOLEAN /\ ep0' \in {ep0, UsbReset(ep0)}
    BY <1>4 DEF ReadStatus, TypeOK
  <2>3. /\ UsbReset(ep0) \in Endpoint(0 .. EP0_SIZE)
        /\ UsbReset(ep0).flags = ep0.flags /\ UsbReset(ep0).bk0rdy = ep0.bk0rdy
    BY <1>0, EndpointTypes, EndpointFields DEF TypeOK
  <2>4. /\ ep0' \in Endpoint(0 .. EP0_SIZE)
        /\ ep0'.flags = ep0.flags /\ ep0'.bk0rdy = ep0.bk0rdy
    BY <2>2, <2>3 DEF TypeOK
  <2> QED BY <1>1, <1>2, <2>1, <2>2, <2>4
          DEF TypeOK, InterruptTypeOK, ProcessSteps, PassSteps, SetupKept, Unhandled
<1>5. CASE ReadFlags
  <2>1. pc' = "ack" /\ flags' = ep0.flags /\ UNCHANGED <<eorst, ep0, summary>>
    BY <1>5 DEF ReadFlags, Goes
  <2>2. flags' \subseteq EndpointFlags
    BY <2>1 DEF TypeOK, Endpoint
  <2> QED BY <1>1, <1>2, <2>1, <2>2
          DEF TypeOK, InterruptTypeOK, ProcessSteps, PassSteps, SetupKept, Unhandled
<1>6. CASE AckFlags
  <2>1. /\ pc = "ack" /\ pc' = "setup" /\ ep0' = ClearFlags(ep0, EndpointFlags)
        /\ UNCHANGED <<eorst, summary, flags>>
    BY <1>6 DEF AckFlags, Goes, passVars
  <2>2. ep0' \in Endpoint(0 .. EP0_SIZE) /\ ep0'.flags = {} /\ ep0'.bk0rdy = ep0.bk0rdy
    BY <1>0, <2>1, EndpointTypes, EndpointFields DEF TypeOK, ClearFlags, Endpoint
  <2> QED BY <1>1, <1>2, <2>1, <2>2
          DEF TypeOK, InterruptTypeOK, ProcessSteps, PassSteps, SetupKept, Unhandled
<1> QED BY <1>3, <1>4, <1>5, <1>6

(* Endpoint 0 as reset leaves it. *)
LEMMA InitialControl == ASSUME Init PROVE ControlInv
<1>1. ep0 \in Endpoint(0 .. EP0_SIZE) /\ ep0.flags = {}
  BY Sizes DEF Init, DisabledEndpoint, EnableFlags, Endpoint, EndpointFlags
<1>2. DOMAIN ep0_buf_in = 1 .. EP0_SIZE
  BY DEF Init
<1>3. usb_setup \in Requests \cup {NoRequest} /\ request \in Requests \cup {NoRequest}
  BY Zenon DEF Init
<1>4. InterruptTypeOK
  BY DEF Init, InitInterrupt, InterruptTypeOK, ProcessSteps
<1>5. /\ eorst = FALSE /\ summary = FALSE /\ flags = {} /\ stage = "idle"
      /\ address = 0 /\ host_address = 0 /\ usb_configuration = 0 /\ usb_ep0_in_size = 0
  BY Zenon DEF Init
<1>6. /\ address \in Nat /\ host_address \in Nat /\ usb_configuration \in 0 .. 1
      /\ usb_ep0_in_size \in Nat
  BY <1>5
<1>7. /\ eorst \in BOOLEAN /\ summary \in BOOLEAN
      /\ flags \subseteq EndpointFlags /\ stage \in Stages
  BY <1>5, Zenon DEF Stages
<1>8. SetupKept
  BY <1>1, <1>5 DEF SetupKept, Unhandled
<1> QED BY <1>1, <1>2, <1>3, <1>4, <1>6, <1>7, <1>8, Zenon
        DEF TypeOK, ControlInv

(* Endpoint 0 stays within its types for any descriptors, requests and     *)
(* packet size.  It needs SetupKept: usb_handle_setup copies ep0_buf_out    *)
(* into usb_setup whatever is there, and a data stage that were accepted    *)
(* before the SETUP packet has been handled would be taken for a request   *)
(* (usb_requests.c:29-51, usb_samd.c:296-313).                             *)
THEOREM ControlTypes == ASSUME "overlap" \notin HostMay PROVE Spec => []TypeOK
<1>1. Init => ControlInv
  BY InitialControl
<1>2. ControlInv /\ [Next]_vars => ControlInv'
  <2> SUFFICES ASSUME ControlInv, [Next]_vars PROVE ControlInv'
    OBVIOUS
  <2>1. CASE UNCHANGED vars
    BY <2>1 DEF vars, interruptVars, bufferVars, passVars, deviceVars, hostVars, ControlInv,
                TypeOK, InterruptTypeOK, SetupKept, Unhandled
  <2>2. CASE Next
    BY <2>2, HostKeeps, ProcessKeeps, ReadKeeps, HandleSetupKeeps, HandleInKeeps, Zenon
    DEF Next, Device
  <2> QED BY <2>1, <2>2
<1>3. ControlInv => TypeOK
  BY DEF ControlInv
<1> QED BY <1>1, <1>2, <1>3, PTL DEF Spec

-----------------------------------------------------------------------------
Setting(r) == r.kind = "SetAddress"
InHand == ep0.flags \cup flags

(* The host's transfer is the one the device works on.                     *)
SameTransfer ==
  stage # "idle" => IF Unhandled THEN ep0_buf_out = request ELSE usb_setup = request

(* A SETUP packet finds endpoint 0 at rest and leaves it so until it has   *)
(* been handled.                                                           *)
SetupAlone == Unhandled => ~ep0.bk1rdy /\ InHand \subseteq {"RXSTP"}

(* The pass gets as far as the flags only when one of them is set, unless  *)
(* a reset has cleared them; it looks at none after it has acted on them.  *)
PassHasCause ==
  /\ eorst => stage = "idle"
  /\ ~eorst => /\ (pc = "status" /\ summary) \/ pc = "flags" => ep0.flags # {}
               /\ pc = "ack" => flags # {}
  /\ flags # {} => pc \in {"ack", "setup", "in"}

(* What is acknowledged has been read: a SETUP packet the host still waits *)
(* for, and the end of a SetAddress, which the device cannot have missed.  *)
NothingLost ==
  /\ pc = "ack" /\ "RXSTP" \in ep0.flags /\ stage # "idle" => "RXSTP" \in flags
  /\ pc = "ack" /\ "TRCPT1" \in ep0.flags /\ Setting(usb_setup) => "TRCPT1" \in flags
  /\ Setting(request) => stage \in {"status_in", "idle"}
  /\ Setting(request) /\ stage = "status_in" /\ ep0.bk1rdy => ep0.flags = {} /\ pc # "ack"

(* The status stage of a SetAddress that waits to be handled is that of    *)
(* the address the host uses now.                                          *)
EndOfSetting ==
  "TRCPT1" \in InHand /\ Setting(usb_setup) => host_address = usb_setup.value

AddressInv ==
  /\ ControlInv /\ SameTransfer /\ SetupAlone /\ PassHasCause /\ NothingLost /\ EndOfSetting
  /\ AddressAgreed

(* What the primitives do to bank 1, and a SETUP packet to the flags.      *)
LEMMA EndpointBank1 ==
  ASSUME NEW e \in Endpoint(0 .. EP0_SIZE)
  PROVE  /\ SetupDone(e).flags = e.flags \cup {"RXSTP"} /\ ~SetupDone(e).bk1rdy
         /\ ~InDone(e).bk1rdy
         /\ OutDone(e).bk1rdy = e.bk1rdy
         /\ UsbReset(e).bk1rdy = e.bk1rdy
         /\ ClearFlags(e, EndpointFlags).bk1rdy = e.bk1rdy
BY DEF Endpoint, EndpointFlags, SetupDone, OutDone, InDone, UsbReset, EnableFlags, ClearFlags

(* The host's steps, outside a pass that has flags in hand. *)
LEMMA HostAgrees ==
  ASSUME {"overlap", "reset in pass"} \cap HostMay = {}, AddressInv, Host \/ BusReset
  PROVE  AddressInv'
<1> USE DEF AddressInv
<1>1. ep0 \in Endpoint(0 .. EP0_SIZE)
  BY DEF ControlInv, TypeOK
<1>2. ControlInv'
  BY HostKeeps
<1>3. UNCHANGED <<pc, usb_setup, summary, flags>>
  BY DEF Host, BusReset, Setup, In, Out, Stalled, GivesUp, EndsTransfer, HostStep,
         ProcessWaits, deviceVars, passVars
<1>4. ASSUME NEW r \in Requests, Setup(r) PROVE AddressInv'
  <2>1. /\ SetupDone(ep0).flags = ep0.flags \cup {"RXSTP"} /\ ~SetupDone(ep0).bk1rdy
    BY <1>1, EndpointBank1
  <2>2. /\ ~eorst /\ ep0.flags = {} /\ flags = {} /\ stage = "idle" /\ address = host_address
        /\ ep0' = SetupDone(ep0) /\ ep0_buf_out' = r
        /\ request' = r /\ stage' = FirstStage(r)
        /\ UNCHANGED <<eorst, address, host_address>>
    BY <1>4, Zenon DEF Setup
  <2>3. Setting(r) => stage' = "status_in"
    BY <2>2 DEF Setting, FirstStage
  <2>4. pc # "ack"
    BY <2>2 DEF PassHasCause
  <2>5. SameTransfer' /\ SetupAlone'
    BY <1>3, <2>1, <2>2 DEF SameTransfer, SetupAlone, Unhandled, InHand
  <2>6. PassHasCause'
    BY <1>3, <2>1, <2>2 DEF PassHasCause
  <2>7. NothingLost'
    BY <1>3, <2>1, <2>2, <2>3, <2>4 DEF NothingLost, Setting
  <2>8. EndOfSetting' /\ AddressAgreed'
    BY <1>3, <2>1, <2>2 DEF EndOfSetting, AddressAgreed, InHand
  <2> QED BY <1>2, <2>5, <2>6, <2>7, <2>8
<1>5. CASE In
  <2>1. /\ InDone(ep0).flags = ep0.flags \cup {"TRCPT1"} /\ ~InDone(ep0).bk1rdy
    BY <1>1, EndpointBank1, EndpointFields
  <2>2. /\ stage \in {"data_in", "status_in"} /\ address = host_address /\ ep0.bk1rdy
        /\ ep0' = InDone(ep0)
        /\ UNCHANGED <<eorst, address, ep0_buf_out, request>>
    BY <1>5, Zenon DEF In, bufferVars, SendsIn
  <2>3. \/ stage = "data_in" /\ stage' # "idle" /\ UNCHANGED host_address
        \/ /\ stage = "status_in" /\ stage' = "idle"
           /\ host_address' = IF Setting(request) THEN request.value ELSE host_address
    BY <1>5 DEF In, Setting
  <2>4. ~Unhandled /\ usb_setup = request /\ ~eorst
    BY <2>2 DEF SetupAlone, SameTransfer, PassHasCause
  <2>5. ~Unhandled'
    BY <1>3, <2>1, <2>2, <2>4 DEF Unhandled
  <2>6. SameTransfer' /\ SetupAlone'
    BY <1>3, <2>2, <2>4, <2>5 DEF SameTransfer, SetupAlone
  <2>7. PassHasCause'
    BY <1>3, <2>1, <2>2, <2>4 DEF PassHasCause
  <2>8. Setting(request) => stage = "status_in" /\ pc # "ack"
    BY <2>2 DEF NothingLost
  <2>9. NothingLost'
    BY <1>3, <2>1, <2>2, <2>3, <2>4, <2>8 DEF NothingLost, Setting
  <2>10. EndOfSetting' /\ AddressAgreed'
    BY <1>3, <2>1, <2>2, <2>3, <2>4, <2>8 DEF EndOfSetting, AddressAgreed, InHand, Setting
  <2> QED BY <1>2, <2>6, <2>7, <2>9, <2>10
<1>6. CASE Out
  <2>1. /\ OutDone(ep0).flags = ep0.flags \cup {"TRCPT0"} /\ OutDone(ep0).bk1rdy = ep0.bk1rdy
    BY <1>1, EndpointBank1, EndpointFields
  <2>2. /\ stage \in {"data_out", "status_out"} /\ ~ep0.bk0rdy
        /\ ep0' = OutDone(ep0)
        /\ UNCHANGED <<eorst, address, request, host_address>>
    BY <1>6, Zenon DEF Out, AcceptsOut
  <2>3. ~Unhandled /\ usb_setup = request /\ ~eorst /\ ~Setting(request)
    BY <2>2 DEF ControlInv, SetupKept, SameTransfer, PassHasCause, NothingLost
  <2>4. ~Unhandled'
    BY <1>3, <2>1, <2>2, <2>3 DEF Unhandled
  <2>5. SameTransfer' /\ SetupAlone'
    BY <1>3, <2>2, <2>3, <2>4 DEF SameTransfer, SetupAlone
  <2>6. PassHasCause'
    BY <1>3, <2>1, <2>2, <2>3 DEF PassHasCause
  <2>7. NothingLost'
    BY <1>3, <2>1, <2>2, <2>3 DEF NothingLost, Setting, Unhandled
  <2>8. EndOfSetting' /\ AddressAgreed'
    BY <1>3, <2>1, <2>2, <2>3 DEF EndOfSetting, AddressAgreed, InHand, Setting
  <2> QED BY <1>2, <2>5, <2>6, <2>7, <2>8
<1>7. CASE Stalled \/ GivesUp
  <2>1. /\ stage' = "idle"
        /\ UNCHANGED <<eorst, address, ep0, ep0_buf_out, request, host_address>>
    BY <1>7, Zenon DEF Stalled, GivesUp, EndsTransfer, bufferVars
  <2>2. SameTransfer' /\ SetupAlone'
    BY <1>3, <2>1 DEF SameTransfer, SetupAlone, Unhandled, InHand
  <2>3. PassHasCause'
    BY <1>3, <2>1 DEF PassHasCause
  <2>4. NothingLost'
    BY <1>3, <2>1 DEF NothingLost, Setting
  <2>5. EndOfSetting' /\ AddressAgreed'
    BY <1>3, <2>1 DEF EndOfSetting, AddressAgreed, InHand, Setting
  <2> QED BY <1>2, <2>2, <2>3, <2>4, <2>5
<1>8. CASE BusReset
  <2>1. ResetEndpoint(ep0).flags = {}
    BY <1>1, EndpointFields
  <2>2. /\ flags = {} \/ "reset in pass" \in HostMay
        /\ stage' = "idle" /\ request' = NoRequest
        /\ eorst' = TRUE /\ address' = 0 /\ host_address' = 0
        /\ ep0' = ResetEndpoint(ep0)
    BY <1>8, Zenon DEF BusReset
  <2>3. flags = {}
    BY <2>2
  <2>4. SameTransfer' /\ SetupAlone'
    BY <1>3, <2>1, <2>2, <2>3 DEF SameTransfer, SetupAlone, Unhandled, InHand
  <2>5. PassHasCause'
    BY <1>3, <2>2, <2>3 DEF PassHasCause
  <2>6. NothingLost'
    BY <1>3, <2>1, <2>2 DEF NothingLost, Setting
  <2>7. EndOfSetting' /\ AddressAgreed'
    BY <1>3, <2>1, <2>2, <2>3 DEF EndOfSetting, AddressAgreed, InHand, Setting
  <2> QED BY <1>2, <2>4, <2>5, <2>6, <2>7
<1> QED BY <1>4, <1>5, <1>6, <1>7, <1>8, Zenon DEF Host

(* The process and the interrupt move only the process, and into no step   *)
(* that has flags in hand.                                                 *)
LEMMA ProcessAgrees ==
  ASSUME AddressInv, Interrupts \/ Starts \/ Unblocks \/ Clears \/ EndsPass
  PROVE  AddressInv'
<1> USE DEF AddressInv
<1>1. ControlInv'
  BY ProcessKeeps
<1>2. UNCHANGED <<eorst, address, ep0, ep0_buf_out, summary, flags, usb_setup, stage, request,
                  host_address>>
  BY Zenon DEF Interrupts, Starts, Unblocks, Clears, EndsPass, OnlyProcess, bufferVars, passVars,
      deviceVars, hostVars
<1>3. pc' = pc \/ (pc' \in {"wait", "clear", "summary"} /\ pc \notin {"ack", "setup", "in"})
  BY DEF Goes, Interrupts, Starts, Unblocks, Clears, EndsPass, USB_Handler, StartProcess,
      Unblock, ClearInterrupt, EndPass
<1>4. SameTransfer' /\ SetupAlone'
  BY <1>2, <1>3 DEF SameTransfer, SetupAlone, Unhandled, InHand
<1>5. PassHasCause'
  BY <1>2, <1>3 DEF PassHasCause
<1>6. NothingLost'
  BY <1>2, <1>3 DEF NothingLost, Setting
<1>7. EndOfSetting' /\ AddressAgreed'
  BY <1>2 DEF EndOfSetting, AddressAgreed, InHand, Setting
<1> QED BY <1>1, <1>4, <1>5, <1>6, <1>7

(* Reading the flags and acknowledging them loses nothing that matters.    *)
LEMMA ReadAgrees ==
  ASSUME AddressInv, ReadSummary \/ ReadStatus \/ ReadFlags \/ AckFlags
  PROVE  AddressInv'
<1> USE DEF AddressInv
<1>1. ep0 \in Endpoint(0 .. EP0_SIZE)
  BY DEF ControlInv, TypeOK
<1>2. ControlInv'
  BY ReadKeeps
<1>3. UNCHANGED <<address, ep0_buf_out, usb_setup, stage, request, host_address>>
  BY Zenon DEF ReadSummary, ReadStatus, ReadFlags, AckFlags, bufferVars, passVars, deviceVars,
      hostVars
<1>4. CASE ReadSummary
  <2>1. /\ pc = "summary" /\ pc' = "status" /\ summary' = Interrupting(ep0)
        /\ UNCHANGED <<eorst, ep0, flags>>
    BY <1>4, Zenon DEF ReadSummary, Goes
  <2>2. SameTransfer' /\ SetupAlone'
    BY <1>3, <2>1 DEF SameTransfer, SetupAlone, Unhandled, InHand
  <2>3. PassHasCause'
    BY <1>3, <2>1 DEF PassHasCause, Interrupting
  <2>4. NothingLost'
    BY <1>3, <2>1 DEF NothingLost, Setting
  <2>5. EndOfSetting' /\ AddressAgreed'
    BY <1>3, <2>1 DEF EndOfSetting, AddressAgreed, InHand, Setting
  <2> QED BY <1>2, <2>2, <2>3, <2>4, <2>5
<1>5. CASE ReadStatus
  <2>1. /\ UsbReset(ep0).flags = ep0.flags /\ UsbReset(ep0).bk1rdy = ep0.bk1rdy
    BY <1>1, EndpointFields, EndpointBank1
  <2>2. /\ pc = "status" /\ UNCHANGED flags
        /\ \/ eorst /\ pc' = "end" /\ ep0' = UsbReset(ep0) /\ ~eorst'
           \/ ~eorst /\ pc' \in {"flags", "end"} /\ (pc' = "flags" => summary)
              /\ UNCHANGED <<eorst, ep0>>
    BY <1>5 DEF ReadStatus, Goes, AfterReset, passVars
  <2>3. ep0'.flags = ep0.flags /\ ep0'.bk1rdy = ep0.bk1rdy
    BY <2>1, <2>2
  <2>4. SameTransfer' /\ SetupAlone'
    BY <1>3, <2>2, <2>3 DEF SameTransfer, SetupAlone, Unhandled, InHand
  <2>5. PassHasCause'
    BY <1>3, <2>2, <2>3 DEF PassHasCause
  <2>6. NothingLost'
    BY <1>3, <2>2, <2>3 DEF NothingLost, Setting
  <2>7. EndOfSetting' /\ AddressAgreed'
    BY <1>3, <2>2, <2>3 DEF EndOfSetting, AddressAgreed, InHand, Setting
  <2> QED BY <1>2, <2>4, <2>5, <2>6, <2>7
<1>6. CASE ReadFlags
  <2>1. /\ pc = "flags" /\ pc' = "ack" /\ flags' = ep0.flags
        /\ UNCHANGED <<eorst, ep0, summary>>
    BY <1>6, Zenon DEF ReadFlags, Goes
  <2>2. flags = {}
    BY <2>1 DEF PassHasCause
  <2>3. SameTransfer' /\ SetupAlone'
    BY <1>3, <2>1, <2>2 DEF SameTransfer, SetupAlone, Unhandled, InHand
  <2>4. PassHasCause'
    BY <1>3, <2>1 DEF PassHasCause
  <2>5. NothingLost'
    <3>1. Setting(request) /\ stage = "status_in" => ~ep0.bk1rdy
      BY <2>1 DEF NothingLost, PassHasCause
    <3> QED BY <1>3, <2>1, <3>1 DEF NothingLost, Setting
  <2>6. EndOfSetting' /\ AddressAgreed'
    BY <1>3, <2>1, <2>2 DEF EndOfSetting, AddressAgreed, InHand, Setting
  <2> QED BY <1>2, <2>3, <2>4, <2>5, <2>6
<1>7. CASE AckFlags
  <2>1. /\ pc = "ack" /\ pc' = "setup" /\ ep0' = ClearFlags(ep0, EndpointFlags)
        /\ UNCHANGED <<eorst, summary, flags>>
    BY <1>7, Zenon DEF AckFlags, Goes, passVars
  <2>2. ep0'.flags = {} /\ ep0'.bk1rdy = ep0.bk1rdy
    BY <1>1, <2>1, EndpointFields, EndpointBank1
  <2>3. SameTransfer' /\ SetupAlone'
    BY <1>3, <2>1, <2>2 DEF SameTransfer, SetupAlone, Unhandled, InHand, NothingLost
  <2>4. PassHasCause'
    BY <1>3, <2>1 DEF PassHasCause
  <2>5. NothingLost'
    BY <1>3, <2>1, <2>2 DEF NothingLost, Setting
  <2>6. EndOfSetting' /\ AddressAgreed'
    BY <1>3, <2>1, <2>2 DEF EndOfSetting, AddressAgreed, InHand, Setting, NothingLost
  <2> QED BY <1>2, <2>3, <2>4, <2>5, <2>6
<1> QED BY <1>4, <1>5, <1>6, <1>7

(* The flags of endpoint 0 after usb_handle_setup are among those before.  *)
LEMMA HandleSetupFlags ==
  ASSUME ControlInv, HandleSetup
  PROVE  ep0'.flags \subseteq ep0.flags
<1>1. CASE "RXSTP" \notin flags
  BY <1>1, Zenon DEF HandleSetup
<1>2. CASE "RXSTP" \in flags
  <2> DEFINE s == ep0_buf_out
  <2>1. s \in Requests
    BY <1>2, Zenon DEF HandleSetup, Goes, ControlInv, SetupKept, Unhandled
  <2>2. CASE s.kind = "GetDescriptor" /\ GetDescriptor(s.descriptor, s.wLength)
    <3>1. s.descriptor \in Descriptors /\ s.wLength \in Nat
      BY <2>1, <2>2, RequestFields
    <3> HIDE DEF s
    <3> QED BY <2>2, <3>1, GetDescriptorTypes DEF ControlInv
  <2>3. CASE \E n \in {0, 1} : Answers(n)
    BY <2>3, AnswersTypes DEF ControlInv
  <2>4. CASE Refuses
    <3>1. Stall(ep0).flags = ep0.flags
      BY EndpointFields DEF ControlInv, TypeOK
    <3> QED BY <2>4, <3>1 DEF Refuses
  <2>5. CASE UNCHANGED ep0
    BY <2>5
  <2> QED BY <1>2, <2>2, <2>3, <2>4, <2>5, Zenon DEF HandleSetup, AnswersFrom
<1> QED BY <1>1, <1>2

(* A SetAddress is answered at once and acted on when the answer is sent.  *)
LEMMA HandleSetupAgrees ==
  ASSUME AddressInv, HandleSetup
  PROVE  AddressInv'
<1> USE DEF AddressInv
<1>1. ControlInv' /\ ep0'.flags \subseteq ep0.flags
  BY HandleSetupKeeps, HandleSetupFlags
<1>2. /\ pc = "setup" /\ pc' = "in"
      /\ UNCHANGED <<eorst, address, ep0_buf_out, summary, flags, stage, request, host_address>>
      /\ \/ "RXSTP" \notin flags /\ UNCHANGED <<usb_setup, ep0>>
         \/ "RXSTP" \in flags /\ usb_setup' = ep0_buf_out
  BY Zenon DEF HandleSetup, Goes, passVars, deviceVars, hostVars
<1>3. CASE "RXSTP" \notin flags /\ UNCHANGED <<usb_setup, ep0>>
  <2>1. SameTransfer' /\ SetupAlone'
    BY <1>2, <1>3 DEF SameTransfer, SetupAlone, Unhandled, InHand
  <2>2. PassHasCause'
    BY <1>2, <1>3 DEF PassHasCause
  <2>3. NothingLost'
    BY <1>2, <1>3 DEF NothingLost, Setting
  <2>4. EndOfSetting' /\ AddressAgreed'
    BY <1>2, <1>3 DEF EndOfSetting, AddressAgreed, InHand, Setting
  <2> QED BY <1>1, <2>1, <2>2, <2>3, <2>4
<1>4. CASE "RXSTP" \in flags /\ usb_setup' = ep0_buf_out
  <2>1. Unhandled /\ InHand \subseteq {"RXSTP"} /\ "RXSTP" \notin ep0.flags
    BY <1>2, <1>4 DEF Unhandled, SetupAlone, ControlInv, SetupKept
  <2>2. ep0'.flags = {} /\ ep0.flags = {} /\ "TRCPT1" \notin InHand /\ ~Unhandled'
    BY <1>1, <1>2, <2>1 DEF InHand, Unhandled
  <2>3. SameTransfer' /\ SetupAlone'
    BY <1>2, <1>4, <2>1, <2>2 DEF SameTransfer, SetupAlone
  <2>4. PassHasCause'
    BY <1>2, <2>2 DEF PassHasCause
  <2>5. NothingLost'
    BY <1>2, <2>2 DEF NothingLost, Setting
  <2>6. EndOfSetting' /\ AddressAgreed'
    BY <1>2, <2>2 DEF EndOfSetting, AddressAgreed, InHand, Setting
  <2> QED BY <1>1, <2>3, <2>4, <2>5, <2>6
<1> QED BY <1>2, <1>3, <1>4

(* The completion of a SetAddress brings the two addresses together.       *)
LEMMA HandleInAgrees ==
  ASSUME AddressInv, HandleIn
  PROVE  AddressInv'
<1> USE DEF AddressInv
<1>1. ControlInv'
  BY HandleInKeeps
<1>2. /\ pc = "in" /\ pc' = "end" /\ flags' = {}
      /\ UNCHANGED <<eorst, ep0_buf_out, summary, usb_setup, stage, request, host_address>>
  BY Zenon DEF HandleIn, Goes, hostVars
<1>3. \/ /\ "TRCPT1" \in flags /\ usb_setup.kind = "GetDescriptor"
         /\ SendNext(usb_ep0_in_size, usb_ep0_in_ptr) /\ UNCHANGED address
      \/ /\ "TRCPT1" \in flags /\ Setting(usb_setup)
         /\ address' = usb_setup.value /\ UNCHANGED ep0
      \/ /\ ~("TRCPT1" \in flags /\ Setting(usb_setup))
         /\ UNCHANGED <<address, ep0>>
  BY Zenon DEF HandleIn, Completed, Setting
<1>4. \/ ep0' = ep0
      \/ /\ ep0'.flags \subseteq ep0.flags /\ "RXSTP" \notin ep0.flags
         /\ usb_setup.kind = "GetDescriptor" /\ "TRCPT1" \in InHand
         /\ UNCHANGED address
  <2>1. CASE /\ "TRCPT1" \in flags /\ usb_setup.kind = "GetDescriptor"
             /\ SendNext(usb_ep0_in_size, usb_ep0_in_ptr) /\ UNCHANGED address
    <3>1. ep0'.flags \subseteq ep0.flags
      BY <2>1, SendNextTypes DEF ControlInv, TypeOK
    <3> QED BY <1>2, <2>1, <3>1 DEF ControlInv, SetupKept, InHand
  <2> QED BY <1>3, <2>1
<1>5. Unhandled' <=> Unhandled
  BY <1>2, <1>4 DEF Unhandled
<1>6. SameTransfer' /\ SetupAlone'
  BY <1>2, <1>4, <1>5 DEF SameTransfer, SetupAlone, Unhandled, InHand
<1>7. PassHasCause'
  BY <1>2 DEF PassHasCause
<1>8. NothingLost'
  <2>1. CASE ep0' = ep0
    BY <1>2, <2>1 DEF NothingLost, Setting
  <2>2. CASE usb_setup.kind = "GetDescriptor" /\ "TRCPT1" \in InHand
    <3>1. ~Unhandled
      BY <2>2 DEF SetupAlone
    <3>2. stage = "idle" \/ ~Setting(request)
      BY <2>2, <3>1 DEF SameTransfer, Setting
    <3> QED BY <1>2, <3>2 DEF NothingLost, Setting
  <2> QED BY <1>4, <2>1, <2>2
<1>9. EndOfSetting'
  BY <1>2, <1>4 DEF EndOfSetting, InHand, Setting
<1>10. AddressAgreed'
  <2>1. CASE "TRCPT1" \in flags /\ Setting(usb_setup)
    BY <1>2, <1>3, <2>1 DEF EndOfSetting, InHand, Setting, AddressAgreed
  <2>2. CASE ~("TRCPT1" \in flags /\ Setting(usb_setup))
    <3>1. address' = address
      BY <1>3, <2>2
    <3>2. Setting(usb_setup) => ep0' = ep0
      BY <1>4 DEF Setting
    <3> QED BY <1>2, <2>2, <3>1, <3>2 DEF AddressAgreed, Setting
  <2> QED BY <2>1, <2>2
<1> QED BY <1>1, <1>6, <1>7, <1>8, <1>9, <1>10

(* Before the first transfer nothing is in hand. *)
LEMMA InitialAddress == ASSUME Init PROVE AddressInv
<1>1. ControlInv
  BY InitialControl
<1>2. /\ pc = "init" /\ eorst = FALSE /\ flags = {} /\ stage = "idle"
      /\ address = 0 /\ host_address = 0 /\ usb_setup = NoRequest /\ request = NoRequest
      /\ ep0 = EnableFlags(DisabledEndpoint, {"RXSTP"})
  BY Zenon DEF Init, InitInterrupt
<1>3. ep0.flags = {}
  BY <1>2 DEF EnableFlags, DisabledEndpoint
<1>4. SameTransfer /\ SetupAlone /\ PassHasCause /\ EndOfSetting
  BY <1>2, <1>3 DEF SameTransfer, SetupAlone, PassHasCause, EndOfSetting, Unhandled, InHand
<1>5. NothingLost /\ AddressAgreed
  BY <1>2, <1>3 DEF NothingLost, AddressAgreed, Setting, NoRequest
<1> QED BY <1>1, <1>4, <1>5 DEF AddressInv

(* The steps of host, process and pass, and of neither. *)
LEMMA AddressStep ==
  ASSUME {"overlap", "reset in pass"} \cap HostMay = {}, AddressInv, [Next]_vars
  PROVE  AddressInv'
<1>1. CASE UNCHANGED vars
  <2>1. UNCHANGED <<nvic_enabled, nvic_pending, usb_interrupt, pc, eorst, address, ep0,
                    ep0_buf_out, ep0_buf_in, summary, flags, usb_setup, usb_configuration,
                    usb_ep0_in_size, stage, request, host_address>>
    BY <1>1 DEF vars, interruptVars, bufferVars, passVars, deviceVars, hostVars
  <2>2. ControlInv'
    BY <2>1 DEF AddressInv, ControlInv, TypeOK, InterruptTypeOK, SetupKept, Unhandled
  <2> QED BY <2>1, <2>2 DEF AddressInv, SameTransfer, SetupAlone, PassHasCause, NothingLost,
                            EndOfSetting, AddressAgreed, Unhandled, InHand, Setting
<1>2. CASE Next
  BY <1>2, HostAgrees, ProcessAgrees, ReadAgrees, HandleSetupAgrees, HandleInAgrees, Zenon
  DEF Next, Device
<1> QED BY <1>1, <1>2

(* The device answers to the address the host uses, except between the     *)
(* status stage of a SetAddress and its handling, whatever the descriptors, *)
(* the requests and the packet size (usb_requests.c:43-45 and 113-115).    *)
(* It holds as long as the host sends no SETUP packet before the transfer  *)
(* ahead of it has been handled, and does not reset the bus in a pass that *)
(* has read a flag.                                                        *)
THEOREM DeviceAddress ==
  ASSUME {"overlap", "reset in pass"} \cap HostMay = {}
  PROVE  Spec => []AddressAgreed
<1>1. Init => AddressInv
  BY InitialAddress
<1>2. AddressInv /\ [Next]_vars => AddressInv'
  BY AddressStep
<1>3. AddressInv => AddressAgreed
  BY DEF AddressInv
<1> QED BY <1>1, <1>2, <1>3, PTL DEF Spec

-----------------------------------------------------------------------------
(* The end of a transmission that has not been handled leaves bank 1 idle. *)
BankIdle == "TRCPT1" \in InHand => ~ep0.bk1rdy

(* Where a transmission starts, the flag of the one before it is cleared.  *)
LEMMA SendNextClears ==
  ASSUME TypeOK, NEW size \in Nat, NEW ptr, SendNext(size, ptr)
  PROVE  "TRCPT1" \notin ep0'.flags
<1> DEFINE tsize == Smaller(size, EP0_SIZE)
           e == StartIn(ep0, tsize)
<1>1. "TRCPT1" \notin e.flags /\ "TRCPT1" \notin StartOut(e).flags
  BY DEF StartIn, StartOut, TypeOK, Endpoint
<1>2. ep0' \in {e, StartOut(e)}
  BY Zenon DEF SendNext
<1> QED BY <1>1, <1>2

(* Only usb_handle_setup and the next packet arm it again. *)
LEMMA BankIdleStep ==
  ASSUME AddressInv, BankIdle, [Next]_vars, AddressInv'
  PROVE  BankIdle'
<1> USE DEF AddressInv
<1>1. ep0 \in Endpoint(0 .. EP0_SIZE)
  BY DEF ControlInv, TypeOK
<1>2. ASSUME NEW r \in Requests, Setup(r) PROVE BankIdle'
  <2>1. ep0' = SetupDone(ep0)
    BY <1>2, Zenon DEF Setup
  <2> QED BY <1>1, <2>1, EndpointBank1 DEF BankIdle
<1>3. CASE In
  <2>1. ep0' = InDone(ep0)
    BY <1>3, Zenon DEF In
  <2> QED BY <1>1, <2>1, EndpointBank1 DEF BankIdle
<1>4. CASE Out
  <2>1. ep0' = OutDone(ep0) /\ UNCHANGED flags
    BY <1>4, Zenon DEF Out, HostStep, passVars
  <2> QED BY <1>1, <2>1, EndpointFields, EndpointBank1 DEF BankIdle, InHand
<1>5. CASE BusReset
  <2>1. ep0' = [ep0 EXCEPT !.flags = {}, !.inten = {}, !.stall = FALSE] /\ UNCHANGED flags
    BY <1>5 DEF BusReset, HostStep, passVars, ResetEndpoint
  <2>2. ep0'.flags = {} /\ ep0'.bk1rdy = ep0.bk1rdy
    BY <1>1, <2>1 DEF Endpoint
  <2> QED BY <2>1, <2>2 DEF BankIdle, InHand
<1>6. CASE \/ Stalled \/ GivesUp \/ Interrupts \/ Starts \/ Unblocks
          \/ Clears \/ EndsPass \/ ReadSummary
          \/ UNCHANGED vars
  <2>1. UNCHANGED <<ep0, flags>>
    BY <1>6, Zenon DEF Stalled, GivesUp, EndsTransfer, HostStep, Interrupts,
                       Starts, Unblocks, Clears, EndsPass, OnlyProcess, ReadSummary, passVars, vars
  <2> QED BY <2>1 DEF BankIdle, InHand
<1>7. CASE ReadStatus
  <2>1. ep0' \in {ep0, UsbReset(ep0)} /\ UNCHANGED flags
    BY <1>7 DEF ReadStatus, passVars
  <2> QED BY <1>1, <2>1, EndpointFields, EndpointBank1 DEF BankIdle, InHand
<1>8. CASE ReadFlags
  BY <1>8 DEF ReadFlags, BankIdle, InHand
<1>9. CASE AckFlags
  <2>1. ep0' = ClearFlags(ep0, EndpointFlags) /\ UNCHANGED flags
    BY <1>9, Zenon DEF AckFlags, passVars
  <2> QED BY <1>1, <2>1, EndpointFields, EndpointBank1 DEF BankIdle, InHand
<1>10. CASE HandleSetup
  <2>1. UNCHANGED flags
    BY <1>10, Zenon DEF HandleSetup, passVars
  <2>2. CASE "RXSTP" \notin flags
    <3>1. UNCHANGED ep0
      BY <1>10, <2>2, Zenon DEF HandleSetup
    <3> QED BY <2>1, <3>1 DEF BankIdle, InHand
  <2>3. CASE "RXSTP" \in flags
    <3>1. "TRCPT1" \notin InHand
      BY <1>10, <2>3 DEF HandleSetup, Goes, SetupAlone, Unhandled
    <3>2. ep0'.flags \subseteq ep0.flags
      BY <1>10, HandleSetupFlags
    <3> QED BY <2>1, <3>1, <3>2 DEF BankIdle, InHand
  <2> QED BY <2>2, <2>3
<1>11. CASE HandleIn
  <2>1. flags' = {}
    BY <1>11, Zenon DEF HandleIn
  <2>2. UNCHANGED ep0 \/ SendNext(usb_ep0_in_size, usb_ep0_in_ptr)
    BY <1>11, Zenon DEF HandleIn
  <2>3. SendNext(usb_ep0_in_size, usb_ep0_in_ptr) => "TRCPT1" \notin ep0'.flags
    BY SendNextClears DEF ControlInv, TypeOK
  <2> QED BY <2>1, <2>2, <2>3 DEF BankIdle, InHand
<1> QED BY <1>2, <1>3, <1>4, <1>5, <1>6, <1>7, <1>8, <1>9, <1>10, <1>11, Zenon
        DEF Next, Host, Device

(* A buffer handed to the controller is left alone until its completion    *)
(* has been handled, for any descriptors, requests and packet size: of the *)
(* two places that write ep0_buf_in, one handles a SETUP packet, which has  *)
(* emptied the bank, and the other the completion itself (usb.h:96-98,     *)
(* usb_requests.c:11-27 and 53-67).                                         *)
THEOREM ArmedBufferIsKept ==
  ASSUME {"overlap", "reset in pass"} \cap HostMay = {}
  PROVE  Spec => ArmedBufferKept
<1> DEFINE Kept == ep0.bk1rdy /\ ep0'.bk1rdy =>
                     SubSeq(ep0_buf_in', 1, ep0.size) = SubSeq(ep0_buf_in, 1, ep0.size)
           Inv == AddressInv /\ BankIdle
<1>1. Init => Inv
  <2> SUFFICES ASSUME Init PROVE Inv
    OBVIOUS
  <2>1. AddressInv
    BY InitialAddress
  <2>2. flags = {} /\ ep0 = EnableFlags(DisabledEndpoint, {"RXSTP"})
    BY Zenon DEF Init
  <2>3. ep0.flags = {}
    BY <2>2 DEF EnableFlags, DisabledEndpoint
  <2> QED BY <2>1, <2>2, <2>3 DEF BankIdle, InHand
<1>2. Inv /\ [Next]_vars => Inv'
  BY AddressStep, BankIdleStep
<1>3. Inv /\ [Next]_vars => [Kept]_vars
  <2> SUFFICES ASSUME Inv, Next, ep0.bk1rdy PROVE UNCHANGED ep0_buf_in
    BY Zenon
  <2>1. CASE HandleSetup
    <3>1. "RXSTP" \notin flags
      BY <2>1 DEF HandleSetup, Goes, AddressInv, SetupAlone, Unhandled
    <3> QED BY <2>1, <3>1, Zenon DEF HandleSetup
  <2>2. CASE HandleIn
    <3>1. "TRCPT1" \notin flags
      BY DEF BankIdle, InHand
    <3> QED BY <2>2, <3>1, Zenon DEF HandleIn, Completed
  <2>3. CASE Host \/ BusReset
    BY <2>3, Zenon DEF Host, Setup, In, Out, Stalled, GivesUp, EndsTransfer,
                            BusReset, bufferVars
  <2>4. CASE \/ Interrupts \/ Starts \/ Unblocks \/ Clears \/ EndsPass \/ ReadSummary
             \/ ReadStatus \/ ReadFlags \/ AckFlags
    BY <2>4, Zenon DEF Interrupts, Starts, Unblocks, Clears, EndsPass, OnlyProcess, ReadSummary,
        ReadStatus, ReadFlags, AckFlags, bufferVars
  <2> QED BY <2>1, <2>2, <2>3, <2>4, Zenon DEF Next, Device
<1> QED BY <1>1, <1>2, <1>3, PTL DEF Spec, ArmedBufferKept

-----------------------------------------------------------------------------
(* Packets as sequences of units. *)
LEMMA UnitsAreUnits ==
  ASSUME NEW source, NEW first \in Nat, NEW n \in Nat
  PROVE  /\ Units(source, first, n) \in Seq({source} \X Nat)
         /\ Len(Units(source, first, n)) = n
         /\ \A i \in 1 .. n : Units(source, first, n)[i] = <<source, first + i>>
<1> DEFINE u == Units(source, first, n)
<1>1. \A i \in 1 .. n : u[i] = <<source, first + i>>
  BY DEF Units
<1>2. u \in [1 .. n -> {source} \X Nat]
  BY DEF Units
<1>3. u \in Seq({source} \X Nat)
  <2>1. u \in UNION {[1 .. m -> {source} \X Nat] : m \in Nat}
    BY <1>2
  <2> QED BY <2>1, SeqDef
<1>4. Len(u) = n
  <2>1. DOMAIN u = 1 .. n
    BY DEF Units
  <2> QED BY <1>3, <2>1, LenProperties
<1> QED BY <1>1, <1>3, <1>4

(* The units of a source that follow each other make one run of units.     *)
LEMMA UnitsFollow ==
  ASSUME NEW source, NEW k \in Nat, NEW n \in Nat
  PROVE  Units(source, 0, k) \o Units(source, k, n) = Units(source, 0, k + n)
<1> DEFINE S == {source} \X Nat
           a == Units(source, 0, k)
           b == Units(source, k, n)
           c == Units(source, 0, k + n)
<1>1. /\ a \in Seq(S) /\ Len(a) = k /\ \A i \in 1 .. k : a[i] = <<source, 0 + i>>
  BY UnitsAreUnits
<1>2. /\ b \in Seq(S) /\ Len(b) = n /\ \A i \in 1 .. n : b[i] = <<source, k + i>>
  BY UnitsAreUnits
<1>3. /\ c \in Seq(S) /\ Len(c) = k + n /\ \A i \in 1 .. k + n : c[i] = <<source, 0 + i>>
  <2>1. k + n \in Nat
    OBVIOUS
  <2> QED BY <2>1, UnitsAreUnits
<1> HIDE DEF S, a, b, c
<1>4. /\ a \o b \in Seq(S) /\ Len(a \o b) = k + n
      /\ \A i \in 1 .. k + n : (a \o b)[i] = IF i <= k THEN a[i] ELSE b[i - k]
  BY <1>1, <1>2, ConcatProperties
<1>5. ASSUME NEW i \in 1 .. k + n PROVE (a \o b)[i] = c[i]
  <2>1. CASE i <= k
    <3>1. i \in 1 .. k
      BY <2>1
    <3>2. a[i] = <<source, 0 + i>> /\ c[i] = <<source, 0 + i>>
      BY <1>1, <1>3, <3>1
    <3> QED BY <1>4, <2>1, <3>2
  <2>2. CASE ~(i <= k)
    <3>1. i - k \in 1 .. n /\ k + (i - k) = 0 + i
      BY <2>2
    <3>2. b[i - k] = <<source, k + (i - k)>>
      BY <1>2, <3>1
    <3> QED BY <1>3, <1>4, <2>2, <3>1, <3>2
  <2> QED BY <2>1, <2>2
<1>6. a \o b = c
  BY <1>3, <1>4, <1>5, SeqEqual
<1> QED BY <1>6 DEF a, b, c

(* What the controller sends of a chunk that has been copied.              *)
LEMMA CopiedIsSent ==
  ASSUME NEW buffer, NEW source, NEW first \in Nat, NEW n \in 0 .. EP0_SIZE, NEW m \in 0 .. n
  PROVE  SubSeq(Copied(buffer, Units(source, first, n)), 1, m) = Units(source, first, m)
<1> DEFINE S == {source} \X Nat
           u == Units(source, first, n)
           v == Units(source, first, m)
           c == Copied(buffer, u)
           t == SubSeq(c, 1, m)
<1>1. EP0_SIZE \in Nat /\ n \in Nat /\ m \in Nat
  BY Sizes
<1>2. Len(u) = n /\ \A i \in 1 .. n : u[i] = <<source, first + i>>
  BY <1>1, UnitsAreUnits
<1>3. /\ v \in Seq(S) /\ Len(v) = m /\ \A i \in 1 .. m : v[i] = <<source, first + i>>
  BY <1>1, UnitsAreUnits
<1>4. \A i \in 1 .. m : c[i] = <<source, first + i>>
  <2> SUFFICES ASSUME NEW i \in 1 .. m PROVE c[i] = <<source, first + i>>
    OBVIOUS
  <2>1. i \in 1 .. EP0_SIZE /\ i <= n /\ i \in 1 .. n
    BY <1>1
  <2>2. c[i] = IF i <= Len(u) THEN u[i] ELSE buffer[i]
    BY <2>1 DEF Copied
  <2> HIDE DEF c, u
  <2> QED BY <1>2, <2>1, <2>2
<1>5. \A i \in 1 .. m : c[i] \in S
  BY <1>1, <1>4
<1> HIDE DEF S, u, v, c
<1>6. t \in Seq(S) /\ Len(t) = m /\ \A i \in 1 .. m : t[i] = c[i]
  <2>1. /\ t \in Seq(S) /\ Len(t) = IF 1 <= m THEN m - 1 + 1 ELSE 0
        /\ \A i \in 1 .. m - 1 + 1 : t[i] = c[1 + i - 1]
    BY <1>1, <1>5, SubSeqProperties
  <2>2. m - 1 + 1 = m /\ (~(1 <= m) => m = 0)
    BY <1>1
  <2>3. \A i \in 1 .. m : 1 + i - 1 = i
    BY <1>1
  <2> HIDE DEF t
  <2> QED BY <1>1, <2>1, <2>2, <2>3
<1> HIDE DEF t
<1>7. \A i \in 1 .. m : t[i] = v[i]
  BY <1>3, <1>4, <1>6
<1>8. t = v
  BY <1>3, <1>6, <1>7, SeqEqual
<1> QED BY <1>8 DEF t, v, c, u

-----------------------------------------------------------------------------
(* Where the data of a request come from, and how many units are due.      *)
Answered == {"GetStatus", "GetConfiguration", "GetLineEncoding"}
Source(r) ==
  IF r.kind = "GetDescriptor" THEN r.descriptor
  ELSE CASE r.kind = "GetStatus" -> "status"
         [] r.kind = "GetConfiguration" -> "configuration"
         [] r.kind = "GetLineEncoding" -> "line_coding"
Due(r) ==
  IF r.kind = "GetDescriptor" THEN Smaller(DescriptorLength[r.descriptor], r.wLength) ELSE 1

(* The host is owed what is due of the source. *)
LEMMA ExpectedIsDue ==
  ASSUME NEW r, r.kind \in {"GetDescriptor"} \cup Answered
  PROVE  /\ Expected(r) = Units(Source(r), 0, Due(r))
         /\ r.kind = "GetStatus" => Source(r) = "status" /\ Due(r) = 1
         /\ r.kind = "GetConfiguration" => Source(r) = "configuration" /\ Due(r) = 1
         /\ r.kind = "GetLineEncoding" => Source(r) = "line_coding" /\ Due(r) = 1
<1>1. CASE r.kind = "GetDescriptor"
  BY <1>1 DEF Expected, Source, Due
<1>2. CASE r.kind = "GetStatus"
  <2>1. Source(r) = "status" /\ Due(r) = 1
    BY <1>2 DEF Source, Due
  <2>2. Expected(r) = Units("status", 0, 1)
    BY <1>2 DEF Expected
  <2> QED BY <1>2, <2>1, <2>2
<1>3. CASE r.kind = "GetConfiguration"
  <2>1. Source(r) = "configuration" /\ Due(r) = 1
    BY <1>3 DEF Source, Due
  <2>2. Expected(r) = Units("configuration", 0, 1)
    BY <1>3 DEF Expected
  <2> QED BY <1>3, <2>1, <2>2
<1>4. CASE r.kind = "GetLineEncoding"
  <2>1. Source(r) = "line_coding" /\ Due(r) = 1
    BY <1>4 DEF Source, Due
  <2>2. Expected(r) = Units("line_coding", 0, 1)
    BY <1>4 DEF Expected
  <2> QED BY <1>4, <2>1, <2>2
<1> QED BY <1>1, <1>2, <1>3, <1>4 DEF Answered

(* A data stage, its request handled; what has been sent of it or is armed. *)
Sending == stage = "data_in" /\ ~Unhandled
Sent == Len(received) + (IF ep0.bk1rdy THEN ep0.size ELSE 0)

(* The host has the first units of what it asked for, none before its       *)
(* request has been handled.                                                *)
PrefixReceived ==
  stage = "data_in" =>
    /\ request.kind \in {"GetDescriptor"} \cup Answered /\ request.wLength > 0
    /\ Len(received) \in 0 .. Due(request)
    /\ received = Units(Source(request), 0, Len(received))
    /\ Unhandled => received = <<>>

(* The armed packet holds the units that follow, as many as it takes or    *)
(* all that are left.                                                      *)
NextArmed ==
  Sending /\ ep0.bk1rdy =>
    /\ SubSeq(ep0_buf_in, 1, ep0.size) = Units(Source(request), Len(received), ep0.size)
    /\ Sent <= Due(request)
    /\ ep0.size < EP0_SIZE => Sent = Due(request)

(* usb_ep0_in_size and usb_ep0_in_ptr say what is left; between transfers  *)
(* they hold what an earlier one has left.                                 *)
RestKnown ==
  Sending /\ request.kind = "GetDescriptor" /\ (ep0.bk1rdy \/ "TRCPT1" \in InHand) =>
       /\ usb_ep0_in_size = Due(request) - Sent
       /\ usb_ep0_in_size > 0 =>
            usb_ep0_in_ptr = [descriptor |-> request.descriptor, offset |-> Sent]

DataInv == AddressInv /\ BankIdle /\ PrefixReceived /\ NextArmed /\ RestKnown /\ DataIntact

DataParts == PrefixReceived /\ NextArmed /\ RestKnown /\ DataIntact

(* Steps that move neither the host nor bank 1. *)
LEMMA DataBeside ==
  ASSUME DataParts,
         UNCHANGED <<stage, request, received, ep0_buf_in, usb_ep0_in_size, usb_ep0_in_ptr>>,
         ep0'.bk1rdy = ep0.bk1rdy, ep0'.size = ep0.size,
         stage = "data_in" => (Unhandled' <=> Unhandled),
         "TRCPT1" \in InHand' => "TRCPT1" \in InHand
  PROVE  DataParts'
<1>1. Sent' = Sent
  BY DEF Sent
<1>2. Sending' <=> Sending
  BY DEF Sending
<1>3. Due(request)' = Due(request) /\ Source(request)' = Source(request)
  <2>1. request' = request
    OBVIOUS
  <2> QED BY <2>1, Zenon
<1>4. PrefixReceived'
  <2> SUFFICES ASSUME stage' = "data_in" PROVE PrefixReceived'
    BY DEF PrefixReceived
  <2> QED BY <1>3, Zenon DEF DataParts, PrefixReceived
<1>5. NextArmed'
  BY <1>1, <1>2, <1>3, Zenon DEF DataParts, NextArmed
<1>6. RestKnown'
  BY <1>1, <1>2, <1>3, Zenon DEF DataParts, RestKnown
<1>7. DataIntact'
  BY Zenon DEF DataParts, DataIntact, Expected
<1> QED BY <1>4, <1>5, <1>6, <1>7 DEF DataParts

(* Steps that leave the host in no data stage, and what it has received.   *)
LEMMA DataElsewhere ==
  ASSUME DataParts, stage' # "data_in",
         stage' = "status_out" => UNCHANGED <<stage, request, received>>
  PROVE  DataParts'
<1>1. PrefixReceived' /\ NextArmed' /\ RestKnown'
  BY DEF PrefixReceived, NextArmed, RestKnown, Sending
<1>2. DataIntact'
  BY Zenon DEF DataParts, DataIntact, Expected
<1> QED BY <1>1, <1>2 DEF DataParts

(* usb_ep0_in_multi sends the units that follow k, all or a full packet.   *)
LEMMA SendNextData ==
  ASSUME TypeOK, NEW size \in Nat, NEW ptr, NEW d, NEW k \in Nat,
         size > 0 => ptr = [descriptor |-> d, offset |-> k],
         SendNext(size, ptr)
  PROVE  /\ ep0'.bk1rdy /\ ep0'.size \in 0 .. EP0_SIZE /\ ep0'.size <= size
         /\ ep0'.size < EP0_SIZE => ep0'.size = size
         /\ SubSeq(ep0_buf_in', 1, ep0'.size) = Units(d, k, ep0'.size)
         /\ usb_ep0_in_size' = size - ep0'.size
         /\ usb_ep0_in_size' > 0 =>
              usb_ep0_in_ptr' = [descriptor |-> d, offset |-> k + ep0'.size]
<1> DEFINE tsize == Smaller(size, EP0_SIZE)
           e == StartIn(ep0, tsize)
<1>1. /\ EP0_SIZE \in Nat /\ tsize \in 0 .. EP0_SIZE /\ tsize <= size
      /\ (tsize < EP0_SIZE => tsize = size) /\ (tsize = 0 <=> size = 0)
  BY Sizes DEF Smaller
<1>2. e.bk1rdy /\ e.size = tsize /\ StartOut(e).bk1rdy /\ StartOut(e).size = tsize
  BY DEF StartIn, StartOut, TypeOK, Endpoint
<1>3. /\ ep0_buf_in' = Copied(ep0_buf_in, Units(ptr.descriptor, ptr.offset, tsize))
      /\ ep0' \in {e, StartOut(e)}
      /\ usb_ep0_in_size' = size - tsize
      /\ usb_ep0_in_ptr' = Advanced(ptr, tsize)
  BY Zenon DEF SendNext
<1>4. SubSeq(ep0_buf_in', 1, tsize) = Units(d, k, tsize)
  <2>1. CASE size = 0
    <3>1. tsize = 0
      BY <1>1, <2>1
    <3>2. SubSeq(ep0_buf_in', 1, 0) = <<>>
      BY SubSeqEmpty
    <3>3. Units(d, k, 0) = <<>>
      <4>1. Units(d, k, 0) \in Seq({d} \X Nat) /\ Len(Units(d, k, 0)) = 0
        BY UnitsAreUnits
      <4> QED BY <4>1, EmptySeq
    <3> QED BY <3>1, <3>2, <3>3
  <2>2. CASE size > 0
    <3>1. ptr.descriptor = d /\ ptr.offset = k
      BY <2>2
    <3>2. tsize \in 0 .. tsize
      BY <1>1
    <3> HIDE DEF tsize
    <3>3. ep0_buf_in' = Copied(ep0_buf_in, Units(d, k, tsize))
      BY <1>3, <3>1
    <3>4. SubSeq(Copied(ep0_buf_in, Units(d, k, tsize)), 1, tsize) = Units(d, k, tsize)
      <4>1. tsize \in 0 .. EP0_SIZE
        BY <1>1
      <4>2. \A buffer : SubSeq(Copied(buffer, Units(d, k, tsize)), 1, tsize)
                          = Units(d, k, tsize)
        <5> TAKE buffer
        <5> QED BY <4>1, <3>2, CopiedIsSent
      <4> QED BY <4>2, Zenon
    <3> QED BY <3>3, <3>4, Zenon
  <2> QED BY <2>1, <2>2
<1>5. size > 0 => usb_ep0_in_ptr' = [descriptor |-> d, offset |-> k + tsize]
  BY <1>3 DEF Advanced
<1>6. ep0'.bk1rdy /\ ep0'.size = tsize
  BY <1>2, <1>3
<1> HIDE DEF tsize, e
<1> QED BY <1>1, <1>3, <1>4, <1>5, <1>6

(* The size of what bank 1 holds. *)
LEMMA EndpointSize ==
  ASSUME NEW e \in Endpoint(0 .. EP0_SIZE), NEW n
  PROVE  /\ StartIn(e, n).bk1rdy /\ StartIn(e, n).size = n
         /\ StartOut(StartIn(e, n)).bk1rdy /\ StartOut(StartIn(e, n)).size = n
         /\ Stall(e).bk1rdy = e.bk1rdy
         /\ UsbReset(e).size = e.size
         /\ ClearFlags(e, EndpointFlags).size = e.size
         /\ e.size \in 0 .. EP0_SIZE
BY DEF Endpoint, EndpointFlags, StartIn, StartOut, Stall, UsbReset, EnableFlags, ClearFlags

(* The pass and the interrupt, but for the two handlers that send.         *)
LEMMA DataPass ==
  ASSUME DataInv, AddressInv', BankIdle',
         \/ Interrupts \/ Starts \/ Unblocks \/ Clears \/ EndsPass
         \/ ReadSummary \/ ReadStatus \/ ReadFlags \/ AckFlags
  PROVE  DataParts'
<1> USE DEF DataInv
<1>1. ep0 \in Endpoint(0 .. EP0_SIZE)
  BY DEF AddressInv, ControlInv, TypeOK
<1>2. UNCHANGED <<stage, request, received, ep0_buf_in, usb_ep0_in_size, usb_ep0_in_ptr>>
  BY Zenon DEF Interrupts, Starts, Unblocks, Clears, EndsPass, OnlyProcess, ReadSummary,
      ReadStatus, ReadFlags, AckFlags, bufferVars, passVars, deviceVars, hostVars
<1>3. DataParts
  BY Zenon DEF DataParts
<1>4. CASE Interrupts \/ Starts \/ Unblocks \/ Clears \/ EndsPass
  <2>1. UNCHANGED <<ep0, flags>>
    BY <1>4, Zenon DEF Interrupts, Starts, Unblocks, Clears, EndsPass, OnlyProcess, passVars
  <2>2. pc' = pc \/ (pc \notin {"ack", "setup"} /\ pc' \notin {"ack", "setup"})
    BY <1>4 DEF Goes, Interrupts, Starts, Unblocks, Clears, EndsPass, USB_Handler, StartProcess,
        Unblock, ClearInterrupt, EndPass
  <2>3. Unhandled' <=> Unhandled
    BY <2>1, <2>2 DEF Unhandled
  <2>4. InHand' = InHand
    BY <2>1, Zenon DEF InHand
  <2> QED BY <1>2, <1>3, <2>1, <2>3, <2>4, DataBeside
<1>5. CASE ReadSummary
  <2>1. UNCHANGED <<ep0, flags>> /\ pc = "summary" /\ pc' = "status"
    BY <1>5, Zenon DEF ReadSummary, Goes
  <2>2. Unhandled' <=> Unhandled
    BY <2>1 DEF Unhandled
  <2>3. InHand' = InHand
    BY <2>1, Zenon DEF InHand
  <2> QED BY <1>2, <1>3, <2>1, <2>2, <2>3, DataBeside
<1>6. CASE ReadStatus
  <2>1. /\ ep0' \in {ep0, UsbReset(ep0)} /\ UNCHANGED flags
        /\ pc = "status" /\ pc' \in {"end", "flags"}
    BY <1>6 DEF ReadStatus, Goes, AfterReset, passVars
  <2>2. ep0'.flags = ep0.flags /\ ep0'.bk1rdy = ep0.bk1rdy /\ ep0'.size = ep0.size
    BY <1>1, <2>1, EndpointFields, EndpointBank1, EndpointSize
  <2>3. Unhandled' <=> Unhandled
    BY <2>1, <2>2 DEF Unhandled
  <2>4. InHand' = InHand
    BY <2>1, <2>2 DEF InHand
  <2> QED BY <1>2, <1>3, <2>2, <2>3, <2>4, DataBeside
<1>7. CASE ReadFlags
  <2>1. UNCHANGED ep0 /\ flags' = ep0.flags /\ pc = "flags" /\ pc' = "ack"
    BY <1>7, Zenon DEF ReadFlags, Goes
  <2>2. Unhandled' <=> Unhandled
    BY <2>1 DEF Unhandled
  <2>3. "TRCPT1" \in InHand' => "TRCPT1" \in InHand
    BY <2>1 DEF InHand
  <2> QED BY <1>2, <1>3, <2>1, <2>2, <2>3, DataBeside
<1>8. CASE AckFlags
  <2>1. /\ pc = "ack" /\ pc' = "setup" /\ ep0' = ClearFlags(ep0, EndpointFlags)
        /\ UNCHANGED flags
    BY <1>8, Zenon DEF AckFlags, Goes, passVars
  <2>2. ep0'.flags = {} /\ ep0'.bk1rdy = ep0.bk1rdy /\ ep0'.size = ep0.size
    BY <1>1, <2>1, EndpointFields, EndpointBank1, EndpointSize
  <2>3. stage = "data_in" => (Unhandled' <=> Unhandled)
    BY <2>1, <2>2 DEF Unhandled, AddressInv, NothingLost
  <2>4. "TRCPT1" \in InHand' => "TRCPT1" \in InHand
    BY <2>1, <2>2 DEF InHand
  <2> QED BY <1>2, <1>3, <2>2, <2>3, <2>4, DataBeside
<1> QED BY <1>4, <1>5, <1>6, <1>7, <1>8

(* The host's steps: a request, a packet of its data, its end.             *)
LEMMA DataHost ==
  ASSUME DataInv, AddressInv', BankIdle', Host \/ BusReset
  PROVE  DataParts'
<1> USE DEF DataInv
<1>1. ep0 \in Endpoint(0 .. EP0_SIZE) /\ EP0_SIZE \in Nat
  BY Sizes DEF AddressInv, ControlInv, TypeOK
<1>2. DataParts
  BY Zenon DEF DataParts
<1>3. ASSUME NEW r \in Requests, Setup(r) PROVE DataParts'
  <2>1. ep0' = SetupDone(ep0) /\ request' = r /\ stage' = FirstStage(r) /\ received' = <<>>
    BY <1>3, Zenon DEF Setup
  <2>2. Unhandled'
    BY <1>1, <2>1, EndpointBank1 DEF Unhandled
  <2>3. CASE stage' # "data_in"
    <3>1. stage' # "status_out"
      BY <2>1 DEF FirstStage
    <3> QED BY <1>2, <2>3, <3>1, DataElsewhere
  <2>4. CASE stage' = "data_in"
    <3>1. r.kind \in {"GetDescriptor"} \cup Answered /\ r.wLength > 0
      BY <2>1, <2>4 DEF FirstStage, Answered
    <3>2. Due(r) \in Nat
      BY <3>1, RequestFields, Sizes DEF Due, Smaller
    <3>3. Len(received') = 0 /\ received' = Units(Source(r), 0, 0)
      <4>1. /\ Units(Source(r), 0, 0) \in Seq({Source(r)} \X Nat)
            /\ Len(Units(Source(r), 0, 0)) = 0
        BY UnitsAreUnits
      <4>2. Units(Source(r), 0, 0) = <<>>
        BY <4>1, EmptySeq
      <4> QED BY <2>1, <4>2
    <3>4. PrefixReceived'
      <4>1. Len(received') \in 0 .. Due(r)
        BY <3>2, <3>3
      <4>2. received' = Units(Source(r), 0, Len(received'))
        BY <3>3, Zenon
      <4> QED BY <2>1, <3>1, <4>1, <4>2, Zenon DEF PrefixReceived
    <3>5. NextArmed' /\ RestKnown' /\ DataIntact'
      BY <2>2, <2>4 DEF NextArmed, RestKnown, DataIntact, Sending
    <3> QED BY <3>4, <3>5 DEF DataParts
  <2> QED BY <2>3, <2>4
<1>4. CASE In /\ stage # "data_in"
  <2>1. stage' = "idle"
    BY <1>4 DEF In
  <2> QED BY <1>2, <2>1, DataElsewhere
<1>5. CASE In /\ stage = "data_in"
  <2> DEFINE k == Len(received)
             n == ep0.size
             source == Source(request)
             packet == SubSeq(ep0_buf_in, 1, ep0.size)
             so_far == received \o packet
  <2>1. /\ ep0.bk1rdy /\ ep0' = InDone(ep0) /\ UNCHANGED <<flags, pc, request>>
        /\ UNCHANGED <<usb_ep0_in_size, usb_ep0_in_ptr>>
        /\ received' = so_far
        /\ stage' = IF Len(packet) < EP0_SIZE \/ Len(so_far) >= request.wLength
                    THEN "status_out" ELSE "data_in"
    BY <1>5 DEF In, SendsIn, HostStep, ProcessWaits, passVars, deviceVars
  <2>2. ~Unhandled
    BY <2>1 DEF AddressInv, SetupAlone
  <2>3. /\ k \in Nat /\ received = Units(source, 0, k)
        /\ request.kind \in {"GetDescriptor"} \cup Answered /\ request.wLength > 0
    BY <1>5 DEF PrefixReceived
  <2>4. /\ packet = Units(source, k, n) /\ Sent = k + n
        /\ k + n <= Due(request) /\ (n < EP0_SIZE => k + n = Due(request))
    BY <1>5, <2>1, <2>2 DEF NextArmed, Sending, Sent
  <2>5. n \in Nat
    BY <1>1, EndpointSize
  <2>6. so_far = Units(source, 0, k + n)
    BY <2>3, <2>4, <2>5, UnitsFollow
  <2>7. Len(packet) = n
    BY <2>3, <2>4, <2>5, UnitsAreUnits
  <2>8. Len(so_far) = k + n
    <3>1. k + n \in Nat /\ 0 \in Nat
      BY <2>3, <2>5
    <3> HIDE DEF so_far, k, n, source
    <3>2. Len(Units(source, 0, k + n)) = k + n
      BY <3>1, UnitsAreUnits
    <3> QED BY <2>6, <3>2
  <2>9. Due(request) \in Nat /\ Due(request) <= request.wLength /\ request.wLength \in Nat
    <3>1. /\ request.wLength \in Nat
          /\ request.kind = "GetDescriptor" => request.descriptor \in Descriptors
      BY RequestFields DEF AddressInv, ControlInv, TypeOK
    <3> QED BY <2>3, <3>1, Sizes DEF Due, Smaller
  <2>10. ~ep0'.bk1rdy /\ ~Unhandled'
    <3>1. InDone(ep0).flags = ep0.flags \cup {"TRCPT1"} /\ ~InDone(ep0).bk1rdy
      BY <1>1, EndpointFields, EndpointBank1
    <3> HIDE DEF packet, so_far
    <3> QED BY <2>1, <2>2, <3>1 DEF Unhandled
  <2> HIDE DEF k, n, source, packet, so_far
  <2>11. CASE stage' = "status_out"
    <3>1. k + n = Due(request)
      BY <2>1, <2>3, <2>4, <2>5, <2>7, <2>8, <2>9, <2>11
    <3>2. received' = Units(source, 0, Due(request))
      BY <2>1, <2>6, <3>1
    <3>3. Expected(request) = Units(source, 0, Due(request))
      BY <2>3, ExpectedIsDue DEF source
    <3>4. DataIntact'
      BY <2>1, <3>2, <3>3, Zenon DEF DataIntact
    <3>5. PrefixReceived' /\ NextArmed' /\ RestKnown'
      BY <2>11 DEF PrefixReceived, NextArmed, RestKnown, Sending
    <3> QED BY <3>4, <3>5 DEF DataParts
  <2>12. CASE stage' = "data_in"
    <3>1. PrefixReceived'
      <4>1. Len(received') = k + n /\ k + n \in 0 .. Due(request)
        BY <2>1, <2>3, <2>4, <2>5, <2>8, <2>9
      <4>2. received' = Units(source, 0, Len(received'))
        BY <2>1, <2>6, <4>1, Zenon
      <4>3. Source(request') = source /\ Due(request') = Due(request)
        BY <2>1, Zenon DEF source
      <4>4. Len(received') \in 0 .. Due(request')
        BY <4>1, <4>3
      <4>5. received' = Units(Source(request'), 0, Len(received'))
        BY <4>2, <4>3, Zenon
      <4>6. request' = request
        BY <2>1
      <4> QED BY <2>3, <2>10, <4>4, <4>5, <4>6, Zenon DEF PrefixReceived
    <3>2. NextArmed' /\ DataIntact'
      BY <2>10, <2>12 DEF NextArmed, DataIntact
    <3>3. RestKnown'
      <4>1. Sent' = Sent
        BY <2>1, <2>3, <2>4, <2>5, <2>8, <2>10 DEF Sent
      <4>2. /\ request.kind = "GetDescriptor" => usb_ep0_in_size = Due(request) - Sent
            /\ request.kind = "GetDescriptor" /\ usb_ep0_in_size > 0 =>
                 usb_ep0_in_ptr = [descriptor |-> request.descriptor, offset |-> Sent]
        BY <1>5, <2>1, <2>2, Zenon DEF RestKnown, Sending
      <4>3. /\ request' = request /\ usb_ep0_in_size' = usb_ep0_in_size
            /\ usb_ep0_in_ptr' = usb_ep0_in_ptr
        BY <2>1
      <4> QED BY <4>1, <4>2, <4>3, Zenon DEF RestKnown
    <3> QED BY <3>1, <3>2, <3>3 DEF DataParts
  <2> QED BY <2>1, <2>11, <2>12
<1>6. CASE Out \/ Stalled \/ GivesUp \/ BusReset
  <2>1. stage' # "data_in" /\ stage' # "status_out"
    BY <1>6 DEF Out, Stalled, GivesUp, EndsTransfer, BusReset
  <2> QED BY <1>2, <2>1, DataElsewhere
<1> QED BY <1>3, <1>4, <1>5, <1>6, Zenon DEF Host

(* A data stage begins: its first packet is armed, or nothing is. *)
LEMMA FirstArmed ==
  ASSUME stage = "data_in", PrefixReceived, received = <<>>,
         UNCHANGED <<stage, request, received>>, ~Unhandled',
         \/ ~ep0'.bk1rdy /\ "TRCPT1" \notin InHand'
         \/ /\ ep0'.bk1rdy /\ ep0'.size \in 0 .. Due(request)
            /\ ep0'.size < EP0_SIZE => ep0'.size = Due(request)
            /\ SubSeq(ep0_buf_in', 1, ep0'.size) = Units(Source(request), 0, ep0'.size)
            /\ request.kind = "GetDescriptor" =>
                 /\ usb_ep0_in_size' = Due(request) - ep0'.size
                 /\ usb_ep0_in_size' > 0 =>
                      usb_ep0_in_ptr' = [descriptor |-> request.descriptor,
                                         offset |-> ep0'.size]
  PROVE  DataParts'
<1>1. PrefixReceived'
  <2>1. request' = request /\ received' = received
    OBVIOUS
  <2> QED BY <2>1, Zenon DEF PrefixReceived
<1>2. DataIntact'
  BY DEF DataIntact
<1>3. Len(received) = 0
  BY EmptySeq
<1>4. CASE ~ep0'.bk1rdy /\ "TRCPT1" \notin InHand'
  BY <1>1, <1>2, <1>4 DEF DataParts, NextArmed, RestKnown
<1>5. CASE ep0'.bk1rdy /\ ep0'.size \in 0 .. Due(request)
  <2>1. Sent' = ep0'.size /\ Len(received') = 0 /\ request' = request
    BY <1>3, <1>5 DEF Sent
  <2>2. NextArmed'
    <3>1. SubSeq(ep0_buf_in', 1, ep0'.size) = Units(Source(request), 0, ep0'.size)
      BY <1>5
    <3>2. ep0'.size <= Due(request) /\ (ep0'.size < EP0_SIZE => ep0'.size = Due(request))
      BY <1>5
    <3> QED BY <2>1, <3>1, <3>2, Zenon DEF NextArmed
  <2>3. RestKnown'
    <3>1. request.kind = "GetDescriptor" =>
            /\ usb_ep0_in_size' = Due(request) - ep0'.size
            /\ usb_ep0_in_size' > 0 =>
                 usb_ep0_in_ptr' = [descriptor |-> request.descriptor, offset |-> ep0'.size]
      BY <1>5
    <3> QED BY <2>1, <3>1, Zenon DEF RestKnown
  <2> QED BY <1>1, <1>2, <2>2, <2>3 DEF DataParts
<1> QED BY <1>4, <1>5

(* usb_handle_setup answers the request that the host waits for. *)
LEMMA DataSetup ==
  ASSUME DataInv, AddressInv', BankIdle', HandleSetup
  PROVE  DataParts'
<1> USE DEF DataInv
<1>1. ep0 \in Endpoint(0 .. EP0_SIZE) /\ TypeOK
  BY DEF AddressInv, ControlInv, TypeOK
<1>2. /\ pc = "setup" /\ pc' = "in"
      /\ UNCHANGED <<flags, stage, request, received>>
  BY Zenon DEF HandleSetup, Goes, passVars, hostVars
<1>3. DataParts
  BY Zenon DEF DataParts
<1>4. CASE "RXSTP" \notin flags
  <2>1. UNCHANGED <<ep0, ep0_buf_in, usb_ep0_in_size, usb_ep0_in_ptr>>
    BY <1>4, Zenon DEF HandleSetup, deviceVars
  <2>2. Unhandled' <=> Unhandled
    BY <1>2, <1>4, <2>1 DEF Unhandled
  <2>3. InHand' = InHand
    BY <1>2, <2>1 DEF InHand
  <2> QED BY <1>2, <1>3, <2>1, <2>2, <2>3, DataBeside
<1>5. CASE "RXSTP" \in flags /\ stage # "data_in"
  BY <1>2, <1>3, <1>5, DataElsewhere
<1>6. CASE "RXSTP" \in flags /\ stage = "data_in"
  <2>1. /\ Unhandled /\ ~ep0.bk1rdy /\ InHand \subseteq {"RXSTP"} /\ "RXSTP" \notin ep0.flags
        /\ ep0_buf_out = request
    BY <1>2, <1>6 DEF AddressInv, ControlInv, SetupKept, SetupAlone, SameTransfer, Unhandled
  <2>2. ep0'.flags \subseteq ep0.flags
    BY HandleSetupFlags DEF AddressInv
  <2>3. ~Unhandled' /\ "TRCPT1" \notin InHand'
    BY <1>2, <2>1, <2>2 DEF Unhandled, InHand
  <2>4. /\ received = <<>> /\ request.kind \in {"GetDescriptor"} \cup Answered
    BY <1>6, <2>1 DEF PrefixReceived
  <2>5. /\ request.wLength \in Nat
        /\ request.kind = "GetDescriptor" => request.descriptor \in Descriptors
    BY RequestFields DEF AddressInv, ControlInv, TypeOK
  <2>6. \/ /\ request.kind = "GetDescriptor"
           /\ GetDescriptor(request.descriptor, request.wLength)
        \/ request.kind = "GetStatus" /\ AnswersFrom("status")
        \/ request.kind = "GetConfiguration" /\ AnswersFrom("configuration")
        \/ request.kind = "GetLineEncoding" /\ AnswersFrom("line_coding")
    BY <1>6, <2>1, <2>4 DEF HandleSetup, Answered
  <2>7. CASE request.kind = "GetDescriptor" /\ Refuses
    <3>1. ~ep0'.bk1rdy
      BY <1>1, <2>1, <2>7, EndpointSize DEF Refuses
    <3> QED BY <1>2, <1>6, <2>3, <2>4, <3>1, FirstArmed
  <2>8. CASE /\ request.kind = "GetDescriptor" /\ request.descriptor \in Strings
             /\ ep0_buf_in' = Copied(ep0_buf_in, Units(request.descriptor, 0,
                                                      DescriptorLength[request.descriptor]))
             /\ ep0' = StartIn(ep0, Due(request))
             /\ usb_ep0_in_size' = 0
    <3> DEFINE n == DescriptorLength[request.descriptor]
               m == Due(request)
    <3>1. n \in 0 .. EP0_SIZE /\ m \in 0 .. n
      BY <2>5, <2>8, Sizes DEF Due, Smaller
    <3>2. ep0'.bk1rdy /\ ep0'.size = m
      BY <1>1, <2>8, EndpointSize
    <3>3. Source(request) = request.descriptor
      BY <2>8 DEF Source
    <3> HIDE DEF n, m
    <3>4. SubSeq(ep0_buf_in', 1, m) = Units(Source(request), 0, m)
      <4>1. \A buffer, source :
              SubSeq(Copied(buffer, Units(source, 0, n)), 1, m) = Units(source, 0, m)
        <5> TAKE buffer, source
        <5> QED BY <3>1, CopiedIsSent
      <4>2. ep0_buf_in' = Copied(ep0_buf_in, Units(request.descriptor, 0, n))
        BY <2>8 DEF n
      <4> QED BY <3>3, <4>1, <4>2, Zenon
    <3>5. m \in 0 .. m /\ m - m = 0 /\ ~(0 > 0)
      BY <3>1, Sizes
    <3>6. usb_ep0_in_size' = m - ep0'.size /\ ~(usb_ep0_in_size' > 0)
      BY <2>8, <3>2, <3>5
    <3>7. ep0'.size \in 0 .. m /\ SubSeq(ep0_buf_in', 1, ep0'.size)
                                  = Units(Source(request), 0, ep0'.size)
      BY <3>2, <3>4, <3>5
    <3> QED BY <1>2, <1>6, <2>3, <2>4, <3>2, <3>6, <3>7, FirstArmed DEF m
  <2>9. CASE /\ request.kind = "GetDescriptor"
             /\ SendNext(Due(request), [descriptor |-> request.descriptor, offset |-> 0])
    <3> DEFINE m == Due(request)
    <3>1. m \in Nat
      BY <2>5, <2>9, Sizes DEF Due, Smaller
    <3>2. Source(request) = request.descriptor
      BY <2>9 DEF Source
    <3> HIDE DEF m
    <3>3. SendNext(m, [descriptor |-> request.descriptor, offset |-> 0])
      BY <2>9 DEF m
    <3>4. /\ ep0'.bk1rdy /\ ep0'.size \in 0 .. EP0_SIZE /\ ep0'.size <= m
          /\ ep0'.size < EP0_SIZE => ep0'.size = m
          /\ SubSeq(ep0_buf_in', 1, ep0'.size) = Units(request.descriptor, 0, ep0'.size)
          /\ usb_ep0_in_size' = m - ep0'.size
          /\ usb_ep0_in_size' > 0 =>
               usb_ep0_in_ptr' = [descriptor |-> request.descriptor, offset |-> 0 + ep0'.size]
      BY <1>1, <3>1, <3>3, SendNextData
    <3>5. ep0'.size \in 0 .. m /\ 0 + ep0'.size = ep0'.size
      BY <3>1, <3>4, Sizes
    <3>6. SubSeq(ep0_buf_in', 1, ep0'.size) = Units(Source(request), 0, ep0'.size)
      BY <3>2, <3>4, Zenon
    <3>7. usb_ep0_in_size' > 0 =>
            usb_ep0_in_ptr' = [descriptor |-> request.descriptor, offset |-> ep0'.size]
      BY <3>4, <3>5
    <3> QED BY <1>2, <1>6, <2>3, <2>4, <3>4, <3>5, <3>6, <3>7, FirstArmed DEF m
  <2>10. ASSUME NEW source, AnswersFrom(source), Source(request) = source, Due(request) = 1,
                request.kind # "GetDescriptor"
         PROVE  DataParts'
    <3>1. ep0'.bk1rdy /\ ep0'.size = 1
      BY <1>1, <2>10, EndpointSize DEF AnswersFrom, Answers
    <3>2. SubSeq(ep0_buf_in', 1, 1) = Units(source, 0, 1)
      <4>1. 1 \in 0 .. EP0_SIZE
        BY Sizes
      <4>2. \A buffer : SubSeq(Copied(buffer, Units(source, 0, 1)), 1, 1) = Units(source, 0, 1)
        <5> TAKE buffer
        <5> QED BY <4>1, CopiedIsSent
      <4>3. ep0_buf_in' = Copied(ep0_buf_in, Units(source, 0, 1))
        BY <2>10 DEF AnswersFrom
      <4> QED BY <4>2, <4>3, Zenon
    <3>3. /\ ep0'.size \in 0 .. Due(request) /\ ep0'.size = Due(request)
      BY <2>10, <3>1
    <3>4. SubSeq(ep0_buf_in', 1, ep0'.size) = Units(Source(request), 0, ep0'.size)
      BY <2>10, <3>1, <3>2
    <3> QED BY <1>2, <1>6, <2>3, <2>4, <2>10, <3>1, <3>3, <3>4, FirstArmed
  <2>11. CASE /\ request.kind = "GetDescriptor"
              /\ GetDescriptor(request.descriptor, request.wLength)
    <3>1. Due(request) = Smaller(DescriptorLength[request.descriptor], request.wLength)
      BY <2>11 DEF Due
    <3> QED BY <2>7, <2>8, <2>9, <2>11, <3>1, Zenon DEF GetDescriptor
  <2> QED BY <2>4, <2>6, <2>10, <2>11, ExpectedIsDue
<1> QED BY <1>4, <1>5, <1>6

(* usb_handle_control_in_complete sends the packet that follows.           *)
LEMMA DataCompletion ==
  ASSUME DataInv, AddressInv', BankIdle', HandleIn
  PROVE  DataParts'
<1> USE DEF DataInv
<1>1. ep0 \in Endpoint(0 .. EP0_SIZE) /\ TypeOK
  BY DEF AddressInv, ControlInv, TypeOK
<1>2. /\ pc = "in" /\ pc' = "end" /\ flags' = {}
      /\ UNCHANGED <<stage, request, received>>
  BY Zenon DEF HandleIn, Goes, hostVars
<1>3. DataParts
  BY Zenon DEF DataParts
<1>4. CASE UNCHANGED <<ep0, ep0_buf_in, usb_ep0_in_size, usb_ep0_in_ptr>>
  <2>1. Unhandled' <=> Unhandled
    BY <1>2, <1>4 DEF Unhandled
  <2>2. "TRCPT1" \in InHand' => "TRCPT1" \in InHand
    BY <1>2, <1>4 DEF InHand
  <2> QED BY <1>2, <1>3, <1>4, <2>1, <2>2, DataBeside
<1>5. CASE stage # "data_in"
  BY <1>2, <1>3, <1>5, DataElsewhere
<1>6. CASE /\ stage = "data_in" /\ Completed("GetDescriptor")
           /\ SendNext(usb_ep0_in_size, usb_ep0_in_ptr)
  <2> DEFINE k == Len(received)
             due == Due(request)
             rest == usb_ep0_in_size
  <2>1. "TRCPT1" \in InHand /\ usb_setup.kind = "GetDescriptor"
    BY <1>6 DEF Completed, InHand
  <2>2. ~Unhandled /\ ~ep0.bk1rdy /\ request = usb_setup
    BY <1>6, <2>1 DEF AddressInv, SetupAlone, SameTransfer, BankIdle
  <2>3. /\ k \in 0 .. due /\ received = Units(Source(request), 0, k)
        /\ request.kind = "GetDescriptor" /\ request.wLength > 0
    BY <1>6, <2>1, <2>2 DEF PrefixReceived
  <2>4. due \in Nat
    <3>1. /\ request.wLength \in Nat
          /\ request.kind = "GetDescriptor" => request.descriptor \in Descriptors
      BY RequestFields DEF AddressInv, ControlInv, TypeOK
    <3> QED BY <2>3, <3>1, Sizes DEF Due, Smaller
  <2>5. k \in Nat
    BY <2>3, <2>4
  <2>6. Sent = k
    <3> HIDE DEF k
    <3>1. Sent = k + 0
      BY <2>2 DEF Sent, k
    <3> QED BY <2>5, <3>1
  <2>7. /\ rest = due - k
        /\ rest > 0 => usb_ep0_in_ptr = [descriptor |-> request.descriptor, offset |-> k]
    BY <1>6, <2>1, <2>2, <2>3, <2>6, Zenon DEF RestKnown, Sending
  <2>8. rest \in Nat
    BY <2>3, <2>4, <2>5, <2>7
  <2> HIDE DEF k, due, rest
  <2>9. SendNext(rest, usb_ep0_in_ptr)
    BY <1>6 DEF rest
  <2>10. /\ ep0'.bk1rdy /\ ep0'.size \in 0 .. EP0_SIZE /\ ep0'.size <= rest
         /\ ep0'.size < EP0_SIZE => ep0'.size = rest
         /\ SubSeq(ep0_buf_in', 1, ep0'.size) = Units(request.descriptor, k, ep0'.size)
         /\ usb_ep0_in_size' = rest - ep0'.size
         /\ usb_ep0_in_size' > 0 =>
              usb_ep0_in_ptr' = [descriptor |-> request.descriptor, offset |-> k + ep0'.size]
    BY <1>1, <2>5, <2>7, <2>8, <2>9, SendNextData
  <2>11. ep0'.size \in Nat
    BY <2>10, Sizes
  <2>12. Sent' = k + ep0'.size
    BY <1>2, <2>10 DEF Sent, k
  <2>13. request' = request /\ received' = received /\ Len(received') = k
    BY <1>2 DEF k
  <2>14. PrefixReceived'
    <3>1. /\ request.kind \in {"GetDescriptor"} \cup Answered /\ request.wLength > 0
          /\ Len(received) \in 0 .. Due(request)
          /\ received = Units(Source(request), 0, Len(received))
          /\ Unhandled => received = <<>>
      BY <1>6, Zenon DEF PrefixReceived
    <3>2. ~Unhandled'
      <4>1. ep0'.flags \subseteq ep0.flags
        BY <1>1, <2>8, <2>9, SendNextTypes
      <4> QED BY <1>2, <2>2, <4>1 DEF Unhandled
    <3> QED BY <2>13, <3>1, <3>2, Zenon DEF PrefixReceived
  <2>15. NextArmed'
    <3>1. Source(request) = request.descriptor
      BY <2>3 DEF Source
    <3>2. SubSeq(ep0_buf_in', 1, ep0'.size) = Units(Source(request), k, ep0'.size)
      BY <2>10, <3>1, Zenon
    <3>3. /\ k + ep0'.size <= due
          /\ ep0'.size < EP0_SIZE => k + ep0'.size = due
      BY <2>4, <2>5, <2>7, <2>8, <2>10, <2>11
    <3> QED BY <2>12, <2>13, <3>2, <3>3, Zenon DEF NextArmed, due
  <2>16. RestKnown'
    <3>1. usb_ep0_in_size' = due - (k + ep0'.size)
      BY <2>4, <2>5, <2>7, <2>10, <2>11
    <3> QED BY <2>10, <2>12, <2>13, <3>1, Zenon DEF RestKnown, due
  <2>17. DataIntact'
    BY <1>2, <1>6 DEF DataIntact
  <2> QED BY <2>14, <2>15, <2>16, <2>17 DEF DataParts
<1> QED
  <2>1. \/ UNCHANGED <<ep0, ep0_buf_in, usb_ep0_in_size, usb_ep0_in_ptr>>
        \/ Completed("GetDescriptor") /\ SendNext(usb_ep0_in_size, usb_ep0_in_ptr)
    BY Zenon DEF HandleIn
  <2> QED BY <1>4, <1>5, <1>6, <2>1

(* The host receives exactly the data it asked for, in order and once, for *)
(* any descriptors, requests and packet size: descriptors that are a       *)
(* multiple of the packet, shorter or longer than what was asked for, after *)
(* transfers that were stalled or given up or cut off by a reset           *)
(* (usb_requests.c:11-27, 53-67 and 116-118).                               *)
THEOREM DescriptorsArrive ==
  ASSUME {"overlap", "reset in pass"} \cap HostMay = {}
  PROVE  Spec => []DataIntact
<1>1. Init => DataInv
  <2> SUFFICES ASSUME Init PROVE DataInv
    OBVIOUS
  <2>1. AddressInv
    BY InitialAddress
  <2>2. flags = {} /\ stage = "idle" /\ ep0 = EnableFlags(DisabledEndpoint, {"RXSTP"})
    BY Zenon DEF Init
  <2>3. ep0.flags = {}
    BY <2>2 DEF EnableFlags, DisabledEndpoint
  <2>4. BankIdle
    BY <2>2, <2>3 DEF BankIdle, InHand
  <2>5. PrefixReceived /\ NextArmed /\ RestKnown /\ DataIntact
    BY <2>2 DEF PrefixReceived, NextArmed, RestKnown, DataIntact, Sending
  <2> QED BY <2>1, <2>4, <2>5 DEF DataInv
<1>2. DataInv /\ [Next]_vars => DataInv'
  <2> SUFFICES ASSUME DataInv, [Next]_vars PROVE DataInv'
    OBVIOUS
  <2>1. AddressInv' /\ BankIdle'
    BY AddressStep, BankIdleStep DEF DataInv
  <2>2. CASE UNCHANGED vars
    <3>1. UNCHANGED <<stage, request, received, ep0, ep0_buf_in, usb_ep0_in_size,
                      usb_ep0_in_ptr, flags, pc>>
      BY <2>2 DEF vars, interruptVars, bufferVars, passVars, deviceVars, hostVars
    <3>2. (Unhandled' <=> Unhandled) /\ InHand' = InHand
      BY <3>1 DEF Unhandled, InHand
    <3>3. DataParts
      BY Zenon DEF DataInv, DataParts
    <3> QED BY <2>1, <3>1, <3>2, <3>3, DataBeside DEF DataInv, DataParts
  <2>3. CASE Next
    <3>1. DataParts'
      BY <2>1, <2>3, DataHost, DataPass, DataSetup, DataCompletion, Zenon DEF Next, Device
    <3> QED BY <2>1, <3>1 DEF DataInv, DataParts
  <2> QED BY <2>2, <2>3
<1>3. DataInv => DataIntact
  BY DEF DataInv
<1> QED BY <1>1, <1>2, <1>3, PTL DEF Spec
=============================================================================
