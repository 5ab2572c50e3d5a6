----------------------------- MODULE UsbSerialProofs -----------------------------
(***************************************************************************)
(* The serial port loses, repeats and reorders nothing, for any buffer    *)
(* size and any numbering of the packets, if its user looks at            *)
(* usb_rx_buffer_length and usb_tx_busy before it calls.                   *)
(***************************************************************************)
EXTENDS UsbSerial, TLAPS

LEMMA NumbersType == Numbers \in Nat /\ Numbers > 1
<1>1. Numbers \in Nat /\ Numbers # 0 /\ Numbers # 1
  BY SerialAssumption, Zenon DEF SerialAssumption
<1> QED BY <1>1

LEMMA AfterType == ASSUME NEW n \in Number PROVE After(n) \in Number /\ After(n) # n
BY NumbersType DEF Number, After

LEMMA InitTypeOK == Init => TypeOK
<1> SUFFICES ASSUME Init PROVE TypeOK
  OBVIOUS
<1>1. 0 \in Number
  BY NumbersType DEF Number
<1>2. InterruptTypeOK
  BY DEF Init, InitInterrupt, InterruptTypeOK, ProcessSteps
<1>3. ep2 \in Endpoint({0, 1})
  BY DEF Init, DisabledEndpoint, Endpoint
<1> QED BY <1>1, <1>2, <1>3 DEF Init, TypeOK

(* The primitives of the driver and the controller keep the endpoint's type. *)
LEMMA EndpointType ==
  ASSUME NEW ep \in Endpoint({0, 1}), NEW fl \in SUBSET EndpointFlags
  PROVE  /\ StartOut(ep) \in Endpoint({0, 1}) /\ StartIn(ep, 1) \in Endpoint({0, 1})
         /\ EnableEndpoint(ep) \in Endpoint({0, 1})
         /\ ClearFlags(ep, fl) \in Endpoint({0, 1}) /\ DisableFlags(ep, fl) \in Endpoint({0, 1})
         /\ OutDone(ep) \in Endpoint({0, 1}) /\ InDone(ep) \in Endpoint({0, 1})
         /\ ResetEndpoint(ep) \in Endpoint({0, 1})
BY DEF Endpoint, EndpointFlags, StartOut, StartIn, EnableEndpoint, ClearFlags, DisableFlags,
       OutDone, InDone, ResetEndpoint

(* Every step of the interrupt path keeps its types.                       *)
LEMMA InterruptStepType ==
  ASSUME InterruptTypeOK,
         \/ Starts \/ Unblocks \/ Clears \/ EndsPass \/ Interrupts
         \/ ProcessWaits /\ (Pends(Line') \/ Pends(TRUE))
         \/ \E from, to \in ProcessSteps : Goes(from, to) /\ Pends(Line')
         \/ UNCHANGED interruptVars
  PROVE  InterruptTypeOK'
<1>1. (ProcessWaits \/ UNCHANGED interruptVars) => /\ nvic_enabled' \in BOOLEAN
                                                   /\ usb_interrupt' \in BOOLEAN
                                                   /\ pc' \in ProcessSteps
  BY DEF InterruptTypeOK, ProcessWaits, interruptVars
<1>2. Line' \in BOOLEAN
  BY DEF Line, Interrupting
<1>3. Pends(Line') \/ Pends(TRUE) => nvic_pending' \in BOOLEAN
  BY <1>2 DEF Pends, InterruptTypeOK
<1>4. CASE ProcessWaits /\ (Pends(Line') \/ Pends(TRUE))
  BY <1>1, <1>3, <1>4 DEF InterruptTypeOK
<1>5. CASE UNCHANGED interruptVars
  BY <1>5 DEF InterruptTypeOK, interruptVars
<1>6. ASSUME NEW from \in ProcessSteps, NEW to \in ProcessSteps, Goes(from, to), Pends(Line')
      PROVE  InterruptTypeOK'
  BY <1>3, <1>6 DEF InterruptTypeOK, Goes
<1>7. CASE Starts
  BY <1>3, <1>7 DEF InterruptTypeOK, Starts, StartProcess, ProcessSteps
<1>8. CASE Unblocks
  BY <1>3, <1>8 DEF InterruptTypeOK, Unblocks, Unblock, Goes, ProcessSteps
<1>9. CASE Clears
  BY <1>3, <1>9 DEF InterruptTypeOK, Clears, ClearInterrupt, ProcessSteps, PassSteps
<1>10. CASE EndsPass
  BY <1>3, <1>10 DEF InterruptTypeOK, EndsPass, EndPass, ProcessSteps
<1>11. CASE Interrupts
  BY <1>2, <1>11 DEF InterruptTypeOK, Interrupts, USB_Handler
<1> QED BY <1>4, <1>5, <1>6, <1>7, <1>8, <1>9, <1>10, <1>11

LEMMA StepTypeOK == ASSUME TypeOK, [Next]_vars PROVE TypeOK'
<1>1. InterruptTypeOK'
  <2>1. ASSUME NEW length, HostSends(length) \/ Read(length)
        PROVE  ProcessWaits /\ Pends(Line')
    BY <2>1, Zenon DEF HostSends, Read, Application
  <2>2. /\ HostReceives => ProcessWaits /\ Pends(Line')
        /\ BusReset => ProcessWaits /\ Pends(Line')
        /\ HostConfigures => ProcessWaits /\ Pends(TRUE)
        /\ ControlInterrupt => ProcessWaits /\ Pends(TRUE)
        /\ Send => ProcessWaits /\ Pends(Line')
    BY Zenon DEF HostReceives, BusReset, HostConfigures, ControlInterrupt, Send, Application
  <2>3. {"summary", "status", "setup", "endpoints", "disable", "out_completion", "in_completion", "end"}
          \subseteq ProcessSteps
    BY DEF ProcessSteps, PassSteps
  <2>4. ASSUME ReadSummary \/ ReadStatus \/ HandleSetup \/ ReadFlags \/ DisableRaised
               \/ OutCompletion \/ InCompletion
        PROVE  \E from, to \in ProcessSteps : Goes(from, to) /\ Pends(Line')
    <3>1. /\ ReadSummary => Goes("summary", "status") /\ Pends(Line')
          /\ ReadFlags => Goes("endpoints", "disable") /\ Pends(Line')
          /\ DisableRaised => Goes("disable", "out_completion") /\ Pends(Line')
          /\ OutCompletion => Goes("out_completion", "in_completion") /\ Pends(Line')
          /\ InCompletion => Goes("in_completion", "end") /\ Pends(Line')
      BY Zenon DEF ReadSummary, ReadFlags, DisableRaised, OutCompletion, InCompletion
    <3>2. HandleSetup => Pends(Line') /\ (\/ Goes("setup", "endpoints")
                                         \/ Goes("setup", "out_completion"))
      BY DEF HandleSetup
    <3>3. ReadStatus => Pends(Line') /\ (Goes("status", "end") \/ Goes("status", "setup"))
      BY Zenon DEF ReadStatus
    <3> QED BY <2>3, <2>4, <3>1, <3>2, <3>3
  <2>5. InterruptTypeOK
    BY DEF TypeOK
  <2>6. UNCHANGED vars => UNCHANGED interruptVars
    BY DEF vars
  <2> QED BY <2>1, <2>2, <2>4, <2>5, <2>6, InterruptStepType, Zenon DEF Next, Device
<1>2. UNCHANGED <<ep2, passVars, serialVars, controlVars, countVars>> => TypeOK'
  BY <1>1 DEF TypeOK, passVars, serialVars, controlVars, countVars
<1>3. ASSUME NEW length \in {0} \cup Lengths, HostSends(length) PROVE TypeOK'
  BY <1>1, <1>3, EndpointType, AfterType
  DEF TypeOK, HostSends, passVars, controlVars, EndpointFlags
<1>4. ASSUME NEW length \in Lengths, Read(length) PROVE TypeOK'
  BY <1>1, <1>4, EndpointType DEF TypeOK, Read, Application, LengthAfterRead, passVars, controlVars
<1>5. CASE HostReceives
  BY <1>1, <1>5, EndpointType DEF TypeOK, HostReceives, passVars, serialVars, controlVars
<1>6. CASE Send
  BY <1>1, <1>6, EndpointType, AfterType DEF TypeOK, Send, Application, passVars, controlVars
<1>7. CASE ReadSummary
  BY <1>1, <1>7 DEF TypeOK, ReadSummary, Interrupting, serialVars, controlVars, countVars
<1>8. CASE HandleSetup
  <2>1. ep2' \in Endpoint({0, 1})
    BY <1>8, EndpointType DEF TypeOK, HandleSetup, SerialInit
  <2>2. /\ usb_tx_busy' \in BOOLEAN
        /\ configured' \in BOOLEAN /\ ep2_enabled' \in BOOLEAN
        /\ eorst' \in BOOLEAN /\ set_configuration' \in BOOLEAN
    BY <1>8 DEF TypeOK, HandleSetup, SerialInit, controlVars
  <2>3. /\ rx_read' \in Number /\ tx_received' \in Number
        /\ rx_sent' \in Number /\ tx_sent' \in Number
    BY <1>8 DEF TypeOK, HandleSetup, countVars
  <2> QED BY <1>1, <1>8, <2>1, <2>2, <2>3 DEF TypeOK, HandleSetup, passVars
<1>9. CASE ReadFlags
  BY <1>1, <1>9 DEF TypeOK, ReadFlags, Endpoint, serialVars, controlVars, countVars
<1>10. CASE DisableRaised
  BY <1>1, <1>10, EndpointType DEF TypeOK, DisableRaised, serialVars, controlVars, countVars
<1>11. CASE OutCompletion
  <2>1. {"TRCPT0"} \in SUBSET EndpointFlags
    BY DEF EndpointFlags
  <2> QED BY <1>1, <1>11, <2>1, EndpointType
          DEF TypeOK, OutCompletion, passVars, controlVars, countVars
<1>12. CASE InCompletion
  <2>1. {"TRCPT1"} \in SUBSET EndpointFlags
    BY DEF EndpointFlags
  <2> QED BY <1>1, <1>12, <2>1, EndpointType
          DEF TypeOK, InCompletion, passVars, controlVars, countVars
<1>13. CASE BusReset
  BY <1>1, <1>13, EndpointType DEF TypeOK, BusReset, passVars, serialVars
<1>14. CASE HostConfigures
  BY <1>1, <1>14 DEF TypeOK, HostConfigures, passVars, serialVars, countVars
<1>15. CASE ReadStatus
  BY <1>1, <1>15 DEF TypeOK, ReadStatus, passVars, serialVars, countVars
<1>16. CASE Starts \/ Unblocks \/ Clears \/ EndsPass \/ Interrupts \/ ControlInterrupt
            \/ UNCHANGED vars
  BY <1>2, <1>16
  DEF Starts, Unblocks, Clears, EndsPass, Interrupts, ControlInterrupt, OnlyProcess, vars
<1> QED BY <1>3, <1>4, <1>5, <1>6, <1>7, <1>8, <1>9, <1>10, <1>11, <1>12, <1>13, <1>14,
           <1>15, <1>16
        DEF Next, Device

(* Types; an endpoint's length never exceeds the buffer it describes. *)
THEOREM SerialTypes == Spec => []TypeOK
<1>1. TypeOK /\ [Next]_vars => TypeOK'
  BY StepTypeOK
<1> QED BY <1>1, InitTypeOK, PTL DEF Spec

-----------------------------------------------------------------------------
(* What holds beside the two properties: nothing arrives while the         *)
(* endpoint is not enabled, a packet that has arrived is not empty, a      *)
(* completion is not pending for a packet that is still to be sent, and    *)
(* no packet is there while the host waits for its configuration.          *)

EndpointInv ==
  /\ ~configured => ep2.bk0rdy /\ ~ep2.bk1rdy /\ ~ep2_enabled
  /\ ~ep2_enabled => ep2.flags = {} /\ usb_rx_buffer_length = 0
  /\ "TRCPT0" \in ep2.flags => usb_serial_buffer_out.length > 0
  /\ "TRCPT1" \in ep2.flags => ~ep2.bk1rdy
  /\ set_configuration => rx_sent = rx_read
  /\ ~ep2.stall

SerialInv == EndpointInv /\ ReceivedOnce /\ SentOnce

LEMMA InitSerialInv == Init => SerialInv
BY DEF Init, SerialInv, EndpointInv, ReceivedOnce, SentOnce, DisabledEndpoint, SendsIn

(* Steps that touch neither bank, flag nor buffer, and the reading of the  *)
(* bus reset's flag.                                                       *)
LEMMA SerialInvUnchanged ==
  ASSUME TypeOK, SerialInv,
         UNCHANGED <<serialVars, configured, ep2_enabled, set_configuration, countVars>>,
         ep2' = ep2 \/ \E fl : ep2' = DisableFlags(ep2, fl)
  PROVE  SerialInv'
<1>1. /\ ep2'.flags = ep2.flags /\ ep2'.bk0rdy = ep2.bk0rdy /\ ep2'.bk1rdy = ep2.bk1rdy
      /\ ep2'.stall = ep2.stall
  BY DEF DisableFlags, TypeOK, Endpoint
<1> QED BY <1>1 DEF SerialInv, EndpointInv, ReceivedOnce, SentOnce, AcceptsOut, SendsIn,
               serialVars, countVars

(* Each side's actions keep the other side's half of the invariant; the    *)
(* two halves meet only in ep2.                                            *)
LEMMA SerialInvStep ==
  ASSUME AppMay = {}, HostMay \subseteq {"reset"}, TypeOK, SerialInv, [Next]_vars
  PROVE  SerialInv'
<1>t. /\ ep2 \in Endpoint({0, 1})
      /\ usb_rx_buffer_length \in Nat
      /\ usb_serial_buffer_out \in [number : Number, length : Nat]
      /\ rx_sent \in Number /\ rx_read \in Number
      /\ tx_sent \in Number /\ tx_received \in Number
  BY SMT DEF TypeOK, Lengths
<1>h. "unread" \notin HostMay /\ "send nothing" \notin HostMay
  OBVIOUS
<1>1. ASSUME NEW length \in {0} \cup Lengths, HostSends(length) PROVE SerialInv'
  <2>1. /\ "TRCPT0" \notin ep2.flags /\ usb_rx_buffer_length = 0 /\ rx_sent = rx_read
        /\ configured /\ ep2_enabled /\ ~set_configuration
    <3>1. AcceptsOut(ep2) /\ ep2_enabled /\ ~set_configuration
      BY <1>1, <1>h DEF HostSends
    <3> QED BY <3>1, <1>t DEF SerialInv, EndpointInv, ReceivedOnce
  <2>2. /\ ep2'.flags = ep2.flags \cup {"TRCPT0"} /\ ep2'.bk0rdy /\ ep2'.bk1rdy = ep2.bk1rdy
        /\ ep2'.stall = ep2.stall /\ ep2'.inten = ep2.inten
    BY <1>1, <1>t DEF HostSends, OutDone, Endpoint
  <2>3. length > 0
    BY <1>1, <1>h DEF HostSends
  <2>4. /\ usb_serial_buffer_out'.number = After(rx_sent)
        /\ usb_serial_buffer_out'.length = length
        /\ rx_sent' = After(rx_sent) /\ rx_read' = rx_read
        /\ UNCHANGED <<configured, ep2_enabled, set_configuration, usb_rx_buffer_length,
                       usb_serial_buffer_in, usb_tx_busy, tx_sent, tx_received>>
    BY <1>1 DEF HostSends, controlVars
  <2>5. EndpointInv'
    BY <2>1, <2>2, <2>3, <2>4 DEF SerialInv, EndpointInv
  <2>6. ReceivedOnce'
    BY <2>1, <2>2, <2>4 DEF ReceivedOnce, AcceptsOut
  <2>7. SentOnce'
    BY <2>2, <2>4 DEF SerialInv, SentOnce, SendsIn
  <2> QED BY <2>5, <2>6, <2>7 DEF SerialInv
<1>2. ASSUME NEW n \in Lengths, Read(n) PROVE SerialInv'
  <2>1. /\ usb_rx_buffer_length > 0 /\ n >= usb_rx_buffer_length /\ ep2_enabled /\ configured
        /\ "TRCPT0" \notin ep2.flags /\ usb_serial_buffer_out.number = rx_sent
    BY <1>2, <1>t DEF SerialInv, EndpointInv, ReceivedOnce, Read, Application
  <2>2. /\ ep2'.flags = ep2.flags \ {"TRCPT0"} /\ ~ep2'.bk0rdy /\ ep2'.bk1rdy = ep2.bk1rdy
        /\ ep2'.stall = ep2.stall
    BY <1>2, <1>t DEF Read, StartOut, Endpoint
  <2>3. /\ rx_read' = rx_sent /\ rx_sent' = rx_sent /\ usb_rx_buffer_length' = 0
        /\ UNCHANGED <<configured, ep2_enabled, set_configuration, usb_serial_buffer_out,
                       usb_serial_buffer_in, usb_tx_busy, tx_sent, tx_received>>
    BY <1>2, <2>1 DEF Read, Application, LengthAfterRead, controlVars
  <2>4. EndpointInv'
    BY <2>1, <2>2, <2>3 DEF SerialInv, EndpointInv
  <2>5. ReceivedOnce'
    BY <2>1, <2>2, <2>3 DEF ReceivedOnce
  <2>6. SentOnce'
    BY <2>2, <2>3 DEF SerialInv, SentOnce, SendsIn
  <2> QED BY <2>4, <2>5, <2>6 DEF SerialInv
<1>3. CASE HostReceives
  <2>1. /\ ep2.bk1rdy /\ usb_tx_busy /\ usb_serial_buffer_in = tx_sent
        /\ configured /\ ep2_enabled
    BY <1>3 DEF SerialInv, EndpointInv, SentOnce, HostReceives, SendsIn
  <2>2. /\ ep2'.flags = ep2.flags \cup {"TRCPT1"} /\ ~ep2'.bk1rdy /\ ep2'.bk0rdy = ep2.bk0rdy
        /\ ep2'.stall = ep2.stall
    BY <1>3, <1>t DEF HostReceives, InDone, Endpoint
  <2>3. /\ tx_received' = tx_sent /\ tx_sent' = tx_sent
        /\ UNCHANGED <<configured, ep2_enabled, set_configuration, usb_serial_buffer_out,
                       usb_rx_buffer_length, rx_sent, rx_read>>
    BY <1>3, <2>1 DEF HostReceives, serialVars, controlVars
  <2>4. EndpointInv'
    BY <2>1, <2>2, <2>3 DEF SerialInv, EndpointInv
  <2>5. ReceivedOnce'
    BY <2>2, <2>3 DEF SerialInv, ReceivedOnce, AcceptsOut
  <2>6. SentOnce'
    BY <2>2, <2>3 DEF SentOnce, SendsIn
  <2> QED BY <2>4, <2>5, <2>6 DEF SerialInv
<1>4. CASE Send
  <2>1. configured /\ ~usb_tx_busy
    BY <1>4 DEF Send, Application
  <2>2. tx_received = tx_sent
    BY <2>1 DEF SerialInv, SentOnce
  <2>3. /\ ep2'.flags = ep2.flags \ {"TRCPT1"} /\ ep2'.bk1rdy /\ ep2'.bk0rdy = ep2.bk0rdy
        /\ ep2'.stall = ep2.stall
    BY <1>4, <1>t DEF Send, StartIn, Endpoint
  <2>4. /\ tx_sent' = After(tx_sent) /\ tx_received' = tx_received
        /\ usb_serial_buffer_in' = After(tx_sent) /\ usb_tx_busy'
        /\ UNCHANGED <<configured, ep2_enabled, set_configuration, usb_serial_buffer_out,
                       usb_rx_buffer_length, rx_sent, rx_read>>
    BY <1>4 DEF Send, Application, controlVars
  <2>5. EndpointInv'
    BY <2>1, <2>3, <2>4 DEF SerialInv, EndpointInv
  <2>6. ReceivedOnce'
    BY <2>3, <2>4 DEF SerialInv, ReceivedOnce, AcceptsOut
  <2>7. SentOnce'
    BY <2>2, <2>3, <2>4 DEF SerialInv, EndpointInv, SentOnce, SendsIn
  <2> QED BY <2>5, <2>6, <2>7 DEF SerialInv
<1>5. CASE HandleSetup
  <2>1. CASE ~set_configuration
    BY <1>5, <2>1, SerialInvUnchanged DEF HandleSetup, serialVars, controlVars
  <2>2. CASE set_configuration
    <3>1. /\ "TRCPT0" \notin ep2.flags /\ usb_rx_buffer_length = 0
          /\ rx_sent = rx_read
      BY <2>2, <1>t, AfterType DEF SerialInv, EndpointInv, ReceivedOnce
    <3>2. /\ ep2'.flags = ep2.flags \ {"TRCPT0"} /\ ~ep2'.bk0rdy /\ ~ep2'.bk1rdy
          /\ ~ep2'.stall
      BY <1>5, <2>2, <1>t DEF HandleSetup, SerialInit, StartOut, EnableEndpoint, Endpoint
    <3>3. /\ UNCHANGED <<usb_serial_buffer_out, usb_serial_buffer_in, usb_rx_buffer_length,
                         rx_sent, tx_sent>>
          /\ rx_read' = rx_read
          /\ tx_received' = IF ep2.bk1rdy THEN tx_sent ELSE tx_received
          /\ configured' /\ ep2_enabled' /\ ~set_configuration'
      BY <1>5, <2>2, <3>1 DEF HandleSetup
    <3>4. tx_received' = tx_sent
      BY <3>3 DEF SerialInv, EndpointInv, SentOnce, SendsIn
    <3>5. EndpointInv'
      BY <3>1, <3>2, <3>3 DEF EndpointInv
    <3>6. ReceivedOnce'
      BY <3>1, <3>2, <3>3 DEF ReceivedOnce
    <3>7. SentOnce'
      BY <3>2, <3>3, <3>4 DEF SentOnce, SendsIn
    <3> QED BY <3>5, <3>6, <3>7 DEF SerialInv
  <2> QED BY <2>1, <2>2
<1>6. CASE OutCompletion
  <2>1. CASE "TRCPT0" \in ep2.flags
    <3>1. /\ ep2'.flags = ep2.flags \ {"TRCPT0"} /\ ep2'.bk0rdy = ep2.bk0rdy
          /\ ep2'.bk1rdy = ep2.bk1rdy /\ ep2'.stall = ep2.stall
          /\ usb_rx_buffer_length' = usb_serial_buffer_out.length
      BY <1>6, <2>1, <1>t DEF OutCompletion, Pending, ClearFlags, Endpoint
    <3>2. UNCHANGED <<usb_serial_buffer_out, usb_serial_buffer_in, usb_tx_busy, configured,
                      ep2_enabled, set_configuration, rx_sent, rx_read, tx_sent,
                      tx_received>>
      BY <1>6 DEF OutCompletion, controlVars, countVars
    <3> QED BY <2>1, <3>1, <3>2, <1>t
            DEF SerialInv, EndpointInv, ReceivedOnce, SentOnce, SendsIn, AcceptsOut
  <2>2. CASE "TRCPT0" \notin ep2.flags
    BY <1>6, <2>2, SerialInvUnchanged
    DEF OutCompletion, Pending, serialVars, controlVars, countVars
  <2> QED BY <2>1, <2>2
<1>7. CASE InCompletion
  <2>1. CASE "TRCPT1" \in ep2.flags
    <3>1. /\ ep2'.flags = ep2.flags \ {"TRCPT1"} /\ ep2'.bk0rdy = ep2.bk0rdy
          /\ ep2'.bk1rdy = ep2.bk1rdy /\ ep2'.stall = ep2.stall /\ ~ep2.bk1rdy
      BY <1>7, <2>1, <1>t DEF InCompletion, Pending, ClearFlags, Endpoint, SerialInv, EndpointInv
    <3>2. configured /\ ep2_enabled
      BY <2>1 DEF SerialInv, EndpointInv
    <3>3. UNCHANGED <<usb_serial_buffer_out, usb_serial_buffer_in, usb_rx_buffer_length,
                      configured, ep2_enabled, set_configuration, rx_sent, rx_read,
                      tx_sent, tx_received>>
      BY <1>7 DEF InCompletion, controlVars, countVars
    <3> QED BY <3>1, <3>2, <3>3
            DEF SerialInv, EndpointInv, ReceivedOnce, SentOnce, SendsIn, AcceptsOut
  <2>2. CASE "TRCPT1" \notin ep2.flags
    BY <1>7, <2>2, SerialInvUnchanged
    DEF InCompletion, Pending, serialVars, controlVars, countVars
  <2> QED BY <2>1, <2>2
<1>8. CASE Starts \/ Unblocks \/ Clears \/ EndsPass \/ Interrupts \/ ControlInterrupt
           \/ ReadSummary \/ ReadStatus \/ ReadFlags \/ DisableRaised \/ UNCHANGED vars
  <2>1. /\ UNCHANGED <<serialVars, configured, ep2_enabled, set_configuration, countVars>>
        /\ ep2' = ep2 \/ \E fl : ep2' = DisableFlags(ep2, fl)
    BY <1>8
    DEF Starts, Unblocks, Clears, EndsPass, Interrupts, ControlInterrupt, OnlyProcess,
        ReadSummary, ReadStatus, ReadFlags, DisableRaised, controlVars, vars
  <2> QED BY <2>1, SerialInvUnchanged
<1>9. CASE BusReset
  <2>1. usb_rx_buffer_length = 0
    BY <1>9, <1>h DEF BusReset
  <2>2. /\ ep2'.flags = {} /\ ep2'.bk0rdy = ep2.bk0rdy /\ ep2'.bk1rdy = ep2.bk1rdy
        /\ ~ep2'.stall
    BY <1>9, <1>t DEF BusReset, ResetEndpoint, Endpoint
  <2>3. /\ rx_read' = IF "TRCPT0" \in ep2.flags THEN rx_sent ELSE rx_read
        /\ ~set_configuration' /\ ~ep2_enabled'
        /\ UNCHANGED <<configured, usb_serial_buffer_out, usb_rx_buffer_length,
                       usb_serial_buffer_in, usb_tx_busy, rx_sent, tx_sent, tx_received>>
    BY <1>9 DEF BusReset, serialVars
  <2>4. EndpointInv'
    BY <2>1, <2>2, <2>3 DEF SerialInv, EndpointInv
  <2>5. ReceivedOnce'
    BY <2>1, <2>2, <2>3 DEF SerialInv, ReceivedOnce
  <2>6. SentOnce'
    BY <2>2, <2>3 DEF SerialInv, EndpointInv, SentOnce, SendsIn
  <2> QED BY <2>4, <2>5, <2>6 DEF SerialInv
<1>10. CASE HostConfigures
  BY <1>10, <1>h
  DEF HostConfigures, SerialInv, EndpointInv, ReceivedOnce, SentOnce, AcceptsOut, SendsIn,
      serialVars, countVars
<1> QED BY <1>1, <1>2, <1>3, <1>4, <1>5, <1>6, <1>7, <1>8, <1>9, <1>10 DEF Next, Device

THEOREM SerialSafety ==
  ASSUME AppMay = {}, HostMay \subseteq {"reset"}
  PROVE  Spec => []SerialInv
<1>1. TypeOK /\ SerialInv /\ [Next]_vars => SerialInv'
  BY SerialInvStep
<1> QED BY <1>1, InitSerialInv, SerialTypes, PTL DEF Spec

(* Every packet of the host is read once, whole and in order, by a process *)
(* that reads what has arrived, and all of it.                             *)
THEOREM PacketsReadOnce ==
  ASSUME AppMay = {}, HostMay \subseteq {"reset"}
  PROVE  Spec => []ReceivedOnce
<1>1. SerialInv => ReceivedOnce
  BY DEF SerialInv
<1> QED BY <1>1, SerialSafety, PTL

(* Every packet of a process that waits for usb_tx_busy reaches the host   *)
(* once and in order.                                                      *)
THEOREM PacketsSentOnce ==
  ASSUME AppMay = {}, HostMay \subseteq {"reset"}
  PROVE  Spec => []SentOnce
<1>1. SerialInv => SentOnce
  BY DEF SerialInv
<1> QED BY <1>1, SerialSafety, PTL

-----------------------------------------------------------------------------
(* The refinement: four actions move a packet in SerialPipe, the bus reset *)
(* and the handling of a SetConfiguration change its link, the rest leaves *)
(* it as it is.                                                            *)

ToDevice == IF "TRCPT0" \in ep2.flags \/ usb_rx_buffer_length > 0
            THEN {usb_serial_buffer_out.number} ELSE {}
ToHost == IF ep2_enabled /\ SendsIn(ep2) THEN {usb_serial_buffer_in} ELSE {}
PipeVars == <<controlVars, ToDevice, ToHost, rx_read, tx_received>>

LEMMA PipeUnchanged ==
  ASSUME TypeOK, UNCHANGED <<serialVars, countVars, ep2_enabled>>,
         ep2' = ep2 \/ \E fl : ep2' = DisableFlags(ep2, fl)
  PROVE  UNCHANGED <<ToDevice, ToHost, rx_read, tx_received>>
<1>1. /\ ep2'.flags = ep2.flags /\ ep2'.bk1rdy = ep2.bk1rdy /\ ep2'.stall = ep2.stall
  BY DEF DisableFlags, TypeOK, Endpoint
<1> QED BY <1>1 DEF ToDevice, ToHost, SendsIn, serialVars, countVars

LEMMA PipeStep ==
  ASSUME AppMay = {}, HostMay \subseteq {"reset"}, TypeOK, SerialInv, TypeOK', [Next]_vars
  PROVE  [Pipe!Next]_PipeVars
<1> USE DEF ToDevice, ToHost
<1>t. /\ ep2 \in Endpoint({0, 1})
      /\ usb_rx_buffer_length \in Nat
      /\ rx_read' \in Number /\ tx_received' \in Number
  BY SMT DEF TypeOK, Lengths
<1>h. "unread" \notin HostMay /\ "send nothing" \notin HostMay
  OBVIOUS
<1>1. ASSUME NEW length \in {0} \cup Lengths, HostSends(length)
      PROVE  Pipe!HostPuts
  <2>1. /\ ep2'.flags = ep2.flags \cup {"TRCPT0"} /\ ep2'.bk1rdy = ep2.bk1rdy
        /\ ep2'.stall = ep2.stall
    BY <1>1, <1>t DEF HostSends, OutDone, Endpoint
  <2>2. /\ "TRCPT0" \notin ep2.flags /\ usb_rx_buffer_length = 0 /\ rx_sent = rx_read
    <3>1. AcceptsOut(ep2)
      BY <1>1 DEF HostSends
    <3> QED BY <3>1, <1>t DEF SerialInv, ReceivedOnce
  <2>3. /\ usb_serial_buffer_out'.number = After(rx_sent)
        /\ UNCHANGED <<controlVars, usb_serial_buffer_in, rx_read, tx_received>>
        /\ UNCHANGED ep2_enabled
    BY <1>1 DEF HostSends, controlVars
  <2>4. UNCHANGED ToHost
    BY <2>1, <2>3 DEF SendsIn
  <2>5. ToDevice = {} /\ ToDevice' = {Pipe!After(rx_read)}
    BY <2>1, <2>2, <2>3 DEF After, Pipe!After
  <2> QED BY <2>3, <2>4, <2>5 DEF Pipe!HostPuts
<1>2. ASSUME NEW n \in Lengths, Read(n) PROVE Pipe!DeviceGets
  <2>1. /\ usb_rx_buffer_length > 0 /\ n >= usb_rx_buffer_length
        /\ "TRCPT0" \notin ep2.flags
    BY <1>2, <1>t DEF SerialInv, ReceivedOnce, Read
  <2>2. /\ ep2'.flags = ep2.flags \ {"TRCPT0"} /\ ep2'.bk1rdy = ep2.bk1rdy
        /\ ep2'.stall = ep2.stall
    BY <1>2, <1>t DEF Read, StartOut, Endpoint
  <2>3. /\ rx_read' = usb_serial_buffer_out.number /\ usb_rx_buffer_length' = 0
        /\ UNCHANGED <<controlVars, ep2_enabled, usb_serial_buffer_in, tx_received>>
    BY <1>2, <2>1 DEF Read, Application, LengthAfterRead, controlVars
  <2>4. UNCHANGED ToHost
    BY <2>2, <2>3 DEF SendsIn
  <2>5. ToDevice = {rx_read'} /\ ToDevice' = {}
    BY <2>1, <2>2, <2>3
  <2> QED BY <2>3, <2>4, <2>5 DEF Pipe!DeviceGets
<1>3. CASE HostReceives
  <2>1. /\ ep2'.flags = ep2.flags \cup {"TRCPT1"} /\ ~ep2'.bk1rdy
    BY <1>3, <1>t DEF HostReceives, InDone, Endpoint
  <2>2. /\ ep2_enabled /\ SendsIn(ep2) /\ tx_received' = usb_serial_buffer_in
        /\ UNCHANGED <<controlVars, usb_serial_buffer_out, usb_rx_buffer_length, rx_read>>
    BY <1>3 DEF HostReceives, serialVars
  <2>3. UNCHANGED ToDevice
    BY <2>1, <2>2
  <2>4. ToHost = {tx_received'} /\ ToHost' = {}
    BY <2>1, <2>2 DEF SendsIn
  <2> QED BY <2>2, <2>3, <2>4 DEF Pipe!HostGets, Pipe!Next
<1>4. CASE Send
  <2>1. ~SendsIn(ep2) /\ tx_received = tx_sent
    BY <1>4 DEF Send, SerialInv, SentOnce
  <2>2. /\ ep2'.flags = ep2.flags \ {"TRCPT1"} /\ ep2'.bk1rdy /\ ~ep2'.stall
    BY <1>4, <1>t DEF Send, StartIn, Endpoint, SerialInv, EndpointInv
  <2>3. /\ usb_serial_buffer_in' = After(tx_sent)
        /\ UNCHANGED <<controlVars, ep2_enabled, usb_serial_buffer_out,
                       usb_rx_buffer_length, rx_read, tx_received>>
    BY <1>4 DEF Send, Application, controlVars
  <2>4. UNCHANGED ToDevice
    BY <2>2, <2>3
  <2>5. CASE ep2_enabled
    <3>1. ToHost = {} /\ ToHost' = {Pipe!After(tx_received)}
      BY <2>1, <2>2, <2>3, <2>5 DEF SendsIn, After, Pipe!After
    <3>2. Pipe!DevicePuts
      BY <2>3, <2>4, <3>1 DEF Pipe!DevicePuts
    <3> QED BY <3>2 DEF Pipe!Next
  <2>6. CASE ~ep2_enabled
    BY <2>3, <2>4, <2>6 DEF PipeVars
  <2> QED BY <2>5, <2>6
<1>5. CASE HandleSetup
  <2>1. CASE ~set_configuration
    <3>1. UNCHANGED <<serialVars, countVars, ep2_enabled, controlVars, ep2>>
      BY <1>5, <2>1 DEF HandleSetup, serialVars, controlVars
    <3> QED BY <3>1, PipeUnchanged DEF PipeVars
  <2>2. CASE set_configuration
    <3>1. /\ "TRCPT0" \notin ep2.flags /\ usb_rx_buffer_length = 0
      BY <2>2, <1>t, AfterType DEF SerialInv, EndpointInv, ReceivedOnce, TypeOK
    <3>2. /\ ep2'.flags = ep2.flags \ {"TRCPT0"} /\ ~ep2'.bk1rdy
      BY <1>5, <2>2, <1>t DEF HandleSetup, SerialInit, StartOut, EnableEndpoint, Endpoint
    <3>3. usb_rx_buffer_length' = 0 /\ ~set_configuration'
      BY <1>5, <2>2, <3>1 DEF HandleSetup
    <3>4. ToDevice' = {} /\ ToHost' = {}
      BY <3>1, <3>2, <3>3 DEF SendsIn
    <3>5. Pipe!LinkChanges
      BY <1>t, <2>2, <3>3, <3>4 DEF Pipe!LinkChanges, controlVars, Number
    <3> QED BY <3>5 DEF Pipe!Next
  <2> QED BY <2>1, <2>2
<1>6. CASE OutCompletion
  <2>1. CASE "TRCPT0" \in ep2.flags
    <3>1. /\ ep2'.bk1rdy = ep2.bk1rdy /\ ep2'.stall = ep2.stall
          /\ usb_rx_buffer_length' = usb_serial_buffer_out.length
      BY <1>6, <2>1, <1>t DEF OutCompletion, Pending, ClearFlags, Endpoint
    <3>2. UNCHANGED <<usb_serial_buffer_out, usb_serial_buffer_in, ep2_enabled, controlVars,
                      rx_read, tx_received>>
      BY <1>6 DEF OutCompletion, controlVars, countVars
    <3>3. usb_serial_buffer_out.length > 0
      BY <2>1 DEF SerialInv, EndpointInv
    <3> QED BY <2>1, <3>1, <3>2, <3>3 DEF PipeVars, SendsIn
  <2>2. CASE "TRCPT0" \notin ep2.flags
    BY <1>6, <2>2, PipeUnchanged
    DEF OutCompletion, Pending, serialVars, controlVars, countVars, PipeVars
  <2> QED BY <2>1, <2>2
<1>7. CASE InCompletion
  <2>1. CASE "TRCPT1" \in ep2.flags
    <3>1. /\ ep2'.flags = ep2.flags \ {"TRCPT1"}
          /\ ep2'.bk1rdy = ep2.bk1rdy /\ ep2'.stall = ep2.stall
      BY <1>7, <2>1, <1>t DEF InCompletion, Pending, ClearFlags, Endpoint
    <3>2. UNCHANGED <<usb_serial_buffer_out, usb_serial_buffer_in, usb_rx_buffer_length,
                      ep2_enabled, controlVars, rx_read, tx_received>>
      BY <1>7 DEF InCompletion, controlVars, countVars
    <3> QED BY <3>1, <3>2 DEF PipeVars, SendsIn
  <2>2. CASE "TRCPT1" \notin ep2.flags
    BY <1>7, <2>2, PipeUnchanged
    DEF InCompletion, Pending, serialVars, controlVars, countVars, PipeVars
  <2> QED BY <2>1, <2>2
<1>8. CASE Starts \/ Unblocks \/ Clears \/ EndsPass \/ Interrupts \/ ControlInterrupt
           \/ ReadSummary \/ ReadFlags \/ DisableRaised \/ UNCHANGED vars
  <2>1. /\ UNCHANGED <<serialVars, countVars, ep2_enabled, controlVars>>
        /\ ep2' = ep2 \/ \E fl : ep2' = DisableFlags(ep2, fl)
    BY <1>8
    DEF Starts, Unblocks, Clears, EndsPass, Interrupts, ControlInterrupt, OnlyProcess,
        ReadSummary, ReadFlags, DisableRaised, controlVars, vars
  <2> QED BY <2>1, PipeUnchanged DEF PipeVars
<1>9. CASE ReadStatus \/ HostConfigures
  <2>1. UNCHANGED <<serialVars, countVars, ep2_enabled, ep2>>
    BY <1>9 DEF ReadStatus, HostConfigures
  <2>2. UNCHANGED <<ToDevice, ToHost, rx_read, tx_received>>
    BY <2>1, PipeUnchanged
  <2>3. CASE UNCHANGED controlVars
    BY <2>2, <2>3 DEF PipeVars
  <2>4. CASE controlVars' # controlVars
    <3>1. Pipe!LinkChanges
      BY <1>t, <2>2, <2>4 DEF Pipe!LinkChanges, Number
    <3> QED BY <3>1 DEF Pipe!Next
  <2> QED BY <2>3, <2>4
<1>10. CASE BusReset
  <2>1. /\ usb_rx_buffer_length' = 0 /\ ~ep2_enabled' /\ eorst'
        /\ UNCHANGED <<configured, serialVars, tx_received>>
    BY <1>10, <1>h DEF BusReset, serialVars
  <2>2. ep2'.flags = {}
    BY <1>10, <1>t DEF BusReset, ResetEndpoint, Endpoint
  <2>3. ToDevice' = {} /\ ToHost' = {}
    BY <2>1, <2>2
  <2>4. CASE controlVars' # controlVars
    <3>1. Pipe!LinkChanges
      BY <1>t, <2>3, <2>4 DEF Pipe!LinkChanges, Number
    <3> QED BY <3>1 DEF Pipe!Next
  <2>5. CASE UNCHANGED controlVars
    <3>1. ep2.flags = {} /\ usb_rx_buffer_length = 0 /\ ~ep2_enabled
      BY <2>1, <2>5 DEF SerialInv, EndpointInv, controlVars
    <3>2. rx_read' = rx_read
      BY <1>10, <3>1 DEF BusReset
    <3> QED BY <2>1, <2>3, <2>5, <3>1, <3>2 DEF PipeVars
  <2> QED BY <2>4, <2>5
<1> QED BY <1>1, <1>2, <1>3, <1>4, <1>5, <1>6, <1>7, <1>8, <1>9, <1>10
        DEF Next, Device, Pipe!Next

(* The port is two pipes of one packet each: what one side has sent is the *)
(* next thing the other one gets, whatever the bus does in between, for    *)
(* any buffer size and any numbering.                                      *)
THEOREM SerialImplementsPipe ==
  ASSUME AppMay = {}, HostMay \subseteq {"reset"}
  PROVE  Spec => ImplementsPipe
<1>1. Init => Pipe!Init
  BY DEF Init, Pipe!Init, DisabledEndpoint
<1>2. TypeOK /\ SerialInv /\ TypeOK' /\ [Next]_vars => [Pipe!Next]_PipeVars
  BY PipeStep
<1> QED BY <1>1, <1>2, SerialTypes, SerialSafety, PTL
        DEF Spec, ImplementsPipe, Pipe!Spec, PipeVars, ToDevice, ToHost
=============================================================================
