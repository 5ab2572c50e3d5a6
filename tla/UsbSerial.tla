------------------------------- MODULE UsbSerial -------------------------------
(***************************************************************************)
(* The CDC data endpoint: usb_serial.c, usb_cb_completion of usb.c and    *)
(* the second half of usb_handle_function, between the host on one side   *)
(* and a process that calls usb_serial_send_buffer and                    *)
(* usb_serial_read_buffer on the other.  Scheduling is cooperative, so    *)
(* that process never runs inside a pass of the USB process; the          *)
(* controller, the host and the interrupt handler do.                      *)
(*                                                                         *)
(* The host may reset the bus, which takes the endpoint's configuration   *)
(* away until the next SetConfiguration, and may configure the device     *)
(* again without a reset; the driver's variables know of neither until    *)
(* usb_serial_init.                                                        *)
(*                                                                         *)
(* Packets carry a number, counted modulo Numbers, for their contents.    *)
(* Of endpoint 0 there is only the SetConfiguration; its other transfers  *)
(* are causes of passes.                                                   *)
(***************************************************************************)
EXTENDS UsbEndpoint, UsbInterrupt

CONSTANTS
  USB_SERIAL_BUFFER_SIZE,
  Numbers,    \* packets are numbered 0 .. Numbers - 1
  AppMay,     \* "send while busy", "read nothing", "read short"
  HostMay     \* "reset": reset the bus, configure the device again
              \* "unread": do so while a packet is on its way to the process,
              \*   and send one before a configuration has been handled
              \* "send nothing": send packets of length 0

ASSUME SerialAssumption ==
  /\ USB_SERIAL_BUFFER_SIZE \in Nat \ {0}
  /\ Numbers \in Nat \ {0, 1}
  /\ AppMay \subseteq {"send while busy", "read nothing", "read short"}
  /\ HostMay \subseteq {"reset", "unread", "send nothing"}

VARIABLES
  ep2,
  summary, flags,            \* as read by the pass, of endpoint 2
  usb_serial_buffer_out,     \* the packet in it
  usb_serial_buffer_in,      \* the number of the packet in it
  usb_rx_buffer_length, usb_tx_busy,
  configured,                \* usb_serial_init has been called
  ep2_enabled,               \* EPCFG: what usb_enable_ep sets and a reset clears
  eorst,                     \* INTFLAG.EORST
  set_configuration,         \* a SetConfiguration waits in ep0_buf_out
  rx_sent, rx_read,          \* the last packet the host sent, the last one read
  tx_sent, tx_received       \* the last packet sent, the last one the host got;
                             \*   what a reset or a configuration drops counts
                             \*   as read, or as got

passVars == <<summary, flags>>
serialVars == <<usb_serial_buffer_out, usb_serial_buffer_in, usb_rx_buffer_length, usb_tx_busy>>
countVars == <<rx_sent, rx_read, tx_sent, tx_received>>
controlVars == <<configured, ep2_enabled, eorst, set_configuration>>
vars == <<interruptVars, ep2, passVars, serialVars, controlVars, countVars>>

Number == 0 .. Numbers - 1
After(n) == IF n = Numbers - 1 THEN 0 ELSE n + 1
Lengths == 1 .. USB_SERIAL_BUFFER_SIZE
Line == eorst \/ Interrupting(ep2)

Init ==
  /\ InitInterrupt
  /\ ep2 = DisabledEndpoint
  /\ summary = FALSE /\ flags = {}
  /\ usb_serial_buffer_out = [number |-> 0, length |-> 0]
  /\ usb_serial_buffer_in = 0
  /\ usb_rx_buffer_length = 0 /\ usb_tx_busy = FALSE
  /\ configured = FALSE /\ ep2_enabled = FALSE
  /\ eorst = FALSE /\ set_configuration = FALSE
  /\ rx_sent = 0 /\ rx_read = 0 /\ tx_sent = 0 /\ tx_received = 0

-----------------------------------------------------------------------------
(* The host and the controller. *)

HostSends(length) ==
  /\ ProcessWaits
  /\ ep2_enabled /\ AcceptsOut(ep2)
  /\ length > 0 \/ "send nothing" \in HostMay
  /\ ~set_configuration \/ "unread" \in HostMay
  /\ ep2' = OutDone(ep2)
  /\ usb_serial_buffer_out' = [number |-> After(rx_sent), length |-> length]
  /\ rx_sent' = After(rx_sent)
  /\ UNCHANGED <<passVars, usb_serial_buffer_in, usb_rx_buffer_length, usb_tx_busy,
                 controlVars, rx_read, tx_sent, tx_received>>
  /\ Pends(Line')

HostReceives ==
  /\ ProcessWaits
  /\ ep2_enabled /\ SendsIn(ep2)
  /\ ep2' = InDone(ep2)
  /\ tx_received' = usb_serial_buffer_in
  /\ UNCHANGED <<passVars, serialVars, controlVars, rx_sent, rx_read, tx_sent>>
  /\ Pends(Line')

(* Whatever has been sent to endpoint 0 and not been handled is lost, and *)
(* so is a packet that has arrived and not been reported.  As everything   *)
(* the host does here, it comes after the USB process has started: what a  *)
(* reset before that does is in UsbControl.                                *)
BusReset ==
  /\ ProcessWaits
  /\ pc # "init"
  /\ "reset" \in HostMay
  /\ usb_rx_buffer_length = 0 \/ "unread" \in HostMay
  /\ eorst' = TRUE /\ set_configuration' = FALSE
  /\ ep2' = ResetEndpoint(ep2) /\ ep2_enabled' = FALSE
  /\ rx_read' = IF "TRCPT0" \in ep2.flags THEN rx_sent ELSE rx_read
  /\ UNCHANGED <<passVars, serialVars, configured, rx_sent, tx_sent, tx_received>>
  /\ Pends(Line')

(* The first of a session, or another. *)
HostConfigures ==
  /\ ProcessWaits
  /\ pc # "init" /\ ~eorst /\ ~set_configuration
  /\ ~ep2_enabled \/ "reset" \in HostMay
  /\ rx_sent = rx_read \/ "unread" \in HostMay
  /\ set_configuration' = TRUE
  /\ UNCHANGED <<ep2, passVars, serialVars, configured, ep2_enabled, eorst, countVars>>
  /\ Pends(TRUE)

(* Something else for endpoint 0. *)
ControlInterrupt ==
  /\ ProcessWaits
  /\ pc # "init" /\ ~nvic_pending
  /\ UNCHANGED <<ep2, passVars, serialVars, controlVars, countVars>>
  /\ Pends(TRUE)

-----------------------------------------------------------------------------
(* The process that uses the serial port. *)

Application ==
  /\ ProcessWaits
  /\ pc \in {"init", "wait"} /\ configured
  /\ UNCHANGED <<passVars, controlVars>>

Send ==
  /\ Application
  /\ ~usb_tx_busy \/ "send while busy" \in AppMay
  /\ usb_serial_buffer_in' = After(tx_sent)
  /\ ep2' = StartIn(ep2, 1)
  /\ usb_tx_busy' = TRUE
  /\ tx_sent' = After(tx_sent)
  /\ UNCHANGED <<usb_serial_buffer_out, usb_rx_buffer_length, rx_sent, rx_read, tx_received>>
  /\ Pends(Line')

(* What usb_serial_read_buffer leaves of the length after reading n.       *)
LengthKept(n) == usb_rx_buffer_length   \* mutant: the length is not reset
LengthUnclamped(n) == usb_rx_buffer_length - n   \* mutant: n is not clamped to it
LengthAfterRead(n) == 0

(* The rest of a packet that is longer than n is gone. *)
Read(n) ==
  /\ Application
  /\ usb_rx_buffer_length > 0 \/ "read nothing" \in AppMay
  /\ n >= usb_rx_buffer_length \/ "read short" \in AppMay
  /\ rx_read' = IF n >= usb_rx_buffer_length /\ usb_rx_buffer_length > 0
                THEN usb_serial_buffer_out.number ELSE rx_read
  /\ ep2' = StartOut(ep2)
  /\ usb_rx_buffer_length' = LengthAfterRead(n)
  /\ UNCHANGED <<usb_serial_buffer_out, usb_serial_buffer_in, usb_tx_busy,
                 rx_sent, tx_sent, tx_received>>
  /\ Pends(Line')

-----------------------------------------------------------------------------
(* The USB process. *)

OnlyProcess == UNCHANGED <<ep2, passVars, serialVars, controlVars, countVars>>

Starts == OnlyProcess /\ StartProcess(Line')
Unblocks == OnlyProcess /\ Unblock(Line')
Clears == OnlyProcess /\ ClearInterrupt(Line')
Interrupts == OnlyProcess /\ USB_Handler(Line')
EndsPass == OnlyProcess /\ EndPass(Line')

ReadSummary ==
  /\ Goes("summary", "status")
  /\ summary' = Interrupting(ep2)
  /\ UNCHANGED <<ep2, flags, serialVars, controlVars, countVars>>
  /\ Pends(Line')

(* After a bus reset the pass does nothing else. *)
ReadStatus ==
  /\ \/ eorst /\ eorst' = FALSE /\ Goes("status", "end")
     \/ ~eorst /\ UNCHANGED eorst /\ Goes("status", "setup")
  /\ UNCHANGED <<ep2, passVars, serialVars, configured, ep2_enabled, set_configuration,
                 countVars>>
  /\ Pends(Line')

(* usb_serial_init: whatever either bank held is dropped. *)
SerialInitBusy ==   \* mutant: usb_tx_busy is not cleared
  /\ ep2' = StartOut(EnableEndpoint(ep2)) /\ UNCHANGED usb_tx_busy
SerialInit ==
  /\ ep2' = StartOut(EnableEndpoint(ep2))
  /\ usb_tx_busy' = FALSE

(* Endpoint 0.  Its bit in the summary, without which the code does not     *)
(* look at its flags, is left out: set_configuration stands for both.       *)
HandleSetup ==
  /\ Goes("setup", IF summary THEN "endpoints" ELSE "out_completion")
  /\ \/ ~set_configuration /\ UNCHANGED <<ep2, usb_tx_busy, controlVars, countVars>>
     \/ /\ set_configuration /\ set_configuration' = FALSE
        /\ SerialInit
        /\ configured' = TRUE /\ ep2_enabled' = TRUE
        /\ rx_read' = IF "TRCPT0" \in ep2.flags THEN rx_sent ELSE rx_read
        /\ tx_received' = IF ep2.bk1rdy THEN tx_sent ELSE tx_received
        /\ UNCHANGED <<eorst, rx_sent, tx_sent>>
  /\ UNCHANGED <<passVars, usb_serial_buffer_out, usb_serial_buffer_in,
                 usb_rx_buffer_length>>
  /\ Pends(Line')

(* What has been raised is masked until the next transfer is started.      *)
ReadFlags ==
  /\ Goes("endpoints", "disable")
  /\ flags' = ep2.flags
  /\ UNCHANGED <<ep2, summary, serialVars, controlVars, countVars>>
  /\ Pends(Line')

DisableRaised ==
  /\ Goes("disable", "out_completion")
  /\ ep2' = DisableFlags(ep2, flags)
  /\ flags' = {} /\ summary' = FALSE
  /\ UNCHANGED <<serialVars, controlVars, countVars>>
  /\ Pends(Line')

(* usb_ep_pending and usb_cb_completion. *)
PendingUnchecked(flag) == TRUE   \* mutant: completes what is not pending
Pending(flag) == flag \in ep2.flags

OutCompletion ==
  /\ Goes("out_completion", "in_completion")
  /\ IF Pending("TRCPT0")
     THEN /\ ep2' = ClearFlags(ep2, {"TRCPT0"})
          /\ usb_rx_buffer_length' = usb_serial_buffer_out.length
     ELSE UNCHANGED <<ep2, usb_rx_buffer_length>>
  /\ UNCHANGED <<passVars, usb_serial_buffer_out, usb_serial_buffer_in, usb_tx_busy,
                 controlVars, countVars>>
  /\ Pends(Line')

InCompletion ==
  /\ Goes("in_completion", "end")
  /\ IF Pending("TRCPT1")
     THEN ep2' = ClearFlags(ep2, {"TRCPT1"}) /\ usb_tx_busy' = FALSE
     ELSE UNCHANGED <<ep2, usb_tx_busy>>
  /\ UNCHANGED <<passVars, usb_serial_buffer_out, usb_serial_buffer_in,
                 usb_rx_buffer_length, controlVars, countVars>>
  /\ Pends(Line')

Device ==
  \/ Starts \/ Unblocks \/ Clears \/ ReadSummary \/ ReadStatus \/ HandleSetup
  \/ ReadFlags \/ DisableRaised \/ OutCompletion \/ InCompletion \/ EndsPass

Next ==
  \/ \E length \in {0} \cup Lengths : HostSends(length)
  \/ \E n \in Lengths : Read(n)
  \/ HostReceives \/ BusReset \/ HostConfigures \/ ControlInterrupt
  \/ Send \/ Interrupts \/ Device

Spec == Init /\ [][Next]_vars

(* As in UsbControl; the host configures the device after a reset, and    *)
(* polls its IN endpoint; the process reads what has arrived.  It gets the *)
(* processor between two passes, however often the USB process makes one, *)
(* because that one waits after each (main.c:151).                         *)
FairSpec ==
  /\ Spec
  /\ WF_vars(Device) /\ WF_vars(Interrupts)
  /\ WF_vars(~ep2_enabled /\ HostConfigures) /\ WF_vars(HostReceives)
  /\ SF_vars(\E n \in Lengths : Read(n))

-----------------------------------------------------------------------------
TypeOK ==
  /\ InterruptTypeOK
  /\ ep2 \in Endpoint({0, 1})
  /\ summary \in BOOLEAN /\ flags \subseteq EndpointFlags
  /\ usb_serial_buffer_out \in [number : Number, length : {0} \cup Lengths]
  /\ usb_serial_buffer_in \in Number
  /\ usb_rx_buffer_length \in {0} \cup Lengths
  /\ usb_tx_busy \in BOOLEAN
  /\ configured \in BOOLEAN /\ ep2_enabled \in BOOLEAN
  /\ eorst \in BOOLEAN /\ set_configuration \in BOOLEAN
  /\ rx_sent \in Number /\ rx_read \in Number
  /\ tx_sent \in Number /\ tx_received \in Number

(* Every packet of the host is read once, whole and in order: from the    *)
(* moment the controller acknowledges it until it is read, or dropped by   *)
(* a reset or a configuration, exactly one of the flag and the length says *)
(* that it is there, and nothing overwrites it (usb_serial.c:24-26 and     *)
(* 46-55, usb.c:291-294).                                                  *)
ReceivedOnce ==
  LET flagged == "TRCPT0" \in ep2.flags
      counted == usb_rx_buffer_length > 0
  IN /\ ~(flagged /\ counted)
     /\ flagged \/ counted =>
          /\ rx_sent = After(rx_read)
          /\ usb_serial_buffer_out.number = rx_sent
          /\ ~AcceptsOut(ep2)
     /\ counted => usb_rx_buffer_length = usb_serial_buffer_out.length
     /\ ~flagged /\ ~counted => rx_sent = rx_read

(* Every packet sent reaches the host once and in order: one that is on   *)
(* its way stays in the buffer, because usb_tx_busy is not taken back      *)
(* before the host has it or usb_serial_init has dropped it                *)
(* (usb_serial.c:10-44, usb.c:296-299).                                    *)
SentOnce ==
  IF SendsIn(ep2)
  THEN /\ usb_tx_busy
       /\ usb_serial_buffer_in = tx_sent /\ tx_sent = After(tx_received)
  ELSE tx_received = tx_sent

(* A packet that has arrived is reported to the process, unless a reset    *)
(* drops it first: masking what has been raised (usb_samd.c:310-315) never *)
(* loses a completion, at whatever point of a pass it is raised.           *)
ArrivalReported ==
  "TRCPT0" \in ep2.flags ~> usb_rx_buffer_length > 0 \/ eorst

(* The host comes to an end with its resets, and each has been handled.   *)
ResetsStop == <>[]~eorst

(* A send ends: usb_tx_busy is taken back once the host has the packet, or *)
(* once the host has configured the device anew after a reset, so a        *)
(* process that waits for it goes on (usb_serial.c:19 and 28-30), unless   *)
(* the host resets the bus over and over.                                  *)
SendEnds == ResetsStop => (usb_tx_busy ~> ~usb_tx_busy)

(* The host is never kept from sending for good: every reset is handled,  *)
(* and whatever takes the OUT bank away, a packet, a reset or a new        *)
(* configuration, someone gives it back (usb_serial.c:17 and 51), unless   *)
(* the host resets the bus over and over.                                  *)
HostMaySendAgain ==
  /\ eorst ~> ~eorst
  /\ ResetsStop => []<>(ep2_enabled /\ AcceptsOut(ep2))

-----------------------------------------------------------------------------
(* The two directions of the port as SerialPipe sees them. *)
Pipe == INSTANCE SerialPipe WITH
  link <- controlVars,
  to_device <- IF "TRCPT0" \in ep2.flags \/ usb_rx_buffer_length > 0
               THEN {usb_serial_buffer_out.number} ELSE {},
  to_host <- IF ep2_enabled /\ SendsIn(ep2) THEN {usb_serial_buffer_in} ELSE {},
  device_got <- rx_read, host_got <- tx_received

(* Between two changes of the link each direction of the port is a place  *)
(* for one packet: nothing is lost, repeated, overwritten or delivered     *)
(* twice, and no packet of one session appears in the next                 *)
(* (usb_serial.c:10-55, usb_samd.c:104-170).                               *)
ImplementsPipe == Pipe!Spec
=============================================================================
