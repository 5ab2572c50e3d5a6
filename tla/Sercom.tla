-------------------------------- MODULE Sercom --------------------------------
(***************************************************************************)
(* A SERCOM as uart.c and spi.c use it: its configuration, a transmitter  *)
(* of a DATA register and a shift register, and a receiver that holds two *)
(* bytes.  RXC says that the receiver holds a byte, DRE that DATA takes   *)
(* one, TXC that everything written has gone out.                          *)
(*                                                                         *)
(* The drivers busy-wait and never yield, so one call at a time is under  *)
(* way; pc says where.  Bytes carry a number, counted modulo Numbers, for *)
(* their contents.                                                         *)
(***************************************************************************)
EXTENDS Integers, Sequences

CONSTANTS
  Numbers,
  CallerMay     \* "ignore refusal": use a port whose initialisation failed
                \* "leave unread": call spi_command after a transfer that left
                \*   bytes in the receiver, without spi_flush

ASSUME SercomAssumption ==
  /\ Numbers \in Nat /\ Numbers > 3
  /\ CallerMay \subseteq {"ignore refusal", "leave unread"}

VARIABLES
  mode,               \* CTRLA.MODE, "off" before sercom_init
  enabled,            \* CTRLA.ENABLE
  rx,                 \* the receiver
  data, shift, txc,   \* the transmitter: each register empty or with one byte
  accepted, got,      \* the last byte the receiver took, the last one DATA gave
  sent, line,         \* the last byte written, the last one on the line
  pc                  \* where the call is; "idle" between two

portVars == <<mode, enabled>>
rxVars == <<rx, accepted, got>>
txVars == <<data, shift, txc, sent, line>>
sercomVars == <<portVars, rxVars, txVars, pc>>

Number == 0 .. Numbers - 1
After(n) == IF n = Numbers - 1 THEN 0 ELSE n + 1

InitSercom ==
  /\ mode = "off" /\ enabled = FALSE
  /\ rx = <<>> /\ accepted = 0 /\ got = 0
  /\ data = <<>> /\ shift = <<>> /\ txc = FALSE /\ sent = 0 /\ line = 0
  /\ pc = "idle"

(* What a register, and the receiver, can hold. *)
Register == {<<>>} \cup {<<n>> : n \in Number}
Receiver == Register \cup (Number \X Number)

DRE == enabled /\ data = <<>>
RXC == rx # <<>>

-----------------------------------------------------------------------------
(* The controller.  A byte that finds the receiver full is lost. *)
Receives(n) ==
  IF Len(rx) < 2 THEN accepted' = n /\ rx' = Append(rx, n) /\ UNCHANGED got
                 ELSE UNCHANGED rxVars

Loads ==
  /\ data # <<>> /\ shift = <<>>
  /\ shift' = data /\ data' = <<>>
  /\ UNCHANGED <<portVars, rxVars, txc, sent, line, pc>>

(* An SPI device answers with a byte of the same number. *)
ShiftsOut ==
  /\ shift # <<>>
  /\ line' = shift[1] /\ shift' = <<>> /\ txc' = (data = <<>>)
  /\ IF mode = "spi" THEN Receives(line') ELSE UNCHANGED rxVars
  /\ UNCHANGED <<portVars, data, sent, pc>>

(* Reading DATA takes the next byte out of the receiver; an empty one      *)
(* gives the last byte again.                                              *)
ReadsData ==
  /\ IF RXC THEN got' = Head(rx) /\ rx' = Tail(rx) ELSE UNCHANGED <<got, rx>>
  /\ UNCHANGED accepted

(* Writing DATA clears TXC. *)
WritesData ==
  /\ sent' = After(sent) /\ data' = <<sent'>> /\ txc' = FALSE
  /\ UNCHANGED <<shift, line>>

-----------------------------------------------------------------------------
(* sercom_init, sercom_check and the rest of the initialisation of either  *)
(* port.  One that refuses the baud rate leaves the SERCOM configured and   *)
(* not enabled.  The SERCOM is one the controller has, so that sercom_init  *)
(* does not refuse it.  The registers of one that is enabled cannot be      *)
(* configured: that no port is initialised again is left to the caller.     *)
SercomInit(asMode, success) ==
  /\ pc = "idle" /\ ~enabled
  /\ mode' = asMode /\ enabled' = success
  /\ UNCHANGED <<rxVars, txVars, pc>>

Usable(asMode) ==
  /\ pc = "idle" /\ mode = asMode
  /\ enabled \/ "ignore refusal" \in CallerMay

(* uart_flush and spi_flush. *)
Flush ==
  /\ mode # "off" /\ Usable(mode)
  /\ pc' = "flush"
  /\ UNCHANGED <<portVars, rxVars, txVars>>

FlushStep ==
  /\ pc = "flush"
  /\ \/ RXC /\ ReadsData /\ UNCHANGED pc
     \/ ~RXC /\ pc' = "idle" /\ UNCHANGED rxVars
  /\ UNCHANGED <<portVars, txVars>>

-----------------------------------------------------------------------------
SercomTypeOK ==
  /\ mode \in {"off", "usart", "spi"} /\ enabled \in BOOLEAN
  /\ rx \in Receiver /\ accepted \in Number /\ got \in Number
  /\ data \in Register /\ shift \in Register /\ txc \in BOOLEAN
  /\ sent \in Number /\ line \in Number
  /\ pc \in {"idle", "flush", "read", "poll", "timer", "send", "command", "answer"}
=============================================================================
