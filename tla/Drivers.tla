-------------------------------- MODULE Drivers --------------------------------
(***************************************************************************)
(* The device drivers side by side: a SERCOM whose owner makes it a UART   *)
(* or an SPI master and then calls uart.c or spi.c, one call after the     *)
(* other; the counters of pwm.c; the channels of dma.c.                     *)
(***************************************************************************)
EXTENDS Uart, Spi, Pwm, Dma

portDriverVars == <<sercomVars, uartVars>>
vars == <<portDriverVars, pwmVars, dmaVars>>

Init == InitSercom /\ InitUart /\ InitPwm /\ InitDma

Controller == (Loads \/ ShiftsOut) /\ UNCHANGED uartVars

Call ==
  \/ \E baud \in Bauds : UartInit(baud)
  \/ \E n \in Counts, microseconds \in Waits : ReadBuffer(n, microseconds)
  \/ \E n \in Counts : SendBuffer(n)
  \/ (SpiInit \/ Flush \/ Command) /\ UNCHANGED uartVars

CallStep ==
  \/ ReadNext \/ Poll \/ LookAtTimer \/ SendNext
  \/ (FlushStep \/ CommandWrite \/ CommandAnswer) /\ UNCHANGED uartVars

PortNext ==
  \/ Call \/ CallStep \/ Controller \/ ByteArrives \/ Tick
  \/ Transfer /\ UNCHANGED uartVars

Next ==
  \/ PortNext /\ UNCHANGED <<pwmVars, dmaVars>>
  \/ PwmCall /\ UNCHANGED <<portDriverVars, dmaVars>>
  \/ DmaNext /\ UNCHANGED <<portDriverVars, pwmVars>>

Spec == Init /\ [][Next]_vars

(* Time passes, bytes go out, and a call goes on. *)
FairSpec ==
  /\ Spec
  /\ WF_portDriverVars(CallStep) /\ WF_portDriverVars(Controller)
  /\ WF_portDriverVars(Tick)

-----------------------------------------------------------------------------
TypeOK == SercomTypeOK /\ UartTypeOK /\ PwmTypeOK /\ DmaTypeOK

(* What a read stores is, byte for byte, what came in, across timeouts and *)
(* calls: nothing is stored that has not arrived, and a byte that arrives  *)
(* as a read gives up is the first of the next one (uart.c:51-63).         *)
ReadInOrder == [][pc = "poll" /\ i' > i => got' = After(got)]_vars

(* A read returns early only after it has waited for longer than it was    *)
(* asked to, wherever the counter stood and however often it wrapped       *)
(* (uart.c:54-57).                                                         *)
TimeoutHonest == [][pc = "timer" /\ pc' = "idle" => waited > wait]_vars

(* What has been written is, in order, on the line or still in the         *)
(* transmitter: no call writes over a byte that has not left               *)
(* (uart.c:44-49, spi.c:34-37).                                            *)
SentInOrder ==
  LET pending == shift \o data
  IN /\ \A k \in 1 .. Len(pending) :
          pending[k] = After(IF k = 1 THEN line ELSE pending[k - 1])
     /\ sent = IF pending = <<>> THEN line ELSE pending[Len(pending)]

(* spi_command returns the byte that came back for its own, if the         *)
(* receiver was empty when it was called (spi.c:34-42).                    *)
CommandAnswered == [][pc = "answer" /\ pc' = "idle" => got' = sent]_vars

(* A call on a port that has been initialised ends: no read waits for      *)
(* longer than its timeouts, the counter passing the end of one at most    *)
(* once between two looks (uart.c:44-63, spi.c:34-42).  Not so a flush,    *)
(* which goes on for as long as bytes keep arriving.                       *)
CallEnds == pc \in {"read", "poll", "timer", "send", "command", "answer"} ~> pc = "idle"
=============================================================================
