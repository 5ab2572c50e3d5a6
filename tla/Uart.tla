--------------------------------- MODULE Uart ---------------------------------
(***************************************************************************)
(* uart.c.  A read waits for each byte with a timeout of its own, measured *)
(* on the wrapping tick counter.  waited is the time that has really gone  *)
(* by since current_time was read; the counter itself may stand anywhere   *)
(* when a wait begins.                                                      *)
(***************************************************************************)
EXTENDS Sercom, RtosTime

CONSTANTS
  FastestBaud,   \* F_CPU / 16
  Bauds,         \* baud rates asked for
  Counts,        \* lengths of the buffers
  Waits,         \* wait_microseconds, in ticks; not positive to look once
  MaxLag         \* ticks that may go by between two steps of a call

VARIABLES i, count, wait, current_time, waited, lag

uartVars == <<i, count, wait, current_time, waited, lag>>

ASSUME UartAssumption ==
  /\ Bauds \subseteq Nat /\ FastestBaud \in Nat
  /\ Counts \subseteq Nat /\ Waits \subseteq Int /\ MaxLag \in Nat

UartIdle ==
  i' = 0 /\ count' = 0 /\ wait' = 0 /\ current_time' = 0 /\ waited' = 0 /\ lag' = 0
InitUart == i = 0 /\ count = 0 /\ wait = 0 /\ current_time = 0 /\ waited = 0 /\ lag = 0

(* uart_init and uart_set_baud. *)
UartInit(baud) == SercomInit("usart", baud <= FastestBaud) /\ UNCHANGED uartVars

-----------------------------------------------------------------------------
ReadBuffer(n, microseconds) ==
  /\ Usable("usart")
  /\ pc' = "read" /\ count' = n /\ wait' = microseconds
  /\ UNCHANGED <<portVars, rxVars, txVars, i, current_time, waited, lag>>

(* The head of the loop and the first look at the timer. *)
ReadMoreThanAsked == i <= count   \* mutant
ReadMore == i < count

ReadNext ==
  /\ pc = "read"
  /\ \/ ReadMore /\ pc' = "poll" /\ current_time' \in Ticks /\ waited' = 0 /\ lag' = 0
        /\ UNCHANGED <<i, count, wait>>
     \/ ~ReadMore /\ pc' = "idle" /\ UartIdle
  /\ UNCHANGED <<portVars, rxVars, txVars>>

ByteReadyWhenSent == txc   \* mutant: polls another flag of INTFLAG
ByteReady == RXC

Poll ==
  /\ pc = "poll" /\ lag' = 0
  /\ \/ ByteReady /\ pc' = "read" /\ ReadsData /\ i' = i + 1
     \/ ~ByteReady /\ pc' = "timer" /\ UNCHANGED <<rxVars, i>>
  /\ UNCHANGED <<portVars, txVars, count, wait, current_time, waited>>

Now == (current_time + waited) % TickRange
TimedOutAbsolute == Now > (current_time + wait) % TickRange   \* mutant: compares with the end
TimedOut == TickSub(Now, current_time) > wait

PollAgainAnew ==   \* mutant: the wait begins again with each look
  /\ pc' = "read" /\ lag' = 0
  /\ UNCHANGED <<i, count, wait, current_time, waited>>
PollAgain ==
  /\ pc' = "poll" /\ lag' = 0
  /\ UNCHANGED <<i, count, wait, current_time, waited>>

LookAtTimer ==
  /\ pc = "timer"
  /\ \/ TimedOut /\ pc' = "idle" /\ UartIdle
     \/ ~TimedOut /\ PollAgain
  /\ UNCHANGED <<portVars, rxVars, txVars>>

-----------------------------------------------------------------------------
SendBuffer(n) ==
  /\ Usable("usart")
  /\ pc' = "send" /\ count' = n
  /\ UNCHANGED <<portVars, rxVars, txVars, i, wait, current_time, waited, lag>>

MaySendUnready == TRUE   \* mutant: DRE is not awaited
MaySend == DRE

SendNext ==
  /\ pc = "send"
  /\ \/ i < count /\ MaySend /\ WritesData /\ i' = i + 1
        /\ UNCHANGED <<pc, count, wait, current_time, waited, lag>>
     \/ i >= count /\ pc' = "idle" /\ UartIdle /\ UNCHANGED txVars
  /\ UNCHANGED <<portVars, rxVars>>

-----------------------------------------------------------------------------
ByteArrives ==
  /\ mode = "usart" /\ enabled
  /\ Receives(After(accepted))
  /\ UNCHANGED <<portVars, txVars, pc, uartVars>>

Tick ==
  /\ pc \in {"poll", "timer"} /\ lag < MaxLag
  /\ lag' = lag + 1 /\ waited' = waited + 1
  /\ UNCHANGED <<sercomVars, i, count, wait, current_time>>

-----------------------------------------------------------------------------
UartTypeOK ==
  /\ i \in Nat /\ count \in Counts \cup {0} /\ i <= count
  /\ wait \in Waits \cup {0} /\ current_time \in Ticks
  /\ waited \in Nat /\ lag \in 0 .. MaxLag
=============================================================================
