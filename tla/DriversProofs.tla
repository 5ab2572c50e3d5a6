----------------------------- MODULE DriversProofs -----------------------------
(***************************************************************************)
(* Theorems about the device drivers, for every numbering of the bytes,   *)
(* every length and wait, every width of the counters and every set of     *)
(* channels and blocks.  Each driver has its own variables, so each        *)
(* theorem has an invariant of its own over them.                          *)
(***************************************************************************)
EXTENDS Drivers, SequenceTheorems, TLAPS

-----------------------------------------------------------------------------
(* Bytes, and what the registers hold of them. *)

LEMMA NumbersIsNat == Numbers \in Nat /\ Numbers > 3
BY SercomAssumption, Zenon

LEMMA Bytes ==
  /\ 0 \in Number
  /\ \A n \in Number : n \in Int /\ After(n) \in Number /\ After(n) # n
BY NumbersIsNat DEF Number, After

LEMMA NoByte == Len(<<>>) = 0 /\ <<>> \in Register /\ <<>> \in Receiver
BY DEF Register, Receiver

LEMMA OneByte ==
  ASSUME NEW n \in Number
  PROVE  /\ <<n>> # <<>> /\ <<n>>[1] = n /\ Len(<<n>>) = 1
         /\ Head(<<n>>) = n /\ Tail(<<n>>) = <<>> /\ Append(<<>>, n) = <<n>>
         /\ <<n>> \in Register /\ <<n>> \in Receiver
BY DEF Register, Receiver

LEMMA TwoBytes ==
  ASSUME NEW m \in Number, NEW n \in Number
  PROVE  /\ <<m, n>> # <<>> /\ Len(<<m, n>>) = 2
         /\ <<m, n>>[1] = m /\ <<m, n>>[2] = n
         /\ Head(<<m, n>>) = m /\ Tail(<<m, n>>) = <<n>> /\ Append(<<m>>, n) = <<m, n>>
         /\ <<m, n>> \in Receiver
<1>1. /\ <<m, n>> # <<>> /\ Len(<<m, n>>) = 2
      /\ <<m, n>>[1] = m /\ <<m, n>>[2] = n
  OBVIOUS
<1>2. Head(<<m, n>>) = m
  OBVIOUS
<1>3. Tail(<<m, n>>) = <<n>>
  OBVIOUS
<1>4. Append(<<m>>, n) = <<m, n>>
  <2>1. <<m>> \in Seq(Number) /\ <<m, n>> \in Seq(Number) /\ Len(<<m>>) = 1
    OBVIOUS
  <2> DEFINE both == Append(<<m>>, n)
  <2>2. /\ both \in Seq(Number) /\ Len(both) = 2
        /\ both[1] = m /\ both[2] = n
    BY <2>1, AppendProperties, SMT
  <2> HIDE DEF both
  <2>3. \A k \in 1 .. Len(both) : both[k] = <<m, n>>[k]
    BY <1>1, <2>2
  <2>4. both = <<m, n>>
    BY <1>1, <2>1, <2>2, <2>3, SeqEqual
  <2>5. QED BY <2>4 DEF both
<1>5. <<m, n>> \in Receiver
  BY DEF Receiver
<1>6. QED BY <1>1, <1>2, <1>3, <1>4, <1>5, Zenon

LEMMA Joined ==
  ASSUME NEW a \in Number, NEW b \in Number
  PROVE  <<a>> \o <<>> = <<a>> /\ <<>> \o <<a>> = <<a>> /\ <<a>> \o <<b>> = <<a, b>>
<1>1. <<a>> \in Seq(Number) /\ <<b>> \in Seq(Number) /\ <<a, b>> \in Seq(Number)
  OBVIOUS
<1>2. <<a>> \o <<>> = <<a>> /\ <<>> \o <<a>> = <<a>>
  BY <1>1, ConcatEmptySeq, Zenon
<1> DEFINE both == <<a>> \o <<b>>
<1>3. /\ both \in Seq(Number) /\ Len(both) = 2
      /\ both[1] = a /\ both[2] = b
  BY <1>1, ConcatProperties, OneByte, SMT
<1> HIDE DEF both
<1>4. \A k \in 1 .. Len(both) : both[k] = <<a, b>>[k]
  BY <1>3, TwoBytes
<1>5. both = <<a, b>>
  BY <1>1, <1>3, <1>4, TwoBytes, SeqEqual
<1>6. QED BY <1>2, <1>5 DEF both

LEMMA ByteCases ==
  /\ \A r \in Register : r = <<>> \/ \E n \in Number : r = <<n>>
  /\ \A r \in Receiver :
       r = <<>> \/ (\E n \in Number : r = <<n>>) \/ \E m, n \in Number : r = <<m, n>>
BY DEF Register, Receiver

-----------------------------------------------------------------------------
(* What the controller and the two accesses of DATA do, by what the        *)
(* registers hold.                                                          *)

LEMMA ReceiveCases ==
  ASSUME SercomTypeOK, NEW n \in Number, Receives(n)
  PROVE  /\ rx = <<>> => rx' = <<n>> /\ accepted' = n
         /\ \A a \in Number : rx = <<a>> => rx' = <<a, n>> /\ accepted' = n
         /\ \A a, b \in Number : rx = <<a, b>> => rx' = rx /\ accepted' = accepted
         /\ got' = got
         /\ rx' \in Receiver /\ accepted' \in Number
<1>1. ASSUME rx = <<>>
      PROVE  rx' = <<n>> /\ accepted' = n /\ got' = got
  BY <1>1, OneByte, NoByte DEF Receives
<1>2. ASSUME NEW a \in Number, rx = <<a>>
      PROVE  rx' = <<a, n>> /\ accepted' = n /\ got' = got
  BY <1>2, OneByte, TwoBytes DEF Receives
<1>3. ASSUME NEW a \in Number, NEW b \in Number, rx = <<a, b>>
      PROVE  rx' = rx /\ accepted' = accepted /\ got' = got
  BY <1>3, TwoBytes DEF Receives, rxVars
<1>4. rx = <<>> \/ (\E a \in Number : rx = <<a>>) \/ \E a, b \in Number : rx = <<a, b>>
  BY ByteCases DEF SercomTypeOK
<1>5. got' = got /\ rx' \in Receiver /\ accepted' \in Number
  <2>1. rx \in Receiver /\ accepted \in Number
    BY DEF SercomTypeOK
  <2>2. CASE rx = <<>>
    BY <1>1, <2>2, OneByte
  <2>3. CASE \E a \in Number : rx = <<a>>
    BY <1>2, <2>3, TwoBytes
  <2>4. CASE \E a, b \in Number : rx = <<a, b>>
    BY <1>3, <2>1, <2>4
  <2>5. QED BY <1>4, <2>2, <2>3, <2>4
<1>6. QED BY <1>1, <1>2, <1>3, <1>5

LEMMA ReadCases ==
  ASSUME SercomTypeOK, ReadsData
  PROVE  /\ rx = <<>> => rx' = <<>> /\ got' = got
         /\ \A a \in Number : rx = <<a>> => rx' = <<>> /\ got' = a
         /\ \A a, b \in Number : rx = <<a, b>> => rx' = <<b>> /\ got' = a
         /\ accepted' = accepted
         /\ rx' \in Receiver /\ got' \in Number
<1>1. CASE rx = <<>>
  BY <1>1, NoByte DEF ReadsData, RXC, SercomTypeOK
<1>2. ASSUME NEW a \in Number, rx = <<a>>
      PROVE  rx' = <<>> /\ got' = a
  BY <1>2, OneByte DEF ReadsData, RXC
<1>3. ASSUME NEW a \in Number, NEW b \in Number, rx = <<a, b>>
      PROVE  rx' = <<b>> /\ got' = a
  BY <1>3, TwoBytes DEF ReadsData, RXC
<1>4. accepted' = accepted
  BY DEF ReadsData
<1>5. QED
  BY <1>1, <1>2, <1>3, <1>4, NoByte, OneByte, TwoBytes, ByteCases DEF SercomTypeOK

LEMMA WriteType ==
  ASSUME SercomTypeOK, WritesData
  PROVE  /\ data' = <<sent'>> /\ data' \in Register /\ sent' = After(sent) /\ sent' \in Number
         /\ txc' = FALSE /\ shift' = shift /\ line' = line
<1>1. /\ sent' = After(sent) /\ data' = <<sent'>> /\ txc' = FALSE
      /\ shift' = shift /\ line' = line
  BY Zenon DEF WritesData
<1>2. sent \in Number
  BY DEF SercomTypeOK
<1>3. QED BY <1>1, <1>2, Bytes, OneByte

-----------------------------------------------------------------------------
(* Each driver has its own steps. *)

LEMMA StepOfOne ==
  ASSUME [Next]_vars
  PROVE  /\ PortNext \/ UNCHANGED portDriverVars
         /\ PwmCall \/ UNCHANGED pwmVars
         /\ DmaNext \/ UNCHANGED dmaVars
BY DEF Next, vars, portDriverVars

LEMMA PortSteps ==
  ASSUME PortNext
  PROVE  \/ \E baud \in Bauds : UartInit(baud)
         \/ \E n \in Counts, microseconds \in Waits : ReadBuffer(n, microseconds)
         \/ \E n \in Counts : SendBuffer(n)
         \/ (SpiInit \/ Flush \/ Command) /\ UNCHANGED uartVars
         \/ ReadNext \/ Poll \/ LookAtTimer \/ SendNext
         \/ (FlushStep \/ CommandWrite \/ CommandAnswer) /\ UNCHANGED uartVars
         \/ (Loads \/ ShiftsOut) /\ UNCHANGED uartVars
         \/ ByteArrives \/ Tick
         \/ Transfer /\ UNCHANGED uartVars
BY Zenon DEF PortNext, Call, CallStep, Controller

LEMMA InitSercomType == ASSUME InitSercom PROVE SercomTypeOK
BY Bytes, NoByte DEF InitSercom, SercomTypeOK

LEMMA SercomTypeStep ==
  ASSUME SercomTypeOK, PortNext PROVE SercomTypeOK'
<1> USE DEF SercomTypeOK, portVars, rxVars, txVars
<1>1. ASSUME NEW baud \in Bauds, UartInit(baud) PROVE SercomTypeOK'
  <2>1. (baud <= FastestBaud) \in BOOLEAN
    BY UartAssumption
  <2>2. QED BY <1>1, <2>1 DEF UartInit, SercomInit
<1>2. ASSUME NEW n \in Counts, NEW microseconds \in Waits, ReadBuffer(n, microseconds)
      PROVE  SercomTypeOK'
  BY <1>2 DEF ReadBuffer
<1>3. ASSUME NEW n \in Counts, SendBuffer(n) PROVE SercomTypeOK'
  BY <1>3 DEF SendBuffer
<1>4. CASE SpiInit
  BY <1>4 DEF SpiInit, SercomInit
<1>5. CASE Flush \/ Command
  BY <1>5 DEF Flush, Command
<1>6. CASE ReadNext
  BY <1>6 DEF ReadNext
<1>7. CASE Poll
  BY <1>7, ReadCases DEF Poll
<1>8. CASE LookAtTimer
  BY <1>8 DEF LookAtTimer, PollAgain
<1>9. CASE SendNext
  BY <1>9, WriteType DEF SendNext
<1>10. CASE FlushStep
  BY <1>10, ReadCases DEF FlushStep
<1>11. CASE CommandWrite
  BY <1>11, WriteType DEF CommandWrite
<1>12. CASE CommandAnswer
  BY <1>12, ReadCases DEF CommandAnswer
<1>13. CASE Loads
  BY <1>13, NoByte DEF Loads
<1>14. CASE ShiftsOut
  <2>1. PICK a \in Number : shift = <<a>>
    BY <1>14, ByteCases DEF ShiftsOut
  <2>2. line' = a /\ shift' = <<>> /\ txc' \in BOOLEAN
    BY <1>14, <2>1, OneByte DEF ShiftsOut
  <2>3. rx' \in Receiver /\ accepted' \in Number /\ got' \in Number
    BY <1>14, <2>2, ReceiveCases DEF ShiftsOut
  <2>4. QED BY <1>14, <2>2, <2>3, NoByte DEF ShiftsOut
<1>15. CASE ByteArrives
  BY <1>15, ReceiveCases, Bytes DEF ByteArrives
<1>16. CASE Tick
  BY <1>16 DEF Tick, sercomVars
<1>17. CASE Transfer
  BY <1>17, ReceiveCases, Bytes DEF Transfer
<1>18. QED
  BY <1>1, <1>2, <1>3, <1>4, <1>5, <1>6, <1>7, <1>8, <1>9, <1>10, <1>11, <1>12, <1>13,
     <1>14, <1>15, <1>16, <1>17, PortSteps

-----------------------------------------------------------------------------
(* The types of uart.c.  Between two calls its locals are as a call begins; *)
(* a wait is for a byte that has been asked for.                            *)
CountInv ==
  /\ pc \in {"idle", "flush", "command", "answer"} => i = 0 /\ count = 0
  /\ pc \in {"poll", "timer"} => i < count

LEMMA InitUartType ==
  ASSUME InitSercom, InitUart PROVE UartTypeOK /\ CountInv
<1>1. 0 \in Ticks /\ 0 \in 0 .. MaxLag
  BY HalfRangeAssumption, UartAssumption DEF Ticks, TickRange
<1>2. QED BY <1>1 DEF InitSercom, InitUart, UartTypeOK, CountInv

LEMMA UartTypeStep ==
  ASSUME UartTypeOK, CountInv, PortNext PROVE UartTypeOK' /\ CountInv'
<1>1. /\ 0 \in Ticks /\ 0 \in 0 .. MaxLag /\ MaxLag \in Nat
      /\ \A n \in Counts \cup {0} : n \in Nat
  BY HalfRangeAssumption, UartAssumption DEF Ticks, TickRange
<1>2. CASE UNCHANGED uartVars /\ (\/ SpiInit \/ Flush \/ Command \/ FlushStep \/ CommandWrite
                                \/ CommandAnswer \/ Loads \/ ShiftsOut \/ Transfer)
  <2>1. /\ i' = i /\ count' = count /\ wait' = wait /\ current_time' = current_time
        /\ waited' = waited /\ lag' = lag
    BY <1>2, Zenon DEF uartVars
  <2>2. /\ pc' = pc \/ pc \in {"idle", "flush", "command", "answer"}
        /\ pc' = pc \/ pc' \in {"idle", "flush", "command", "answer"}
    BY <1>2, Zenon DEF SpiInit, SercomInit, Flush, Usable, Command, FlushStep, CommandWrite,
                       CommandAnswer, Loads, ShiftsOut, Transfer
  <2>3. QED BY <2>1, <2>2 DEF UartTypeOK, CountInv
<1>3. CASE (\E baud \in Bauds : UartInit(baud)) \/ ByteArrives
  <2>1. pc' = pc /\ UNCHANGED uartVars
    BY <1>3, Zenon DEF UartInit, SercomInit, ByteArrives
  <2>2. QED BY <2>1 DEF uartVars, UartTypeOK, CountInv
<1>4. ASSUME NEW n \in Counts, NEW microseconds \in Waits, ReadBuffer(n, microseconds)
      PROVE  UartTypeOK' /\ CountInv'
  <2>1. /\ pc = "idle" /\ pc' = "read" /\ count' = n /\ wait' = microseconds
        /\ i' = i /\ current_time' = current_time /\ waited' = waited /\ lag' = lag
    BY <1>4, Zenon DEF ReadBuffer, Usable
  <2>2. QED BY <1>1, <2>1 DEF UartTypeOK, CountInv
<1>5. ASSUME NEW n \in Counts, SendBuffer(n)
      PROVE  UartTypeOK' /\ CountInv'
  <2>1. /\ pc = "idle" /\ pc' = "send" /\ count' = n /\ wait' = wait
        /\ i' = i /\ current_time' = current_time /\ waited' = waited /\ lag' = lag
    BY <1>5, Zenon DEF SendBuffer, Usable
  <2>2. QED BY <1>1, <2>1 DEF UartTypeOK, CountInv
<1>6. CASE ReadNext
  BY <1>1, <1>6 DEF ReadNext, ReadMore, UartIdle, UartTypeOK, CountInv
<1>7. CASE Poll
  BY <1>1, <1>7 DEF Poll, UartTypeOK, CountInv
<1>8. CASE LookAtTimer
  BY <1>1, <1>8 DEF LookAtTimer, PollAgain, UartIdle, UartTypeOK, CountInv
<1>9. CASE SendNext
  BY <1>1, <1>9 DEF SendNext, UartIdle, UartTypeOK, CountInv
<1>10. CASE Tick
  BY <1>1, <1>10 DEF Tick, sercomVars, UartTypeOK, CountInv
<1>11. QED
  BY <1>2, <1>3, <1>4, <1>5, <1>6, <1>7, <1>8, <1>9, <1>10, PortSteps

-----------------------------------------------------------------------------
(* The transmitter.  A step leaves it alone, moves a byte on, or writes    *)
(* one to a free DATA.                                                      *)
LEMMA TransmitterSteps ==
  ASSUME PortNext
  PROVE  UNCHANGED txVars \/ Loads \/ ShiftsOut \/ (DRE /\ WritesData) \/ Transfer
<1>1. CASE ReadNext \/ Poll \/ LookAtTimer \/ FlushStep \/ CommandAnswer \/ ByteArrives
  BY <1>1, Zenon DEF ReadNext, Poll, LookAtTimer, FlushStep, CommandAnswer, ByteArrives
<1>2. CASE SendNext \/ CommandWrite
  BY <1>2, Zenon DEF SendNext, MaySend, CommandWrite
<1>3. CASE SpiInit \/ Flush \/ Command
  BY <1>3, Zenon DEF SpiInit, SercomInit, Flush, Command
<1>4. CASE \/ \E baud \in Bauds : UartInit(baud)
           \/ \E n \in Counts, microseconds \in Waits : ReadBuffer(n, microseconds)
           \/ \E n \in Counts : SendBuffer(n)
  BY <1>4, Zenon DEF UartInit, SercomInit, ReadBuffer, SendBuffer
<1>5. CASE Tick
  BY <1>5, Zenon DEF Tick, sercomVars
<1>6. QED BY <1>1, <1>2, <1>3, <1>4, <1>5, PortSteps, Zenon

(* The bytes in the transmitter follow the one on the line; the last of    *)
(* them, or else that one, is the last byte written.                        *)
SentInv ==
  /\ shift = <<>> /\ data = <<>> => sent = line
  /\ \A a \in Number :
       \/ shift = <<a>> /\ data = <<>>
       \/ shift = <<>> /\ data = <<a>>
       => a = After(line) /\ sent = a
  /\ \A a, b \in Number :
       shift = <<a>> /\ data = <<b>> => a = After(line) /\ b = After(a) /\ sent = b

LEMMA SentInvStep ==
  ASSUME SercomTypeOK, SentInv, PortNext PROVE SentInv'
<1>1. /\ data = <<>> \/ \E n \in Number : data = <<n>>
      /\ shift = <<>> \/ \E n \in Number : shift = <<n>>
      /\ line \in Number /\ sent \in Number
  BY ByteCases DEF SercomTypeOK
<1>2. CASE UNCHANGED txVars
  BY <1>2 DEF txVars, SentInv
<1>3. CASE Loads
  <2>1. PICK a \in Number : data = <<a>>
    BY <1>1, <1>3, Zenon DEF Loads
  <2>2. shift = <<>> /\ shift' = <<a>> /\ data' = <<>> /\ sent' = sent /\ line' = line
    BY <1>3, <2>1, Zenon DEF Loads
  <2>3. QED BY <2>1, <2>2, OneByte DEF SentInv
<1>4. CASE ShiftsOut
  <2>1. PICK a \in Number : shift = <<a>>
    BY <1>1, <1>4, Zenon DEF ShiftsOut
  <2>2. line' = a /\ shift' = <<>> /\ data' = data /\ sent' = sent
    BY <1>4, <2>1, OneByte DEF ShiftsOut
  <2>3. QED BY <1>1, <2>1, <2>2, OneByte DEF SentInv
<1>5. CASE DRE /\ WritesData
  <2>1. data = <<>>
    BY <1>5 DEF DRE
  <2>2. /\ data' = <<After(sent)>> /\ sent' = After(sent) /\ After(sent) \in Number
        /\ shift' = shift /\ line' = line
    BY <1>5, WriteType
  <2>3. QED BY <1>1, <2>1, <2>2, OneByte DEF SentInv
<1>6. CASE Transfer
  <2>1. data' = <<>> /\ shift' = <<>> /\ sent' = line'
    BY <1>6, Zenon DEF Transfer
  <2>2. QED BY <2>1, OneByte DEF SentInv
<1>7. QED BY <1>2, <1>3, <1>4, <1>5, <1>6, TransmitterSteps

LEMMA SentInvEnough == ASSUME SercomTypeOK, SentInv PROVE SentInOrder
<1> DEFINE pending == shift \o data
<1>1. /\ data = <<>> \/ \E n \in Number : data = <<n>>
      /\ shift = <<>> \/ \E n \in Number : shift = <<n>>
  BY ByteCases DEF SercomTypeOK
<1>2. CASE shift = <<>> /\ data = <<>>
  <2>1. pending = <<>> /\ Len(pending) = 0
    BY <1>2
  <2>2. QED BY <1>2, <2>1 DEF SentInOrder, SentInv
<1>3. ASSUME NEW a \in Number,
             (shift = <<a>> /\ data = <<>>) \/ (shift = <<>> /\ data = <<a>>)
      PROVE  SentInOrder
  <2>1. pending = <<a>>
    BY <1>3, Joined
  <2>2. a = After(line) /\ sent = a
    BY <1>3 DEF SentInv
  <2>3. QED BY <2>1, <2>2, OneByte DEF SentInOrder
<1>4. ASSUME NEW a \in Number, NEW b \in Number, shift = <<a>>, data = <<b>>
      PROVE  SentInOrder
  <2>1. pending = <<a, b>>
    BY <1>4, Joined
  <2>2. a = After(line) /\ b = After(a) /\ sent = b
    BY <1>4 DEF SentInv
  <2>3. \A k \in 1 .. 2 : k = 1 \/ k = 2
    OBVIOUS
  <2>4. QED BY <2>1, <2>2, <2>3, TwoBytes DEF SentInOrder
<1>5. QED BY <1>1, <1>2, <1>3, <1>4

-----------------------------------------------------------------------------
(* The receiver.  A step leaves it alone, takes a byte from the line or a  *)
(* device, or gives one to a call.                                          *)
LEMMA ReceiverSteps ==
  ASSUME PortNext
  PROVE  \/ UNCHANGED rxVars
         \/ mode = "usart" /\ Receives(After(accepted))
         \/ mode = "spi" /\ \E n : Receives(n)
         \/ ReadsData
<1>1. CASE ReadNext \/ LookAtTimer \/ SendNext \/ CommandWrite \/ Loads \/ Tick
  BY <1>1, Zenon DEF ReadNext, LookAtTimer, SendNext, CommandWrite, Loads, Tick, sercomVars
<1>2. CASE Poll \/ FlushStep \/ CommandAnswer
  BY <1>2, Zenon DEF Poll, FlushStep, CommandAnswer
<1>3. CASE SpiInit \/ Flush \/ Command
  BY <1>3, Zenon DEF SpiInit, SercomInit, Flush, Command
<1>4. CASE \/ \E baud \in Bauds : UartInit(baud)
           \/ \E n \in Counts, microseconds \in Waits : ReadBuffer(n, microseconds)
           \/ \E n \in Counts : SendBuffer(n)
  BY <1>4, Zenon DEF UartInit, SercomInit, ReadBuffer, SendBuffer
<1>5. CASE ShiftsOut \/ ByteArrives \/ Transfer
  BY <1>5, Zenon DEF ShiftsOut, ByteArrives, Transfer
<1>6. QED BY <1>1, <1>2, <1>3, <1>4, <1>5, PortSteps, Zenon

(* What the port is while a call is under way: only its own driver's calls *)
(* are made, an SPI port is always enabled, and it stays one.              *)
PortInv ==
  /\ pc \in {"read", "poll", "timer", "send"} => mode = "usart"
  /\ pc \in {"command", "answer"} => mode = "spi"
  /\ mode = "spi" => enabled

LEMMA PortInvStep ==
  ASSUME PortInv, PortNext PROVE PortInv' /\ (mode = "spi" => mode' = "spi")
<1>1. CASE ReadNext \/ Poll \/ LookAtTimer \/ SendNext \/ FlushStep \/ CommandWrite
           \/ CommandAnswer
  <2>1. mode' = mode /\ enabled' = enabled
    BY <1>1, Zenon DEF ReadNext, Poll, LookAtTimer, SendNext, FlushStep, CommandWrite,
                       CommandAnswer, portVars
  <2>2. \/ pc' = pc \/ pc' = "idle"
        \/ pc \in {"read", "poll", "timer", "send"} /\ pc' \in {"read", "poll", "timer", "send"}
        \/ pc = "command" /\ pc' = "answer"
    BY <1>1, Zenon DEF ReadNext, Poll, LookAtTimer, PollAgain, SendNext, FlushStep,
                       CommandWrite, CommandAnswer
  <2>3. QED BY <2>1, <2>2 DEF PortInv
<1>2. CASE Loads \/ ShiftsOut \/ ByteArrives \/ Tick \/ Transfer
  BY <1>2, Zenon DEF Loads, ShiftsOut, ByteArrives, Tick, sercomVars, Transfer, portVars, PortInv
<1>3. CASE (\E baud \in Bauds : UartInit(baud)) \/ SpiInit
  <2>1. pc = "idle" /\ pc' = pc /\ ~enabled /\ (mode' = "spi" => enabled')
    BY <1>3, Zenon DEF UartInit, SpiInit, SercomInit
  <2>2. QED BY <2>1 DEF PortInv
<1>4. CASE \/ \E n \in Counts, microseconds \in Waits : ReadBuffer(n, microseconds)
           \/ \E n \in Counts : SendBuffer(n)
           \/ Flush \/ Command
  <2>1. mode' = mode /\ enabled' = enabled
    BY <1>4, Zenon DEF ReadBuffer, SendBuffer, Flush, Command, portVars
  <2>2. \/ pc' \in {"read", "send"} /\ mode = "usart"
        \/ pc' = "command" /\ mode = "spi"
        \/ pc' = "flush"
    BY <1>4, Zenon DEF ReadBuffer, SendBuffer, Flush, Command, Usable
  <2>3. QED BY <2>1, <2>2 DEF PortInv
<1>5. QED BY <1>1, <1>2, <1>3, <1>4, PortSteps, Zenon

(* The bytes a UART holds follow the one a call got last; the last of      *)
(* them, or else that one, is the last byte it took.                       *)
ReadInv ==
  mode # "spi" =>
    /\ rx = <<>> => accepted = got
    /\ \A a \in Number : rx = <<a>> => a = After(got) /\ accepted = a
    /\ \A a, b \in Number : rx = <<a, b>> => a = After(got) /\ b = After(a) /\ accepted = b

LEMMA ReadInvStep ==
  ASSUME SercomTypeOK, PortInv, ReadInv, PortNext PROVE ReadInv'
<1>1. SUFFICES ASSUME mode' # "spi" PROVE ReadInv'
  BY DEF ReadInv
<1>2. mode # "spi"
  BY <1>1, PortInvStep
<1>3. /\ rx = <<>> \/ (\E n \in Number : rx = <<n>>) \/ \E m, n \in Number : rx = <<m, n>>
      /\ accepted \in Number /\ got \in Number /\ After(accepted) \in Number
  BY ByteCases, Bytes DEF SercomTypeOK
<1>4. CASE UNCHANGED rxVars
  BY <1>2, <1>4 DEF rxVars, ReadInv
<1>5. CASE Receives(After(accepted))
  <2>1. CASE rx = <<>>
    <3>1. rx' = <<After(accepted)>> /\ accepted' = After(accepted) /\ got' = got
      BY <1>3, <1>5, <2>1, ReceiveCases
    <3>2. accepted = got
      BY <1>2, <2>1 DEF ReadInv
    <3>3. QED BY <1>3, <3>1, <3>2, OneByte, TwoBytes DEF ReadInv
  <2>2. ASSUME NEW a \in Number, rx = <<a>> PROVE ReadInv'
    <3>1. rx' = <<a, After(accepted)>> /\ accepted' = After(accepted) /\ got' = got
      BY <1>3, <1>5, <2>2, ReceiveCases
    <3>2. a = After(got) /\ accepted = a
      BY <1>2, <2>2 DEF ReadInv
    <3>3. QED BY <1>3, <3>1, <3>2, OneByte, TwoBytes DEF ReadInv
  <2>3. ASSUME NEW a \in Number, NEW b \in Number, rx = <<a, b>> PROVE ReadInv'
    <3>1. rx' = rx /\ accepted' = accepted /\ got' = got
      BY <1>3, <1>5, <2>3, ReceiveCases
    <3>2. QED BY <1>2, <3>1 DEF ReadInv
  <2>4. QED BY <1>3, <2>1, <2>2, <2>3
<1>6. CASE ReadsData
  <2>1. accepted' = accepted
    BY <1>6, ReadCases
  <2>2. CASE rx = <<>>
    <3>1. rx' = rx /\ got' = got
      BY <1>6, <2>2, ReadCases
    <3>2. QED BY <1>2, <2>1, <3>1 DEF ReadInv
  <2>3. ASSUME NEW a \in Number, rx = <<a>> PROVE ReadInv'
    <3>1. rx' = <<>> /\ got' = a
      BY <1>6, <2>3, ReadCases
    <3>2. accepted = a
      BY <1>2, <2>3 DEF ReadInv
    <3>3. QED BY <2>1, <3>1, <3>2, OneByte, TwoBytes DEF ReadInv
  <2>4. ASSUME NEW a \in Number, NEW b \in Number, rx = <<a, b>> PROVE ReadInv'
    <3>1. rx' = <<b>> /\ got' = a
      BY <1>6, <2>4, ReadCases
    <3>2. b = After(a) /\ accepted = b
      BY <1>2, <2>4 DEF ReadInv
    <3>3. QED BY <2>1, <3>1, <3>2, OneByte, TwoBytes DEF ReadInv
  <2>5. QED BY <1>3, <2>2, <2>3, <2>4
<1>7. QED BY <1>2, <1>4, <1>5, <1>6, ReceiverSteps

(* A step that counts a byte has taken it out of a receiver that held one. *)
LEMMA CountsWhatItGot ==
  ASSUME SercomTypeOK, UartTypeOK, PortInv, ReadInv, PortNext, pc = "poll", i' > i
  PROVE  got' = After(got)
<1>1. i \in Nat /\ mode # "spi"
  BY DEF UartTypeOK, PortInv
<1>2. Poll /\ ByteReady
  <2>1. UNCHANGED i \/ (Poll /\ ByteReady)
    <3>1. CASE UNCHANGED uartVars
      BY <3>1 DEF uartVars
    <3>2. CASE (\E baud \in Bauds : UartInit(baud)) \/ ByteArrives \/ Tick
      BY <3>2, Zenon DEF UartInit, ByteArrives, Tick, uartVars
    <3>3. CASE Poll
      BY <3>3, Zenon DEF Poll
    <3>4. QED
      BY <3>1, <3>2, <3>3, PortSteps DEF ReadBuffer, SendBuffer, Usable, ReadNext, LookAtTimer, SendNext
  <2>2. QED BY <1>1, <2>1
<1>3. ReadsData /\ rx # <<>>
  BY <1>2 DEF Poll, ByteReady, RXC
<1>4. (\E n \in Number : rx = <<n>>) \/ \E m, n \in Number : rx = <<m, n>>
  BY <1>3, ByteCases DEF SercomTypeOK
<1>5. QED BY <1>1, <1>3, <1>4, ReadCases DEF ReadInv

-----------------------------------------------------------------------------
(* spi_command.  Nothing is on its way when it writes its byte, and its    *)
(* byte, on the way out or back, is all there is until it reads the answer. *)
CommandInv ==
  /\ txc => data = <<>> /\ shift = <<>>
  /\ ~enabled => data = <<>> /\ shift = <<>>
  /\ mode = "spi" /\ pc \in {"idle", "flush", "command"} => data = <<>> /\ shift = <<>>
  /\ pc = "command" => rx = <<>>
  /\ pc = "answer" =>
       IF txc THEN rx = <<sent>>
              ELSE /\ rx = <<>>
                   /\ \/ data = <<sent>> /\ shift = <<>>
                      \/ data = <<>> /\ shift = <<sent>>

LEMMA CommandInvStep ==
  ASSUME "leave unread" \notin CallerMay, SercomTypeOK, PortInv, CommandInv, PortNext
  PROVE  CommandInv'
<1>1. PortInv'
  BY PortInvStep
<1>2. CASE (\E baud \in Bauds : UartInit(baud)) \/ SpiInit
  <2>1. pc = "idle" /\ pc' = pc /\ ~enabled /\ txc' = txc /\ data' = data /\ shift' = shift
    BY <1>2, Zenon DEF UartInit, SpiInit, SercomInit, txVars
  <2>2. QED BY <2>1 DEF CommandInv
<1>3. CASE \/ \E n \in Counts, microseconds \in Waits : ReadBuffer(n, microseconds)
           \/ \E n \in Counts : SendBuffer(n)
           \/ ReadNext \/ LookAtTimer
  <2>1. /\ mode' = mode /\ enabled' = enabled /\ txc' = txc /\ data' = data /\ shift' = shift
        /\ mode = "usart" /\ pc' \in {"read", "poll", "timer", "send", "idle"}
    BY <1>3, Zenon DEF ReadBuffer, SendBuffer, Usable, ReadNext, LookAtTimer, PollAgain, PortInv,
                       portVars, txVars
  <2>2. QED BY <2>1 DEF CommandInv
<1>4. CASE Poll
  <2>1. /\ mode' = mode /\ enabled' = enabled /\ txc' = txc /\ data' = data /\ shift' = shift
        /\ mode = "usart" /\ pc' \in {"read", "timer"}
    BY <1>4, Zenon DEF Poll, PortInv, portVars, txVars
  <2>2. QED BY <2>1 DEF CommandInv
<1>5. CASE SendNext
  <2>1. mode' = mode /\ enabled' = enabled /\ mode = "usart" /\ pc' \in {"send", "idle"}
    BY <1>5, Zenon DEF SendNext, PortInv, portVars
  <2>2. (txc' = txc /\ data' = data /\ shift' = shift) \/ (enabled' /\ ~txc')
    BY <1>5, <2>1, Zenon DEF SendNext, MaySend, DRE, WritesData, txVars
  <2>3. CASE txc' = txc /\ data' = data /\ shift' = shift
    BY <2>1, <2>3 DEF CommandInv
  <2>4. CASE enabled' /\ ~txc'
    BY <2>1, <2>4 DEF CommandInv
  <2>5. QED BY <2>2, <2>3, <2>4
<1>6. CASE Flush \/ FlushStep
  <2>1. /\ mode' = mode /\ enabled' = enabled /\ txc' = txc /\ data' = data /\ shift' = shift
        /\ pc \in {"idle", "flush"} /\ pc' \in {"idle", "flush"}
    BY <1>6, Zenon DEF Flush, FlushStep, Usable, portVars, txVars
  <2>2. QED BY <2>1 DEF CommandInv
<1>7. CASE Command
  <2>1. /\ mode' = mode /\ enabled' = enabled /\ txc' = txc /\ data' = data /\ shift' = shift
        /\ mode = "spi" /\ pc = "idle" /\ pc' = "command" /\ rx' = rx /\ rx = <<>>
    BY <1>7, Zenon DEF Command, Usable, RXC, portVars, txVars, rxVars
  <2>2. QED BY <2>1 DEF CommandInv
<1>8. CASE CommandWrite
  <2>1. /\ pc = "command" /\ pc' = "answer" /\ enabled /\ enabled' = enabled /\ mode' = mode
        /\ rx' = rx
    BY <1>8, Zenon DEF CommandWrite, DRE, portVars, rxVars
  <2>2. data' = <<sent'>> /\ txc' = FALSE /\ shift' = shift
    BY <1>8, WriteType DEF CommandWrite
  <2>3. mode = "spi" /\ rx = <<>> /\ shift = <<>>
    BY <2>1 DEF CommandInv, PortInv
  <2>4. QED BY <2>1, <2>2, <2>3 DEF CommandInv
<1>9. CASE CommandAnswer
  <2>1. /\ pc = "answer" /\ pc' = "idle" /\ mode' = mode /\ enabled' = enabled
        /\ txc /\ txc' = txc /\ data' = data /\ shift' = shift
    BY <1>9, Zenon DEF CommandAnswer, Answered, portVars, txVars
  <2>2. QED BY <2>1 DEF CommandInv
<1>10. CASE Loads
  <2>1. /\ mode' = mode /\ enabled' = enabled /\ pc' = pc /\ rx' = rx /\ sent' = sent
        /\ data # <<>> /\ shift = <<>> /\ shift' = data /\ data' = <<>> /\ txc' = txc
    BY <1>10, Zenon DEF Loads, portVars, rxVars
  <2>2. QED BY <2>1 DEF CommandInv
<1>11. CASE ShiftsOut
  <2>1. PICK a \in Number : shift = <<a>>
    BY <1>11, ByteCases DEF ShiftsOut, SercomTypeOK
  <2>2. /\ mode' = mode /\ enabled' = enabled /\ pc' = pc /\ sent' = sent /\ shift # <<>>
        /\ line' = a /\ shift' = <<>> /\ data' = data /\ txc' = (data = <<>>)
        /\ mode = "spi" => Receives(a)
    BY <1>11, <2>1, OneByte DEF ShiftsOut, portVars
  <2>3. enabled /\ ~txc
    BY <2>2 DEF CommandInv
  <2>4. CASE pc = "answer"
    <3>1. mode = "spi" /\ rx = <<>> /\ data = <<>> /\ shift = <<sent>>
      BY <2>2, <2>3, <2>4 DEF CommandInv, PortInv
    <3>2. a = sent
      BY <2>1, <3>1, OneByte DEF SercomTypeOK
    <3>3. rx' = <<sent>>
      BY <2>2, <3>1, <3>2, ReceiveCases
    <3>4. QED BY <2>2, <2>3, <2>4, <3>1, <3>3 DEF CommandInv
  <2>5. CASE pc # "answer"
    <3>1. ~(mode = "spi" /\ pc \in {"idle", "flush", "command"}) /\ pc # "command"
      BY <2>2 DEF CommandInv, PortInv
    <3>2. QED BY <2>2, <2>3, <2>5, <3>1 DEF CommandInv
  <2>6. QED BY <2>4, <2>5
<1>12. CASE ByteArrives
  <2>1. /\ mode' = mode /\ enabled' = enabled /\ pc' = pc /\ mode = "usart"
        /\ txc' = txc /\ data' = data /\ shift' = shift
    BY <1>12, Zenon DEF ByteArrives, portVars, txVars
  <2>2. QED BY <2>1 DEF CommandInv, PortInv
<1>13. CASE Tick
  BY <1>13 DEF Tick, sercomVars, portVars, rxVars, txVars, CommandInv
<1>14. CASE Transfer
  <2>1. /\ mode' = mode /\ enabled' = enabled /\ pc = "idle" /\ pc' = pc
        /\ data' = <<>> /\ shift' = <<>>
    BY <1>14, Zenon DEF Transfer, portVars
  <2>2. QED BY <2>1 DEF CommandInv
<1>15. QED
  BY <1>2, <1>3, <1>4, <1>5, <1>6, <1>7, <1>8, <1>9, <1>10, <1>11, <1>12, <1>13, <1>14,
     PortSteps, Zenon

(* The byte a command returns is the one that came back for its own. *)
LEMMA AnswersItsOwn ==
  ASSUME SercomTypeOK, UartTypeOK, CommandInv, PortNext, pc = "answer", pc' = "idle"
  PROVE  got' = sent
<1>1. CommandAnswer
  BY PortSteps, Zenon
     DEF UartInit, SpiInit, SercomInit, ReadBuffer, SendBuffer, Flush, Command, Usable, ReadNext,
         Poll, LookAtTimer, SendNext, FlushStep, CommandWrite, Loads, ShiftsOut, ByteArrives, Tick,
         Transfer
<1>2. ReadsData /\ txc
  BY <1>1, Zenon DEF CommandAnswer, Answered
<1>3. sent \in Number /\ rx = <<sent>>
  BY <1>2 DEF SercomTypeOK, CommandInv
<1>4. QED BY <1>2, <1>3, ReadCases

-----------------------------------------------------------------------------
(* The counter never seems to have gone further than it has.               *)
LEMMA SeemsNoLonger ==
  ASSUME NEW t \in Ticks, NEW w \in Nat PROVE TickSub((t + w) % TickRange, t) <= w
<1> DEFINE r == (t + w) % TickRange
           q == (t + w) \div TickRange
<1>1. TickRange \in Nat \ {0} /\ t \in Nat /\ t < TickRange
  BY HalfRangeAssumption DEF Ticks, TickRange
<1>2. /\ r \in 0 .. TickRange - 1 /\ q \in Nat
      /\ t + w = TickRange * q + r
  BY <1>1
<1> HIDE DEF r, q
<1>3. CASE q = 0
  BY <1>1, <1>2, <1>3 DEF TickSub, r
<1>4. CASE q > 0
  <2>1. TickRange * q = TickRange + TickRange * (q - 1) /\ TickRange * (q - 1) \in Nat
    BY <1>1, <1>2, <1>4
  <2>2. r + TickRange <= t + w
    BY <1>1, <1>2, <2>1
  <2>3. QED BY <1>1, <1>2, <2>2 DEF TickSub, r
<1>5. QED BY <1>2, <1>3, <1>4

LEMMA GivesUpLate ==
  ASSUME UartTypeOK, PortNext, pc = "timer", pc' = "idle" PROVE waited > wait
<1>1. LookAtTimer /\ TimedOut
  BY PortSteps, Zenon
     DEF UartInit, SpiInit, SercomInit, ReadBuffer, SendBuffer, Flush, Command, Usable, ReadNext,
         Poll, LookAtTimer, PollAgain, SendNext, FlushStep, CommandWrite, CommandAnswer, Loads,
         ShiftsOut, ByteArrives, Tick, sercomVars, Transfer
<1>2. current_time \in Ticks /\ waited \in Nat /\ wait \in Int
  BY UartAssumption DEF UartTypeOK
<1>3. TickSub(Now, current_time) <= waited
  BY <1>2, SeemsNoLonger DEF Now
<1>4. TickSub(Now, current_time) \in Int /\ TickSub(Now, current_time) > wait
  <2>1. Now \in Int /\ TickRange \in Int /\ current_time \in Int
    BY <1>2, HalfRangeAssumption DEF Now, Ticks, TickRange
  <2>2. QED BY <1>1, <2>1 DEF TimedOut, TickSub
<1>5. QED BY <1>2, <1>3, <1>4

-----------------------------------------------------------------------------
(* Integer division, as pwm.c uses it. *)
LEMMA Floor ==
  ASSUME NEW a \in Nat, NEW b \in Nat \ {0}
  PROVE  /\ a \div b \in Nat
         /\ (a \div b) * b <= a /\ a < (a \div b) * b + b
<1> DEFINE q == a \div b
           r == a % b
<1>1. q \in Nat /\ r \in 0 .. b - 1 /\ a = b * q + r
  OBVIOUS
<1> HIDE DEF q, r
<1>2. b * q = q * b
  BY <1>1
<1>3. q * b <= a /\ a < q * b + b
  BY <1>1, <1>2
<1>4. QED BY <1>1, <1>3 DEF q

LEMMA Share ==
  ASSUME NEW d \in Nat, NEW u \in Nat \ {0}, NEW p \in Nat, d <= u
  PROVE  d * p \in Nat /\ (d * p) \div u \in Nat /\ (d * p) \div u <= p
<1> DEFINE q == (d * p) \div u
<1>1. d * p \in Nat /\ (u - d) * p \in Nat /\ (u - d) * p = u * p - d * p /\ u * p \in Nat
  OBVIOUS
<1>2. q \in Nat /\ q * u <= d * p
  BY <1>1, Floor
<1> HIDE DEF q
<1>3. q * u <= u * p
  BY <1>1, <1>2
<1>4. ASSUME q > p PROVE FALSE
  <2>1. (q - p - 1) * u \in Nat /\ (q - p - 1) * u = q * u - u * p - u
    BY <1>2, <1>4
  <2>2. QED BY <1>1, <1>2, <1>3, <2>1
<1>5. q <= p
  BY <1>2, <1>4
<1>6. QED BY <1>1, <1>2, <1>5 DEF q

LEMMA Divisors == \A v \in 0 .. 7 : DivVal(v) \in Nat \ {0}
<1>1. SUFFICES ASSUME NEW v \in 0 .. 7 PROVE DivVal(v) \in Nat \ {0}
  OBVIOUS
<1>2. v = 0 \/ v = 1 \/ v = 2 \/ v = 3 \/ v = 4 \/ v = 5 \/ v = 6 \/ v = 7
  OBVIOUS
<1>3. QED BY <1>2 DEF DivVal

LEMMA PwmSizes ==
  /\ Clock \in Nat /\ DutyUnits \in Nat \ {0}
  /\ \A f \in Frequencies : f \in Nat \ {0}
  /\ \A v \in Prescalers : v \in 0 .. 7
  /\ \A c \in Counters : MaxPeriod[c] \in Nat
BY PwmAssumption

-----------------------------------------------------------------------------
(* The registers of pwm.c. *)

LEMMA WrittenType ==
  ASSUME NEW c \in Counters, NEW old \in 0 .. MaxPeriod[c], NEW new \in 0 .. MaxPeriod[c]
  PROVE  Written(c, old, new) \in 0 .. MaxPeriod[c]
BY OrAssumption DEF Written

(* What the calls that write per, cc and asked leave of them. *)
LEMMA SetFrequencyEffect ==
  ASSUME PwmTypeOK, NEW c \in Counters, NEW frequency \in Frequencies, SetFrequency(c, frequency)
  PROVE  \E div \in Nat \ {0}, period \in 0 .. MaxPeriod[c] :
           /\ period = Clock \div (frequency * div)
           /\ per' = [per EXCEPT ![c] = Written(c, per[c], period) % (MaxPeriod[c] + 1)]
           /\ asked' = [asked EXCEPT ![c] = [frequency |-> frequency, div |-> div,
                                            duty |-> asked[c].duty, per |-> asked[c].per]]
           /\ UNCHANGED <<clocked, prescaler, running, cc>>
<1> DEFINE div == DivVal(prescaler[c])
           period == Clock \div (frequency * div)
<1>1. div \in Nat \ {0}
  BY Divisors DEF PwmTypeOK
<1>2. frequency * div \in Nat \ {0}
  BY <1>1, PwmSizes
<1>3. period \in Nat
  BY <1>2, PwmSizes, Floor
<1>4. /\ period <= MaxPeriod[c]
      /\ per' = [per EXCEPT ![c] = Written(c, per[c], period) % (MaxPeriod[c] + 1)]
      /\ asked' = [asked EXCEPT ![c] = [frequency |-> frequency, div |-> div,
                                       duty |-> asked[c].duty, per |-> asked[c].per]]
      /\ UNCHANGED <<clocked, prescaler, running, cc>>
  BY Zenon DEF SetFrequency, Fits
<1> HIDE DEF div, period
<1>5. period \in 0 .. MaxPeriod[c]
  BY <1>3, <1>4, PwmSizes
<1>6. QED BY <1>1, <1>4, <1>5, Zenon DEF period

LEMMA SetDutyEffect ==
  ASSUME PwmTypeOK, NEW c \in Counters, NEW duty \in -1 .. DutyUnits + 1, SetDuty(c, duty)
  PROVE  \E d \in 0 .. DutyUnits, high \in 0 .. MaxPeriod[c] :
           /\ c \in SetAgain \/ asked[c].duty = -1
           /\ high = (d * per[c]) \div DutyUnits
           /\ cc' = [cc EXCEPT ![c] = Written(c, cc[c], high)]
           /\ asked' = [asked EXCEPT ![c] = [frequency |-> asked[c].frequency, div |-> asked[c].div,
                                            duty |-> d, per |-> per[c]]]
           /\ UNCHANGED <<clocked, prescaler, running, per>>
<1> DEFINE d == Clamped(duty)
           high == (d * per[c]) \div DutyUnits
<1>1. d \in Nat /\ d <= DutyUnits
  BY PwmSizes DEF Clamped
<1>2. per[c] \in Nat /\ per[c] <= MaxPeriod[c]
  BY DEF PwmTypeOK
<1>3. high \in Nat /\ high <= per[c]
  BY <1>1, <1>2, PwmSizes, Share
<1>4. /\ c \in SetAgain \/ asked[c].duty = -1
      /\ cc' = [cc EXCEPT ![c] = Written(c, cc[c], high)]
      /\ asked' = [asked EXCEPT ![c] = [frequency |-> asked[c].frequency, div |-> asked[c].div,
                                       duty |-> d, per |-> per[c]]]
      /\ UNCHANGED <<clocked, prescaler, running, per>>
  BY Zenon DEF SetDuty
<1> HIDE DEF d, high
<1>5. d \in 0 .. DutyUnits /\ high \in 0 .. MaxPeriod[c]
  BY <1>1, <1>2, <1>3, PwmSizes
<1>6. QED BY <1>4, <1>5, Zenon DEF high

LEMMA PwmSteps ==
  ASSUME PwmCall
  PROVE  \E c \in Counters :
           \/ \E value \in Prescalers : PwmInit(c, value)
           \/ PwmEnable(c)
           \/ \E frequency \in Frequencies : SetFrequency(c, frequency)
           \/ \E duty \in -1 .. DutyUnits + 1 : SetDuty(c, duty)
BY Zenon DEF PwmCall

LEMMA InitPwmType == ASSUME InitPwm PROVE PwmTypeOK
<1>1. Nothing \in [frequency : Frequencies \cup {0}, div : Nat, duty : -1 .. DutyUnits, per : Nat]
  BY PwmSizes DEF Nothing
<1>2. MaxPeriod \in [Counters -> Nat]
  BY PwmAssumption, Zenon
<1>3. QED BY <1>1, <1>2 DEF InitPwm, PwmTypeOK

LEMMA PwmTypeStep == ASSUME PwmTypeOK, PwmCall PROVE PwmTypeOK'
<1>1. ASSUME NEW c \in Counters, NEW value \in Prescalers, PwmInit(c, value) PROVE PwmTypeOK'
  BY <1>1, PwmSizes DEF PwmInit, PwmTypeOK
<1>2. ASSUME NEW c \in Counters, PwmEnable(c) PROVE PwmTypeOK'
  BY <1>2 DEF PwmEnable, PwmTypeOK
<1>3. ASSUME NEW c \in Counters, NEW frequency \in Frequencies, SetFrequency(c, frequency)
      PROVE  PwmTypeOK'
  <2>1. PICK div \in Nat \ {0}, period \in 0 .. MaxPeriod[c] :
          /\ per' = [per EXCEPT ![c] = Written(c, per[c], period) % (MaxPeriod[c] + 1)]
          /\ asked' = [asked EXCEPT ![c] = [frequency |-> frequency, div |-> div,
                                           duty |-> asked[c].duty, per |-> asked[c].per]]
          /\ UNCHANGED <<clocked, prescaler, running, cc>>
    BY <1>3, SetFrequencyEffect, Zenon
  <2>2. per[c] \in 0 .. MaxPeriod[c] /\ MaxPeriod[c] \in Nat
    BY PwmSizes DEF PwmTypeOK
  <2> DEFINE v == Written(c, per[c], period) % (MaxPeriod[c] + 1)
  <2>3. v \in Nat /\ v <= MaxPeriod[c]
    <3> DEFINE w == Written(c, per[c], period)
               n == MaxPeriod[c] + 1
    <3>1. w \in Int
      <4>1. w \in 0 .. MaxPeriod[c]
        BY <2>1, <2>2, WrittenType, Zenon
      <4> HIDE DEF w
      <4>2. QED BY <2>2, <4>1
    <3>2. n \in Nat \ {0} /\ n - 1 = MaxPeriod[c]
      BY <2>2
    <3> HIDE DEF w, n
    <3>3. w % n \in Nat /\ w % n <= n - 1
      BY <3>1, <3>2
    <3>4. QED BY <3>2, <3>3 DEF w, n
  <2> HIDE DEF v
  <2>4. per' = [per EXCEPT ![c] = v]
    BY <2>1 DEF v
  <2>5. QED BY <2>1, <2>3, <2>4 DEF PwmTypeOK
<1>4. ASSUME NEW c \in Counters, NEW duty \in -1 .. DutyUnits + 1, SetDuty(c, duty)
      PROVE  PwmTypeOK'
  <2>1. PICK d \in 0 .. DutyUnits, high \in 0 .. MaxPeriod[c] :
          /\ cc' = [cc EXCEPT ![c] = Written(c, cc[c], high)]
          /\ asked' = [asked EXCEPT ![c] = [frequency |-> asked[c].frequency,
                                           div |-> asked[c].div, duty |-> d, per |-> per[c]]]
          /\ UNCHANGED <<clocked, prescaler, running, per>>
    BY <1>4, SetDutyEffect, Zenon
  <2>2. cc[c] \in 0 .. MaxPeriod[c] /\ MaxPeriod[c] \in Nat
    BY PwmSizes DEF PwmTypeOK
  <2> DEFINE v == Written(c, cc[c], high)
  <2>3. v \in 0 .. MaxPeriod[c]
    BY <2>1, <2>2, WrittenType, Zenon
  <2> HIDE DEF v
  <2>4. cc' = [cc EXCEPT ![c] = v] /\ d \in -1 .. DutyUnits
    BY <2>1, PwmSizes DEF v
  <2>5. v \in Nat /\ v <= MaxPeriod[c]
    BY <2>2, <2>3
  <2>6. QED BY <2>1, <2>4, <2>5 DEF PwmTypeOK
<1>5. QED BY <1>1, <1>2, <1>3, <1>4, PwmSteps, Zenon

LEMMA PeriodStep == ASSUME PwmTypeOK, PeriodAsAsked, PwmCall PROVE PeriodAsAsked'
<1>1. ASSUME UNCHANGED per, \A c \in Counters : /\ asked'[c].frequency = asked[c].frequency
                                               /\ asked'[c].div = asked[c].div
      PROVE  PeriodAsAsked'
  BY <1>1 DEF PeriodAsAsked
<1>2. ASSUME NEW c \in Counters, NEW value \in Prescalers, PwmInit(c, value)
      PROVE  PeriodAsAsked'
  BY <1>1, <1>2 DEF PwmInit
<1>3. ASSUME NEW c \in Counters, PwmEnable(c) PROVE PeriodAsAsked'
  BY <1>1, <1>3 DEF PwmEnable
<1>4. ASSUME NEW c \in Counters, NEW frequency \in Frequencies, SetFrequency(c, frequency)
      PROVE  PeriodAsAsked'
  <2>1. PICK div \in Nat \ {0}, period \in 0 .. MaxPeriod[c] :
          /\ period = Clock \div (frequency * div)
          /\ per' = [per EXCEPT ![c] = Written(c, per[c], period) % (MaxPeriod[c] + 1)]
          /\ asked' = [asked EXCEPT ![c] = [frequency |-> frequency, div |-> div,
                                           duty |-> asked[c].duty, per |-> asked[c].per]]
    BY <1>4, SetFrequencyEffect, Zenon
  <2> DEFINE step == frequency * div
  <2>2. step \in Nat \ {0} /\ Clock \in Nat /\ MaxPeriod[c] \in Nat
    BY PwmSizes
  <2>3. period * step <= Clock /\ Clock < period * step + step /\ period * step \in Nat
    BY <2>1, <2>2, Floor
  <2> SUFFICES ASSUME NEW o \in Counters \cap Tcs, asked'[o].frequency > 0
               PROVE  LET s == asked'[o].frequency * asked'[o].div
                      IN Clock - s < per'[o] * s /\ per'[o] * s <= Clock
    BY DEF PeriodAsAsked
  <2>4. CASE o = c
    <3>1. Written(c, per[c], period) % (MaxPeriod[c] + 1) = period
      BY <2>2, <2>4 DEF Written
    <3>2. per'[o] = period /\ asked'[o].frequency = frequency /\ asked'[o].div = div
      BY <2>1, <2>4, <3>1 DEF PwmTypeOK
    <3> HIDE DEF step
    <3>3. Clock - step < period * step /\ period * step <= Clock
      BY <2>2, <2>3
    <3>4. QED BY <3>2, <3>3, Zenon DEF step
  <2>5. CASE o # c
    <3>1. per'[o] = per[o] /\ asked'[o] = asked[o]
      BY <2>1, <2>5 DEF PwmTypeOK
    <3>2. QED BY <3>1, Zenon DEF PeriodAsAsked
  <2>6. QED BY <2>4, <2>5
<1>5. ASSUME NEW c \in Counters, NEW duty \in -1 .. DutyUnits + 1, SetDuty(c, duty)
      PROVE  PeriodAsAsked'
  <2>1. PICK d \in 0 .. DutyUnits, high \in 0 .. MaxPeriod[c] :
          /\ asked' = [asked EXCEPT ![c] = [frequency |-> asked[c].frequency,
                                           div |-> asked[c].div, duty |-> d, per |-> per[c]]]
          /\ UNCHANGED <<clocked, prescaler, running, per>>
    BY <1>5, SetDutyEffect, Zenon
  <2>2. QED BY <1>1, <2>1 DEF PwmTypeOK
<1>6. QED BY <1>2, <1>3, <1>4, <1>5, PwmSteps, Zenon

(* The compare register of a counter whose duty has not been set is clear; *)
(* one that has been set shows the duty asked for.                          *)
DutyInv ==
  \A c \in Counters :
    /\ asked[c].duty = -1 => cc[c] = 0
    /\ asked[c].duty >= 0 =>
         LET shown == cc[c] * DutyUnits
             wanted == asked[c].duty * asked[c].per
         IN wanted - DutyUnits < shown /\ shown <= wanted

LEMMA DutyStep == ASSUME SetAgain \subseteq Tcs, PwmTypeOK, DutyInv, PwmCall PROVE DutyInv'
<1>1. ASSUME UNCHANGED cc, \A c \in Counters : /\ asked'[c].duty = asked[c].duty
                                              /\ asked'[c].per = asked[c].per
      PROVE  DutyInv'
  BY <1>1 DEF DutyInv
<1>2. ASSUME NEW c \in Counters, NEW value \in Prescalers, PwmInit(c, value) PROVE DutyInv'
  BY <1>1, <1>2 DEF PwmInit
<1>3. ASSUME NEW c \in Counters, PwmEnable(c) PROVE DutyInv'
  BY <1>1, <1>3 DEF PwmEnable
<1>4. ASSUME NEW c \in Counters, NEW frequency \in Frequencies, SetFrequency(c, frequency)
      PROVE  DutyInv'
  <2>1. PICK div \in Nat \ {0}, period \in 0 .. MaxPeriod[c] :
          /\ asked' = [asked EXCEPT ![c] = [frequency |-> frequency, div |-> div,
                                           duty |-> asked[c].duty, per |-> asked[c].per]]
          /\ UNCHANGED <<clocked, prescaler, running, cc>>
    BY <1>4, SetFrequencyEffect, Zenon
  <2>2. QED BY <1>1, <2>1 DEF PwmTypeOK
<1>5. ASSUME NEW c \in Counters, NEW duty \in -1 .. DutyUnits + 1, SetDuty(c, duty)
      PROVE  DutyInv'
  <2>1. PICK d \in 0 .. DutyUnits, high \in 0 .. MaxPeriod[c] :
          /\ c \in SetAgain \/ asked[c].duty = -1
          /\ high = (d * per[c]) \div DutyUnits
          /\ cc' = [cc EXCEPT ![c] = Written(c, cc[c], high)]
          /\ asked' = [asked EXCEPT ![c] = [frequency |-> asked[c].frequency,
                                           div |-> asked[c].div, duty |-> d, per |-> per[c]]]
    BY <1>5, SetDutyEffect, Zenon
  <2>2. Written(c, cc[c], high) = high
    <3>1. CASE c \in Tcs
      BY <3>1 DEF Written
    <3>2. CASE c \notin Tcs
      BY <2>1, <3>2, OrAssumption DEF Written, DutyInv
    <3>3. QED BY <3>1, <3>2
  <2>3. d * per[c] \in Nat /\ DutyUnits \in Nat \ {0}
    BY PwmSizes DEF PwmTypeOK
  <2> DEFINE wanted == d * per[c]
  <2>4. wanted - DutyUnits < high * DutyUnits /\ high * DutyUnits <= wanted
    <3>1. high = wanted \div DutyUnits /\ wanted \in Nat
      BY <2>1, <2>3
    <3> HIDE DEF wanted
    <3>2. high * DutyUnits <= wanted /\ wanted < high * DutyUnits + DutyUnits
      BY <2>3, <3>1, Floor
    <3>3. high * DutyUnits \in Int
      BY <2>3
    <3>4. QED BY <2>3, <3>1, <3>2, <3>3
  <2> SUFFICES ASSUME NEW o \in Counters
               PROVE  /\ asked'[o].duty = -1 => cc'[o] = 0
                      /\ asked'[o].duty >= 0 =>
                           LET shown == cc'[o] * DutyUnits
                               w == asked'[o].duty * asked'[o].per
                           IN w - DutyUnits < shown /\ shown <= w
    BY DEF DutyInv
  <2>5. CASE o = c
    <3>1. cc'[o] = high /\ asked'[o].duty = d /\ asked'[o].per = per[c]
      BY <2>1, <2>2, <2>5 DEF PwmTypeOK
    <3>2. d # -1
      OBVIOUS
    <3>3. QED BY <2>4, <3>1, <3>2, Zenon
  <2>6. CASE o # c
    <3>1. cc'[o] = cc[o] /\ asked'[o] = asked[o]
      BY <2>1, <2>6 DEF PwmTypeOK
    <3>2. QED BY <3>1, Zenon DEF DutyInv
  <2>7. QED BY <2>5, <2>6
<1>6. QED BY <1>2, <1>3, <1>4, <1>5, PwmSteps, Zenon

-----------------------------------------------------------------------------
(* The channels of dma.c. *)

LEMMA BlockFields ==
  ASSUME NEW b \in Blocks
  PROVE  /\ b.count \in Nat \ {0} /\ b.beatsize \in 0 .. 2
         /\ b.incsource \in BOOLEAN /\ b.incdest \in BOOLEAN /\ b.src \in Nat /\ b.dst \in Nat
         /\ BeatBytes(b) \in Nat /\ b # NoBlock
<1>1. b \in [beatsize : 0 .. 2, count : Nat \ {0},
            incsource : BOOLEAN, incdest : BOOLEAN, src : Nat, dst : Nat]
  BY DmaAssumption, Zenon
<1>2. b.beatsize = 0 \/ b.beatsize = 1 \/ b.beatsize = 2
  BY <1>1
<1>3. BeatBytes(b) \in Nat
  BY <1>2 DEF BeatBytes
<1>4. b # NoBlock
  BY <1>1 DEF NoBlock
<1>5. QED BY <1>1, <1>3, <1>4

LEMMA EndAddressType ==
  ASSUME NEW b \in Blocks, NEW a \in Nat, NEW inc \in BOOLEAN PROVE EndAddress(a, inc, b) \in Nat
BY BlockFields DEF EndAddress

LEMMA NoDescriptor ==
  Descriptor(NoBlock) \in Descriptors /\ Descriptor(NoBlock).block = NoBlock
<1>1. Descriptor(NoBlock) = [block |-> NoBlock, BTCNT |-> 0, SRCADDR |-> 0, DSTADDR |-> 0]
  BY DEF Descriptor, EndAddress, NoBlock
<1>2. QED BY <1>1 DEF Descriptors

LEMMA DescriptorFields ==
  ASSUME NEW b \in Blocks
  PROVE  /\ Descriptor(b).block = b /\ Descriptor(b).BTCNT = b.count
         /\ Descriptor(b).SRCADDR = EndAddress(b.src, b.incsource, b)
         /\ Descriptor(b).DSTADDR = EndAddress(b.dst, b.incdest, b)
BY DEF Descriptor

LEMMA AddressType ==
  ASSUME NEW b \in Blocks, NEW end \in Nat, NEW inc \in BOOLEAN, NEW left \in Int
  PROVE  Address(end, inc, b, left) \in Int
<1>1. left * BeatBytes(b) \in Int
  BY BlockFields
<1>2. QED BY <1>1 DEF Address

LEMMA AccessedType ==
  ASSUME NEW f \in Functions, NEW r \in ChannelType
  PROVE  /\ Accessed(f, r) \in ChannelType
         /\ Accessed(f, r).TCMPL => r.TCMPL
         /\ Accessed(f, r).enabled => r.enabled
         /\ f = "enable" => ~Accessed(f, r).TCMPL
<1>1. CASE f = "init block"
  BY <1>1 DEF Accessed, ChannelType
<1>2. CASE f = "init beat"
  BY <1>2 DEF Accessed, ChannelType
<1>3. CASE f = "enable"
  BY <1>3 DEF Accessed, Cleared, ChannelType
<1>4. CASE f = "disable"
  BY <1>4 DEF Accessed, ChannelType
<1>5. CASE f = "suspend"
  BY <1>5 DEF Accessed, ChannelType
<1>6. CASE f = "resume"
  BY <1>6 DEF Accessed, ChannelType
<1>7. CASE f = "complete"
  BY <1>7 DEF Accessed, ChannelType
<1>8. QED BY <1>1, <1>2, <1>3, <1>4, <1>5, <1>6, <1>7 DEF Functions

(* What a beat of the descriptor d changes. *)
MovesBeat(c, d) ==
  LET b == d.block
      left == d.BTCNT - moved[c]
  IN /\ b \in Blocks
     /\ channel[c].enabled
     /\ active' = [active EXCEPT ![c] = d]
     /\ beat' = [beat EXCEPT ![c] =
          [srcaddr |-> Address(d.SRCADDR, b.incsource, b, left),
           dstaddr |-> Address(d.DSTADDR, b.incdest, b, left)]]
     /\ moved' = [moved EXCEPT ![c] = moved[c] + 1]
     /\ channel' \in [Channels -> ChannelType]
     /\ channel'[c].enabled = (left > 1)
     /\ channel'[c].TCMPL = (channel[c].TCMPL \/ left = 1)
     /\ \A o \in Channels \ {c} : channel'[o] = channel[o]
     /\ UNCHANGED <<descriptor, CHID, told, dma_calls>>

LEMMA MoveBeatEffect ==
  ASSUME DmaTypeOK, NEW c \in Channels, MoveBeat(c)
  PROVE  \E d \in Descriptors :
           /\ moved[c] = 0 => d = descriptor[c]
           /\ moved[c] # 0 => d = active[c]
           /\ MovesBeat(c, d)
<1> DEFINE d == IF moved[c] = 0 THEN descriptor[c] ELSE active[c]
           b == d.block
           left == d.BTCNT - moved[c]
<1>1. /\ b # NoBlock /\ channel[c].enabled
      /\ active' = [active EXCEPT ![c] = d]
      /\ beat' = [beat EXCEPT ![c] =
           [srcaddr |-> Address(d.SRCADDR, b.incsource, b, left),
            dstaddr |-> Address(d.DSTADDR, b.incdest, b, left)]]
      /\ moved' = [moved EXCEPT ![c] = moved[c] + 1]
      /\ channel' = [channel EXCEPT ![c] =
           [channel[c] EXCEPT !.triggered = left > 1 /\ channel[c].trigact # "beat",
                              !.enabled = left > 1, !.TCMPL = channel[c].TCMPL \/ left = 1]]
      /\ UNCHANGED <<descriptor, CHID, told, dma_calls>>
  BY Zenon DEF MoveBeat
<1>2. d \in Descriptors /\ moved[c] \in Nat /\ channel \in [Channels -> ChannelType]
  BY DEF DmaTypeOK
<1>3. (moved[c] = 0 => d = descriptor[c]) /\ (moved[c] # 0 => d = active[c])
  OBVIOUS
<1> HIDE DEF d
<1>4. b \in Blocks
  BY <1>1, <1>2 DEF Descriptors
<1>5. left \in Int
  BY <1>2 DEF Descriptors
<1>6. (left > 1) \in BOOLEAN /\ (left = 1) \in BOOLEAN /\ (channel[c].trigact # "beat") \in BOOLEAN
  BY <1>5
<1> DEFINE r == [channel[c] EXCEPT !.triggered = left > 1 /\ channel[c].trigact # "beat",
                                   !.enabled = left > 1, !.TCMPL = channel[c].TCMPL \/ left = 1]
<1> HIDE DEF left
<1>7. /\ r \in ChannelType
      /\ r.enabled = (left > 1) /\ r.TCMPL = (channel[c].TCMPL \/ left = 1)
  <2>1. channel[c] \in ChannelType
    BY <1>2
  <2>2. QED BY <1>6, <2>1 DEF ChannelType
<1>8. channel' = [channel EXCEPT ![c] = r]
  BY <1>1, Zenon
<1> HIDE DEF r
<1>9. /\ channel' \in [Channels -> ChannelType]
      /\ channel'[c].enabled = (left > 1)
      /\ channel'[c].TCMPL = (channel[c].TCMPL \/ left = 1)
      /\ \A o \in Channels \ {c} : channel'[o] = channel[o]
  BY <1>2, <1>7, <1>8
<1>10. MovesBeat(c, d)
  BY <1>1, <1>4, <1>9, Zenon DEF left, MovesBeat
<1>11. QED BY <1>2, <1>3, <1>10, Zenon

LEMMA DmaSteps ==
  ASSUME DmaNext
  PROVE  \/ \E c \in Channels : Trigger(c) \/ MoveBeat(c)
         \/ \E k \in DmaCallers, c \in Channels, b \in Blocks : CreateDescriptor(k, c, b)
         \/ \E k \in DmaCallers, f \in Functions, c \in Channels : SetChannel(k, f, c)
         \/ \E k \in DmaCallers : Store(k) \/ Access(k) \/ Enable(k)
BY Zenon DEF DmaNext

LEMMA InitDmaType == ASSUME InitDma PROVE DmaTypeOK
<1>1. NoBeat \in [srcaddr : Int, dstaddr : Int]
  BY DEF NoBeat
<1>2. NoCall \in CallType
  BY DEF NoCall, CallType
<1>3. ResetChannel \in ChannelType
  BY DEF ResetChannel, ChannelType
<1> DEFINE none == Descriptor(NoBlock)
<1>4. none \in Descriptors
  BY NoDescriptor
<1>5. descriptor = [c \in Channels |-> none] /\ active = descriptor
  BY DEF InitDma
<1> HIDE DEF none
<1>6. QED BY <1>1, <1>2, <1>3, <1>4, <1>5 DEF InitDma, DmaTypeOK

LEMMA TriggerEffect ==
  ASSUME DmaTypeOK, NEW c \in Channels, Trigger(c)
  PROVE  /\ channel' \in [Channels -> ChannelType]
         /\ \A o \in Channels : /\ channel'[o].enabled = channel[o].enabled
                                /\ channel'[o].TCMPL = channel[o].TCMPL
         /\ UNCHANGED <<descriptor, CHID, active, beat, moved, told, dma_calls>>
<1>1. /\ channel' = [channel EXCEPT ![c].triggered = TRUE]
      /\ UNCHANGED <<descriptor, CHID, active, beat, moved, told, dma_calls>>
  BY Zenon DEF Trigger
<1>2. QED BY <1>1 DEF DmaTypeOK, ChannelType

(* A store into the descriptor of channel c. *)
LEMMA FieldStored ==
  ASSUME NEW c \in Channels, descriptor \in [Channels -> Descriptors], NEW n \in Nat
  PROVE  /\ descriptor' = [descriptor EXCEPT ![c].BTCNT = n] =>
              /\ descriptor' \in [Channels -> Descriptors]
              /\ descriptor'[c].block = descriptor[c].block /\ descriptor'[c].BTCNT = n
              /\ \A o \in Channels \ {c} : descriptor'[o] = descriptor[o]
         /\ descriptor' = [descriptor EXCEPT ![c].SRCADDR = n] =>
              /\ descriptor' \in [Channels -> Descriptors]
              /\ descriptor'[c].block = descriptor[c].block
              /\ descriptor'[c].BTCNT = descriptor[c].BTCNT /\ descriptor'[c].SRCADDR = n
              /\ \A o \in Channels \ {c} : descriptor'[o] = descriptor[o]
         /\ descriptor' = [descriptor EXCEPT ![c].DSTADDR = n] =>
              /\ descriptor' \in [Channels -> Descriptors]
              /\ descriptor'[c].block = descriptor[c].block
              /\ descriptor'[c].BTCNT = descriptor[c].BTCNT
              /\ descriptor'[c].SRCADDR = descriptor[c].SRCADDR /\ descriptor'[c].DSTADDR = n
              /\ \A o \in Channels \ {c} : descriptor'[o] = descriptor[o]
<1>1. ASSUME descriptor' = [descriptor EXCEPT ![c].BTCNT = n]
      PROVE  /\ descriptor' \in [Channels -> Descriptors]
             /\ descriptor'[c].block = descriptor[c].block /\ descriptor'[c].BTCNT = n
             /\ \A o \in Channels \ {c} : descriptor'[o] = descriptor[o]
  BY <1>1 DEF Descriptors
<1>2. ASSUME descriptor' = [descriptor EXCEPT ![c].SRCADDR = n]
      PROVE  /\ descriptor' \in [Channels -> Descriptors]
             /\ descriptor'[c].block = descriptor[c].block
             /\ descriptor'[c].BTCNT = descriptor[c].BTCNT /\ descriptor'[c].SRCADDR = n
             /\ \A o \in Channels \ {c} : descriptor'[o] = descriptor[o]
  BY <1>2 DEF Descriptors
<1>3. ASSUME descriptor' = [descriptor EXCEPT ![c].DSTADDR = n]
      PROVE  /\ descriptor' \in [Channels -> Descriptors]
             /\ descriptor'[c].block = descriptor[c].block
             /\ descriptor'[c].BTCNT = descriptor[c].BTCNT
             /\ descriptor'[c].SRCADDR = descriptor[c].SRCADDR /\ descriptor'[c].DSTADDR = n
             /\ \A o \in Channels \ {c} : descriptor'[o] = descriptor[o]
  BY <1>3 DEF Descriptors
<1>4. QED BY <1>1, <1>2, <1>3, Zenon

(* The rest of a call, on the channel that its first step has selected. *)
LEMMA AccessEffect ==
  ASSUME DmaTypeOK, NEW k \in DmaCallers, Access(k)
  PROVE  LET f == dma_calls[k].function
             c == dma_calls[k].channel
         IN /\ f \in Functions
            /\ channel' = [channel EXCEPT ![CHID] = Accessed(f, channel[CHID])]
            /\ \/ f = "complete" /\ channel[CHID].TCMPL /\ told' = [told EXCEPT ![c] = TRUE]
               \/ told' = told
            /\ dma_calls' = [dma_calls EXCEPT ![k] =
                 IF f = "enable" THEN [function |-> "ENABLE", channel |-> c, block |-> NoBlock]
                                 ELSE NoCall]
            /\ UNCHANGED <<descriptor, CHID, active, beat, moved>>
BY Zenon DEF Access

LEMMA EnableEffect ==
  ASSUME DmaTypeOK, NEW k \in DmaCallers, Enable(k)
  PROVE  LET anew == {c \in {dma_calls[k].channel, CHID} : ~channel[c].enabled} IN
         /\ dma_calls[k].function = "ENABLE"
         /\ channel' \in [Channels -> ChannelType]
         /\ \A o \in Channels : /\ channel'[o].enabled => channel[o].enabled \/ o = CHID
                                /\ channel'[o].TCMPL = channel[o].TCMPL
         /\ active' = [c \in Channels |-> IF c \in anew THEN Descriptor(NoBlock) ELSE active[c]]
         /\ beat' = [c \in Channels |-> IF c \in anew THEN NoBeat ELSE beat[c]]
         /\ moved' = [c \in Channels |-> IF c \in anew THEN 0 ELSE moved[c]]
         /\ told' = [c \in Channels |-> c \notin anew /\ told[c]]
         /\ dma_calls' = [dma_calls EXCEPT ![k] = NoCall]
         /\ UNCHANGED <<descriptor, CHID>>
<1>1. channel' = [channel EXCEPT ![CHID].enabled = TRUE]
  BY Zenon DEF Enable
<1>2. /\ channel' \in [Channels -> ChannelType]
      /\ \A o \in Channels : /\ channel'[o].enabled => channel[o].enabled \/ o = CHID
                             /\ channel'[o].TCMPL = channel[o].TCMPL
  BY <1>1 DEF DmaTypeOK, ChannelType
<1>3. QED BY <1>2, Zenon DEF Enable

LEMMA NoCallType == NoCall \in CallType /\ NoCall.function = "none"
BY DEF NoCall, CallType

LEMMA DmaTypeStep == ASSUME DmaTypeOK, DmaNext PROVE DmaTypeOK'
<1>1. ASSUME NEW c \in Channels, Trigger(c) PROVE DmaTypeOK'
  BY <1>1, TriggerEffect DEF DmaTypeOK
<1>2. ASSUME NEW c \in Channels, MoveBeat(c) PROVE DmaTypeOK'
  <2>1. PICK d \in Descriptors : MovesBeat(c, d)
    BY <1>2, MoveBeatEffect
  <2> DEFINE left == d.BTCNT - moved[c]
             src == Address(d.SRCADDR, d.block.incsource, d.block, left)
             dst == Address(d.DSTADDR, d.block.incdest, d.block, left)
  <2>2. left \in Int /\ d.SRCADDR \in Nat /\ d.DSTADDR \in Nat
    BY DEF DmaTypeOK, Descriptors
  <2>3. /\ d.block \in Blocks
        /\ active' = [active EXCEPT ![c] = d]
        /\ beat' = [beat EXCEPT ![c] = [srcaddr |-> src, dstaddr |-> dst]]
        /\ moved' = [moved EXCEPT ![c] = moved[c] + 1]
        /\ channel' \in [Channels -> ChannelType]
        /\ UNCHANGED <<descriptor, CHID, told, dma_calls>>
    BY <2>1, Zenon DEF MovesBeat
  <2> HIDE DEF left
  <2>4. d.block.incsource \in BOOLEAN /\ d.block.incdest \in BOOLEAN
    BY <2>3, BlockFields
  <2>5. src \in Int /\ dst \in Int
    BY <2>2, <2>3, <2>4, AddressType
  <2> HIDE DEF src, dst
  <2>6. active' \in [Channels -> Descriptors] /\ moved' \in [Channels -> Nat]
    BY <2>3 DEF DmaTypeOK
  <2>7. beat' \in [Channels -> [srcaddr : Int, dstaddr : Int]]
    BY <2>3, <2>5 DEF DmaTypeOK
  <2>8. QED BY <2>3, <2>6, <2>7, Zenon DEF DmaTypeOK
<1>3. ASSUME NEW k \in DmaCallers, NEW c \in Channels, NEW b \in Blocks, CreateDescriptor(k, c, b)
      PROVE  DmaTypeOK'
  <2> DEFINE called == [function |-> "BTCNT", channel |-> c, block |-> b]
  <2>1. /\ descriptor' = [descriptor EXCEPT ![c].block = b]
        /\ dma_calls' = [dma_calls EXCEPT ![k] = called]
        /\ UNCHANGED <<CHID, channel, active, beat, moved, told>>
    BY <1>3, Zenon DEF CreateDescriptor
  <2>2. called \in CallType
    BY DEF CallType
  <2> HIDE DEF called
  <2>3. descriptor' \in [Channels -> Descriptors]
    BY <2>1 DEF DmaTypeOK, Descriptors
  <2>4. QED BY <2>1, <2>2, <2>3 DEF DmaTypeOK
<1>4. ASSUME NEW k \in DmaCallers, NEW f \in Functions, NEW c \in Channels, SetChannel(k, f, c)
      PROVE  DmaTypeOK'
  <2> DEFINE called == [function |-> f, channel |-> c, block |-> NoBlock]
  <2>1. called \in CallType
    BY DEF CallType
  <2>2. /\ CHID' = c /\ dma_calls' = [dma_calls EXCEPT ![k] = called]
        /\ UNCHANGED <<descriptor, channel, active, beat, moved, told>>
    BY <1>4, Zenon DEF SetChannel
  <2> HIDE DEF called
  <2>3. QED BY <2>1, <2>2 DEF DmaTypeOK
<1>5. ASSUME NEW k \in DmaCallers, Store(k) PROVE DmaTypeOK'
  <2> DEFINE c == dma_calls[k].channel
             b == dma_calls[k].block
             Called(f) == [function |-> f, channel |-> c, block |-> b]
  <2>1. /\ \/ dma_calls' = [dma_calls EXCEPT ![k] = Called("SRCADDR")]
           \/ dma_calls' = [dma_calls EXCEPT ![k] = Called("DSTADDR")]
           \/ dma_calls' = [dma_calls EXCEPT ![k] = NoCall]
        /\ \/ descriptor' = [descriptor EXCEPT ![c].BTCNT = b.count]
           \/ descriptor' = [descriptor EXCEPT ![c].SRCADDR = EndAddress(b.src, b.incsource, b)]
           \/ descriptor' = [descriptor EXCEPT ![c].DSTADDR = EndAddress(b.dst, b.incdest, b)]
        /\ UNCHANGED <<CHID, channel, active, beat, moved, told>>
    BY <1>5, Zenon DEF Store
  <2>2. c \in Channels \cup {0} /\ b \in Blocks \cup {NoBlock}
    BY DEF DmaTypeOK, CallType
  <2> HIDE DEF c, b
  <2>3. Called("SRCADDR") \in CallType /\ Called("DSTADDR") \in CallType /\ NoCall \in CallType
    BY <2>2, NoCallType DEF CallType
  <2> DEFINE src == EndAddress(b.src, b.incsource, b)
             dst == EndAddress(b.dst, b.incdest, b)
  <2>4. b.count \in Nat /\ src \in Nat /\ dst \in Nat
    <3>1. CASE b \in Blocks
      BY <3>1, BlockFields, EndAddressType
    <3>2. CASE b = NoBlock
      BY <3>2 DEF EndAddress, NoBlock
    <3>3. QED BY <2>2, <3>1, <3>2
  <2> HIDE DEF src, dst, Called
  <2>5. dma_calls' \in [DmaCallers -> CallType]
    BY <2>1, <2>3 DEF DmaTypeOK
  <2>6. \/ descriptor' = [descriptor EXCEPT ![c].BTCNT = b.count]
        \/ descriptor' = [descriptor EXCEPT ![c].SRCADDR = src]
        \/ descriptor' = [descriptor EXCEPT ![c].DSTADDR = dst]
    BY <2>1, Zenon DEF src, dst
  <2>7. descriptor' \in [Channels -> Descriptors]
    <3>1. CASE c \in Channels
      BY <2>4, <2>6, <3>1, FieldStored DEF DmaTypeOK
    <3>2. CASE c \notin Channels
      BY <2>6, <3>2 DEF DmaTypeOK
    <3>3. QED BY <3>1, <3>2
  <2>8. QED BY <2>1, <2>5, <2>7 DEF DmaTypeOK
<1>6. ASSUME NEW k \in DmaCallers, Access(k) PROVE DmaTypeOK'
  <2> DEFINE f == dma_calls[k].function
             c == dma_calls[k].channel
             called == IF f = "enable" THEN [function |-> "ENABLE", channel |-> c, block |-> NoBlock]
                                       ELSE NoCall
  <2>1. /\ f \in Functions
        /\ channel' = [channel EXCEPT ![CHID] = Accessed(f, channel[CHID])]
        /\ told' = [told EXCEPT ![c] = TRUE] \/ told' = told
        /\ dma_calls' = [dma_calls EXCEPT ![k] = called]
        /\ UNCHANGED <<descriptor, CHID, active, beat, moved>>
    BY <1>6, AccessEffect, Zenon
  <2>2. c \in Channels \cup {0}
    BY DEF DmaTypeOK, CallType
  <2> HIDE DEF f, c
  <2>3. channel' \in [Channels -> ChannelType]
    <3>1. CASE CHID \in Channels
      <4>1. Accessed(f, channel[CHID]) \in ChannelType
        BY <2>1, <3>1, AccessedType DEF DmaTypeOK
      <4>2. QED BY <2>1, <4>1 DEF DmaTypeOK
    <3>2. CASE CHID \notin Channels
      BY <2>1, <3>2 DEF DmaTypeOK
    <3>3. QED BY <3>1, <3>2
  <2>4. called \in CallType
    BY <2>2, NoCallType DEF CallType
  <2> HIDE DEF called
  <2>5. dma_calls' \in [DmaCallers -> CallType] /\ told' \in [Channels -> BOOLEAN]
    BY <2>1, <2>4 DEF DmaTypeOK
  <2>6. QED BY <2>1, <2>3, <2>5 DEF DmaTypeOK
<1>7. ASSUME NEW k \in DmaCallers, Enable(k) PROVE DmaTypeOK'
  <2> DEFINE anew == {c \in {dma_calls[k].channel, CHID} : ~channel[c].enabled}
             none == Descriptor(NoBlock)
  <2>1. /\ channel' \in [Channels -> ChannelType]
        /\ active' = [c \in Channels |-> IF c \in anew THEN none ELSE active[c]]
        /\ beat' = [c \in Channels |-> IF c \in anew THEN NoBeat ELSE beat[c]]
        /\ moved' = [c \in Channels |-> IF c \in anew THEN 0 ELSE moved[c]]
        /\ told' = [c \in Channels |-> c \notin anew /\ told[c]]
        /\ dma_calls' = [dma_calls EXCEPT ![k] = NoCall]
        /\ UNCHANGED <<descriptor, CHID>>
    BY <1>7, EnableEffect, Zenon
  <2>2. none \in Descriptors /\ NoBeat \in [srcaddr : Int, dstaddr : Int] /\ NoCall \in CallType
    BY NoDescriptor, NoCallType DEF NoBeat
  <2> HIDE DEF anew, none
  <2>3. /\ active' \in [Channels -> Descriptors] /\ beat' \in [Channels -> [srcaddr : Int, dstaddr : Int]]
        /\ moved' \in [Channels -> Nat]
    BY <2>1, <2>2 DEF DmaTypeOK
  <2>4. told' \in [Channels -> BOOLEAN] /\ dma_calls' \in [DmaCallers -> CallType]
    BY <2>1, <2>2 DEF DmaTypeOK
  <2>5. QED BY <2>1, <2>3, <2>4 DEF DmaTypeOK
<1>8. QED BY <1>1, <1>2, <1>3, <1>4, <1>5, <1>6, <1>7, DmaSteps, Zenon

(* A call between its two steps has selected its channel, if nothing       *)
(* interrupts it to make calls itself.                                      *)
CallInv ==
  \A k \in DmaCallers : dma_calls[k].function \in Functions \cup {"ENABLE"} =>
    CHID = dma_calls[k].channel /\ CHID \in Channels

LEMMA CallInvStep ==
  ASSUME "handler" \notin DmaCallers, DmaTypeOK, CallInv, DmaNext PROVE CallInv'
<1>1. CASE \E c \in Channels : Trigger(c) \/ MoveBeat(c)
  BY <1>1, Zenon DEF Trigger, MoveBeat, CallInv
<1>2. ASSUME NEW k \in DmaCallers,
             \/ dma_calls'[k].function \notin Functions \cup {"ENABLE"}
             \/ CHID' = dma_calls'[k].channel /\ CHID' \in Channels
      PROVE  CallInv'
  <2>1. \A h \in DmaCallers : h = k
    BY DmaAssumption
  <2>2. QED BY <1>2, <2>1, Zenon DEF CallInv
<1>3. \A k \in DmaCallers : dma_calls' = [dma_calls EXCEPT ![k] = NoCall]
        => dma_calls'[k].function \notin Functions \cup {"ENABLE"}
  BY NoCallType DEF DmaTypeOK, Functions
<1>4. ASSUME NEW k \in DmaCallers, NEW f \in {"BTCNT", "SRCADDR", "DSTADDR"}, NEW c, NEW b,
             dma_calls' = [dma_calls EXCEPT ![k] = [function |-> f, channel |-> c, block |-> b]]
      PROVE  dma_calls'[k].function \notin Functions \cup {"ENABLE"}
  BY <1>4 DEF DmaTypeOK, Functions
<1>5. ASSUME NEW k \in DmaCallers, NEW c \in Channels, NEW b \in Blocks, CreateDescriptor(k, c, b)
      PROVE  CallInv'
  <2>1. dma_calls' = [dma_calls EXCEPT ![k] = [function |-> "BTCNT", channel |-> c, block |-> b]]
    BY <1>5, Zenon DEF CreateDescriptor
  <2>2. dma_calls'[k].function \notin Functions \cup {"ENABLE"}
    BY <1>4, <2>1
  <2>3. QED BY <1>2, <2>2, Zenon
<1>6. ASSUME NEW k \in DmaCallers, NEW f \in Functions, NEW c \in Channels, SetChannel(k, f, c)
      PROVE  CallInv'
  <2>1. CHID' = c /\ dma_calls' = [dma_calls EXCEPT ![k] =
                                     [function |-> f, channel |-> c, block |-> NoBlock]]
    BY <1>6, Zenon DEF SetChannel
  <2>2. dma_calls'[k].channel = c
    BY <2>1 DEF DmaTypeOK
  <2>3. QED BY <1>2, <2>1, <2>2
<1>7. ASSUME NEW k \in DmaCallers, Store(k) PROVE CallInv'
  <2> DEFINE c == dma_calls[k].channel
             b == dma_calls[k].block
  <2>1. \/ dma_calls' = [dma_calls EXCEPT ![k] = [function |-> "SRCADDR", channel |-> c, block |-> b]]
        \/ dma_calls' = [dma_calls EXCEPT ![k] = [function |-> "DSTADDR", channel |-> c, block |-> b]]
        \/ dma_calls' = [dma_calls EXCEPT ![k] = NoCall]
    BY <1>7, Zenon DEF Store
  <2> HIDE DEF c, b
  <2>2. dma_calls'[k].function \notin Functions \cup {"ENABLE"}
    BY <1>3, <1>4, <2>1
  <2>3. QED BY <1>2, <2>2, Zenon
<1>8. ASSUME NEW k \in DmaCallers, Access(k) PROVE CallInv'
  <2> DEFINE f == dma_calls[k].function
             c == dma_calls[k].channel
  <2>1. /\ f \in Functions /\ CHID' = CHID
        /\ dma_calls' = [dma_calls EXCEPT ![k] =
             IF f = "enable" THEN [function |-> "ENABLE", channel |-> c, block |-> NoBlock]
                             ELSE NoCall]
    BY <1>8, AccessEffect, Zenon
  <2>2. CHID = c /\ CHID \in Channels
    BY <2>1, Zenon DEF CallInv
  <2> HIDE DEF f, c
  <2>3. CASE f = "enable"
    <3>1. dma_calls'[k].channel = c
      BY <2>1, <2>3 DEF DmaTypeOK
    <3>2. QED BY <1>2, <2>1, <2>2, <3>1
  <2>4. CASE f # "enable"
    BY <1>2, <1>3, <2>1, <2>4, Zenon
  <2>5. QED BY <2>3, <2>4
<1>9. ASSUME NEW k \in DmaCallers, Enable(k) PROVE CallInv'
  <2>1. dma_calls' = [dma_calls EXCEPT ![k] = NoCall]
    BY <1>9, Zenon DEF Enable
  <2>2. QED BY <1>2, <1>3, <2>1, Zenon
<1>10. QED BY <1>1, <1>5, <1>6, <1>7, <1>8, <1>9, DmaSteps, Zenon

(* A descriptor is that of one call, unless a call is making it; what is    *)
(* being made is no descriptor that a channel waits with, and what a        *)
(* channel is being enabled with has been made.                             *)
Stores == {"BTCNT", "SRCADDR", "DSTADDR"}
Waiting(c) == channel[c].enabled /\ moved[c] = 0
Ready(c) == c \in Channels /\ ~channel[c].enabled /\ descriptor[c].block # NoBlock
Made(c) == \E b \in Blocks : descriptor[c] = Descriptor(b)
Making(c) == \E k \in DmaCallers : dma_calls[k].function \in Stores /\ dma_calls[k].channel = c
SoFar(f, c, b) ==
  /\ c \in Channels /\ b \in Blocks /\ descriptor[c].block = b
  /\ f \in {"SRCADDR", "DSTADDR"} => descriptor[c].BTCNT = b.count
  /\ f = "DSTADDR" => descriptor[c].SRCADDR = EndAddress(b.src, b.incsource, b)

MadeInv ==
  /\ \A k \in DmaCallers : dma_calls[k].function \in Stores =>
       /\ SoFar(dma_calls[k].function, dma_calls[k].channel, dma_calls[k].block)
       /\ ~Waiting(dma_calls[k].channel)
  /\ \A k \in DmaCallers :
       dma_calls[k].function \in {"enable", "ENABLE"} => Ready(dma_calls[k].channel)
  /\ \A c \in Channels : Waiting(c) => Made(c)
  /\ \A c \in Channels : Making(c) \/ Made(c) \/ descriptor[c].block = NoBlock

(* No call begins or ends to make a descriptor. *)
LEMMA MadeKept ==
  ASSUME MadeInv, descriptor' = descriptor,
         \A c \in Channels : /\ channel'[c].enabled => channel[c].enabled
                             /\ Waiting(c)' => Waiting(c),
         \A k \in DmaCallers :
           \/ dma_calls'[k] = dma_calls[k]
           \/ /\ dma_calls[k].function \notin Stores /\ dma_calls'[k].function \notin Stores
              /\ dma_calls'[k].function \in {"enable", "ENABLE"} => Ready(dma_calls'[k].channel)
  PROVE  MadeInv'
<1>1. \A c \in Channels : (Made(c)' <=> Made(c)) /\ (Making(c)' <=> Making(c))
  BY Zenon DEF Made, Making
<1>2. \A k \in DmaCallers : dma_calls'[k].function \in Stores => dma_calls'[k] = dma_calls[k]
  BY Zenon
<1>3. ASSUME NEW k \in DmaCallers, dma_calls'[k].function \in Stores
      PROVE  /\ SoFar(dma_calls[k].function, dma_calls[k].channel, dma_calls[k].block)'
             /\ ~Waiting(dma_calls[k].channel)'
  <2>1. /\ SoFar(dma_calls[k].function, dma_calls[k].channel, dma_calls[k].block)
        /\ ~Waiting(dma_calls[k].channel) /\ dma_calls[k].channel \in Channels
        /\ dma_calls'[k] = dma_calls[k]
    BY <1>2, <1>3, Zenon DEF MadeInv, SoFar
  <2>2. SoFar(dma_calls[k].function, dma_calls[k].channel, dma_calls[k].block)'
    BY <2>1, Zenon DEF SoFar
  <2>3. ~Waiting(dma_calls[k].channel)'
    BY <2>1, Zenon DEF Waiting
  <2>4. QED BY <2>2, <2>3
<1>4. ASSUME NEW k \in DmaCallers, dma_calls'[k].function \in {"enable", "ENABLE"}
      PROVE  Ready(dma_calls[k].channel)'
  <2>1. Ready(dma_calls'[k].channel)
    BY <1>4, Zenon DEF MadeInv
  <2>2. QED BY <2>1, Zenon DEF Ready
<1>5. QED BY <1>1, <1>3, <1>4, Zenon DEF MadeInv

LEMMA MadeInvStep ==
  ASSUME "handler" \notin DmaCallers, DmaMay = {}, DmaTypeOK, CallInv, MadeInv, DmaNext
  PROVE  MadeInv'
<1>1. \A k, h \in DmaCallers : h = k
  BY DmaAssumption
<1>2. ASSUME NEW k \in DmaCallers, dma_calls[k].function \notin Stores
      PROVE  \A c \in Channels : Made(c) \/ descriptor[c].block = NoBlock
  BY <1>1, <1>2, Zenon DEF MadeInv, Making
<1>3. ASSUME NEW c \in Channels, Trigger(c) PROVE MadeInv'
  <2>1. /\ descriptor' = descriptor /\ moved' = moved /\ dma_calls' = dma_calls
        /\ \A o \in Channels : channel'[o].enabled = channel[o].enabled
    BY <1>3, TriggerEffect, Zenon
  <2>2. QED BY <2>1, MadeKept, Zenon DEF Waiting
<1>4. ASSUME NEW c \in Channels, MoveBeat(c) PROVE MadeInv'
  <2>1. /\ descriptor' = descriptor /\ dma_calls' = dma_calls /\ channel[c].enabled
        /\ moved' = [moved EXCEPT ![c] = moved[c] + 1]
        /\ \A o \in Channels \ {c} : channel'[o] = channel[o]
    BY <1>4, MoveBeatEffect, Zenon DEF MovesBeat
  <2>2. moved'[c] # 0 /\ \A o \in Channels \ {c} : moved'[o] = moved[o]
    BY <2>1 DEF DmaTypeOK
  <2>3. \A o \in Channels : /\ channel'[o].enabled => channel[o].enabled
                            /\ Waiting(o)' => Waiting(o)
    BY <2>1, <2>2, Zenon DEF Waiting
  <2>4. QED BY <2>1, <2>3, MadeKept, Zenon
<1>5. ASSUME NEW k \in DmaCallers, NEW c \in Channels, NEW b \in Blocks, CreateDescriptor(k, c, b)
      PROVE  MadeInv'
  <2> DEFINE called == [function |-> "BTCNT", channel |-> c, block |-> b]
  <2>1. /\ dma_calls[k] = NoCall /\ ~Waiting(c)
        /\ descriptor'[c].block = b
        /\ \A o \in Channels \ {c} : descriptor'[o] = descriptor[o]
        /\ dma_calls' = [dma_calls EXCEPT ![k] = called]
        /\ called.function = "BTCNT" /\ called.channel = c /\ called.block = b
        /\ channel' = channel /\ moved' = moved
    <3>1. "make while enabled" \notin DmaMay
      OBVIOUS
    <3>2. channel[c].enabled /\ moved[c] = 0 => "make while enabled" \in DmaMay
      BY <1>5, Zenon DEF CreateDescriptor
    <3>3. ~Waiting(c)
      BY <3>1, <3>2, Zenon DEF Waiting
    <3>4. /\ dma_calls[k] = NoCall /\ dma_calls' = [dma_calls EXCEPT ![k] = called]
          /\ channel' = channel /\ moved' = moved
      BY <1>5, Zenon DEF CreateDescriptor
    <3>5. descriptor'[c].block = b /\ \A o \in Channels \ {c} : descriptor'[o] = descriptor[o]
      <4>1. descriptor' = [descriptor EXCEPT ![c].block = b]
        BY <1>5, Zenon DEF CreateDescriptor
      <4>2. QED BY <4>1 DEF DmaTypeOK, Descriptors
    <3>6. called.function = "BTCNT" /\ called.channel = c /\ called.block = b
      OBVIOUS
    <3>7. QED BY <3>3, <3>4, <3>5, <3>6, Zenon
  <2> HIDE DEF called
  <2>2. dma_calls'[k] = called
    BY <2>1 DEF DmaTypeOK
  <2>3. SoFar("BTCNT", c, b)' /\ ~Waiting(c)'
    BY <2>1 DEF SoFar, Waiting
  <2>4. Making(c)'
    BY <2>1, <2>2 DEF Making, Stores
  <2>5. \A o \in Channels \ {c} : (Made(o)' <=> Made(o)) /\ (Waiting(o)' <=> Waiting(o))
    BY <2>1, Zenon DEF Made, Waiting
  <2>6. \A o \in Channels : Made(o) \/ descriptor[o].block = NoBlock
    BY <1>2, <2>1, NoCallType DEF Stores
  <2>7. \A o \in Channels : Making(o)' \/ Made(o)' \/ descriptor'[o].block = NoBlock
    BY <2>1, <2>4, <2>5, <2>6, Zenon
  <2>8. \A o \in Channels : Waiting(o)' => Made(o)'
    BY <2>3, <2>5, Zenon DEF MadeInv
  <2>9. \A h \in DmaCallers : dma_calls'[h] = called
    BY <1>1, <2>2, Zenon
  <2>10. \A h \in DmaCallers :
           /\ SoFar(dma_calls[h].function, dma_calls[h].channel, dma_calls[h].block)'
           /\ ~Waiting(dma_calls[h].channel)'
    BY <2>1, <2>3, <2>9, Zenon DEF SoFar, Waiting
  <2>11. \A h \in DmaCallers : dma_calls'[h].function \notin {"enable", "ENABLE"}
    BY <2>1, <2>9
  <2>12. QED BY <2>7, <2>8, <2>10, <2>11, Zenon DEF MadeInv
<1>6. ASSUME NEW k \in DmaCallers, NEW f \in Functions, NEW c \in Channels, SetChannel(k, f, c)
      PROVE  MadeInv'
  <2> DEFINE called == [function |-> f, channel |-> c, block |-> NoBlock]
  <2>1. /\ dma_calls[k] = NoCall
        /\ f = "enable" => descriptor[c].block # NoBlock /\ ~channel[c].enabled
        /\ dma_calls' = [dma_calls EXCEPT ![k] = called]
        /\ UNCHANGED <<descriptor, channel, moved>>
    <3>1. "enable while enabled" \notin DmaMay
      OBVIOUS
    <3>2. QED BY <1>6, <3>1, Zenon DEF SetChannel
  <2>2. called.function = f /\ called.channel = c /\ f \notin Stores /\ f # "ENABLE"
    BY DEF Functions, Stores
  <2> HIDE DEF called
  <2>3. dma_calls'[k] = called
    BY <2>1 DEF DmaTypeOK
  <2>4. dma_calls[k].function \notin Stores
    BY <2>1, NoCallType DEF Stores
  <2>5. dma_calls'[k].function \in {"enable", "ENABLE"} => Ready(dma_calls'[k].channel)
    BY <2>1, <2>2, <2>3 DEF Ready
  <2>6. \A h \in DmaCallers :
          /\ dma_calls[h].function \notin Stores /\ dma_calls'[h].function \notin Stores
          /\ dma_calls'[h].function \in {"enable", "ENABLE"} => Ready(dma_calls'[h].channel)
    BY <1>1, <2>2, <2>3, <2>4, <2>5, Zenon
  <2>7. QED BY <2>1, <2>6, MadeKept, Zenon DEF Waiting
<1>7. ASSUME NEW k \in DmaCallers, Store(k) PROVE MadeInv'
  <2>1. /\ dma_calls[k].function \in Stores
        /\ SoFar(dma_calls[k].function, dma_calls[k].channel, dma_calls[k].block)
        /\ ~Waiting(dma_calls[k].channel)
    <3>1. dma_calls[k].function \in Stores
      BY <1>7, Zenon DEF Store, Stores
    <3>2. QED BY <3>1, Zenon DEF MadeInv
  <2>2. PICK now \in Stores, c \in Channels, b \in Blocks :
          now = dma_calls[k].function /\ c = dma_calls[k].channel /\ b = dma_calls[k].block
    BY <2>1, Zenon DEF SoFar
  <2> DEFINE src == EndAddress(b.src, b.incsource, b)
             dst == EndAddress(b.dst, b.incdest, b)
             Called(f) == [function |-> f, channel |-> c, block |-> b]
  <2>3. /\ \/ /\ now = "BTCNT" /\ dma_calls' = [dma_calls EXCEPT ![k] = Called("SRCADDR")]
              /\ descriptor' = [descriptor EXCEPT ![c].BTCNT = b.count]
           \/ /\ now = "SRCADDR" /\ dma_calls' = [dma_calls EXCEPT ![k] = Called("DSTADDR")]
              /\ descriptor' = [descriptor EXCEPT ![c].SRCADDR = src]
           \/ /\ now = "DSTADDR" /\ dma_calls' = [dma_calls EXCEPT ![k] = NoCall]
              /\ descriptor' = [descriptor EXCEPT ![c].DSTADDR = dst]
        /\ channel' = channel /\ moved' = moved
    BY <1>7, <2>2, Zenon DEF Store
  <2>4. SoFar(now, c, b) /\ ~Waiting(c) /\ descriptor[c].block = b
    BY <2>1, <2>2, Zenon DEF SoFar
  <2>5. b.count \in Nat /\ src \in Nat /\ dst \in Nat
    BY BlockFields, EndAddressType
  <2>6. /\ Descriptor(b).block = b /\ Descriptor(b).BTCNT = b.count
        /\ Descriptor(b).SRCADDR = src /\ Descriptor(b).DSTADDR = dst
    BY DescriptorFields
  <2>7. Descriptor(b) \in Descriptors
    <3>1. Descriptor(b) = [block |-> b, BTCNT |-> b.count, SRCADDR |-> src, DSTADDR |-> dst]
      BY DEF Descriptor
    <3> HIDE DEF src, dst
    <3>2. QED BY <2>5, <3>1 DEF Descriptors
  <2>8. descriptor \in [Channels -> Descriptors] /\ dma_calls \in [DmaCallers -> CallType]
    BY DEF DmaTypeOK
  <2>9. \A f : Called(f).function = f /\ Called(f).channel = c /\ Called(f).block = b
    OBVIOUS
  <2> HIDE DEF src, dst, Called
  <2>10. /\ descriptor' \in [Channels -> Descriptors]
         /\ descriptor'[c].block = b
         /\ now = "BTCNT" => descriptor'[c].BTCNT = b.count
         /\ now = "SRCADDR" => /\ descriptor'[c].BTCNT = descriptor[c].BTCNT
                               /\ descriptor'[c].SRCADDR = src
         /\ now = "DSTADDR" => /\ descriptor'[c].BTCNT = descriptor[c].BTCNT
                               /\ descriptor'[c].SRCADDR = descriptor[c].SRCADDR
                               /\ descriptor'[c].DSTADDR = dst
         /\ \A o \in Channels \ {c} : descriptor'[o] = descriptor[o]
    <3>1. CASE now = "BTCNT"
      <4>1. descriptor' = [descriptor EXCEPT ![c].BTCNT = b.count]
        BY <2>3, <3>1
      <4>2. QED BY <2>4, <2>5, <2>8, <3>1, <4>1, FieldStored
    <3>2. CASE now = "SRCADDR"
      <4>1. descriptor' = [descriptor EXCEPT ![c].SRCADDR = src]
        BY <2>3, <3>2
      <4>2. QED BY <2>4, <2>5, <2>8, <3>2, <4>1, FieldStored
    <3>3. CASE now = "DSTADDR"
      <4>1. descriptor' = [descriptor EXCEPT ![c].DSTADDR = dst]
        BY <2>3, <3>3
      <4>2. QED BY <2>4, <2>5, <2>8, <3>3, <4>1, FieldStored
    <3>4. QED BY <2>3, <3>1, <3>2, <3>3
  <2>11. \A o \in Channels \ {c} :
           /\ Made(o)' <=> Made(o)
           /\ Made(o) \/ descriptor[o].block = NoBlock
    <3>1. \A o \in Channels \ {c} : ~Making(o)
      BY <1>1, <2>2 DEF Making
    <3>2. QED BY <2>10, <3>1, Zenon DEF Made, MadeInv
  <2>12. \A o \in Channels : Waiting(o)' <=> Waiting(o)
    BY <2>3, Zenon DEF Waiting
  <2>13. \A o \in Channels : Waiting(o)' => Made(o)'
    BY <2>4, <2>11, <2>12, Zenon DEF MadeInv
  <2>14. ASSUME NEW f \in Stores, dma_calls' = [dma_calls EXCEPT ![k] = Called(f)], SoFar(f, c, b)'
         PROVE  MadeInv'
    <3>1. \A h \in DmaCallers : /\ dma_calls'[h].function = f
                                /\ dma_calls'[h].channel = c /\ dma_calls'[h].block = b
      BY <1>1, <2>8, <2>9, <2>14
    <3>2. \A h \in DmaCallers :
            /\ SoFar(dma_calls[h].function, dma_calls[h].channel, dma_calls[h].block)'
            /\ ~Waiting(dma_calls[h].channel)'
      <4>1. ~Waiting(c)'
        BY <2>4, <2>12
      <4>2. QED BY <2>14, <3>1, <4>1, Zenon DEF SoFar, Waiting
    <3>3. \A h \in DmaCallers : dma_calls'[h].function \notin {"enable", "ENABLE"}
      BY <3>1 DEF Stores
    <3>4. Making(c)'
      BY <3>1, Zenon DEF Making
    <3>5. \A o \in Channels : Making(o)' \/ Made(o)' \/ descriptor'[o].block = NoBlock
      BY <2>10, <2>11, <3>4, Zenon
    <3>6. QED BY <2>13, <3>2, <3>3, <3>5, Zenon DEF MadeInv
  <2>15. CASE now = "BTCNT"
    <3>1. SoFar("SRCADDR", c, b)'
      BY <2>10, <2>15 DEF SoFar
    <3>2. QED BY <2>3, <2>14, <2>15, <3>1 DEF Stores
  <2>16. CASE now = "SRCADDR"
    <3>1. SoFar("DSTADDR", c, b)'
      BY <2>4, <2>10, <2>16 DEF SoFar, src
    <3>2. QED BY <2>3, <2>14, <2>16, <3>1 DEF Stores
  <2>17. CASE now = "DSTADDR"
    <3>1. descriptor'[c].BTCNT = b.count /\ descriptor'[c].SRCADDR = src
          /\ descriptor'[c].DSTADDR = dst /\ descriptor'[c].block = b
      BY <2>4, <2>10, <2>17 DEF SoFar, src
    <3>2. descriptor'[c] \in Descriptors
      BY <2>10
    <3>3. descriptor'[c] = Descriptor(b)
      BY <2>6, <2>7, <3>1, <3>2 DEF Descriptors
    <3>4. Made(c)'
      BY <3>3, Zenon DEF Made
    <3>5. \A h \in DmaCallers : dma_calls'[h].function = "none"
      BY <1>1, <2>3, <2>8, <2>17, NoCallType
    <3>6. \A h \in DmaCallers : dma_calls'[h].function \notin Stores \cup {"enable", "ENABLE"}
      BY <3>5 DEF Stores
    <3>7. \A o \in Channels : Making(o)' \/ Made(o)' \/ descriptor'[o].block = NoBlock
      BY <2>10, <2>11, <3>4, Zenon
    <3>8. QED BY <2>13, <3>6, <3>7, Zenon DEF MadeInv
  <2>18. QED BY <2>3, <2>15, <2>16, <2>17
<1>8. ASSUME NEW k \in DmaCallers, Access(k) PROVE MadeInv'
  <2> DEFINE f == dma_calls[k].function
             c == dma_calls[k].channel
             called == IF f = "enable" THEN [function |-> "ENABLE", channel |-> c, block |-> NoBlock]
                                       ELSE NoCall
  <2>1. /\ f \in Functions
        /\ channel' = [channel EXCEPT ![CHID] = Accessed(f, channel[CHID])]
        /\ dma_calls' = [dma_calls EXCEPT ![k] = called]
        /\ descriptor' = descriptor /\ moved' = moved
    BY <1>8, AccessEffect, Zenon
  <2>2. CHID = c /\ c \in Channels
    BY <2>1, Zenon DEF CallInv
  <2>3. f = "enable" => Ready(c)
    BY Zenon DEF MadeInv
  <2> HIDE DEF f, c
  <2>4. \A o \in Channels : channel'[o].enabled => channel[o].enabled
    <3>1. channel[c] \in ChannelType
      BY <2>2 DEF DmaTypeOK
    <3>2. Accessed(f, channel[c]).enabled => channel[c].enabled
      BY <2>1, <3>1, AccessedType
    <3>3. QED BY <2>1, <2>2, <3>2 DEF DmaTypeOK
  <2>5. called.function \notin Stores /\ f \notin Stores
        /\ (called.function \in {"enable", "ENABLE"} => f = "enable" /\ called.channel = c)
    BY <2>1, NoCallType DEF Stores, Functions
  <2> HIDE DEF called
  <2>6. dma_calls'[k] = called
    BY <2>1 DEF DmaTypeOK
  <2>7. \A h \in DmaCallers :
          /\ dma_calls[h].function \notin Stores /\ dma_calls'[h].function \notin Stores
          /\ dma_calls'[h].function \in {"enable", "ENABLE"} => Ready(dma_calls'[h].channel)
    BY <1>1, <2>3, <2>5, <2>6, Zenon DEF f
  <2>8. QED BY <2>1, <2>4, <2>7, MadeKept, Zenon DEF Waiting
<1>9. ASSUME NEW k \in DmaCallers, Enable(k) PROVE MadeInv'
  <2> DEFINE c == dma_calls[k].channel
  <2>1. /\ dma_calls[k].function = "ENABLE" /\ descriptor' = descriptor
        /\ dma_calls' = [dma_calls EXCEPT ![k] = NoCall]
        /\ \A o \in Channels : channel'[o].enabled => channel[o].enabled \/ o = CHID
        /\ moved' = [o \in Channels |->
             IF o \in {a \in {c, CHID} : ~channel[a].enabled} THEN 0 ELSE moved[o]]
    BY <1>9, EnableEffect, Zenon
  <2>2. CHID = c /\ c \in Channels /\ Ready(c)
    BY <2>1, Zenon DEF CallInv, MadeInv
  <2>3. Made(c)
    <3>1. dma_calls[k].function \notin Stores
      BY <2>1 DEF Stores
    <3>2. QED BY <1>2, <2>2, <3>1, Zenon DEF Ready
  <2> HIDE DEF c
  <2>4. \A o \in Channels : moved'[o] = 0 => moved[o] = 0 \/ o = c
    BY <2>1, <2>2
  <2>5. \A o \in Channels : Waiting(o)' => Waiting(o) \/ o = c
    BY <2>1, <2>2, <2>4, Zenon DEF Waiting
  <2>6. \A o \in Channels : Made(o)' <=> Made(o)
    BY <2>1, Zenon DEF Made
  <2>7. \A o \in Channels : Made(o) \/ descriptor[o].block = NoBlock
    <3>1. dma_calls[k].function \notin Stores
      BY <2>1 DEF Stores
    <3>2. QED BY <1>2, <3>1
  <2>8. \A h \in DmaCallers : dma_calls'[h].function = "none"
    BY <1>1, <2>1, NoCallType DEF DmaTypeOK
  <2>9. \A h \in DmaCallers : dma_calls'[h].function \notin Stores \cup {"enable", "ENABLE"}
    BY <2>8 DEF Stores
  <2>10. \A o \in Channels : Waiting(o)' => Made(o)'
    BY <2>3, <2>5, <2>6, Zenon DEF MadeInv
  <2>11. QED BY <2>1, <2>6, <2>7, <2>9, <2>10, Zenon DEF MadeInv
<1>10. QED BY <1>3, <1>4, <1>5, <1>6, <1>7, <1>8, <1>9, DmaSteps, Zenon

(* What a channel has moved is of the block it works on; it is enabled     *)
(* while there is more of it; its flag, and what a call has been told, is   *)
(* about all of it.                                                         *)
WholeBlock(c) == moved[c] > 0 /\ moved[c] = active[c].block.count
TransferInv ==
  \A c \in Channels :
    /\ moved[c] > 0 =>
         \E b \in Blocks : active[c] = Descriptor(b) /\ moved[c] <= b.count
    /\ channel[c].enabled => ~WholeBlock(c)
    /\ channel[c].TCMPL => WholeBlock(c)
    /\ told[c] => WholeBlock(c)
    /\ \A k \in DmaCallers :
         dma_calls[k].function = "ENABLE" /\ dma_calls[k].channel = c => ~channel[c].TCMPL

(* The controller works on the descriptor of one call. *)
LEMMA MovesWhole ==
  ASSUME DmaTypeOK, MadeInv, TransferInv, NEW c \in Channels, MoveBeat(c)
  PROVE  \E b \in Blocks :
           LET left == b.count - moved[c] IN
           /\ moved[c] = 0 \/ active[c] = Descriptor(b)
           /\ channel[c].enabled
           /\ active' = [active EXCEPT ![c] = Descriptor(b)]
           /\ beat' = [beat EXCEPT ![c] =
                [srcaddr |-> Address(EndAddress(b.src, b.incsource, b), b.incsource, b, left),
                 dstaddr |-> Address(EndAddress(b.dst, b.incdest, b), b.incdest, b, left)]]
           /\ moved' = [moved EXCEPT ![c] = moved[c] + 1]
           /\ channel'[c].enabled = (left > 1)
           /\ channel'[c].TCMPL = (channel[c].TCMPL \/ left = 1)
           /\ \A o \in Channels \ {c} : channel'[o] = channel[o]
           /\ told' = told /\ dma_calls' = dma_calls
<1>1. PICK d \in Descriptors :
        /\ moved[c] = 0 => d = descriptor[c]
        /\ moved[c] # 0 => d = active[c]
        /\ MovesBeat(c, d)
  BY MoveBeatEffect
<1>2. \E b \in Blocks : d = Descriptor(b)
  <2>1. CASE moved[c] = 0
    BY <1>1, <2>1, Zenon DEF MadeInv, Waiting, Made, MovesBeat
  <2>2. CASE moved[c] # 0
    <3>1. moved[c] > 0
      BY <2>2 DEF DmaTypeOK
    <3>2. QED BY <1>1, <2>2, <3>1, Zenon DEF TransferInv
  <2>3. QED BY <2>1, <2>2
<1>3. PICK b \in Blocks : d = Descriptor(b)
  BY <1>2
<1>4. /\ d.block = b /\ d.BTCNT = b.count
      /\ d.SRCADDR = EndAddress(b.src, b.incsource, b)
      /\ d.DSTADDR = EndAddress(b.dst, b.incdest, b)
  BY <1>3, DescriptorFields
<1>5. moved[c] = 0 \/ active[c] = Descriptor(b)
  BY <1>1, <1>3, Zenon
<1>6. QED BY <1>1, <1>3, <1>4, <1>5, Zenon DEF MovesBeat

LEMMA TransferInvStep ==
  ASSUME "handler" \notin DmaCallers, DmaTypeOK, CallInv, MadeInv, TransferInv, DmaNext
  PROVE  TransferInv'
<1>0. \A k, h \in DmaCallers : h = k
  BY DmaAssumption
<1>1. ASSUME NEW c \in Channels, Trigger(c) PROVE TransferInv'
  <2>1. /\ active' = active /\ moved' = moved /\ told' = told /\ dma_calls' = dma_calls
        /\ \A o \in Channels : /\ channel'[o].enabled = channel[o].enabled
                               /\ channel'[o].TCMPL = channel[o].TCMPL
    BY <1>1, TriggerEffect, Zenon
  <2>2. QED BY <2>1, Zenon DEF TransferInv, WholeBlock
<1>2. ASSUME NEW c \in Channels, MoveBeat(c) PROVE TransferInv'
  <2>1. PICK b \in Blocks : LET left == b.count - moved[c] IN
          /\ moved[c] = 0 \/ active[c] = Descriptor(b)
          /\ channel[c].enabled
          /\ active' = [active EXCEPT ![c] = Descriptor(b)]
          /\ moved' = [moved EXCEPT ![c] = moved[c] + 1]
          /\ channel'[c].enabled = (left > 1)
          /\ channel'[c].TCMPL = (channel[c].TCMPL \/ left = 1)
          /\ \A o \in Channels \ {c} : channel'[o] = channel[o]
          /\ told' = told /\ dma_calls' = dma_calls
    BY <1>2, MovesWhole, Zenon
  <2>2. Descriptor(b).block = b /\ b.count \in Nat \ {0} /\ moved[c] \in Nat
    BY BlockFields, DescriptorFields DEF DmaTypeOK
  <2>3. ~WholeBlock(c) /\ ~told[c] /\ ~channel[c].TCMPL
    BY <2>1, Zenon DEF TransferInv
  <2>4. moved[c] < b.count
    <3>1. CASE moved[c] = 0
      BY <2>2, <3>1
    <3>2. CASE moved[c] > 0
      <4>1. active[c] = Descriptor(b) /\ moved[c] # b.count
        BY <2>1, <2>2, <2>3, <3>2 DEF WholeBlock
      <4>2. PICK a \in Blocks : active[c] = Descriptor(a) /\ moved[c] <= a.count
        BY <3>2 DEF TransferInv
      <4>3. Descriptor(a).block = a
        BY DescriptorFields
      <4>4. a = b
        BY <2>2, <4>1, <4>2, <4>3
      <4>5. QED BY <2>2, <4>1, <4>2, <4>4
    <3>3. QED BY <2>2, <3>1, <3>2
  <2>5. active'[c] = Descriptor(b) /\ moved'[c] = moved[c] + 1 /\ ~told'[c]
    BY <2>1, <2>3 DEF DmaTypeOK
  <2>6. WholeBlock(c)' <=> moved[c] + 1 = b.count
    BY <2>2, <2>5 DEF WholeBlock
  <2>7. /\ moved'[c] <= b.count
        /\ channel'[c].enabled => ~WholeBlock(c)'
        /\ channel'[c].TCMPL => WholeBlock(c)'
    <3>1. /\ b.count - moved[c] > 1 => moved[c] + 1 # b.count
          /\ b.count - moved[c] = 1 => moved[c] + 1 = b.count
          /\ moved[c] + 1 <= b.count
      BY <2>2, <2>4
    <3>2. QED BY <2>1, <2>3, <2>5, <2>6, <3>1, Zenon
  <2>8. \A o \in Channels \ {c} :
          active'[o] = active[o] /\ moved'[o] = moved[o] /\ channel'[o] = channel[o]
    BY <2>1 DEF DmaTypeOK
  <2>9. \A k \in DmaCallers : ~(dma_calls[k].function = "ENABLE" /\ dma_calls[k].channel = c)
    BY <2>1, Zenon DEF MadeInv, Ready
  <2>10. \A o \in Channels \ {c} : WholeBlock(o)' <=> WholeBlock(o)
    BY <2>8, Zenon DEF WholeBlock
  <2>11. ASSUME NEW o \in Channels \ {c}
         PROVE  /\ moved'[o] > 0 =>
                     \E a \in Blocks : active'[o] = Descriptor(a) /\ moved'[o] <= a.count
                /\ channel'[o].enabled => ~WholeBlock(o)'
                /\ channel'[o].TCMPL => WholeBlock(o)'
                /\ told'[o] => WholeBlock(o)'
                /\ \A k \in DmaCallers :
                     dma_calls'[k].function = "ENABLE" /\ dma_calls'[k].channel = o
                       => ~channel'[o].TCMPL
    BY <2>1, <2>8, <2>10, Zenon DEF TransferInv
  <2>12. QED BY <2>1, <2>5, <2>7, <2>9, <2>11, Zenon DEF TransferInv
<1>3. ASSUME NEW k \in DmaCallers, dma_calls'[k].function # "ENABLE",
             UNCHANGED <<channel, active, moved, told>>
      PROVE  TransferInv'
  BY <1>0, <1>3, Zenon DEF TransferInv, WholeBlock
<1>4. ASSUME NEW k \in DmaCallers, NEW c \in Channels, NEW b \in Blocks, CreateDescriptor(k, c, b)
      PROVE  TransferInv'
  <2>1. /\ UNCHANGED <<channel, active, moved, told>>
        /\ dma_calls' = [dma_calls EXCEPT ![k] = [function |-> "BTCNT", channel |-> c, block |-> b]]
    BY <1>4, Zenon DEF CreateDescriptor
  <2>2. dma_calls'[k].function # "ENABLE"
    BY <2>1 DEF DmaTypeOK
  <2>3. QED BY <1>3, <2>1, <2>2, Zenon
<1>5. ASSUME NEW k \in DmaCallers, NEW f \in Functions, NEW c \in Channels, SetChannel(k, f, c)
      PROVE  TransferInv'
  <2>1. /\ UNCHANGED <<channel, active, moved, told>>
        /\ dma_calls' = [dma_calls EXCEPT ![k] = [function |-> f, channel |-> c, block |-> NoBlock]]
    BY <1>5, Zenon DEF SetChannel
  <2>2. dma_calls'[k].function # "ENABLE"
    BY <2>1 DEF DmaTypeOK, Functions
  <2>3. QED BY <1>3, <2>1, <2>2, Zenon
<1>6. ASSUME NEW k \in DmaCallers, Store(k) PROVE TransferInv'
  <2> DEFINE c == dma_calls[k].channel
             b == dma_calls[k].block
  <2>1. /\ UNCHANGED <<channel, active, moved, told>>
        /\ \/ dma_calls' = [dma_calls EXCEPT ![k] = [function |-> "SRCADDR", channel |-> c, block |-> b]]
           \/ dma_calls' = [dma_calls EXCEPT ![k] = [function |-> "DSTADDR", channel |-> c, block |-> b]]
           \/ dma_calls' = [dma_calls EXCEPT ![k] = NoCall]
    BY <1>6, Zenon DEF Store
  <2> HIDE DEF c, b
  <2>2. dma_calls'[k].function # "ENABLE"
    BY <2>1, NoCallType DEF DmaTypeOK
  <2>3. QED BY <1>3, <2>1, <2>2, Zenon
<1>7. ASSUME NEW k \in DmaCallers, Access(k) PROVE TransferInv'
  <2> DEFINE f == dma_calls[k].function
             c == dma_calls[k].channel
             called == IF f = "enable" THEN [function |-> "ENABLE", channel |-> c, block |-> NoBlock]
                                       ELSE NoCall
  <2>1. /\ f \in Functions
        /\ channel' = [channel EXCEPT ![CHID] = Accessed(f, channel[CHID])]
        /\ \/ channel[CHID].TCMPL /\ told' = [told EXCEPT ![c] = TRUE]
           \/ told' = told
        /\ dma_calls' = [dma_calls EXCEPT ![k] = called]
        /\ active' = active /\ moved' = moved
    BY <1>7, AccessEffect, Zenon
  <2>2. CHID = c /\ c \in Channels
    BY <2>1, Zenon DEF CallInv
  <2> HIDE DEF f, c
  <2>3. channel'[c] = Accessed(f, channel[c]) /\ \A o \in Channels \ {c} : channel'[o] = channel[o]
    BY <2>1, <2>2 DEF DmaTypeOK
  <2>4. /\ channel'[c].TCMPL => channel[c].TCMPL
        /\ channel'[c].enabled => channel[c].enabled
        /\ f = "enable" => ~channel'[c].TCMPL
    <3>1. channel[c] \in ChannelType
      BY <2>2 DEF DmaTypeOK
    <3> DEFINE r == channel[c]
               new == Accessed(f, r)
    <3> HIDE DEF r
    <3>2. /\ new.TCMPL => r.TCMPL
          /\ new.enabled => r.enabled
          /\ f = "enable" => ~new.TCMPL
      BY <2>1, <3>1, AccessedType DEF r
    <3>3. channel'[c] = new
      BY <2>3 DEF r
    <3> HIDE DEF new
    <3>4. QED BY <3>2, <3>3, Zenon DEF r
  <2>5. \A o \in Channels : told'[o] => told[o] \/ (o = c /\ channel[c].TCMPL)
    BY <2>1, <2>2 DEF DmaTypeOK
  <2>6. called.function = "ENABLE" => f = "enable" /\ called.channel = c
    BY NoCallType
  <2> HIDE DEF called
  <2>7. \A h \in DmaCallers : dma_calls'[h] = called
    BY <1>0, <2>1 DEF DmaTypeOK
  <2>8. \A h \in DmaCallers : \A o \in Channels :
          dma_calls'[h].function = "ENABLE" /\ dma_calls'[h].channel = o => ~channel'[o].TCMPL
    BY <2>4, <2>6, <2>7, Zenon
  <2>9. QED BY <2>1, <2>3, <2>4, <2>5, <2>8, Zenon DEF TransferInv, WholeBlock
<1>8. ASSUME NEW k \in DmaCallers, Enable(k) PROVE TransferInv'
  <2> DEFINE c == dma_calls[k].channel
             anew == {o \in {c, CHID} : ~channel[o].enabled}
  <2>1. /\ dma_calls[k].function = "ENABLE"
        /\ \A o \in Channels : /\ channel'[o].enabled => channel[o].enabled \/ o = CHID
                               /\ channel'[o].TCMPL = channel[o].TCMPL
        /\ active' = [o \in Channels |-> IF o \in anew THEN Descriptor(NoBlock) ELSE active[o]]
        /\ moved' = [o \in Channels |-> IF o \in anew THEN 0 ELSE moved[o]]
        /\ told' = [o \in Channels |-> o \notin anew /\ told[o]]
        /\ dma_calls' = [dma_calls EXCEPT ![k] = NoCall]
    BY <1>8, EnableEffect, Zenon
  <2>2. CHID = c /\ c \in Channels /\ ~channel[c].enabled /\ ~channel[c].TCMPL
    <3>1. CHID = c /\ c \in Channels /\ Ready(c)
      BY <2>1, Zenon DEF CallInv, MadeInv
    <3>2. QED BY <2>1, <3>1, Zenon DEF TransferInv, Ready
  <2>3. anew = {c}
    BY <2>2
  <2> HIDE DEF anew, c
  <2>4. /\ moved'[c] = 0 /\ ~told'[c] /\ ~channel'[c].TCMPL
        /\ \A o \in Channels \ {c} : /\ active'[o] = active[o] /\ moved'[o] = moved[o]
                                     /\ told'[o] => told[o]
    BY <2>1, <2>2, <2>3
  <2>5. ~(moved'[c] > 0)
    BY <2>4
  <2>6. \A h \in DmaCallers : dma_calls'[h].function # "ENABLE"
    BY <1>0, <2>1, NoCallType DEF DmaTypeOK
  <2>7. QED BY <2>1, <2>2, <2>4, <2>5, <2>6, Zenon DEF TransferInv, WholeBlock
<1>9. QED BY <1>1, <1>2, <1>4, <1>5, <1>6, <1>7, <1>8, DmaSteps, Zenon

(* The end of a block, less what is left of it, is its start, displaced if *)
(* a beat is a word, and what has been moved.                               *)
LEMMA AddressAsAsked ==
  ASSUME NEW b \in Blocks, NEW a \in Nat, NEW inc \in BOOLEAN, NEW m \in Nat
  PROVE  Address(EndAddress(a, inc, b), inc, b, b.count - m)
           = IF inc THEN a + Displacement(b) + m * BeatBytes(b) ELSE a
<1>1. b.count \in Nat /\ b.beatsize \in 0 .. 2
  BY BlockFields
<1>2. CASE b.beatsize = 0
  <2>1. BeatBytes(b) = 1
    BY <1>2 DEF BeatBytes
  <2>2. QED BY <1>1, <1>2, <2>1 DEF Address, EndAddress, Displacement
<1>3. CASE b.beatsize = 1
  <2>1. BeatBytes(b) = 2
    BY <1>3 DEF BeatBytes
  <2>2. QED BY <1>1, <1>3, <2>1 DEF Address, EndAddress, Displacement
<1>4. CASE b.beatsize = 2
  <2>1. BeatBytes(b) = 4
    BY <1>4 DEF BeatBytes
  <2>2. QED BY <1>1, <1>4, <2>1 DEF Address, EndAddress, Displacement
<1>5. QED BY <1>1, <1>2, <1>3, <1>4

LEMMA BeatsStep ==
  ASSUME "handler" \notin DmaCallers,
         DmaTypeOK, CallInv, MadeInv, TransferInv, BeatsAsAsked, DmaNext
  PROVE  BeatsAsAsked'
<1>1. TransferInv' /\ DmaTypeOK'
  BY TransferInvStep, DmaTypeStep
<1> DEFINE AsAsked(bt, b, m) ==
             LET at(a, inc) == IF inc THEN a + Displacement(b) + (m - 1) * BeatBytes(b) ELSE a
             IN bt = [srcaddr |-> at(b.src, b.incsource), dstaddr |-> at(b.dst, b.incdest)]
<1>2. SUFFICES ASSUME NEW o \in Channels, moved'[o] > 0
               PROVE  AsAsked(beat'[o], active'[o].block, moved'[o])
  <2>1. \A o \in Channels : moved'[o] > 0 => moved'[o] <= active'[o].block.count
    <3>1. \A b \in Blocks : Descriptor(b).block = b
      BY DescriptorFields
    <3>2. QED BY <1>1, <3>1 DEF TransferInv
  <2>2. QED BY <2>1, Zenon DEF BeatsAsAsked
<1>3. moved[o] > 0 => AsAsked(beat[o], active[o].block, moved[o])
  BY Zenon DEF BeatsAsAsked
<1>4. ASSUME active'[o] = active[o], beat'[o] = beat[o], moved'[o] = moved[o]
      PROVE  AsAsked(beat'[o], active'[o].block, moved'[o])
  <2> HIDE DEF AsAsked
  <2>1. QED BY <1>2, <1>3, <1>4, Zenon
<1>5. CASE \/ \E c \in Channels : Trigger(c)
           \/ \E k \in DmaCallers, c \in Channels, b \in Blocks : CreateDescriptor(k, c, b)
           \/ \E k \in DmaCallers, f \in Functions, c \in Channels : SetChannel(k, f, c)
           \/ \E k \in DmaCallers : Store(k) \/ Access(k)
  <2>1. active' = active /\ beat' = beat /\ moved' = moved
    BY <1>5, Zenon DEF Trigger, CreateDescriptor, SetChannel, Store, Access
  <2>2. QED BY <1>4, <2>1
<1>6. ASSUME NEW k \in DmaCallers, Enable(k)
      PROVE  active'[o] = active[o] /\ beat'[o] = beat[o] /\ moved'[o] = moved[o]
  <2> DEFINE anew == {c \in {dma_calls[k].channel, CHID} : ~channel[c].enabled}
             none == Descriptor(NoBlock)
  <2>1. /\ active' = [c \in Channels |-> IF c \in anew THEN none ELSE active[c]]
        /\ beat' = [c \in Channels |-> IF c \in anew THEN NoBeat ELSE beat[c]]
        /\ moved' = [c \in Channels |-> IF c \in anew THEN 0 ELSE moved[c]]
    BY <1>6, EnableEffect, Zenon
  <2> HIDE DEF anew, none
  <2>2. o \notin anew
    BY <1>2, <2>1
  <2>3. QED BY <2>1, <2>2
<1>7. ASSUME NEW c \in Channels, MoveBeat(c)
      PROVE  AsAsked(beat'[o], active'[o].block, moved'[o])
  <2>1. PICK b \in Blocks : LET left == b.count - moved[c] IN
          /\ active' = [active EXCEPT ![c] = Descriptor(b)]
          /\ beat' = [beat EXCEPT ![c] =
               [srcaddr |-> Address(EndAddress(b.src, b.incsource, b), b.incsource, b, left),
                dstaddr |-> Address(EndAddress(b.dst, b.incdest, b), b.incdest, b, left)]]
          /\ moved' = [moved EXCEPT ![c] = moved[c] + 1]
    BY <1>7, MovesWhole, Zenon
  <2>2. CASE o # c
    BY <1>4, <2>1, <2>2 DEF DmaTypeOK
  <2>3. CASE o = c
    <3>1. moved[c] \in Nat /\ Descriptor(b).block = b
      BY DescriptorFields DEF DmaTypeOK
    <3>2. active'[o].block = b /\ moved'[o] = moved[c] + 1 /\ moved'[o] - 1 = moved[c]
      BY <2>1, <2>3, <3>1 DEF DmaTypeOK
    <3> DEFINE src == Address(EndAddress(b.src, b.incsource, b), b.incsource, b, b.count - moved[c])
               dst == Address(EndAddress(b.dst, b.incdest, b), b.incdest, b, b.count - moved[c])
    <3>3. b.src \in Nat /\ b.dst \in Nat /\ b.incsource \in BOOLEAN /\ b.incdest \in BOOLEAN
      BY BlockFields
    <3>4. /\ src = IF b.incsource THEN b.src + Displacement(b) + moved[c] * BeatBytes(b) ELSE b.src
          /\ dst = IF b.incdest THEN b.dst + Displacement(b) + moved[c] * BeatBytes(b) ELSE b.dst
      BY <3>1, <3>3, AddressAsAsked
    <3>5. beat'[o] = [srcaddr |-> src, dstaddr |-> dst]
      BY <2>1, <2>3 DEF DmaTypeOK
    <3> HIDE DEF src, dst
    <3>6. QED BY <3>2, <3>4, <3>5, Zenon
  <2>4. QED BY <2>2, <2>3
<1>8. QED BY <1>4, <1>5, <1>6, <1>7, DmaSteps, Zenon

-----------------------------------------------------------------------------
(* Every variable of the drivers keeps its type: no loop runs past the     *)
(* buffer it was given, and no register holds more than it has room for     *)
(* (uart.c:44-75, pwm.c:161-249, dma.c:29-113).                             *)
THEOREM DriversTypes == Spec => []TypeOK
<1> DEFINE IInv == TypeOK /\ CountInv
<1>1. Init => IInv
  BY InitSercomType, InitUartType, InitPwmType, InitDmaType DEF Init, TypeOK
<1>2. IInv /\ [Next]_vars => IInv'
  <2> SUFFICES ASSUME IInv, [Next]_vars PROVE IInv'
    OBVIOUS
  <2>1. SercomTypeOK' /\ UartTypeOK' /\ CountInv'
    <3>1. CASE PortNext
      BY <3>1, SercomTypeStep, UartTypeStep DEF TypeOK
    <3>2. CASE UNCHANGED portDriverVars
      BY <3>2, Zenon DEF TypeOK, portDriverVars, sercomVars, portVars, rxVars, txVars, uartVars,
                         SercomTypeOK, UartTypeOK, CountInv
    <3>3. QED BY <3>1, <3>2, StepOfOne
  <2>2. PwmTypeOK'
    <3>1. CASE PwmCall
      BY <3>1, PwmTypeStep DEF TypeOK
    <3>2. CASE UNCHANGED pwmVars
      BY <3>2, Zenon DEF TypeOK, pwmVars, PwmTypeOK
    <3>3. QED BY <3>1, <3>2, StepOfOne
  <2>3. DmaTypeOK'
    <3>1. CASE DmaNext
      BY <3>1, DmaTypeStep DEF TypeOK
    <3>2. CASE UNCHANGED dmaVars
      BY <3>2, Zenon DEF TypeOK, dmaVars, DmaTypeOK
    <3>3. QED BY <3>1, <3>2, StepOfOne
  <2>4. QED BY <2>1, <2>2, <2>3 DEF TypeOK
<1>3. IInv => TypeOK
  OBVIOUS
<1>4. QED BY <1>1, <1>2, <1>3, PTL DEF Spec

(* What has been written is on the line or in the transmitter, in order:   *)
(* no call writes over a byte that has not left (uart.c:44-49,              *)
(* spi.c:34-37).                                                            *)
THEOREM BytesSentInOrder == Spec => []SentInOrder
<1>1. Init => SentInv
  BY OneByte DEF Init, InitSercom, SentInv
<1>2. TypeOK /\ SentInv /\ [Next]_vars => SentInv'
  <2> SUFFICES ASSUME TypeOK, SentInv, [Next]_vars PROVE SentInv'
    OBVIOUS
  <2>1. CASE PortNext
    BY <2>1, SentInvStep DEF TypeOK
  <2>2. CASE UNCHANGED portDriverVars
    BY <2>2, Zenon DEF portDriverVars, sercomVars, txVars, SentInv
  <2>3. QED BY <2>1, <2>2, StepOfOne
<1>3. TypeOK /\ SentInv => SentInOrder
  BY SentInvEnough DEF TypeOK
<1>4. QED BY <1>1, <1>2, <1>3, DriversTypes, PTL DEF Spec

LEMMA PortIsItsOwners == Spec => []PortInv
<1>1. Init => PortInv
  BY DEF Init, InitSercom, PortInv
<1>2. PortInv /\ [Next]_vars => PortInv'
  <2> SUFFICES ASSUME PortInv, [Next]_vars PROVE PortInv'
    OBVIOUS
  <2>1. CASE PortNext
    BY <2>1, PortInvStep
  <2>2. CASE UNCHANGED portDriverVars
    BY <2>2, Zenon DEF portDriverVars, sercomVars, portVars, PortInv
  <2>3. QED BY <2>1, <2>2, StepOfOne
<1>3. QED BY <1>1, <1>2, PTL DEF Spec

(* What a read stores is, byte for byte, what came in, across timeouts and *)
(* calls (uart.c:51-63).                                                    *)
THEOREM BytesReadInOrder == Spec => ReadInOrder
<1>1. Init => ReadInv
  BY OneByte, TwoBytes DEF Init, InitSercom, ReadInv
<1>2. TypeOK /\ PortInv /\ ReadInv /\ [Next]_vars => ReadInv'
  <2> SUFFICES ASSUME TypeOK, PortInv, ReadInv, [Next]_vars PROVE ReadInv'
    OBVIOUS
  <2>1. CASE PortNext
    BY <2>1, ReadInvStep DEF TypeOK
  <2>2. CASE UNCHANGED portDriverVars
    BY <2>2, Zenon DEF portDriverVars, sercomVars, portVars, rxVars, ReadInv
  <2>3. QED BY <2>1, <2>2, StepOfOne
<1>3. TypeOK /\ PortInv /\ ReadInv /\ [Next]_vars
        => [pc = "poll" /\ i' > i => got' = After(got)]_vars
  <2> SUFFICES ASSUME TypeOK, PortInv, ReadInv, [Next]_vars, pc = "poll", i' > i
               PROVE  got' = After(got)
    OBVIOUS
  <2>1. CASE PortNext
    BY <2>1, CountsWhatItGot DEF TypeOK
  <2>2. CASE UNCHANGED portDriverVars
    BY <2>2 DEF portDriverVars, uartVars, TypeOK, UartTypeOK
  <2>3. QED BY <2>1, <2>2, StepOfOne
<1>4. QED BY <1>1, <1>2, <1>3, DriversTypes, PortIsItsOwners, PTL DEF Spec, ReadInOrder

(* A read gives up only after it has waited for longer than it was asked   *)
(* to, for any width of the counter, wherever it stood and however often it *)
(* wrapped (uart.c:54-57).                                                  *)
THEOREM TimeoutsAreHonest == Spec => TimeoutHonest
<1>1. TypeOK /\ [Next]_vars => [pc = "timer" /\ pc' = "idle" => waited > wait]_vars
  <2> SUFFICES ASSUME TypeOK, [Next]_vars, pc = "timer", pc' = "idle" PROVE waited > wait
    OBVIOUS
  <2>1. CASE PortNext
    BY <2>1, GivesUpLate DEF TypeOK
  <2>2. CASE UNCHANGED portDriverVars
    BY <2>2 DEF portDriverVars, sercomVars
  <2>3. QED BY <2>1, <2>2, StepOfOne
<1>2. QED BY <1>1, DriversTypes, PTL DEF Spec, TimeoutHonest

(* spi_command returns the byte that came back for its own, in a program   *)
(* that leaves nothing unread (spi.c:34-42).                                *)
THEOREM CommandsAreAnswered ==
  ASSUME "leave unread" \notin CallerMay PROVE Spec => CommandAnswered
<1>1. Init => CommandInv
  BY DEF Init, InitSercom, CommandInv
<1>2. TypeOK /\ PortInv /\ CommandInv /\ [Next]_vars => CommandInv'
  <2> SUFFICES ASSUME TypeOK, PortInv, CommandInv, [Next]_vars PROVE CommandInv'
    OBVIOUS
  <2>1. CASE PortNext
    BY <2>1, CommandInvStep DEF TypeOK
  <2>2. CASE UNCHANGED portDriverVars
    BY <2>2, Zenon DEF portDriverVars, sercomVars, portVars, rxVars, txVars, CommandInv
  <2>3. QED BY <2>1, <2>2, StepOfOne
<1>3. TypeOK /\ CommandInv /\ [Next]_vars
        => [pc = "answer" /\ pc' = "idle" => got' = sent]_vars
  <2> SUFFICES ASSUME TypeOK, CommandInv, [Next]_vars, pc = "answer", pc' = "idle"
               PROVE  got' = sent
    OBVIOUS
  <2>1. CASE PortNext
    BY <2>1, AnswersItsOwn DEF TypeOK
  <2>2. CASE UNCHANGED portDriverVars
    BY <2>2 DEF portDriverVars, sercomVars
  <2>3. QED BY <2>1, <2>2, StepOfOne
<1>4. QED BY <1>1, <1>2, <1>3, DriversTypes, PortIsItsOwners, PTL DEF Spec, CommandAnswered

(* The period of a TC is that of the last frequency it took, for any clock, *)
(* width and frequencies (pwm.c:161-183).                                   *)
THEOREM PeriodsAsAsked == Spec => []PeriodAsAsked
<1>1. Init => PeriodAsAsked
  BY DEF Init, InitPwm, Nothing, PeriodAsAsked
<1>2. TypeOK /\ PeriodAsAsked /\ [Next]_vars => PeriodAsAsked'
  <2> SUFFICES ASSUME TypeOK, PeriodAsAsked, [Next]_vars PROVE PeriodAsAsked'
    OBVIOUS
  <2>1. CASE PwmCall
    BY <2>1, PeriodStep DEF TypeOK
  <2>2. CASE UNCHANGED pwmVars
    BY <2>2, Zenon DEF pwmVars, PeriodAsAsked
  <2>3. QED BY <2>1, <2>2, StepOfOne
<1>3. QED BY <1>1, <1>2, DriversTypes, PTL DEF Spec

(* The output of a counter is high for the part of the period that was     *)
(* asked for, if a TCC, which is or-ed into, is given its duty once          *)
(* (pwm.c:196-249).                                                         *)
THEOREM DutiesAsAsked == ASSUME SetAgain \subseteq Tcs PROVE Spec => []DutyAsAsked
<1>1. Init => DutyInv
  BY DEF Init, InitPwm, Nothing, DutyInv
<1>2. TypeOK /\ DutyInv /\ [Next]_vars => DutyInv'
  <2> SUFFICES ASSUME TypeOK, DutyInv, [Next]_vars PROVE DutyInv'
    OBVIOUS
  <2>1. CASE PwmCall
    BY <2>1, DutyStep DEF TypeOK
  <2>2. CASE UNCHANGED pwmVars
    BY <2>2, Zenon DEF pwmVars, DutyInv
  <2>3. QED BY <2>1, <2>2, StepOfOne
<1>3. DutyInv => DutyAsAsked
  BY Zenon DEF DutyInv, DutyAsAsked
<1>4. QED BY <1>1, <1>2, <1>3, DriversTypes, PTL DEF Spec

-----------------------------------------------------------------------------
(* A block arrives and its end is reported, where no handler makes calls   *)
(* between the two steps of one, and a channel that waits for its first     *)
(* beat is neither given a descriptor nor enabled again.                    *)

LEMMA TransfersAreWhole ==
  ASSUME "handler" \notin DmaCallers, DmaMay = {}
  PROVE  Spec => [](CallInv /\ MadeInv /\ TransferInv)
<1> DEFINE IInv == CallInv /\ MadeInv /\ TransferInv
<1>1. Init => IInv
  <2> SUFFICES ASSUME InitDma PROVE IInv
    BY DEF Init
  <2> DEFINE none == Descriptor(NoBlock)
  <2>1. none.block = NoBlock /\ NoCall.function = "none"
    BY NoDescriptor, NoCallType
  <2>2. /\ \A c \in Channels : /\ descriptor[c].block = NoBlock /\ moved[c] = 0 /\ ~told[c]
                               /\ ~channel[c].enabled /\ ~channel[c].TCMPL
        /\ \A k \in DmaCallers : dma_calls[k].function = "none"
    <3>1. descriptor = [c \in Channels |-> none]
      BY DEF InitDma
    <3> HIDE DEF none
    <3>2. QED BY <2>1, <3>1 DEF InitDma, ResetChannel
  <2>3. CallInv
    BY <2>2 DEF CallInv, Functions
  <2>4. MadeInv
    BY <2>2 DEF MadeInv, Waiting, Stores
  <2>5. TransferInv
    <3>1. \A c \in Channels : ~(moved[c] > 0)
      BY <2>2
    <3>2. \A k \in DmaCallers : dma_calls[k].function # "ENABLE"
      BY <2>2
    <3>3. QED BY <2>2, <3>1, <3>2, Zenon DEF TransferInv
  <2>6. QED BY <2>3, <2>4, <2>5
<1>2. TypeOK /\ IInv /\ [Next]_vars => IInv'
  <2> SUFFICES ASSUME TypeOK, IInv, [Next]_vars PROVE IInv'
    OBVIOUS
  <2>1. CASE DmaNext
    BY <2>1, CallInvStep, MadeInvStep, TransferInvStep DEF TypeOK
  <2>2. CASE UNCHANGED dmaVars
    <3>1. UNCHANGED <<descriptor, CHID, channel, active, moved, told, dma_calls>>
      BY <2>2, Zenon DEF dmaVars
    <3>2. CallInv'
      BY <3>1, Zenon DEF CallInv
    <3>3. MadeInv'
      <4>1. \A c \in Channels : Waiting(c)' => Waiting(c)
        BY <3>1, Zenon DEF Waiting
      <4>2. QED BY <3>1, <4>1, MadeKept, Zenon
    <3>4. TransferInv'
      BY <3>1, Zenon DEF TransferInv, WholeBlock
    <3>5. QED BY <3>2, <3>3, <3>4
  <2>3. QED BY <2>1, <2>2, StepOfOne
<1>3. QED BY <1>1, <1>2, DriversTypes, PTL DEF Spec

(* A transfer is that of one call of dma_create_descriptor: no more beats   *)
(* than the block has, in order, from and to the addresses asked for, or    *)
(* for words Displacement away from them, for any blocks and channels       *)
(* (dma.c:29-52).                                                           *)
THEOREM BlocksArrive ==
  ASSUME "handler" \notin DmaCallers, DmaMay = {} PROVE Spec => []BeatsAsAsked
<1>1. Init => BeatsAsAsked
  BY DEF Init, InitDma, BeatsAsAsked
<1>2. TypeOK /\ CallInv /\ MadeInv /\ TransferInv /\ BeatsAsAsked /\ [Next]_vars => BeatsAsAsked'
  <2> SUFFICES ASSUME TypeOK, CallInv, MadeInv, TransferInv, BeatsAsAsked, [Next]_vars
               PROVE  BeatsAsAsked'
    OBVIOUS
  <2>1. CASE DmaNext
    BY <2>1, BeatsStep DEF TypeOK
  <2>2. CASE UNCHANGED dmaVars
    BY <2>2, Zenon DEF dmaVars, BeatsAsAsked
  <2>3. QED BY <2>1, <2>2, StepOfOne
<1>3. QED BY <1>1, <1>2, DriversTypes, TransfersAreWhole, PTL DEF Spec

(* dma_transfer_complete says yes only when the whole block has been moved *)
(* since the channel was enabled (dma.c:65-73, 107-113).                    *)
THEOREM CompletionIsHonest ==
  ASSUME "handler" \notin DmaCallers, DmaMay = {} PROVE Spec => []CompleteIsHonest
<1>1. TransferInv => CompleteIsHonest
  BY Zenon DEF TransferInv, WholeBlock, CompleteIsHonest
<1>2. QED BY <1>1, TransfersAreWhole, PTL
=============================================================================
