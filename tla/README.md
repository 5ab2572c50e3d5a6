# A TLA+ verification project for samd21_rtos

samd21_rtos is a cooperative, earliest-deadline-first real-time operating system for the SAMD21
microcontroller (ARM Cortex-M0+), with device drivers and an example application. This directory
holds TLA+ models of the scheduler, of the USB stack and of the device drivers, TLC configurations that check them, and
proofs that TLAPS checks. Line numbers refer to the sources of the repository.

## 1. The system

One processor runs everything. `rtos_main` (on the OS stack) loops over `next_process`, which takes
a process out of the *process table* and jumps into it by `switch_process`; the process runs until
it calls `wait_until`, `rtos_delay_*` or returns, which brings control back to `rtos_main`, and
`rtos_main` dispatches it again. There is no other scheduling point, except the preemption interrupt.
Interrupt handlers run between any two instructions while `PRIMASK` is clear.

| Component | Source | State | Operations | Interacts with |
|---|---|---|---|---|
| process table | `rtos_process.c` 8-11, 103-156, 225-241 | `process_queue`, `_head`, `_tail`, `process_count` | ordered insertion, removal past blocked entries | called by the OS loop and by processes |
| scheduler and process API | `rtos_process.c`, `rtos_process.h`, `rtos_main.c` | the `Process` records, `current_process`, `PRIMASK` | `init_process`, `reset_process`, `dispatch_process`, `wait_until`, `join_process`, `yield_process`, `next_process`, `switch_process` | reads the tick counter, other processes' status, variables that handlers write; calls callbacks |
| delays | `rtos_time.c` | the deadline of a process | `rtos_delay_ctick`, its callback | tick counter |
| preemption | `rtos_preemption.c` | TC4 enable in the NVIC, `enable_preempt` | `enable_preempt`, `disable_preempt`, the handler | calls `yield_process` from an interrupt |
| timer driver | `Drivers/time.c` | TC4 COUNT, CC0, INTFLAG | read, compare, interrupt enable | everything above |
| USB interrupt path | `main.c` 103-165, `usb_samd.c` 284-321 | NVIC enable and pending, `usb_interrupt` | `USB_Handler`, `usb_proc_loop` | the USB process is scheduled as any other |
| USB control transfers | `usb_samd.c`, `usb_requests.c`, `usb.c` | endpoint 0's registers and buffers, `usb_setup`, `usb_ep0_in_size`, `usb_ep0_in_ptr`, DADD, `usb_configuration`, `line_coding` | `usb_handle_function`, `usb_handle_setup`, `usb_handle_control_in_complete`, `usb_reset` | host and controller run at the same time |
| USB serial port | `usb_serial.c`, `usb.c` 286-301 | endpoint 2, two buffers, `usb_rx_buffer_length`, `usb_tx_busy` | init, send, read, completions | called by processes, by the USB pass and, for a SetConfiguration, by the control transfers |
| application | `main.c` | flags | start-up, loops | |
| SERCOM, UART and SPI drivers | `sercom.c`, `uart.c`, `spi.c` | mode, enable, flags and DATA of a SERCOM | init, flush, send, read with a timeout, SPI command | busy-wait on the line; the tick counter |
| PWM driver | `pwm.c` | prescaler, period, compare value and enable of each counter | init, enable, set frequency, set duty | |
| DMA driver | `dma.c` | the descriptors, CHID, the channels' registers | create a descriptor, init, enable, disable, suspend, resume, trigger, poll | the controller moves beats meanwhile |
| port driver | `port.c` | pins | register writes | |

What is hard here, and what makes each part correct:

* **Process table.** Two independent pointers and a counter over a circular buffer, with insertion
  from the tail and removal by moving blocked entries over the gap. Correct when no entry is lost or
  copied, and started processes stay in deadline order although "deadline order" is computed from a
  wrapping clock at each insertion (`QueueSound`, `EarliestDeadlineFirst`).
* **Scheduler.** Status values change meaning over the way of a process (`Done` while it runs), and
  processes, callbacks and handlers change what the scan reads while it scans. Correct when a
  dispatched process is never forgotten, at most one runs, a finished one is not resumed, and a
  join sees only real ends (`ImplementsApi`, `QueuedRunnable`, `JoinMeansFinished`).
* **Delays.** Signed differences of a wrapping 32-bit counter. Correct when no delay ends early and
  every delay ends (`DelayAtLeast`, `DelayEnds`).
* **Preemption.** Correct when its interrupt cannot hit the OS or another process
  (`PreemptConfined`), and when a preempted process can go on (`NoSOS`, which fails).
* **USB.** The device is driven by one pass of a function that reads status registers in several
  steps while host and controller go on; an interrupt that masks itself wakes it. Correct when no
  event is lost in that hand-over (`NeverDeaf`, `ArrivalReported`, `ResetHandled`), when data
  arrives intact and once (`DataIntact`, `ReceivedOnce`, `SentOnce`), when host and device agree on
  the address (`AddressAgreed`), and when no transfer that the device answers hangs (`TransferEnds`, `SendEnds`).

* **UART and SPI.** Busy waits against hardware that goes on by itself, with a timeout on the wrapping
  counter per byte. Correct when bytes are stored and sent once and in order across timeouts
  (`ReadInOrder`, `SentInOrder`), a read gives up neither early nor never (`TimeoutHonest`,
  `CallEnds`), and a command returns its own answer (`CommandAnswered`).
* **PWM.** Results depend on what earlier calls left in the registers. Correct when the counter shows
  what was asked for last (`PeriodAsAsked`, `DutyAsAsked`).
* **DMA.** All channels share a window selected by one register, and a flag of one transfer can be
  taken for the next one's; the controller reads descriptors that are stored field by field. Correct when the beats
  go where they should and the end is reported truthfully (`BeatsAsAsked`, `CompleteIsHonest`).

`PROJECT.json` lists the hazards of this code line by line, with the property that covers each.

## 2. Modules

| Module | Models | Composition |
|---|---|---|
| `RtosTime` | wrapping `uint32_t` ticks, and their difference as `int` | |
| `ProcessQueue` | the process table: `Insert`, `Remove` in closed form | |
| `QueueLoops` | the two loops on the buffer, statement by statement, on every buffer of a size | EXTENDS `ProcessQueue` and INSTANCEs it for each buffer |
| `RtosKernel` | scheduler, process API, delays, preemption, interrupts | EXTENDS `RtosTime`, `ProcessQueue` |
| `RtosApi` | abstract specification: the life of each process | INSTANCEd by `RtosKernel` |
| `UsbEndpoint` | an endpoint's registers; the driver's primitives; the controller's own moves | |
| `UsbInterrupt` | from the interrupt line to the USB process and back | |
| `UsbControl` | control transfers against a host | EXTENDS `UsbEndpoint`, `UsbInterrupt` |
| `UsbSerial` | the CDC data endpoint between a host and a process | EXTENDS `UsbEndpoint`, `UsbInterrupt` |
| `SerialPipe` | abstract specification: a place for one packet in each direction | INSTANCEd by `UsbSerial` |
| `Sercom` | a SERCOM: initialisation, transmitter, receiver, flushing | |
| `Uart` | `uart.c`: reads with timeouts, sends | EXTENDS `Sercom`, `RtosTime` |
| `Spi` | `spi.c`: one byte out, one back | EXTENDS `Sercom` |
| `Pwm` | `pwm.c`: the registers of the counters | |
| `Dma` | `dma.c`: calls on the channels, and the controller | |
| `Drivers` | the drivers side by side; one SERCOM is a UART or an SPI master | EXTENDS `Uart`, `Spi`, `Pwm`, `Dma` |
| `MCKernel`, `MCUsbControl`, `MCQueue`, `MCDrivers` | small instances, views and bounds for TLC | `MCQueue` EXTENDS `MCKernel`, `QueueLoops`; `MCDrivers` gives `Pwm` the bitwise or of `Bitwise` |
| `ProcessQueueProofs` | lemmas about the table; its loops compute the closed forms | EXTENDS `QueueLoops` |
| `RtosKernelProofs` | types and soundness of the queue | EXTENDS `RtosKernel`, `ProcessQueueProofs` |
| `RtosStateProofs` | masking, preemption, who is in the table, joins | EXTENDS `RtosKernelProofs` |
| `RtosRefinementProofs` | the kernel implements `RtosApi` | EXTENDS `RtosStateProofs` |
| `RtosDeadlineProofs` | delays; the order of the table | EXTENDS `RtosRefinementProofs` |
| `UsbControlProofs`, `UsbSerialProofs` | the interrupt hand-over and the control transfers; the serial port | EXTEND `UsbControl`, `UsbSerial` |
| `DriversProofs` | the drivers: types, bytes, waits, periods and duties, blocks | EXTENDS `Drivers` |

Operators marked `mutant` are plausible mistakes in the definition they stand before; TLC refutes
the property named with each in `PROJECT.json` when the mistake replaces the definition.

### The kernel

`os` is the place of the single thread of control: `loop` (rtos_main.c:32), `scan` (the loop of
`next_process`), `switch` (the jump into a process), `process`, `return` (after the process has
yielded or returned), `dispatch` (rtos_main.c:34), `exit`, `sos`. Code between `__disable_irq` and
`__enable_irq` is one step, except that `next_process` takes a step per queue entry, because it
reads the clock and calls a callback for each. `primask` is kept, because two early returns of
`dispatch_process` leave it set. Every library call that a process can make is an action of
`ProcessStep`; a process makes any of them in any order. `Tick`, `CompareMatch`, `FlagInterrupt` and
`TC4_Handler` happen between any two steps.

The two writes of `disable_preempt` are two actions, with `disabling` between them: interrupts are on
there, and a compare match finds TC4 still enabled while `enable_preempt` is already clear, by which
`switch_process` goes. `PreemptConfined` says that this does not get out of the process. It does not
because the handler's yield ends in `SOS` (section 6); in a model whose yield from the handler works,
TLC finds that a match in the gap leaves TC4 enabled for the OS loop.

Data is abstracted to what comparisons tell apart: a waited-on variable is a small word; a mask is 0
or not; a user callback may refresh the variable it is registered with; saved registers and stacks
are the place where a process resumes (`program_counter`). A variable compared under a zero mask has
not been assigned, so any value is possible (`VariableReads`).

Assumed of the callers: nobody initialises, resets or dispatches a process that is queued or running.

`remaining` is a history variable: the ticks a delay still has to last.

### The USB stack

`UsbInterrupt` is the frame: the handler masks its own interrupt and sets `usb_interrupt`; the
process unblocks, clears the flag, makes a pass, unmasks. The body of the pass is one step per access
to a register that host or controller may change in between (`pc`). `UsbControl` fills that frame
for endpoint 0, `UsbSerial` for endpoint 2; in `UsbSerial`, endpoint 0 appears as a cause of passes.

Taken from the hardware (marked external in `PROJECT.json`): a SETUP packet is accepted when RXSTP is
clear whatever the bank says, ends a stall and whatever was armed; a bus reset clears flags, enables,
stalls and the address; an asserted line makes the interrupt pending, also behind its mask.

A request is `Vendor` in the model if `usb_cb_control_setup` has no branch for it: requests of the vendor type, and
of the class type for another interface. They get no bank and no stall (usb.c:209-288). The host may give
one up, and need not (`GivesUp` is not fair): `TransferEnds` is stated for all others, and TLC refutes it for these.

`AckFlags` clears all three flags one step after `ReadFlags`. What a host that does not overlap transfers can raise
in between is the end of a status stage of which nothing more is to be done (TRCPT0 of the OUT after a
data stage, TRCPT1 of a SetLineEncoding), so its loss is harmless; cleared after the handlers, as in the mutant
`EndsPassClearing`, the flags of the next request are lost, and TLC refutes `AddressAgreed` and `TransferEnds`.

The host of `UsbControl` follows the protocol; `HostMay` adds what it may do beyond the least: reset
the bus (between passes or also inside one), send a SETUP before the device has handled the end of
the previous transfer, act before the USB process has started. The process of `UsbSerial` looks at
`usb_rx_buffer_length` and `usb_tx_busy` before it calls; `AppMay` drops that care.

The host of `UsbSerial` may reset the bus and configure the device again, also in the middle of a
transfer and at any step of a pass (`"reset"`), but not before the USB process has started: that leaves the device deaf for good, as
`usb_lost_wakeup` shows, and nothing that must eventually happen would. A reset clears the endpoint's enable and flags and
EORST ends that pass; `usb_serial_init`, at the next SetConfiguration, arms the OUT bank and clears
`usb_tx_busy`. What either drops counts as read, or as received: `ReceivedOnce` and `SentOnce` promise
the rest. The driver keeps `usb_rx_buffer_length` across both, so a packet that the process has not
read when the host starts anew is overwritten; `"unread"` lets the host do that, and TLC then
refutes `ReceivedOnce` and `ImplementsPipe`. `ArrivalReported` excuses only a reset that waits to be
handled, `HostMaySendAgain` says that each one is handled, and it and `SendEnds` assume no more than that the
host does not reset the bus over and over (`ResetsStop`). `"send nothing"` lets it send packets of length 0, after
which the process never learns that it should give the bank back, and TLC refutes `HostMaySendAgain`.

### The drivers

*UART and SPI.* `pc` is the place of the one call under way; the drivers busy-wait, so there is never a
second. The transmitter is a DATA register before a shift register, the receiver holds two bytes,
and a byte that finds it full is lost (external). `waited` is the time that has really gone by since a read
took its `current_time`; the code sees it only modulo the range of the counter. Callers look at the
result of `uart_init`, which may refuse a baud rate with the port configured and not enabled, and call `spi_command` with an
empty receiver; they initialise a SERCOM that exists, and only once (sercom.c:56-58 and the
registers that an enabled SERCOM refuses are left out). `CallerMay` drops either care: TLC then refutes `CallEnds` (the first send waits for DRE
for ever) and `CommandAnswered`.

*PWM.* `asked` is a history variable: the last frequency a counter took and the last duty. `Written` is the
difference between `pwm_set_*_tc`, which assign, and `pwm_set_*_tcc`, which or into the register.
After reset the period of a TCC is all ones, so its frequency can never be set, and a second duty is
mixed with the first (`SetAgain` names the counters whose duty is set again; TLC refutes
`DutyAsAsked` with a TCC among them). `clocked` holds the counters that `pwm_init_*` has given a clock and a mode;
the other calls are made on those only. The floating point arithmetic of pwm.c is of integers here.

*DMA.* A call is `SetChannel` and `Access`, for `dma_enable_channel` also `Enable`, since it clears TCMPL in one
statement and sets ENABLE in the next (dma.c:69, 71). A descriptor is made by four steps, BTCTRL with VALID first
(dma.c:36-46; DESCADDR stays null). The controller fetches and moves beats between any two of all these. The
code checks none of what makes that safe, and leaves it to its callers: that the descriptor of a channel which is
enabled and has moved no beat is left alone, and that only a disabled channel is initialised or enabled. The run keeps to it
(`DmaMay = {}`). With `"make while enabled"` in `DmaMay` the controller fetches a torn descriptor and TLC refutes
`BeatsAsAsked`; with `"enable while enabled"` a completion between the two writes leaves the old TCMPL and TLC
refutes `CompleteIsHonest`. The calls come from one process (`DmaCallers`); with a handler that calls the driver
too, `Access` reaches the channel that handler selected, and TLC refutes both. For words the code multiplies by 3 where
a beat has 4 bytes: `BeatsAsAsked` says by how much such a block is off (`Displacement`), which is 0 for bytes and
halfwords, and TLC refutes it with 0 for words.

## 3. Runs

| Run | Checks | Instance |
|---|---|---|
| `kernel` | `TypeOK`, `QueueSound`, `QueuedRunnable`, `EarliestDeadlineFirst`, `MaskedOnlyByRefusal`, `JoinMeansFinished`, `ImplementsApi`, `InsertionAgrees`, `RemovalAgrees`, `RemovalKeepsOthers` | 3 processes, 4 slots, a wait on a flag, a join, a delay; every buffer of 4 slots |
| `kernel_time` | `DelayAtLeast`, `PreemptConfined` | 2 processes, one preemptive, counter of 6 values, every kind of wait |
| `kernel_live` | `DelayEnds`, `WaitEnds` | 2 processes under `FairSpec` |
| `usb_control` | `TypeOK`, `NeverDeaf`, `DataIntact`, `AddressAgreed`, `ArmedBufferKept`, `TransferEnds` | 20 requests of every kind, bus resets, a host that is quiet before the start |
| `usb_serial` | `TypeOK`, `ReceivedOnce`, `SentOnce`, `ArrivalReported`, `SendEnds`, `HostMaySendAgain`, `ImplementsPipe` | packets of 1 and 2 bytes, 3 numbers, bus resets and reconfiguration after the start |
| `drivers` | `TypeOK`, `SentInOrder`, `ReadInOrder`, `TimeoutHonest`, `CommandAnswered`, `CallEnds`, `PeriodAsAsked`, `DutyAsAsked`, `BeatsAsAsked`, `CompleteIsHonest` | a counter of 8 values, reads and sends of 2 bytes, a TC and a TCC, 2 channels, a block of halfwords and one of words |

Six more runs end in a violation; they are the findings of section 6.

**Bounds, and why they are enough.**
* *Processes and slots.* Three processes let one run, one wait and one be dispatched between them;
  four slots make head, tail and gaps wrap in all relative positions. The proofs of section 5 lift
  both bounds.
* *`HalfRange`* (2^31 in the program). 2 or 3: the counter wraps every few steps, so deadlines fall
  before, on and after the wrap and on both sides of the sign change.
* *`MaxDelayLag`, `MaxReadyLag`, `MaxWaitLag`* bound how far the clock may run past the deadline of a
  process that waits: in a delay, in a wait whose condition holds, in any other wait. In `kernel` all
  are 1, which `EarliestDeadlineFirst` needs: an order on a circle is one only while all deadlines lie
  within half of it (44.7 s in the program). In `kernel_time` there are none. In `kernel_live` the first
  two are 1: the processor keeps up with what is due, so that the OS looks at a finished delay before
  44.7 s have passed; after that it would count as unfinished again. A process that loses its turn for
  good still violates the properties: the counter then stops, and the others go on.
* *`WaitEnds`* is about conditions that become true before half the range has gone by: later, the
  deadline counts as a future one and the process is overtaken (hazard at rtos_process.c:124).
* *Requests.* Each kind of answer once; descriptors shorter than, equal to and longer than a packet
  of `EP0_SIZE` = 2 units, asked for with smaller, equal and larger `wLength`: the zero-length packet,
  the truncation and the several-packet cases all occur.
* *Buffers.* The three properties of `QueueLoops` are about the code, not about a state of it, so TLC
  looks at them only while the kernel has not moved an entry yet (`Untouched`): every content of four slots,
  head, count, order of the entries and number of blocked ones, the full buffer and copies included. Three
  `Keys` are enough for earlier, equal and later. Section 5 lifts the size and the keys.
* *Bytes and waits.* The transmitter and the receiver hold two bytes each, so four numbers tell any
  two that can be confused apart. Of the waits one is negative, one 0 and one as long as an eight-value counter
  allows when a tick may go by between two looks: `wait + 2 * MaxLag` must be below the range, or the
  counter passes the end of the wait between two looks and the read does not end (in the program:
  waits of 89.4 s and more). The product of the wait and the rate is a float; its rounding is left out.
* *Counters and channels.* Frequencies on either side of what the counter has room for, with two prescalers; a
  block of two halfwords and one of one word, incremented at one end each, on two channels.
* `OneAtATime`, a CONSTRAINT of the run `drivers`: the SERCOM, the counters and the channels share no
  state, so the run explores each while the other two are untouched. No other run has a constraint. `CallEnds`
  is about the SERCOM alone, whose part of the graph is complete.
* *Packets.* Three numbers tell a lost, a repeated and an overtaken packet from the right one,
  because at most one is on its way in each direction.

**Views.** `MCKernel` and `MCUsbControl` identify states that differ only in what nothing reads
before it is written again (slots outside the queue, the wait of a process that does not wait, the
contents of a packet that is not armed). The identified states have the same successors up to the
view and no property reads what is left out, so the reduced graph has the same behaviours.

**Deadlock** is checked in every run. After `exit` or `sos` the counter and the handlers of the
model still move.

**Fairness.** Kernel: `OsStep` (the processor executes the OS), `ProcessYields` (cooperative
scheduling: every process gives control back in the end) and `PreemptDisableInterrupts` (it finishes a call it has
begun) are weakly fair; `Tick` is strongly fair (the
counter counts; a condition that flickers between two looks at it switches the bound `MaxReadyLag` on
and off, which must not stop the time of the model). Nothing is assumed of interrupts or of which call a process makes. USB: `Device` (the scheduler runs the USB
process, which `WaitEnds` is about), `Interrupts` (an enabled pending interrupt is taken), and the
host's own steps in a transfer it has begun and the device goes on with (`In \/ Out \/ Stalled`, but not `GivesUp`; `HostReceives`, its polling of
the IN endpoint; `HostConfigures` while the endpoint is not enabled, as a host configures a device
that it has reset). The process of `UsbSerial` reads what has arrived, strongly fair: it may call only between
two passes, and because the USB process waits after each (main.c:151), the scheduler lets it run
between them again and again, but not without interruption (`HostMaySendAgain` needs it; `kernel_live` is
about that turn). Bus resets, new transfers, arriving packets and sends are not fair, so
`ArrivalReported` and `SendEnds` hold for a host that may stop sending at any time. Drivers: a call goes on
(`CallStep`, the processor executes it), bytes go out (`Controller`), and the counter counts (`Tick`);
arriving bytes are not fair, so a read has only its timeout to rely on. `CallEnds` leaves out flushes,
which go on for as long as bytes keep arriving.

## 4. Abstract specification

`RtosApi` has one variable, the phase of each process (idle, waiting, running, finished), and one
action per promise of rtos_process.h. `ImplementsApi` says that the kernel implements it under the
mapping `Phase`: a process is waiting while it is queued or on its way between table and processor,
and running only while `os = "process"`. All of insertion, scan, rotation and re-dispatch is
stuttering there; an entry lost or copied, two running processes, or a finished one resumed is not.

`SerialPipe` has, in each direction, a place for one packet and the number of the packet last taken out.
`ImplementsPipe` says that the serial port implements it: the place towards the device is full from
the moment the controller acknowledges a packet until `usb_serial_read_buffer` has copied it, through TRCPT0, the
masking and the completion; the place towards the host is the armed IN bank. Packets are lost only in
steps that change the link: a reset, a SetConfiguration and its handling.

## 5. Proofs

Of the kernel, for any set of processes, table size, counter width and set of waits. *With a slot to
spare* means `Cardinality(Processes) < RTOS_MAX_PROCESS_COUNT`; the run `full_table` shows that
without it the kernel does not implement `RtosApi`, and with fewer slots than processes TLC finds the dispatch of the process
that yields refused (rtos_main.c:34).

* `ProcessQueueProofs`: `SlotAt` and `OffsetOf` are inverse on the buffer; `Insert` and `Remove` keep
  the types; `Insert` adds exactly its process and `Remove` takes exactly the entry after the blocked
  ones, without copies, provided a slot is free.
* `InsertionLoop` (`InsertionAgrees`), `RemovalLoop` (`RemovalAgrees`), `OthersKept` (`RemovalKeepsOthers`):
  the loops compute these closed forms, for a table of any size, any contents and any integer keys; no
  kernel state and no spare slot is assumed (the proofs do not use `Untouched`). A loop is a function of the number of its passes. For each there is a closed form of the
  buffer after `i` passes (`Moved`, `Shifted`) and a lemma that one more pass leads from one to the next
  (`MovedByPass`, `ShiftedByPass`). A closed form that satisfies the equation of the loop shows that the
  function exists; that there is no other follows from the least number at which two would differ (`SameValues`).
  The insertion point is the least number from which on every entry is later (`OneInsertionPoint`), also
  in a table that is not in order. `OthersKept` needs `blocked < MAX`: at `MAX` the first destination is
  the head, which is the finding of `full_table`.
* `TypeCorrect` (`TypeOK`). It is inductive as it stands because it contains, beside the types, what
  the code relies on when it decrements `process_count` and follows `current_process`: the scan
  counter stays within a non-empty queue, and the last entry scanned is `current_process`.
* `QueueIsSound` (`QueueSound`), with a slot to spare; inductive relative to `TypeOK`. The slot is
  needed where `Remove` moves entries: the queue without duplicates is then never full, so the gap
  and the tail are different slots.
* `MaskedByRefusal`, `PreemptionConfined`: each property is inductive relative to `TypeOK`. The second says, beside
  where TC4 is enabled, that nothing but `SOS` lies beyond the gap in `disable_preempt`; without that conjunct it is not
  inductive, for `ProcessReturns` turns TC4 off only if `enable_preempt` is set.
* `QueuedAreRunnable` (`QueuedRunnable`), with a slot to spare. A dispatch takes in a process that was
  out of the table, so the property does not survive a step by itself; `LifeInv` adds how status and
  entry point belong together for *every* process.
* `JoinsSeeTheEnd` (`JoinMeansFinished`): the step property follows from `LifeInv`, if no application
  registers the callback of delays itself, which would end its wait at the clock's word.
* `KernelImplementsApi` (`ImplementsApi`), with a slot to spare: one lemma for the initial states,
  and one for the steps of the OS, of the process and of the interrupts, each a step of `RtosApi` or a
  stutter. `YieldMasked` says why the OS may trust the status it finds: a process that yielded has
  left interrupts masked, so the preemption handler cannot have come in between.
* `DelaysLast` (`DelayAtLeast`), with a slot to spare and delays below `HalfRange`, for any lag of
  the processor. `DelayInv`: while `remaining` is not 0, the process is in the table or on the way
  there, its deadline is that far ahead of the clock, and it waits with the callback of delays. The
  run `delay_range` shows what longer delays do.
* `TableIsOrdered` (`EarliestDeadlineFirst`), with a slot to spare and all three lags at most
  `HalfRange`. The code inserts by a distance computed at that moment; `Ordered` is the order by the
  distances of now, and the lemma about `Tick` shows that they shrink together.

Of the USB stack:

* `DeviceListens` (`NeverDeaf`), for any descriptors and requests, and bus resets at any step of a
  pass, if the host is quiet before `usb_proc_loop` starts (`"early" \notin HostMay`; the run
  `usb_lost_wakeup` shows why). The start is the only place where the process clears a flag it has not
  waited for, so the invariant adds that nothing is pending there (`QuietAtStart`).
* `ControlTypes` (`TypeOK`), for any host that sends a SETUP packet only when the transfer before it has
  been handled. The types alone are not inductive: `usb_handle_setup` copies whatever `ep0_buf_out` holds,
  and data stages share that buffer, so `SetupKept` says that bank 0 is closed while a SETUP packet waits.
* `DeviceAddress` (`AddressAgreed`), if the host does not reset the bus in a pass that has read a flag
  either. `AddressInv` relates the two sides of a transfer: the host's is the one in hand (`SameTransfer`),
  a SETUP packet is alone at endpoint 0 (`SetupAlone`), a pass gets as far as the flags only with a cause
  (`PassHasCause`), and so acknowledging all three flags at once loses neither a SETUP packet nor the end of
  a SetAddress (`NothingLost`); the end of a SetLineEncoding it may lose, which nothing waits for.
* `ArmedBufferIsKept` (`ArmedBufferKept`), from the same invariant and `BankIdle`: a completion that has not
  been handled leaves bank 1 idle.
* `DescriptorsArrive` (`DataIntact`), for descriptors of any length and any packet size: the host has a
  prefix of what is due, the armed packet holds the units that follow, and `usb_ep0_in_size` and
  `usb_ep0_in_ptr` say what is left, but only while a data stage is under way; between transfers they hold
  what an earlier one has left.
* `SerialTypes` (`TypeOK`), `PacketsReadOnce` (`ReceivedOnce`) and `PacketsSentOnce` (`SentOnce`), for
  any buffer size and numbering; the latter two for callers that look first (`AppMay = {}`) and hosts
  that reset the bus and configure the device again as they like, but not while a packet is on its way
  to the process, and send no empty packets (`HostMay \subseteq {"reset"}`). `EndpointInv` adds what both
  need: silence before configuration, no empty packet, no completion flag for a packet still to be
  sent, and, while a SetConfiguration waits, nothing on its way to the process.
* `SerialImplementsPipe` (`ImplementsPipe`), under the same assumptions: each step of host, process and
  pass is the step of `SerialPipe` it is named for, a change of the link, or a stutter.

Of the drivers (`DriversProofs`), for any numbering of bytes, clock, counter width, frequencies, prescalers,
widths of the counters, channels and blocks. The SERCOM, the counters and the channels share no variable:
`StepOfOne` says that a step belongs to one of them and leaves the others alone, so each invariant below
is shown on its own part.

* `DriversTypes` (`TypeOK`). `CountInv`: while a read is polling or looking at the timer, it has stored fewer
  bytes than it was asked for, so one more stays within the buffer.
* `BytesSentInOrder` (`SentInOrder`). `SentInv`: the byte in the shift register follows the one on the line,
  the one in DATA follows that, and the last written is the last of them. A call writes DATA only when DRE
  says that it is empty.
* `BytesReadInOrder` (`ReadInOrder`). `ReadInv`: the bytes in the receiver follow the last one taken out, the
  last of them is the last accepted, and a byte that finds the receiver full leaves no number behind
  (that loss is the hardware's, and is in the model). `PortInv` says whose calls can be under way in which mode.
* `TimeoutsAreHonest` (`TimeoutHonest`) is a property of the step that gives up, from `TypeOK`: the modular
  difference of the code never exceeds the time that has really gone by.
* `CommandsAreAnswered` (`CommandAnswered`), for callers that leave nothing unread (`"leave unread" \notin
  CallerMay`). `CommandInv`: as long as a command has not been answered, the receiver and the transmitter
  together hold that one byte and nothing else. Without the hypothesis TLC finds an old byte returned (spi.c:41).
* `PeriodsAsAsked` (`PeriodAsAsked`): `per` is the quotient that was written last, and a quotient by its
  divisor stays within one divisor of the clock. Stated for TCs, as the property is.
* `DutiesAsAsked` (`DutyAsAsked`), if the duty of a TCC is set once (`SetAgain \subseteq Tcs`). `DutyInv`: until
  a first duty the compare value is 0, and or-ing into 0 writes. Of the operator `|` only this and that it
  fits its register is assumed (`OrAssumption`, which TLC evaluates for the real one). With a second
  duty TLC refutes the property (pwm.c:218).
* `BlocksArrive` (`BeatsAsAsked`) and `CompletionIsHonest` (`CompleteIsHonest`), for one caller that keeps the rules of
  section 2 (`"handler" \notin DmaCallers`, `DmaMay = {}`), and blocks of any size, words included. `CallInv`: during a call
  CHID is still the channel of that call. `MadeInv`: while a descriptor is being made its channel does not wait for
  it, and the fields stored so far are those of the block of the call, so what can be fetched is whole.
  `TransferInv`: the flag is set only when the last beat has been moved since the channel was enabled.

The other assumptions are the `ASSUME`s of the modules (`HalfRangeAssumption`, `MaxAssumption`,
`KeysAssumption`, `KernelAssumption`, `ControlAssumption`, `SerialAssumption`, `SercomAssumption`,
`PwmAssumption`, `OrAssumption` and those of `Uart` and `Dma`).

Only model-checked: liveness (`DelayEnds`, `WaitEnds`, `TransferEnds`, `ArrivalReported`, `SendEnds`,
`HostMaySendAgain`, `CallEnds`), which is beyond the proof system together with `ENABLED`. Every invariant and
every action property of a passing run is also a theorem.

## 6. Findings

Each is the counterexample of a run whose property restates a line of the repository.

| Run | What happens | Against |
|---|---|---|
| `full_table` | with as many processes as slots, a full queue of blocked processes loses one and copies another (rtos_process.c:231) | rtos_config.h:9 |
| `delay_range` | a delay of 2^31 ticks or more ends at once (rtos_time.c:13) | rtos_time.h:29 |
| `preempt_sos` | the first preemption ends in `SOS`, because CONTROL reads 0 in handlers (rtos_process.c:250) | README.md:6 |
| `ready_starvation` | a process whose condition already holds keeps a new one from starting (rtos_process.c:124) | README.md:5 |
| `usb_overlap` | RXSTP and an old TRCPT1 in one pass: the new packet is overwritten while armed (usb_samd.c:305) | usb.h:97 |
| `usb_lost_wakeup` | an interrupt before `usb_proc_loop` starts is forgotten and stays masked (main.c:148) | usb.h:55 |

Also seen, and not turned into runs: a reset inside the few instructions between reading and
handling TRCPT1 of a SetAddress sets an address after the reset; `usb_serial_send_buffer` while busy
overwrites a packet, and a read without a packet or of a part of one loses data (callers must look
first, as the `usb_serial` run assumes); a packet of length 0 stops the serial port, and a packet not
read before the host configures the device again is overwritten while its length stays;
requests of the vendor type, and of the class type for
another interface, are neither answered nor stalled, so that their transfer hangs until the host gives it up
(usb.c:209-288); SET_LINE_ENCODING stores the SETUP packet instead of its data stage; the compare value is or-ed into
CC0 (time.c:147); the period of a TCC cannot be set, and its duty only once (pwm.c:157, 218); DMA blocks of words start
and end at the wrong address (dma.c:45); `dma_transfer_complete` has no return for "yes" (dma.c:111);
`dma_set_channel` accepts channels 10 and 11, for which `DMA_CHANNELS` leaves no descriptor (dma.c:7);
the SPI baud register keeps 8 bits of rates below 93.75 kHz (spi.c:30); `pwm_init_tc` takes TC4, which is
the system's clock (pwm.c:52); `delay_8c(0)` wraps (time.c:68).

## 7. Not modelled

* Descriptor contents, pad calibration, speed selection, detaching: configuration and data.
* The port driver: each call is one write to a set, clear or toggle register, or one register per pin.
* Clock set-up, baud values and busy delays (`time.c`, `spi_set_baud`): arithmetic without later state.
* Saved registers, stack bounds and alignment: below the level of the model.
* Callers that dispatch a queued process, or re-initialise a running one.
* Dispatch from interrupt handlers. rtos_process.h:123 calls `dispatch_process` "completely thread safe"; here only
  processes and the OS call it, so the claim is neither checked nor proved for handlers.
* Linked DMA blocks, several PWM channels of a counter, the rounding of floating point
  numbers, and what a peripheral does beyond the flags the drivers poll.
* The I2C, EEPROM and DMA-SPI drivers that main.c includes: the repository does not hold them.

## 8. Plan

Done, in this order: `RtosTime`, `ProcessQueue`, `RtosKernel` with `RtosApi`, `QueueLoops`,
`UsbEndpoint`, `UsbInterrupt`, `UsbControl`, `UsbSerial`; then resets and reconfiguration of `UsbSerial`
with `SerialPipe`, and the drivers; the theorems of section 5.

Next, modelling:
1. `UsbControl` and the kernel together: the USB process as a kernel process, its `wait_until` on
   `usb_interrupt` as a kernel wait, so that `WF(Device)` follows from `WaitEnds`.
2. The timer driver: the or-ed compare register and the preemption quantum.
3. Dispatch from interrupt handlers.

Next, proofs: no safety property of a passing run is left without a theorem. What is left is to weaken
hypotheses: `KernelImplementsApi` and what stands on it for a table that is full but never of blocked
processes only; `BlocksArrive` for several callers whose calls do not overlap.
