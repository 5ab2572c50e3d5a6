------------------------------ MODULE RtosKernel ------------------------------
(***************************************************************************)
(* The kernel of samd21_rtos: rtos_main.c, rtos_process.c, rtos_time.c    *)
(* and rtos_preemption.c, over the process table of ProcessQueue.         *)
(*                                                                         *)
(* One thread of control moves between the OS loop and the processes;     *)
(* "os" says where it is.  Code that runs between __disable_irq and       *)
(* __enable_irq is one step unless the clock or a callback can be         *)
(* observed inside it: next_process reads both once per entry, so its     *)
(* loop takes one step per entry.  The tick counter, the compare match    *)
(* of TC4 and the interrupt handlers run between any two steps, the       *)
(* handlers only while PRIMASK is clear.                                   *)
(*                                                                         *)
(* Left out: saved registers and stack pointers (a process is resumed     *)
(* where program_counter says), the stack bounds, and callers that break  *)
(* the API by initialising or dispatching a process that is queued or     *)
(* running.                                                                *)
(***************************************************************************)
EXTENDS RtosTime, ProcessQueue

CONSTANTS
  MainProcess,     \* _mainproc
  Flags,           \* the variables processes wait on
  FlagValues,      \* the values the application writes to them
  Waits,           \* the Process_Wait_Until_Data that processes build
  DelayTicks,      \* the arguments of rtos_delay_ctick
  PreemptProcesses,\* the processes whose enable_preempt may be set
  MaxDelayLag,     \* bounds on how far time may run past the deadline of a
  MaxReadyLag,     \* queued process: in a delay, in a wait whose condition
  MaxWaitLag       \* holds, in any other wait

(* Process_State. *)
Ready == 0
Running == 1
Blocked == 2
Done == 3
ProcessState == {Ready, Running, Blocked, Done}

(* Values a comparison tells apart; the codes of Process_State are words, *)
(* because join_process and wait_until_started wait on a status.          *)
Word == 0 .. 3

Conditions == {"Equal", "NotEqual", "Greater", "GEqual", "Less", "LEqual", "None"}

(* Process_Wait_Until_Data.  A variable holds what the wait's mask selects *)
(* of it; mask 1 stands for any nonzero mask.                              *)
WaitData == [variable : Flags \cup Processes, value : Word, mask : {0, 1},
             callback : {"none", "user", "rtos_delay_callback"},
             condition : Conditions \cup {"unknown"}]

ASSUME KernelAssumption ==
  /\ MainProcess \in Processes
  /\ Flags \cap Processes = {}
  /\ FlagValues \subseteq Word
  /\ Waits \subseteq WaitData
  /\ DelayTicks \subseteq Ticks
  /\ PreemptProcesses \subseteq Processes
  /\ MaxDelayLag \in Nat /\ MaxReadyLag \in Nat /\ MaxWaitLag \in Nat

(* What rtos_delay_ctick builds. *)
DelayData == [variable |-> MainProcess, value |-> 0, mask |-> 0,
              callback |-> "rtos_delay_callback", condition |-> "None"]
NoData == [DelayData EXCEPT !.callback = "none"]

VARIABLES
  now,             \* TC4 COUNT, what time_read_ticks returns
  status, return_deadline, internal_data, program_counter, enable_preempt,
  flags,           \* the application's variables
  current_process,
  os,              \* where the thread of control is
  blocked_count,   \* the loop counter of next_process
  primask,         \* 1 while interrupts are masked
  tc4_enabled,     \* TC4 is enabled in the NVIC
  tc4_flag,        \* INTFLAG.MC0: the compare match happened
  disabling,       \* the process is between the two writes of disable_preempt
  dispatch_result, \* what the running process's last dispatch_process returned
  remaining        \* history: ticks of a delay still to pass

processVars == <<status, return_deadline, internal_data, program_counter, enable_preempt>>
preemptVars == <<tc4_enabled, tc4_flag, disabling>>
vars == <<queueVars, now, processVars, flags, current_process, os, blocked_count,
          primask, preemptVars, dispatch_result, remaining>>

(* The thread of control is at the head of the loop of rtos_main; in the  *)
(* scan of next_process; between its end and switch_process; in a process;*)
(* back in switch_process; at the dispatch_process of rtos_main; after the *)
(* loop; in SOS.                                                           *)
OsStates == {"loop", "scan", "switch", "process", "return", "dispatch", "exit", "sos"}
InHand == os \in {"switch", "process", "return", "dispatch"}
Free(q) == q \notin Queued /\ ~(InHand /\ q = current_process)

-----------------------------------------------------------------------------
(* rtos_main up to its loop: the main process is initialised and queued.  *)
Init ==
  /\ now = 0
  /\ process_queue = [s \in Slots |-> IF s = 0 THEN MainProcess ELSE NoProcess]
  /\ process_queue_head = 0
  /\ process_queue_tail = 1
  /\ process_count = 1
  /\ status = [p \in Processes |-> Ready]
  /\ return_deadline = [p \in Processes |-> 0]
  /\ internal_data = [p \in Processes |-> NoData]
  /\ program_counter =
       [p \in Processes |-> IF p = MainProcess THEN "procFunction" ELSE "none"]
  /\ enable_preempt \in [Processes -> {0, 1}]
  /\ \A p \in Processes : enable_preempt[p] = 1 => p \in PreemptProcesses \cap {MainProcess}
  /\ flags = [f \in Flags |-> 0]
  /\ current_process = NoProcess
  /\ os = "loop"
  /\ blocked_count = 0
  /\ primask = 0
  /\ tc4_enabled = 0 /\ tc4_flag = 0 /\ disabling = FALSE
  /\ dispatch_result = TRUE
  /\ remaining = [p \in Processes |-> 0]

-----------------------------------------------------------------------------
(* dispatch_process: the time to deadline that orders the queue.           *)
UnsignedTimeToDeadline ==   \* mutant: compared without the cast to int
  [p \in Processes |->
     IF status[p] = Ready THEN 0 ELSE TickSub(return_deadline[p], now)]
TimeToDeadline ==
  [p \in Processes |->
     IF status[p] = Ready THEN 0 ELSE AsInt(TickSub(return_deadline[p], now))]

(* Both refusals return with the interrupts still masked. *)
DispatchUnchecked(p, result) ==   \* mutant: a finished process is accepted
  /\ process_count < MAX
  /\ \E k \in 0 .. process_count :
       InsertionPoint(k, TimeToDeadline, TimeToDeadline[p]) /\ Insert(p, k)
  /\ primask' = 0
  /\ result = TRUE
DispatchStaysMasked(p, result) ==   \* mutant: no __enable_irq after the insertion
  \/ (status[p] = Done \/ process_count >= MAX) /\ result = FALSE /\ UNCHANGED queueVars /\ primask' = 1
  \/ /\ status[p] # Done /\ process_count < MAX /\ result = TRUE
     /\ \E k \in 0 .. process_count :
          InsertionPoint(k, TimeToDeadline, TimeToDeadline[p]) /\ Insert(p, k)
     /\ primask' = 1
DispatchProcess(p, result) ==
  \/ /\ status[p] = Done \/ process_count >= MAX
     /\ primask' = 1
     /\ result = FALSE
     /\ UNCHANGED queueVars
  \/ /\ status[p] # Done /\ process_count < MAX
     /\ \E k \in 0 .. process_count :
          InsertionPoint(k, TimeToDeadline, TimeToDeadline[p]) /\ Insert(p, k)
     /\ primask' = 0
     /\ result = TRUE

SOS == os' = "sos" /\ primask' = 1

(* yield_process, up to the return into switch_process.  CONTROL reads 0  *)
(* on the OS stack and in every interrupt handler.                         *)
YieldProcess(control, process_status) ==
  \/ control = 0 /\ SOS /\ UNCHANGED <<status, program_counter>>
  \/ /\ control # 0
     /\ status' = [status EXCEPT ![current_process] = process_status]
     /\ program_counter' = [program_counter EXCEPT ![current_process] = "yield"]
     /\ primask' = 1
     /\ os' = "return"

-----------------------------------------------------------------------------
(* The OS loop. *)

LoopHead ==
  /\ os = "loop"
  /\ \/ process_count = 0 /\ os' = "exit" /\ UNCHANGED <<primask, blocked_count>>
     \/ process_count # 0 /\ os' = "scan" /\ primask' = 1 /\ blocked_count' = 0
  /\ UNCHANGED <<queueVars, now, processVars, flags, current_process, preemptVars,
                 dispatch_result, remaining>>

(* The end of next_process when a process has been found. *)
TakeOut ==
  /\ Remove(blocked_count)
  /\ primask' = 0
  /\ os' = "switch"
  /\ blocked_count' = 0

Scanning(p) ==
  /\ os = "scan"
  /\ blocked_count < process_count
  /\ p = Entry(blocked_count)
  /\ current_process' = p
  /\ UNCHANGED <<now, return_deadline, internal_data, program_counter, enable_preempt,
                 preemptVars, dispatch_result, remaining>>

(* rtos_delay_callback. *)
DelayElapsedNoWrap(p) == return_deadline[p] <= now   \* mutant: absolute comparison
DelayElapsedExactly(p) == return_deadline[p] = now   \* mutant: a late look misses it
DelayElapsed(p) == AsInt(TickSub(return_deadline[p], now)) <= 0

(* The application's callbacks may refresh the variable the wait reads. *)
FlagsAfterCallback(data) ==
  IF data.callback = "user" /\ data.variable \in Flags
  THEN {[flags EXCEPT ![data.variable] = v] : v \in FlagValues}
  ELSE {flags}

(* What the local "variable" of next_process may hold: with a zero mask it *)
(* is never assigned.                                                      *)
VariableReads(data, memory) ==
  IF data.mask = 0 THEN Word
  ELSE IF data.variable \in Processes THEN {status[data.variable]}
  ELSE {memory[data.variable]}

HoldsSwapped(condition, x, value) ==   \* mutant: Equal and NotEqual exchanged
  \/ condition = "NotEqual" /\ x = value
  \/ condition = "Equal" /\ x # value
Holds(condition, x, value) ==
  \/ condition = "Equal" /\ x = value
  \/ condition = "NotEqual" /\ x # value
  \/ condition = "Greater" /\ x > value
  \/ condition = "GEqual" /\ x >= value
  \/ condition = "Less" /\ x < value
  \/ condition = "LEqual" /\ x <= value

(* The entry is not blocked. *)
ScanNotBlocked(p) ==
  /\ Scanning(p)
  /\ status[p] # Blocked
  /\ TakeOut
  /\ UNCHANGED <<status, flags>>

(* Its callback sets it running. *)
ScanCallbackUnblocks(p) ==
  /\ Scanning(p)
  /\ status[p] = Blocked
  /\ internal_data[p].callback = "rtos_delay_callback" /\ DelayElapsed(p)
  /\ status' = [status EXCEPT ![p] = Running]
  /\ TakeOut
  /\ UNCHANGED flags

(* Its callback, if any, leaves it blocked, and its variable is compared. *)
ScanCompares(p, x) ==
  /\ Scanning(p)
  /\ status[p] = Blocked
  /\ ~(internal_data[p].callback = "rtos_delay_callback" /\ DelayElapsed(p))
  /\ flags' \in FlagsAfterCallback(internal_data[p])
  /\ x \in VariableReads(internal_data[p], flags')
  /\ LET data == internal_data[p] IN
       \/ /\ Holds(data.condition, x, data.value)
          /\ status' = [status EXCEPT ![p] = Running]
          /\ TakeOut
       \/ /\ ~Holds(data.condition, x, data.value)
          /\ data.condition # "unknown"
          /\ blocked_count' = blocked_count + 1
          /\ UNCHANGED <<queueVars, status, primask, os>>
       \* the default case returns 0: rtos_main leaves its loop for SOS
       \/ /\ data.condition = "unknown"
          /\ SOS
          /\ UNCHANGED <<queueVars, status, blocked_count>>

(* Every entry is blocked: the last one is taken out without running.     *)
NoneRunnableDropped ==   \* mutant: what is not run is not dispatched again
  /\ os = "scan"
  /\ blocked_count = process_count
  /\ Remove(blocked_count)
  /\ primask' = 0
  /\ os' = "loop"
  /\ blocked_count' = 0
  /\ UNCHANGED <<now, processVars, flags, current_process, preemptVars,
                 dispatch_result, remaining>>
NoneRunnable ==
  /\ os = "scan"
  /\ blocked_count = process_count
  /\ Remove(blocked_count)
  /\ primask' = 0
  /\ os' = "dispatch"
  /\ blocked_count' = 0
  /\ UNCHANGED <<now, processVars, flags, current_process, preemptVars,
                 dispatch_result, remaining>>

(* switch_process, up to the jump into the process.                       *)
SwitchProcess ==
  /\ os = "switch"
  /\ os' = "process"
  /\ status' = [status EXCEPT ![current_process] = Done]
  /\ IF enable_preempt[current_process] = 1
     THEN tc4_enabled' = 1 /\ tc4_flag' = 0 /\ UNCHANGED disabling
     ELSE UNCHANGED preemptVars
  /\ primask' = 0
  /\ dispatch_result' = TRUE
  /\ UNCHANGED <<queueVars, now, return_deadline, internal_data, program_counter,
                 enable_preempt, flags, current_process, blocked_count, remaining>>

(* switch_process, after the process has yielded or returned.             *)
ReturnsStillEnabled ==   \* mutant: TC4 is not disabled on the way back
  /\ os = "return"
  /\ os' = "dispatch"
  /\ primask' = 0
  /\ UNCHANGED <<queueVars, now, processVars, flags, current_process, blocked_count,
                 preemptVars, dispatch_result, remaining>>
ProcessReturns ==
  /\ os = "return"
  /\ os' = "dispatch"
  /\ tc4_enabled' = IF enable_preempt[current_process] = 1 THEN 0 ELSE tc4_enabled
  /\ primask' = 0
  /\ UNCHANGED <<queueVars, now, processVars, flags, current_process, blocked_count,
                 tc4_flag, disabling, dispatch_result, remaining>>

Redispatch ==
  /\ os = "dispatch"
  /\ os' = "loop"
  /\ \E result \in BOOLEAN : DispatchProcess(current_process, result)
  /\ UNCHANGED <<now, processVars, flags, current_process, blocked_count,
                 preemptVars, dispatch_result, remaining>>

OsStep ==
  \/ LoopHead \/ NoneRunnable \/ SwitchProcess \/ ProcessReturns \/ Redispatch
  \/ \E p \in Processes :
       \/ ScanNotBlocked(p) \/ ScanCallbackUnblocks(p)
       \/ \E x \in Word : ScanCompares(p, x)

-----------------------------------------------------------------------------
(* What a running process may do. *)

InProcess ==
  /\ os = "process" /\ ~disabling
  /\ UNCHANGED <<now, blocked_count, current_process>>

(* init_process, with the enable_preempt = true some callers add to it.   *)
InitProcess(q, preempt) ==
  /\ InProcess /\ Free(q)
  /\ preempt = 1 => q \in PreemptProcesses
  /\ status' = [status EXCEPT ![q] = Ready]
  /\ return_deadline' = [return_deadline EXCEPT ![q] = now]
  /\ program_counter' = [program_counter EXCEPT ![q] = "procFunction"]
  /\ enable_preempt' = [enable_preempt EXCEPT ![q] = preempt]
  /\ UNCHANGED <<queueVars, internal_data, flags, os, primask, preemptVars,
                 dispatch_result, remaining>>

ResetProcess(q) ==
  /\ InProcess /\ Free(q)
  /\ program_counter[q] # "none"
  /\ status' = [status EXCEPT ![q] = Ready]
  /\ return_deadline' = [return_deadline EXCEPT ![q] = now]
  /\ program_counter' = [program_counter EXCEPT ![q] = "procFunction"]
  /\ UNCHANGED <<queueVars, internal_data, enable_preempt, flags, os, primask,
                 preemptVars, dispatch_result, remaining>>

(* A finished process may be passed too: that is the refusal of line 113. *)
Dispatch(q) ==
  /\ InProcess /\ Free(q)
  /\ program_counter[q] # "none"
  /\ dispatch_result' \in BOOLEAN
  /\ DispatchProcess(q, dispatch_result')
  /\ UNCHANGED <<processVars, flags, os, preemptVars, remaining>>

WriteFlag(f, v) ==
  /\ InProcess
  /\ flags' = [flags EXCEPT ![f] = v]
  /\ UNCHANGED <<queueVars, processVars, os, primask, preemptVars,
                 dispatch_result, remaining>>

(* wait_until and wait_until_callback. *)
WaitUntil(data) ==
  /\ InProcess
  /\ return_deadline' = [return_deadline EXCEPT ![current_process] = now]
  /\ internal_data' = [internal_data EXCEPT ![current_process] = data]
  /\ YieldProcess(2, Blocked)
  /\ UNCHANGED <<queueVars, enable_preempt, flags, preemptVars, dispatch_result, remaining>>

(* rtos_delay_ctick. *)
Delay(n) ==
  /\ InProcess
  /\ return_deadline' = [return_deadline EXCEPT ![current_process] = TickAdd(now, n)]
  /\ internal_data' = [internal_data EXCEPT ![current_process] = DelayData]
  /\ YieldProcess(2, Blocked)
  /\ remaining' = [remaining EXCEPT ![current_process] = n]
  /\ UNCHANGED <<queueVars, enable_preempt, flags, preemptVars, dispatch_result>>

(* The process function returns. *)
Finish ==
  /\ InProcess
  /\ os' = "return"
  /\ UNCHANGED <<queueVars, processVars, flags, primask, preemptVars,
                 dispatch_result, remaining>>

EnablePreempt ==
  /\ InProcess /\ current_process \in PreemptProcesses
  /\ enable_preempt' = [enable_preempt EXCEPT ![current_process] = 1]
  /\ tc4_enabled' = 1
  /\ UNCHANGED <<queueVars, status, return_deadline, internal_data, program_counter,
                 flags, os, primask, tc4_flag, disabling, dispatch_result, remaining>>

(* disable_preempt makes two writes with interrupts on, and a compare     *)
(* match between them still finds TC4 enabled in the NVIC.  (Those of      *)
(* enable_preempt are one step: TC4 is off between them, and nothing else  *)
(* looks at enable_preempt while the process runs.)                        *)
DisablePreempt ==
  /\ InProcess /\ current_process \in PreemptProcesses
  /\ enable_preempt' = [enable_preempt EXCEPT ![current_process] = 0]
  /\ disabling' = TRUE
  /\ UNCHANGED <<queueVars, status, return_deadline, internal_data, program_counter,
                 flags, os, primask, tc4_enabled, tc4_flag, dispatch_result, remaining>>

PreemptDisableInterrupts ==
  /\ os = "process" /\ disabling
  /\ tc4_enabled' = 0
  /\ disabling' = FALSE
  /\ UNCHANGED <<queueVars, now, processVars, flags, current_process, os, blocked_count,
                 primask, tc4_flag, dispatch_result, remaining>>

(* The steps that give control back to the OS, and the others. *)
ProcessYields ==
  \/ \E data \in Waits : WaitUntil(data)
  \/ \E n \in DelayTicks : Delay(n)
  \/ Finish

ProcessStep ==
  \/ ProcessYields
  \/ \E q \in Processes :
       ResetProcess(q) \/ Dispatch(q) \/ \E preempt \in {0, 1} : InitProcess(q, preempt)
  \/ \E f \in Flags, v \in FlagValues : WriteFlag(f, v)
  \/ EnablePreempt \/ DisablePreempt \/ PreemptDisableInterrupts

-----------------------------------------------------------------------------
(* The hardware and the interrupt handlers. *)

(* The counter advances, unless a process in the hands of the OS is already *)
(* as late as the bounds allow (no limit above half the counter's range).  *)
Waiting(p) ==
  \/ p \in Queued
  \/ os \in {"return", "dispatch"} /\ p = current_process /\ status[p] # Done
Lag(p) == - AsInt(TickSub(return_deadline[p], now))

(* The condition p waits for is true of a flag. *)
ConditionHolds(p) ==
  LET data == internal_data[p] IN
  /\ status[p] = Blocked
  /\ data.mask = 1 /\ data.variable \in Flags
  /\ Holds(data.condition, flags[data.variable], data.value)

MaxLag(p) ==
  IF internal_data[p] = DelayData THEN MaxDelayLag
  ELSE IF ConditionHolds(p) THEN MaxReadyLag ELSE MaxWaitLag

Tick ==
  /\ \A p \in Processes : Waiting(p) /\ status[p] # Ready => Lag(p) < MaxLag(p)
  /\ now' = TickAdd(now, 1)
  /\ remaining' = [p \in Processes |-> IF remaining[p] = 0 THEN 0 ELSE remaining[p] - 1]
  /\ UNCHANGED <<queueVars, processVars, flags, current_process, os, blocked_count,
                 primask, preemptVars, dispatch_result>>

(* A handler of the application writes a variable some process waits on.  *)
FlagInterrupt(f, v) ==
  /\ primask = 0
  /\ flags' = [flags EXCEPT ![f] = v]
  /\ UNCHANGED <<queueVars, now, processVars, current_process, os, blocked_count,
                 primask, preemptVars, dispatch_result, remaining>>

(* TC4's counter reaches CC0, whatever it holds.  The flag is only looked *)
(* at when some process is preemptive.                                     *)
CompareMatch ==
  /\ PreemptProcesses # {} /\ tc4_flag = 0
  /\ tc4_flag' = 1
  /\ UNCHANGED <<queueVars, now, processVars, flags, current_process, os, blocked_count,
                 primask, tc4_enabled, disabling, dispatch_result, remaining>>

(* rtos_preemption_handler, an interrupt handler: CONTROL reads 0 in it.  *)
TC4_Handler ==
  /\ tc4_enabled = 1 /\ tc4_flag = 1 /\ primask = 0
  /\ tc4_flag' = 0
  /\ return_deadline' = [return_deadline EXCEPT ![current_process] = now]
  /\ YieldProcess(0, Running)
  /\ UNCHANGED <<queueVars, now, internal_data, enable_preempt, flags, current_process,
                 blocked_count, tc4_enabled, disabling, dispatch_result, remaining>>

Environment ==
  \/ Tick
  \/ CompareMatch
  \/ \E f \in Flags, v \in FlagValues : FlagInterrupt(f, v)

Next == OsStep \/ ProcessStep \/ TC4_Handler \/ Environment

Spec == Init /\ [][Next]_vars

(* The processor runs the OS; every process gives control back in the end *)
(* (the scheduler is cooperative) and finishes a call it has begun; the    *)
(* counter counts, whenever the bounds on its lead over the processes      *)
(* allow it again and again.                                               *)
FairSpec ==
  /\ Spec
  /\ WF_vars(OsStep) /\ WF_vars(ProcessYields) /\ WF_vars(PreemptDisableInterrupts)
  /\ SF_vars(Tick)

-----------------------------------------------------------------------------
(* Properties.  Each one's comment names the code it is about.             *)

ProcessTypeOK ==
  /\ status \in [Processes -> ProcessState]
  /\ return_deadline \in [Processes -> Ticks]
  /\ internal_data \in [Processes -> Waits \cup {DelayData, NoData}]
  /\ program_counter \in [Processes -> {"none", "procFunction", "yield"}]
  /\ enable_preempt \in [Processes -> {0, 1}]
  /\ remaining \in [Processes -> Ticks]

ControlTypeOK ==
  /\ now \in Ticks
  /\ flags \in [Flags -> Word]
  /\ current_process \in Processes \cup {NoProcess}
  /\ os \in OsStates
  /\ blocked_count \in 0 .. MAX
  /\ primask \in {0, 1}
  /\ tc4_enabled \in {0, 1}
  /\ tc4_flag \in {0, 1}
  /\ disabling \in BOOLEAN
  /\ dispatch_result \in BOOLEAN

(* Types; the loop counter of next_process stays within a queue that is   *)
(* not empty, which line 234 relies on when it decrements the count; and   *)
(* current_process points to a process wherever the code follows it.       *)
TypeOK ==
  /\ QueueTypeOK /\ ProcessTypeOK /\ ControlTypeOK
  /\ os = "scan" =>
       /\ process_count > 0 /\ blocked_count <= process_count
       /\ blocked_count > 0 =>
            current_process \in Processes /\ current_process = Entry(blocked_count - 1)
  /\ InHand \/ tc4_enabled = 1 => current_process \in Processes

(* The buffer and its counters agree, no process is queued twice, and the *)
(* process the OS has in its hands is not queued as well: whatever mix of *)
(* insertions, removals and rotations led here, next_process and           *)
(* dispatch_process (lines 109-244) neither lose an entry nor copy one.    *)
QueueSound ==
  /\ QueueOK
  /\ NoDuplicate
  /\ InHand => current_process \notin Queued

(* What is queued can be run: it has been initialised, it has not          *)
(* finished, and it is entered at its function exactly when it has not     *)
(* started.  The code never checks this before the jump at line 72.        *)
QueuedRunnable ==
  \A p \in Processes :
    p \in Queued \/ (os = "switch" /\ p = current_process) =>
      /\ program_counter[p] # "none"
      /\ status[p] # Done
      /\ status[p] = Ready <=> program_counter[p] = "procFunction"

(* Earliest deadline first: the started processes are queued in the order *)
(* of their deadlines, although each insertion compares signed distances  *)
(* from the clock at its own time, and a process that has not started     *)
(* counts as due at every one of them (lines 124-145).                     *)
EarliestDeadlineFirst ==
  LET started == {i \in Entries : status[Entry(i)] # Ready}
      Due(i) == AsInt(TickSub(return_deadline[Entry(i)], now))
  IN \A i, j \in started : i < j => Due(i) <= Due(j)

(* A process that asked for a delay is not resumed before that many ticks *)
(* have passed (rtos_time.h:29), however often the OS looks at it, and     *)
(* whether or not the counter wraps in between.                            *)
DelayAtLeast ==
  os \in {"switch", "process"} => remaining[current_process] = 0

(* Interrupts are masked while a process runs only when its own call of    *)
(* dispatch_process was refused: the early returns of lines 114 and 118    *)
(* skip the __enable_irq of line 153.                                      *)
MaskedOnlyByRefusal ==
  os = "process" => (primask = 1 <=> ~dispatch_result)

(* TC4's interrupt can only fire on behalf of a process that asks for      *)
(* preemption, or that is still at its second write of disable_preempt: no *)
(* exit from the process leaves it enabled for the OS loop or for the next *)
(* process (lines 41-45 and 89-91).  switch_process goes by enable_preempt *)
(* to turn it off, so no exit may come between the two writes; the one     *)
(* that can, a compare match, is stopped by the check of CONTROL and ends  *)
(* in SOS.                                                                 *)
PreemptConfined ==
  /\ tc4_enabled = 1 =>
       /\ os \in {"process", "return", "sos"}
       /\ enable_preempt[current_process] = 1 \/ disabling
  /\ disabling => os \in {"process", "sos"}

(* A process that joins another one is unblocked only when that one has    *)
(* returned: the status Done that a process also has while it runs (line   *)
(* 53) is never seen by the scan.                                          *)
JoinMeansFinished ==
  [][\A p \in Processes :
       LET data == internal_data[p] IN
       /\ status[p] = Blocked /\ status'[p] = Running
       /\ data.variable \in Processes /\ data.value = Done
       /\ data.condition = "Equal" /\ data.mask = 1
       => /\ data.variable \notin Queued
          /\ status[data.variable] = Done
          /\ ~InHand]_vars

(* A delayed process runs again: no other process, waiting or new, can     *)
(* overtake it for ever once its deadline has passed (lines 124-145 and    *)
(* 166-223).                                                               *)
Runs(p) == os = "process" /\ current_process = p

DelayEnds ==
  \A p \in Processes :
    (status[p] = Blocked /\ internal_data[p] = DelayData) ~> Runs(p)

(* A process whose condition stays true runs again, even if others yield   *)
(* over and over.  That takes a condition that has become true before half *)
(* the range of the counter has gone by: after that the deadline counts as *)
(* a future one and later processes overtake it (line 135).                *)
WaitEnds ==
  \A p \in Processes :
    ConditionHolds(p) /\ Lag(p) >= 0 ~> Runs(p) \/ ~ConditionHolds(p)

(* The processor never ends in SOS while the table holds processes it      *)
(* could run, whether or not one of them is preemptive.                    *)
NoSOS == os # "sos"

(* A dispatched process is started, whatever the others wait for.          *)
NewProcessStarts ==
  \A p \in Processes : p \in Queued /\ status[p] = Ready ~> Runs(p)

(* The life of a process as its callers know it, for RtosApi.  A process   *)
(* that SOS cut off is finished.                                           *)
Phase ==
  [p \in Processes |->
     IF os = "process" /\ p = current_process THEN "running"
     ELSE IF Waiting(p) \/ (os = "switch" /\ p = current_process) THEN "waiting"
     ELSE IF status[p] = Done THEN "finished"
     ELSE "idle"]

Api == INSTANCE RtosApi WITH phase <- Phase

(* The kernel implements the abstract life of processes: no interleaving   *)
(* of calls, interrupts and polling makes it drop a dispatched process,    *)
(* run two, or resume a finished one.                                      *)
ImplementsApi == Api!Spec
=============================================================================
