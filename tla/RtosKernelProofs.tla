--------------------------- MODULE RtosKernelProofs ---------------------------
(***************************************************************************)
(* Theorems about the kernel, for any number of processes, any table size,*)
(* any width of the counter and any application.                           *)
(***************************************************************************)
EXTENDS RtosKernel, ProcessQueueProofs, TLAPS

-----------------------------------------------------------------------------
(* The counter's arithmetic stays in the counter's range.                  *)

LEMMA TickAddType == ASSUME NEW a \in Ticks, NEW b \in Ticks PROVE TickAdd(a, b) \in Ticks
BY HalfRangeAssumption DEF Ticks, TickRange, TickAdd

LEMMA TickSubType == ASSUME NEW a \in Ticks, NEW b \in Ticks PROVE TickSub(a, b) \in Ticks
BY HalfRangeAssumption DEF Ticks, TickRange, TickSub

LEMMA AsIntType == ASSUME NEW a \in Ticks PROVE AsInt(a) \in Int
BY HalfRangeAssumption DEF Ticks, TickRange, AsInt

(* One more tick is in the range too. *)
LEMMA OneTick == 1 \in Ticks
BY HalfRangeAssumption DEF Ticks, TickRange

-----------------------------------------------------------------------------
(* The kernel. *)

LEMMA InitTypeOK == Init => TypeOK
<1> SUFFICES ASSUME Init PROVE TypeOK
  OBVIOUS
<1>1. QueueTypeOK
  BY MaxAssumption, KernelAssumption DEF Init, QueueTypeOK, Slots, MAX
<1>2. ProcessTypeOK
  BY HalfRangeAssumption DEF Init, ProcessTypeOK, ProcessState, Ready, Ticks, TickRange
<1>3. ControlTypeOK
  <2>1. disabling \in BOOLEAN /\ dispatch_result \in BOOLEAN
    BY Zenon DEF Init
  <2>2. now \in Ticks /\ blocked_count \in 0 .. MAX /\ flags \in [Flags -> Word]
    BY HalfRangeAssumption, MaxAssumption DEF Init, Ticks, TickRange, Word, MAX
  <2> QED BY <2>1, <2>2 DEF Init, ControlTypeOK, OsStates
<1> QED BY <1>1, <1>2, <1>3 DEF TypeOK, Init, InHand

(* Both outcomes of dispatch_process keep the buffer well typed.           *)
LEMMA DispatchType ==
  ASSUME QueueTypeOK, NEW p \in Processes, NEW r, DispatchProcess(p, r)
  PROVE  QueueTypeOK' /\ primask' \in {0, 1}
<1>1. CASE UNCHANGED queueVars /\ primask' = 1
  BY <1>1 DEF queueVars, QueueTypeOK
<1>2. CASE /\ process_count < MAX /\ primask' = 0
           /\ \E k \in 0 .. process_count : Insert(p, k)
  BY <1>2, InsertType
<1> QED BY <1>1, <1>2 DEF DispatchProcess

(* What ends next_process keeps the types. *)
LEMMA RemoveStepType ==
  ASSUME TypeOK, os = "scan", NEW b \in 0 .. process_count, Remove(b)
  PROVE  QueueTypeOK'
BY RemoveType DEF TypeOK, QueueTypeOK

(* A callback of the application leaves words in the flags.                *)
LEMMA FlagsAfterCallbackType ==
  ASSUME ControlTypeOK, NEW data, NEW fl \in FlagsAfterCallback(data)
  PROVE  fl \in [Flags -> Word]
BY KernelAssumption DEF ControlTypeOK, FlagsAfterCallback

LEMMA OsStepTypeOK == ASSUME TypeOK, OsStep PROVE TypeOK'
<1> USE DEF TypeOK, OsStates
<1>1. CASE LoopHead
  <2>1. QueueTypeOK' /\ ProcessTypeOK'
    BY <1>1 DEF LoopHead, queueVars, processVars, QueueTypeOK, ProcessTypeOK
  <2>2. ControlTypeOK'
    BY <1>1, MaxAssumption DEF LoopHead, ControlTypeOK, preemptVars, MAX
  <2>3. os' = "scan" => process_count' > 0 /\ blocked_count' = 0
    BY <1>1 DEF LoopHead, queueVars, QueueTypeOK
  <2>4. os' = "scan" => blocked_count' <= process_count' /\ ~(blocked_count' > 0)
    BY <2>1, <2>3 DEF QueueTypeOK
  <2> QED BY <1>1, <2>1, <2>2, <2>3, <2>4 DEF LoopHead, InHand, preemptVars
<1>2. CASE NoneRunnable
  <2>1. blocked_count \in 0 .. process_count
    BY <1>2 DEF NoneRunnable, ControlTypeOK, QueueTypeOK
  <2>2. QueueTypeOK'
    BY <1>2, <2>1, RemoveStepType DEF NoneRunnable
  <2>3. ProcessTypeOK'
    BY <1>2 DEF NoneRunnable, processVars, ProcessTypeOK
  <2>4. ControlTypeOK'
    BY <1>2, MaxAssumption DEF NoneRunnable, ControlTypeOK, preemptVars, MAX
  <2>5. (InHand \/ tc4_enabled = 1 => current_process \in Processes)'
    BY <1>2 DEF NoneRunnable, InHand, preemptVars, QueueTypeOK
  <2> QED BY <1>2, <2>2, <2>3, <2>4, <2>5 DEF NoneRunnable
<1>3. CASE SwitchProcess
  <2>1. QueueTypeOK' /\ ControlTypeOK'
    BY <1>3 DEF SwitchProcess, queueVars, preemptVars, QueueTypeOK, ControlTypeOK
  <2>2. ProcessTypeOK'
    BY <1>3 DEF SwitchProcess, ProcessTypeOK, ProcessState, Done
  <2> QED BY <1>3, <2>1, <2>2 DEF SwitchProcess, InHand, preemptVars
<1>4. CASE ProcessReturns
  <2>1. QueueTypeOK' /\ ProcessTypeOK'
    BY <1>4 DEF ProcessReturns, queueVars, processVars, QueueTypeOK, ProcessTypeOK
  <2>2. ControlTypeOK'
    BY <1>4 DEF ProcessReturns, ControlTypeOK
  <2> QED BY <1>4, <2>1, <2>2 DEF ProcessReturns, InHand
<1>5. CASE Redispatch
  <2>1. ProcessTypeOK'
    BY <1>5 DEF Redispatch, processVars, ProcessTypeOK
  <2>2. QueueTypeOK' /\ primask' \in {0, 1}
    BY <1>5, DispatchType DEF Redispatch, InHand
  <2>3. ControlTypeOK'
    BY <1>5, <2>2 DEF Redispatch, ControlTypeOK, preemptVars
  <2> QED BY <1>5, <2>1, <2>2, <2>3 DEF Redispatch, InHand, preemptVars
<1>6. ASSUME NEW p \in Processes, Scanning(p), TakeOut,
             flags' \in [Flags -> Word], status' \in [Processes -> ProcessState]
      PROVE  TypeOK'
  <2>1. QueueTypeOK'
    BY <1>6, RemoveStepType DEF Scanning, TakeOut, ControlTypeOK, QueueTypeOK
  <2>2. ProcessTypeOK'
    BY <1>6 DEF Scanning, ProcessTypeOK
  <2>3. ControlTypeOK'
    BY <1>6, MaxAssumption DEF Scanning, TakeOut, ControlTypeOK, preemptVars, MAX
  <2> QED BY <1>6, <2>1, <2>2, <2>3 DEF Scanning, TakeOut
<1>7. ASSUME NEW p \in Processes, ScanNotBlocked(p) \/ ScanCallbackUnblocks(p)
      PROVE  TypeOK'
  BY <1>6, <1>7
  DEF ControlTypeOK, ScanNotBlocked, ScanCallbackUnblocks, ProcessTypeOK, ProcessState, Running
<1>8. ASSUME NEW p \in Processes, NEW x \in Word, ScanCompares(p, x)
      PROVE  TypeOK'
  <2> USE <1>8
  <2>1. Scanning(p) /\ flags' \in [Flags -> Word]
    BY FlagsAfterCallbackType DEF ScanCompares
  <2>2. CASE TakeOut /\ status' = [status EXCEPT ![p] = Running]
    BY <1>6, <2>1, <2>2 DEF ProcessTypeOK, ProcessState, Running
  <2>3. CASE /\ blocked_count' = blocked_count + 1
             /\ UNCHANGED <<queueVars, status, primask, os>>
    <3>1. QueueTypeOK' /\ ProcessTypeOK'
      BY <2>1, <2>3 DEF Scanning, queueVars, QueueTypeOK, ProcessTypeOK
    <3>2. blocked_count' \in 0 .. MAX /\ blocked_count' <= process_count'
      BY <2>1, <2>3, MaxAssumption DEF Scanning, queueVars, QueueTypeOK, ControlTypeOK, MAX
    <3>3. ControlTypeOK'
      BY <2>1, <2>3, <3>2 DEF Scanning, ControlTypeOK, preemptVars
    <3>4. (current_process = Entry(blocked_count - 1))'
      <4>1. blocked_count' - 1 = blocked_count
        BY <2>3 DEF ControlTypeOK
      <4> QED BY <2>1, <2>3, <4>1 DEF Scanning, queueVars, Entry, SlotAt, Wrap, MAX
    <3> QED BY <2>1, <2>3, <3>1, <3>2, <3>3, <3>4 DEF Scanning, queueVars, InHand, preemptVars
  <2>4. CASE SOS /\ UNCHANGED <<queueVars, status, blocked_count>>
    <3>1. QueueTypeOK' /\ ProcessTypeOK'
      BY <2>1, <2>4 DEF Scanning, queueVars, QueueTypeOK, ProcessTypeOK
    <3>2. ControlTypeOK'
      BY <2>1, <2>4 DEF Scanning, SOS, ControlTypeOK, preemptVars
    <3> QED BY <2>1, <2>4, <3>1, <3>2 DEF Scanning, SOS, InHand
  <2> QED BY <2>2, <2>3, <2>4 DEF ScanCompares
<1> QED BY <1>1, <1>2, <1>3, <1>4, <1>5, <1>7, <1>8 DEF OsStep

LEMMA ProcessStepTypeOK == ASSUME TypeOK, ProcessStep PROVE TypeOK'
<1> USE DEF TypeOK, OsStates, InHand
<1>1. ASSUME NEW q \in Processes, NEW preempt \in {0, 1}, InitProcess(q, preempt)
      PROVE  TypeOK'
  <2>1. QueueTypeOK' /\ ControlTypeOK'
    BY <1>1 DEF InitProcess, InProcess, queueVars, preemptVars, QueueTypeOK, ControlTypeOK
  <2>2. ProcessTypeOK'
    BY <1>1 DEF InitProcess, InProcess, ProcessTypeOK, ControlTypeOK, ProcessState, Ready
  <2> QED BY <1>1, <2>1, <2>2 DEF InitProcess, InProcess
<1>2. ASSUME NEW q \in Processes, ResetProcess(q) PROVE TypeOK'
  <2>1. QueueTypeOK' /\ ControlTypeOK'
    BY <1>2 DEF ResetProcess, InProcess, queueVars, preemptVars, QueueTypeOK, ControlTypeOK
  <2>2. ProcessTypeOK'
    BY <1>2 DEF ResetProcess, InProcess, ProcessTypeOK, ControlTypeOK, ProcessState, Ready
  <2> QED BY <1>2, <2>1, <2>2 DEF ResetProcess, InProcess
<1>3. ASSUME NEW q \in Processes, Dispatch(q) PROVE TypeOK'
  <2>1. QueueTypeOK' /\ primask' \in {0, 1}
    BY <1>3, DispatchType DEF Dispatch
  <2>2. ProcessTypeOK' /\ ControlTypeOK'
    BY <1>3, <2>1
    DEF Dispatch, InProcess, processVars, preemptVars, ProcessTypeOK, ControlTypeOK
  <2> QED BY <1>3, <2>1, <2>2 DEF Dispatch, InProcess
<1>4. ASSUME NEW f \in Flags, NEW v \in FlagValues, WriteFlag(f, v) PROVE TypeOK'
  <2>1. QueueTypeOK' /\ ProcessTypeOK'
    BY <1>4 DEF WriteFlag, queueVars, processVars, QueueTypeOK, ProcessTypeOK
  <2>2. ControlTypeOK'
    BY <1>4, KernelAssumption DEF WriteFlag, InProcess, ControlTypeOK, preemptVars
  <2> QED BY <1>4, <2>1, <2>2 DEF WriteFlag, InProcess, preemptVars
<1>5. ASSUME NEW data \in Waits, WaitUntil(data) PROVE TypeOK'
  <2>1. QueueTypeOK' /\ ControlTypeOK'
    BY <1>5 DEF WaitUntil, InProcess, YieldProcess, SOS, queueVars, preemptVars,
                QueueTypeOK, ControlTypeOK
  <2>2. ProcessTypeOK'
    BY <1>5 DEF WaitUntil, InProcess, YieldProcess, ProcessTypeOK, ControlTypeOK,
                ProcessState, Blocked
  <2> QED BY <1>5, <2>1, <2>2 DEF WaitUntil, InProcess, YieldProcess, SOS
<1>6. ASSUME NEW n \in DelayTicks, Delay(n) PROVE TypeOK'
  <2>1. QueueTypeOK' /\ ControlTypeOK'
    BY <1>6 DEF Delay, InProcess, YieldProcess, SOS, queueVars, preemptVars,
                QueueTypeOK, ControlTypeOK
  <2>2. n \in Ticks /\ TickAdd(now, n) \in Ticks
    BY KernelAssumption, TickAddType DEF ControlTypeOK
  <2>3. ProcessTypeOK'
    BY <1>6, <2>2 DEF Delay, InProcess, YieldProcess, ProcessTypeOK, ProcessState, Blocked
  <2> QED BY <1>6, <2>1, <2>3 DEF Delay, InProcess, YieldProcess, SOS
<1>7. CASE Finish
  <2>1. QueueTypeOK' /\ ProcessTypeOK' /\ ControlTypeOK'
    BY <1>7 DEF Finish, InProcess, queueVars, processVars, preemptVars,
                QueueTypeOK, ProcessTypeOK, ControlTypeOK
  <2> QED BY <1>7, <2>1 DEF Finish, InProcess
<1>8. CASE EnablePreempt \/ DisablePreempt \/ PreemptDisableInterrupts
  <2>1. QueueTypeOK' /\ ProcessTypeOK' /\ ControlTypeOK'
    BY <1>8 DEF EnablePreempt, DisablePreempt,
                PreemptDisableInterrupts, InProcess, queueVars, processVars,
                QueueTypeOK, ProcessTypeOK, ControlTypeOK
  <2> QED BY <1>8, <2>1 DEF EnablePreempt, DisablePreempt,
                               PreemptDisableInterrupts, InProcess
<1> QED
  BY <1>1, <1>2, <1>3, <1>4, <1>5, <1>6, <1>7, <1>8 DEF ProcessStep, ProcessYields

LEMMA InterruptTypeOK == ASSUME TypeOK, TC4_Handler \/ Environment PROVE TypeOK'
<1> USE DEF TypeOK, OsStates, InHand
<1>1. CASE TC4_Handler
  <2>1. QueueTypeOK' /\ ProcessTypeOK' /\ ControlTypeOK'
    BY <1>1 DEF TC4_Handler, YieldProcess, SOS, queueVars,
                QueueTypeOK, ProcessTypeOK, ControlTypeOK
  <2> QED BY <1>1, <2>1 DEF TC4_Handler, YieldProcess, SOS
<1>2. CASE Tick
  <2>1. QueueTypeOK'
    BY <1>2 DEF Tick, queueVars, QueueTypeOK
  <2>2. ProcessTypeOK'
    <3>1. \A r \in Ticks : (IF r = 0 THEN 0 ELSE r - 1) \in Ticks
      BY HalfRangeAssumption DEF Ticks, TickRange
    <3>2. remaining' \in [Processes -> Ticks]
      BY <1>2, <3>1 DEF Tick, ProcessTypeOK
    <3> QED BY <1>2, <3>2 DEF Tick, processVars, ProcessTypeOK
  <2>3. ControlTypeOK'
    BY <1>2, OneTick, TickAddType DEF Tick, ControlTypeOK, preemptVars
  <2> QED BY <1>2, <2>1, <2>2, <2>3
          DEF Tick, queueVars, preemptVars, Entry, SlotAt, Wrap, MAX
<1>3. CASE CompareMatch
  <2>1. QueueTypeOK' /\ ProcessTypeOK' /\ ControlTypeOK'
    BY <1>3 DEF CompareMatch, queueVars, processVars,
                QueueTypeOK, ProcessTypeOK, ControlTypeOK
  <2> QED BY <1>3, <2>1 DEF CompareMatch, queueVars, Entry, SlotAt, Wrap, MAX
<1>4. ASSUME NEW f \in Flags, NEW v \in FlagValues, FlagInterrupt(f, v) PROVE TypeOK'
  <2>1. QueueTypeOK' /\ ProcessTypeOK' /\ ControlTypeOK'
    BY <1>4, KernelAssumption DEF FlagInterrupt, queueVars, processVars, preemptVars,
                QueueTypeOK, ProcessTypeOK, ControlTypeOK
  <2> QED BY <1>4, <2>1 DEF FlagInterrupt, queueVars, preemptVars, Entry, SlotAt, Wrap, MAX
<1> QED BY <1>1, <1>2, <1>3, <1>4 DEF Environment

LEMMA StepTypeOK == ASSUME TypeOK, [Next]_vars PROVE TypeOK'
<1>1. CASE UNCHANGED vars
  BY <1>1 DEF vars, queueVars, processVars, preemptVars, TypeOK, QueueTypeOK,
              ProcessTypeOK, ControlTypeOK, InHand, Entry, SlotAt, Wrap, MAX
<1> QED BY <1>1, OsStepTypeOK, ProcessStepTypeOK, InterruptTypeOK DEF Next

(* Types: the counters of the table never leave it, the scan never runs on *)
(* an empty queue, and the kernel never follows a null current_process.    *)
THEOREM TypeCorrect == Spec => []TypeOK
<1>1. TypeOK /\ [Next]_vars => TypeOK'
  BY StepTypeOK
<1> QED BY <1>1, InitTypeOK, PTL DEF Spec

-----------------------------------------------------------------------------
(* The table, when it has room for every process. *)

LEMMA QueueUnchanged ==
  ASSUME UNCHANGED queueVars
  PROVE  /\ Queued' = Queued
         /\ QueueOK => QueueOK'
         /\ NoDuplicate => NoDuplicate'
BY DEF queueVars, Queued, QueueOK, NoDuplicate, Entries, Entry, SlotAt, Wrap, MAX

(* A step that leaves the table alone and takes no process in hand.        *)
LEMMA QueueSoundUnchanged ==
  ASSUME QueueSound, UNCHANGED queueVars,
         InHand' => InHand /\ current_process' = current_process
  PROVE  QueueSound'
BY QueueUnchanged DEF QueueSound

(* dispatch_process of a process that is neither queued nor in hand.       *)
LEMMA DispatchSound ==
  ASSUME TypeOK, QueueSound, NEW p \in Processes, p \notin Queued, NEW r,
         DispatchProcess(p, r)
  PROVE  /\ QueueOK' /\ NoDuplicate'
         /\ Queued' = IF status[p] = Done \/ process_count >= MAX THEN Queued
                      ELSE Queued \cup {p}
<1>1. CASE (status[p] = Done \/ process_count >= MAX) /\ UNCHANGED queueVars
  BY <1>1, QueueUnchanged DEF QueueSound
<1>2. CASE /\ status[p] # Done /\ process_count < MAX
           /\ \E k \in 0 .. process_count : Insert(p, k)
  <2>1. PICK k \in 0 .. process_count : Insert(p, k)
    BY <1>2
  <2>2. QueueOK' /\ NoDuplicate' /\ Queued' = Queued \cup {p}
    BY <1>2, <2>1, InsertEntries, InsertNoDuplicate DEF TypeOK, QueueSound
  <2>3. ~(process_count >= MAX)
    BY <1>2, MaxAssumption DEF TypeOK, QueueTypeOK, MAX
  <2> QED BY <1>2, <2>2, <2>3
<1> QED BY <1>1, <1>2 DEF DispatchProcess

(* The end of next_process: the entry it stopped at leaves the table.      *)
LEMMA RemoveSound ==
  ASSUME Cardinality(Processes) < MAX, TypeOK, QueueSound, os = "scan",
         NEW b \in 0 .. process_count, Remove(b)
  PROVE  QueueOK' /\ NoDuplicate' /\ Queued' = Queued \ {Entry(Taken(b))}
<1>1. process_count < MAX
  BY NeverFull DEF TypeOK, QueueSound
<1>2. b < MAX /\ process_count > 0
  BY <1>1, MaxAssumption DEF TypeOK, QueueTypeOK, MAX
<1> QED BY <1>2, RemoveEntries, RemoveNoDuplicate DEF TypeOK, QueueSound

LEMMA InitQueueSound == Init => QueueSound
<1> SUFFICES ASSUME Init PROVE QueueSound
  OBVIOUS
<1>1. Entries = {0} /\ Entry(0) = MainProcess
  BY MaxAssumption DEF Init, Entries, Entry, SlotAt, Wrap, Slots, MAX
<1>2. process_queue_tail = SlotAt(process_count)
  BY MaxAssumption DEF Init, SlotAt, Wrap, MAX
<1> QED BY <1>1, <1>2, KernelAssumption
        DEF Init, QueueSound, QueueOK, NoDuplicate, InHand

LEMMA StepQueueSound ==
  ASSUME Cardinality(Processes) < MAX, TypeOK, QueueSound, [Next]_vars
  PROVE  QueueSound'
<1> USE DEF InHand
<1>1. CASE OsStep
  <2>1. CASE LoopHead
    BY <2>1, QueueSoundUnchanged DEF LoopHead
  <2>2. CASE NoneRunnable
    <3>1. /\ blocked_count \in 0 .. process_count
          /\ Taken(blocked_count) = blocked_count - 1
          /\ current_process = Entry(blocked_count - 1)
      BY <2>2 DEF NoneRunnable, TypeOK, ControlTypeOK, QueueTypeOK, Taken
    <3> QED BY <2>2, <3>1, RemoveSound DEF NoneRunnable, QueueSound
  <2>3. CASE SwitchProcess
    BY <2>3, QueueSoundUnchanged DEF SwitchProcess
  <2>4. CASE ProcessReturns
    BY <2>4, QueueSoundUnchanged DEF ProcessReturns
  <2>5. CASE Redispatch
    <3>1. current_process \in Processes /\ current_process \notin Queued
      BY <2>5 DEF Redispatch, TypeOK, QueueSound
    <3> QED BY <2>5, <3>1, DispatchSound DEF Redispatch, QueueSound
  <2>6. ASSUME NEW p \in Processes, Scanning(p), TakeOut PROVE QueueSound'
    <3>1. blocked_count \in 0 .. process_count /\ Taken(blocked_count) = blocked_count
      BY <2>6 DEF Scanning, TypeOK, ControlTypeOK, QueueTypeOK, Taken
    <3> QED BY <2>6, <3>1, RemoveSound DEF Scanning, TakeOut, QueueSound
  <2>7. ASSUME NEW p \in Processes, ScanNotBlocked(p) \/ ScanCallbackUnblocks(p)
        PROVE  QueueSound'
    BY <2>6, <2>7 DEF ScanNotBlocked, ScanCallbackUnblocks
  <2>8. ASSUME NEW p \in Processes, NEW x \in Word, ScanCompares(p, x)
        PROVE  QueueSound'
    BY <2>6, <2>8, QueueSoundUnchanged DEF ScanCompares, Scanning, SOS
  <2> QED BY <1>1, <2>1, <2>2, <2>3, <2>4, <2>5, <2>7, <2>8 DEF OsStep
<1>2. CASE ProcessStep
  <2>1. ASSUME NEW q \in Processes, Dispatch(q) PROVE QueueSound'
    BY <2>1, DispatchSound DEF Dispatch, InProcess, Free, QueueSound
  <2>2. ASSUME NEW q \in Processes, NEW preempt \in {0, 1},
               InitProcess(q, preempt) \/ ResetProcess(q)
        PROVE  QueueSound'
    BY <2>2, QueueSoundUnchanged DEF InitProcess, ResetProcess, InProcess
  <2>3. ASSUME NEW f \in Flags, NEW v \in FlagValues, WriteFlag(f, v) PROVE QueueSound'
    BY <2>3, QueueSoundUnchanged DEF WriteFlag, InProcess
  <2>4. ASSUME NEW d, WaitUntil(d) \/ Delay(d) PROVE QueueSound'
    BY <2>4, QueueSoundUnchanged DEF WaitUntil, Delay, InProcess
  <2>5. CASE Finish \/ EnablePreempt \/ DisablePreempt \/ PreemptDisableInterrupts
    BY <2>5, QueueSoundUnchanged DEF Finish, EnablePreempt, DisablePreempt,
                                     PreemptDisableInterrupts, InProcess
  <2> QED BY <1>2, <2>1, <2>2, <2>3, <2>4, <2>5 DEF ProcessStep, ProcessYields
<1>3. CASE TC4_Handler \/ Environment
  BY <1>3, QueueSoundUnchanged
  DEF TC4_Handler, YieldProcess, SOS, Environment, Tick, CompareMatch, FlagInterrupt
<1>4. CASE UNCHANGED vars
  BY <1>4, QueueSoundUnchanged DEF vars
<1> QED BY <1>1, <1>2, <1>3, <1>4 DEF Next

(* The process table is coherent, holds no process twice and not the one   *)
(* that runs, provided that the table has one slot more than there are     *)
(* processes (with exactly as many, the run full_table breaks it).         *)
THEOREM QueueIsSound ==
  ASSUME Cardinality(Processes) < RTOS_MAX_PROCESS_COUNT
  PROVE  Spec => []QueueSound
<1>1. Init => TypeOK /\ QueueSound
  BY InitTypeOK, InitQueueSound
<1>2. TypeOK /\ QueueSound /\ [Next]_vars => (TypeOK /\ QueueSound)'
  BY StepTypeOK, StepQueueSound DEF MAX
<1> QED BY <1>1, <1>2, PTL DEF Spec
=============================================================================
