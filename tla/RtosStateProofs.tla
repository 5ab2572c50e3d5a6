---------------------------- MODULE RtosStateProofs ----------------------------
(***************************************************************************)
(* What the kernel keeps true of the state it hands to a process: the     *)
(* interrupt mask, the preemption interrupt, and the status and entry     *)
(* point of everything in the process table.                               *)
(***************************************************************************)
EXTENDS RtosKernelProofs

(* The interrupt mask. *)

LEMMA StepMasked ==
  ASSUME TypeOK, MaskedOnlyByRefusal, [Next]_vars
  PROVE  MaskedOnlyByRefusal'
<1> USE DEF MaskedOnlyByRefusal
<1>1. CASE OsStep
  BY <1>1 DEF OsStep, LoopHead, NoneRunnable, SwitchProcess, ProcessReturns, Redispatch,
              ScanNotBlocked, ScanCallbackUnblocks, ScanCompares, Scanning, TakeOut, SOS
<1>2. ASSUME NEW q \in Processes, Dispatch(q) PROVE MaskedOnlyByRefusal'
  BY <1>2 DEF Dispatch, DispatchProcess, InProcess
<1>3. ASSUME NEW q \in Processes, NEW preempt \in {0, 1},
             InitProcess(q, preempt) \/ ResetProcess(q)
      PROVE  MaskedOnlyByRefusal'
  BY <1>3 DEF InitProcess, ResetProcess
<1>4. ASSUME NEW f \in Flags, NEW v \in FlagValues, WriteFlag(f, v)
      PROVE  MaskedOnlyByRefusal'
  BY <1>4 DEF WriteFlag
<1>5. CASE ProcessYields \/ EnablePreempt \/ DisablePreempt \/ PreemptDisableInterrupts
  BY <1>5 DEF ProcessYields, WaitUntil, Delay, Finish, YieldProcess, SOS,
              EnablePreempt, DisablePreempt, PreemptDisableInterrupts
<1>6. CASE TC4_Handler \/ Environment
  BY <1>6 DEF TC4_Handler, YieldProcess, SOS, Environment, Tick, CompareMatch, FlagInterrupt
<1>7. CASE UNCHANGED vars
  BY <1>7 DEF vars
<1> QED BY <1>1, <1>2, <1>3, <1>4, <1>5, <1>6, <1>7 DEF Next, ProcessStep

(* A process runs with interrupts masked exactly when the last dispatch it *)
(* made was refused: of all the paths that mask them, only the early       *)
(* returns of dispatch_process reach a process masked.                     *)
THEOREM MaskedByRefusal == Spec => []MaskedOnlyByRefusal
<1>1. Init => MaskedOnlyByRefusal
  BY DEF Init, MaskedOnlyByRefusal
<1>2. TypeOK /\ MaskedOnlyByRefusal /\ [Next]_vars => MaskedOnlyByRefusal'
  BY StepMasked
<1> QED BY <1>1, <1>2, TypeCorrect, PTL DEF Spec

-----------------------------------------------------------------------------
(* The preemption interrupt. *)

LEMMA StepPreemptConfined ==
  ASSUME TypeOK, PreemptConfined, [Next]_vars
  PROVE  PreemptConfined'
<1> USE DEF PreemptConfined
<1>1. CASE OsStep
  <2>1. CASE SwitchProcess
    BY <1>1, <2>1 DEF SwitchProcess, preemptVars
  <2>2. CASE ProcessReturns
    BY <1>1, <2>2 DEF ProcessReturns, processVars
  <2>3. CASE LoopHead \/ NoneRunnable \/ Redispatch
    BY <2>3 DEF LoopHead, NoneRunnable, Redispatch, preemptVars
  <2>4. ASSUME NEW p \in Processes, Scanning(p) PROVE PreemptConfined'
    BY <2>4 DEF Scanning, preemptVars
  <2> QED BY <1>1, <2>1, <2>2, <2>3, <2>4
          DEF OsStep, ScanNotBlocked, ScanCallbackUnblocks, ScanCompares
<1>2. ASSUME NEW q \in Processes, NEW preempt \in {0, 1}, InitProcess(q, preempt)
      PROVE  PreemptConfined'
  \* q is not the running process, whose enable_preempt is what matters
  <2>1. q # current_process
    BY <1>2 DEF InitProcess, InProcess, Free, InHand
  <2>2. current_process \in Processes
    BY <1>2 DEF InitProcess, InProcess, InHand, TypeOK
  <2>3. enable_preempt'[current_process] = enable_preempt[current_process]
    BY <1>2, <2>1, <2>2 DEF InitProcess, TypeOK, ProcessTypeOK
  <2> QED BY <1>2, <2>3 DEF InitProcess, InProcess, preemptVars
<1>3. ASSUME NEW q \in Processes, Dispatch(q) \/ ResetProcess(q)
      PROVE  PreemptConfined'
  BY <1>3 DEF Dispatch, ResetProcess, InProcess, processVars, preemptVars
<1>4. ASSUME NEW f \in Flags, NEW v \in FlagValues, WriteFlag(f, v)
      PROVE  PreemptConfined'
  BY <1>4 DEF WriteFlag, InProcess, processVars, preemptVars
<1>5. CASE ProcessYields
  BY <1>5 DEF ProcessYields, WaitUntil, Delay, Finish, InProcess, YieldProcess, SOS,
              processVars, preemptVars
<1>6. CASE EnablePreempt \/ DisablePreempt \/ PreemptDisableInterrupts
  BY <1>6 DEF EnablePreempt, DisablePreempt,
              PreemptDisableInterrupts, InProcess, InHand, processVars, TypeOK,
              ProcessTypeOK
<1>7. CASE TC4_Handler \/ Environment
  BY <1>7 DEF TC4_Handler, YieldProcess, SOS, Environment, Tick, CompareMatch,
              FlagInterrupt, processVars, preemptVars
<1>8. CASE UNCHANGED vars
  BY <1>8 DEF vars, processVars, preemptVars
<1> QED BY <1>1, <1>2, <1>3, <1>4, <1>5, <1>6, <1>7, <1>8 DEF Next, ProcessStep

(* TC4's interrupt is enabled only in, or on the way back from, a process  *)
(* that asked for preemption, however often it changes its mind.           *)
THEOREM PreemptionConfined == Spec => []PreemptConfined
<1>1. Init => PreemptConfined
  BY DEF Init, PreemptConfined
<1>2. TypeOK /\ PreemptConfined /\ [Next]_vars => PreemptConfined'
  BY StepPreemptConfined
<1> QED BY <1>1, <1>2, TypeCorrect, PTL DEF Spec

-----------------------------------------------------------------------------
(* What is queued can be run.  A process that is out of the table may be   *)
(* in any state: the invariant says which of its fields agree, so that a   *)
(* dispatch that is not refused brings in something that can be entered.   *)

Initialised(p) == program_counter[p] # "none"

EntryPointAgrees ==
  \A p \in Processes :
    status[p] # Done /\ Initialised(p) =>
      (status[p] = Ready <=> program_counter[p] = "procFunction")

TableAlive ==
  \A p \in Processes :
    p \in Queued \/ (os = "switch" /\ p = current_process) =>
      Initialised(p) /\ status[p] # Done

HandInitialised ==
  /\ os \in {"process", "return", "dispatch"} => Initialised(current_process)
  /\ os = "process" => status[current_process] = Done

LifeInv == EntryPointAgrees /\ TableAlive /\ HandInitialised

LEMMA LifeInvRunnable == LifeInv => QueuedRunnable
BY DEF LifeInv, EntryPointAgrees, TableAlive, QueuedRunnable, Initialised

LEMMA InitLifeInv == Init => LifeInv
<1> SUFFICES ASSUME Init PROVE LifeInv
  OBVIOUS
<1>1. Queued = {MainProcess}
  BY MaxAssumption DEF Init, Queued, Entries, Entry, SlotAt, Wrap, Slots, MAX
<1> QED BY <1>1, KernelAssumption
        DEF Init, LifeInv, EntryPointAgrees, TableAlive, HandInitialised, Initialised,
            Ready, Done

(* A step that leaves status and entry points alone, and takes nothing in. *)
LEMMA LifeInvUnchanged ==
  ASSUME LifeInv, UNCHANGED <<status, program_counter>>, Queued' \subseteq Queued,
         os' = "switch" => os = "switch" /\ UNCHANGED current_process,
         os' = "process" => os = "process" /\ UNCHANGED current_process,
         os' \in {"return", "dispatch"} => Initialised(current_process')
  PROVE  LifeInv'
BY DEF LifeInv, EntryPointAgrees, TableAlive, HandInitialised, Initialised

LEMMA OsStepLifeInv ==
  ASSUME Cardinality(Processes) < MAX, TypeOK, QueueSound, LifeInv, OsStep
  PROVE  LifeInv'
<1>1. CASE LoopHead
  BY <1>1, QueueUnchanged, LifeInvUnchanged DEF LoopHead, processVars
<1>2. CASE NoneRunnable
  \* the entry taken out is current_process, which was in the table
  <2>1. /\ blocked_count \in 0 .. process_count
        /\ Taken(blocked_count) = blocked_count - 1
        /\ blocked_count - 1 \in Entries
        /\ current_process = Entry(blocked_count - 1)
        /\ current_process \in Processes
    BY <1>2 DEF NoneRunnable, TypeOK, ControlTypeOK, QueueTypeOK, Taken, Entries
  <2>2. Initialised(current_process)
    BY <2>1 DEF LifeInv, TableAlive, Queued
  <2>3. Queued' \subseteq Queued
    BY <1>2, <2>1, RemoveSound DEF NoneRunnable
  <2> QED BY <1>2, <2>2, <2>3, LifeInvUnchanged DEF NoneRunnable, processVars, Initialised
<1>3. CASE SwitchProcess
  <2>1. Queued' = Queued /\ current_process \notin Queued /\ current_process \in Processes
    BY <1>3, QueueUnchanged DEF SwitchProcess, QueueSound, InHand, TypeOK
  <2> QED BY <1>3, <2>1 DEF SwitchProcess, LifeInv, EntryPointAgrees, TableAlive,
               HandInitialised, Initialised, TypeOK, ProcessTypeOK
<1>4. CASE ProcessReturns
  BY <1>4, QueueUnchanged, LifeInvUnchanged
  DEF ProcessReturns, processVars, LifeInv, HandInitialised, Initialised
<1>5. CASE Redispatch
  <2>1. current_process \in Processes /\ current_process \notin Queued
    BY <1>5 DEF Redispatch, TypeOK, InHand, QueueSound
  <2>2. Queued' = IF status[current_process] = Done \/ process_count >= MAX THEN Queued
                  ELSE Queued \cup {current_process}
    BY <1>5, <2>1, DispatchSound DEF Redispatch
  <2> QED BY <1>5, <2>2 DEF Redispatch, processVars, LifeInv, EntryPointAgrees,
               TableAlive, HandInitialised, Initialised
<1>6. ASSUME NEW p \in Processes, Scanning(p), TakeOut,
             status' = status \/ (status[p] = Blocked /\ status' = [status EXCEPT ![p] = Running])
      PROVE  LifeInv'
  <2>1. /\ blocked_count \in 0 .. process_count
        /\ Taken(blocked_count) = blocked_count
        /\ blocked_count \in Entries
        /\ p \in Queued
    BY <1>6 DEF Scanning, TypeOK, ControlTypeOK, QueueTypeOK, Taken, Entries, Queued
  <2>2. Queued' \subseteq Queued
    BY <1>6, <2>1, RemoveSound DEF Scanning, TakeOut
  <2>3. \A q \in Processes :
          /\ status'[q] = Done <=> status[q] = Done
          /\ status'[q] = Ready <=> status[q] = Ready
    BY <1>6 DEF TypeOK, ProcessTypeOK, Blocked, Running, Ready, Done
  <2> QED BY <1>6, <2>1, <2>2, <2>3
          DEF Scanning, TakeOut, LifeInv, EntryPointAgrees, TableAlive, HandInitialised,
              Initialised
<1>7. ASSUME NEW p \in Processes, ScanNotBlocked(p) \/ ScanCallbackUnblocks(p)
      PROVE  LifeInv'
  BY <1>6, <1>7 DEF ScanNotBlocked, ScanCallbackUnblocks
<1>8. ASSUME NEW p \in Processes, NEW x \in Word, ScanCompares(p, x)
      PROVE  LifeInv'
  <2>1. CASE UNCHANGED <<queueVars, status>> /\ os' \in {"scan", "sos"}
    BY <1>8, <2>1, QueueUnchanged, LifeInvUnchanged DEF ScanCompares, Scanning
  <2> QED BY <1>6, <1>8, <2>1 DEF ScanCompares, Scanning, SOS
<1> QED BY <1>1, <1>2, <1>3, <1>4, <1>5, <1>7, <1>8 DEF OsStep

LEMMA ProcessStepLifeInv ==
  ASSUME TypeOK, QueueSound, LifeInv, ProcessStep
  PROVE  LifeInv'
<1>1. ASSUME NEW q \in Processes, NEW preempt \in {0, 1},
             InitProcess(q, preempt) \/ ResetProcess(q)
      PROVE  LifeInv'
  <2>1. q \notin Queued /\ q # current_process /\ os = "process" /\ os' = "process"
    BY <1>1 DEF InitProcess, ResetProcess, InProcess, Free, InHand
  <2>2. /\ Queued' = Queued /\ current_process' = current_process
        /\ status' = [status EXCEPT ![q] = Ready]
        /\ program_counter' = [program_counter EXCEPT ![q] = "procFunction"]
    BY <1>1, QueueUnchanged DEF InitProcess, ResetProcess, InProcess
  <2>3. current_process \in Processes
    BY <2>1 DEF TypeOK, InHand
  <2> QED BY <2>1, <2>2, <2>3
          DEF LifeInv, EntryPointAgrees, TableAlive, HandInitialised, Initialised,
              TypeOK, ProcessTypeOK
<1>2. ASSUME NEW q \in Processes, Dispatch(q) PROVE LifeInv'
  <2>1. q \notin Queued
    BY <1>2 DEF Dispatch, Free
  <2>2. Queued' = IF status[q] = Done \/ process_count >= MAX THEN Queued
                  ELSE Queued \cup {q}
    BY <1>2, <2>1, DispatchSound DEF Dispatch
  <2> QED BY <1>2, <2>2 DEF Dispatch, InProcess, processVars, LifeInv, EntryPointAgrees,
               TableAlive, HandInitialised, Initialised
<1>3. ASSUME NEW f \in Flags, NEW v \in FlagValues, WriteFlag(f, v) PROVE LifeInv'
  BY <1>3, QueueUnchanged, LifeInvUnchanged DEF WriteFlag, InProcess, processVars
<1>4. ASSUME NEW d, WaitUntil(d) \/ Delay(d) PROVE LifeInv'
  <2>1. /\ os = "process" /\ os' = "return" /\ current_process' = current_process
        /\ status' = [status EXCEPT ![current_process] = Blocked]
        /\ program_counter' = [program_counter EXCEPT ![current_process] = "yield"]
        /\ UNCHANGED queueVars
    BY <1>4 DEF WaitUntil, Delay, InProcess, YieldProcess
  <2>2. current_process \in Processes /\ current_process \notin Queued /\ Queued' = Queued
    BY <2>1, QueueUnchanged DEF TypeOK, InHand, QueueSound
  <2> QED BY <2>1, <2>2
          DEF LifeInv, EntryPointAgrees, TableAlive, HandInitialised, Initialised,
              TypeOK, ProcessTypeOK, Blocked, Ready, Done
<1>5. CASE Finish \/ EnablePreempt \/ DisablePreempt \/ PreemptDisableInterrupts
  BY <1>5, QueueUnchanged, LifeInvUnchanged
  DEF Finish, EnablePreempt, DisablePreempt,
      PreemptDisableInterrupts, InProcess, processVars, LifeInv,
      HandInitialised, Initialised
<1> QED BY <1>1, <1>2, <1>3, <1>4, <1>5 DEF ProcessStep, ProcessYields

LEMMA StepLifeInv ==
  ASSUME Cardinality(Processes) < MAX, TypeOK, QueueSound, LifeInv, [Next]_vars
  PROVE  LifeInv'
<1>1. CASE TC4_Handler \/ Environment
  BY <1>1, QueueUnchanged, LifeInvUnchanged
  DEF TC4_Handler, YieldProcess, SOS, Environment, Tick, CompareMatch, FlagInterrupt,
      processVars, LifeInv, HandInitialised, Initialised
<1>2. CASE UNCHANGED vars
  BY <1>2, QueueUnchanged, LifeInvUnchanged
  DEF vars, processVars, LifeInv, HandInitialised, Initialised
<1> QED BY <1>1, <1>2, OsStepLifeInv, ProcessStepLifeInv DEF Next

(* Whatever is in the table, or about to be entered, has been initialised, *)
(* has not finished, and is entered where it should be.                    *)
THEOREM QueuedAreRunnable ==
  ASSUME Cardinality(Processes) < RTOS_MAX_PROCESS_COUNT
  PROVE  Spec => []QueuedRunnable
<1>1. Init => LifeInv
  BY InitLifeInv
<1>2. TypeOK /\ QueueSound /\ LifeInv /\ [Next]_vars => LifeInv'
  BY StepLifeInv DEF MAX
<1> QED BY <1>1, <1>2, LifeInvRunnable, TypeCorrect, QueueIsSound, PTL DEF Spec

-----------------------------------------------------------------------------
(* Joins. *)

(* Only the scan sets a blocked process running. *)
LEMMA OnlyScanUnblocks ==
  ASSUME TypeOK, [Next]_vars, NEW p \in Processes,
         status[p] = Blocked, status'[p] = Running
  PROVE  /\ os = "scan"
         /\ \/ internal_data[p].callback = "rtos_delay_callback"
            \/ \E x \in VariableReads(internal_data[p], flags') :
                 Holds(internal_data[p].condition, x, internal_data[p].value)
<1> USE DEF Ready, Running, Blocked, Done, TypeOK, ProcessTypeOK
<1>1. CASE OsStep
  <2>1. CASE LoopHead \/ NoneRunnable \/ SwitchProcess \/ ProcessReturns \/ Redispatch
    BY <2>1 DEF LoopHead, NoneRunnable, SwitchProcess, ProcessReturns, Redispatch, processVars
  <2>2. ASSUME NEW q \in Processes, ScanNotBlocked(q) \/ ScanCallbackUnblocks(q)
        PROVE  os = "scan" /\ internal_data[p].callback = "rtos_delay_callback"
    BY <2>2 DEF ScanNotBlocked, ScanCallbackUnblocks, Scanning
  <2>3. ASSUME NEW q \in Processes, NEW x \in Word, ScanCompares(q, x)
        PROVE  /\ os = "scan" /\ x \in VariableReads(internal_data[p], flags')
               /\ Holds(internal_data[p].condition, x, internal_data[p].value)
    <3>1. q = p
      BY <2>3 DEF ScanCompares
    <3> QED BY <2>3, <3>1 DEF ScanCompares, Scanning
  <2> QED BY <1>1, <2>1, <2>2, <2>3 DEF OsStep
<1>2. CASE ProcessStep
  BY <1>2 DEF ProcessStep, ProcessYields, WaitUntil, Delay, Finish, YieldProcess, InitProcess,
              ResetProcess, Dispatch, WriteFlag, EnablePreempt, DisablePreempt,
              PreemptDisableInterrupts, processVars
<1>3. CASE TC4_Handler \/ Environment
  BY <1>3 DEF TC4_Handler, YieldProcess, Environment, Tick, CompareMatch, FlagInterrupt,
              processVars
<1>4. CASE UNCHANGED vars
  BY <1>4 DEF vars, processVars
<1> QED BY <1>1, <1>2, <1>3, <1>4 DEF Next

LEMMA JoinStep ==
  ASSUME \A data \in Waits : data.callback # "rtos_delay_callback",
         TypeOK, LifeInv, [Next]_vars, NEW p \in Processes,
         status[p] = Blocked, status'[p] = Running,
         internal_data[p].variable \in Processes, internal_data[p].value = Done,
         internal_data[p].condition = "Equal", internal_data[p].mask = 1
  PROVE  /\ internal_data[p].variable \notin Queued
         /\ status[internal_data[p].variable] = Done
         /\ ~InHand
<1>1. internal_data[p].callback # "rtos_delay_callback"
  BY DEF TypeOK, ProcessTypeOK, DelayData, NoData
<1>2. /\ os = "scan"
      /\ \E x \in VariableReads(internal_data[p], flags') :
           Holds(internal_data[p].condition, x, internal_data[p].value)
  BY <1>1, OnlyScanUnblocks
<1>3. status[internal_data[p].variable] = Done
  BY <1>2 DEF VariableReads, Holds
<1> QED BY <1>2, <1>3 DEF InHand, LifeInv, TableAlive

(* A join ends only when the process joined has returned, for every        *)
(* application that does not itself register the callback of delays.       *)
THEOREM JoinsSeeTheEnd ==
  ASSUME Cardinality(Processes) < RTOS_MAX_PROCESS_COUNT,
         \A data \in Waits : data.callback # "rtos_delay_callback"
  PROVE  Spec => JoinMeansFinished
<1> DEFINE Seen ==
      \A p \in Processes :
        LET data == internal_data[p] IN
        /\ status[p] = Blocked /\ status'[p] = Running
        /\ data.variable \in Processes /\ data.value = Done
        /\ data.condition = "Equal" /\ data.mask = 1
        => /\ data.variable \notin Queued
           /\ status[data.variable] = Done
           /\ ~InHand
<1>1. Init => LifeInv
  BY InitLifeInv
<1>2. TypeOK /\ QueueSound /\ LifeInv /\ [Next]_vars => LifeInv'
  BY StepLifeInv DEF MAX
<1>3. TypeOK /\ LifeInv /\ [Next]_vars => [Seen]_vars
  BY JoinStep
<1>4. JoinMeansFinished <=> [][Seen]_vars
  BY DEF JoinMeansFinished
<1> HIDE DEF Seen
<1> QED BY <1>1, <1>2, <1>3, <1>4, TypeCorrect, QueueIsSound, PTL DEF Spec
=============================================================================
