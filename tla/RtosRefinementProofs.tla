-------------------------- MODULE RtosRefinementProofs --------------------------
(***************************************************************************)
(* The kernel implements RtosApi, if the table has a slot more than there *)
(* are processes: each step of the kernel is a step of the abstract life  *)
(* of one process, or leaves the phase of every process alone.            *)
(***************************************************************************)
EXTENDS RtosStateProofs

(* The three cases of Phase. *)
RunsNow(p) == os = "process" /\ p = current_process
Alive(p) == Waiting(p) \/ (os = "switch" /\ p = current_process)
Stopped(p) == status[p] = Done

LEMMA PhaseOf ==
  ASSUME NEW p \in Processes
  PROVE  Phase[p] = IF RunsNow(p) THEN "running" ELSE IF Alive(p) THEN "waiting"
                    ELSE IF Stopped(p) THEN "finished" ELSE "idle"
BY DEF Phase, RunsNow, Alive, Stopped

(* The same in the next state. *)
LEMMA NextPhaseOf ==
  ASSUME NEW p \in Processes
  PROVE  Phase'[p] = IF RunsNow(p)' THEN "running" ELSE IF Alive(p)' THEN "waiting"
                     ELSE IF Stopped(p)' THEN "finished" ELSE "idle"
BY DEF Phase, RunsNow, Alive, Stopped

Same(p) ==
  /\ RunsNow(p)' <=> RunsNow(p)
  /\ Alive(p)' <=> Alive(p)
  /\ RunsNow(p) \/ Alive(p) \/ (Stopped(p)' <=> Stopped(p))

LEMMA SamePhase == ASSUME NEW p \in Processes, Same(p) PROVE Phase'[p] = Phase[p]
BY PhaseOf, NextPhaseOf DEF Same

LEMMA PhaseStutters == ASSUME \A p \in Processes : Same(p) PROVE Phase' = Phase
<1>1. \A p \in Processes : Phase'[p] = Phase[p]
  BY SamePhase
<1> QED BY <1>1 DEF Phase

LEMMA PhaseMoves ==
  ASSUME NEW q \in Processes, \A p \in Processes \ {q} : Same(p)
  PROVE  Phase' = [Phase EXCEPT ![q] = Phase'[q]]
<1>1. \A p \in Processes \ {q} : Phase'[p] = Phase[p]
  BY SamePhase
<1> QED BY <1>1 DEF Phase

LEMMA SomeRunningInProcess ==
  ASSUME TypeOK PROVE Api!SomeRunning <=> os = "process"
<1>1. os = "process" => current_process \in Processes
  BY DEF TypeOK, InHand
<1> QED BY <1>1, PhaseOf DEF Api!SomeRunning, RunsNow

(* After a process has yielded, interrupts stay masked until switch_process *)
(* has disabled its preemption: the handler cannot cut it off there.        *)
YieldMasked == os = "return" /\ status[current_process] # Done => primask = 1

LEMMA StepYieldMasked ==
  ASSUME TypeOK, LifeInv, YieldMasked, [Next]_vars PROVE YieldMasked'
<1> USE DEF YieldMasked
<1>1. CASE OsStep
  BY <1>1 DEF OsStep, LoopHead, NoneRunnable, SwitchProcess, ProcessReturns, Redispatch,
              ScanNotBlocked, ScanCallbackUnblocks, ScanCompares, Scanning, TakeOut, SOS
<1>2. CASE ProcessYields
  BY <1>2 DEF ProcessYields, WaitUntil, Delay, Finish, InProcess, YieldProcess, SOS,
              processVars, LifeInv, HandInitialised
<1>3. ASSUME NEW q \in Processes, NEW preempt \in {0, 1},
             InitProcess(q, preempt) \/ ResetProcess(q) \/ Dispatch(q)
      PROVE  YieldMasked'
  BY <1>3 DEF InitProcess, ResetProcess, Dispatch, InProcess
<1>4. ASSUME NEW f \in Flags, NEW v \in FlagValues, WriteFlag(f, v) PROVE YieldMasked'
  BY <1>4 DEF WriteFlag, InProcess
<1>5. CASE EnablePreempt \/ DisablePreempt \/ PreemptDisableInterrupts
  BY <1>5 DEF EnablePreempt, DisablePreempt, PreemptDisableInterrupts, InProcess
<1>6. CASE TC4_Handler \/ Environment
  BY <1>6 DEF TC4_Handler, YieldProcess, SOS, Environment, Tick, CompareMatch,
              FlagInterrupt, processVars
<1>7. CASE UNCHANGED vars
  BY <1>7 DEF vars, processVars
<1> QED
  BY <1>1, <1>2, <1>3, <1>4, <1>5, <1>6, <1>7 DEF Next, ProcessStep

-----------------------------------------------------------------------------

(* Steps that leave the table, the statuses and the place of control alone. *)
LEMMA QuietStep ==
  ASSUME UNCHANGED <<queueVars, status, os, current_process>>
  PROVE  Phase' = Phase
<1>1. Queued' = Queued
  BY QueueUnchanged
<1> QED BY <1>1, PhaseStutters DEF Same, RunsNow, Alive, Stopped, Waiting

LEMMA OsStepRefines ==
  ASSUME Cardinality(Processes) < MAX, TypeOK, QueueSound, LifeInv, OsStep
  PROVE  Api!Next \/ Phase' = Phase
<1>1. CASE LoopHead
  <2>1. Queued' = Queued
    BY <1>1, QueueUnchanged DEF LoopHead
  <2> QED BY <1>1, <2>1, PhaseStutters
          DEF LoopHead, processVars, Same, RunsNow, Alive, Stopped, Waiting
<1>2. CASE NoneRunnable
  \* the last entry goes from the table into the hands of the OS
  <2>1. /\ blocked_count \in 0 .. process_count
        /\ Taken(blocked_count) = blocked_count - 1
        /\ blocked_count - 1 \in Entries
        /\ current_process = Entry(blocked_count - 1)
        /\ current_process \in Processes
    BY <1>2 DEF NoneRunnable, TypeOK, ControlTypeOK, QueueTypeOK, Taken, Entries
  <2>2. Queued' = Queued \ {current_process} /\ current_process \in Queued
    BY <1>2, <2>1, RemoveSound DEF NoneRunnable, Queued
  <2>3. status[current_process] # Done
    BY <2>1, <2>2 DEF LifeInv, TableAlive
  <2> QED BY <1>2, <2>2, <2>3, PhaseStutters
          DEF NoneRunnable, processVars, Same, RunsNow, Alive, Stopped, Waiting
<1>3. CASE SwitchProcess
  <2>1. Queued' = Queued /\ current_process \in Processes /\ current_process \notin Queued
    BY <1>3, QueueUnchanged DEF SwitchProcess, TypeOK, InHand, QueueSound
  <2>2. \A p \in Processes \ {current_process} : Same(p)
    BY <1>3, <2>1
    DEF SwitchProcess, TypeOK, ProcessTypeOK, Same, RunsNow, Alive, Stopped, Waiting
  <2>3. Phase[current_process] = "waiting" /\ Phase'[current_process] = "running"
    BY <1>3, <2>1, PhaseOf, NextPhaseOf DEF SwitchProcess, RunsNow, Alive
  <2>4. ~Api!SomeRunning
    BY <1>3, SomeRunningInProcess DEF SwitchProcess
  <2>5. Api!Run(current_process)
    BY <2>1, <2>2, <2>3, <2>4, PhaseMoves DEF Api!Run, Api!Moves
  <2> QED BY <2>1, <2>5 DEF Api!Next
<1>4. CASE ProcessReturns
  <2>1. Queued' = Queued
    BY <1>4, QueueUnchanged DEF ProcessReturns
  <2> QED BY <1>4, <2>1, PhaseStutters
          DEF ProcessReturns, processVars, Same, RunsNow, Alive, Stopped, Waiting
<1>5. CASE Redispatch
  \* the table has room: the dispatch is refused only of a finished process
  <2>1. current_process \in Processes /\ current_process \notin Queued
    BY <1>5 DEF Redispatch, TypeOK, InHand, QueueSound
  <2>2. ~(process_count >= MAX)
    BY NeverFull, MaxAssumption DEF TypeOK, QueueTypeOK, QueueSound, MAX
  <2>3. Queued' = IF status[current_process] = Done THEN Queued
                  ELSE Queued \cup {current_process}
    BY <1>5, <2>1, <2>2, DispatchSound DEF Redispatch
  <2> QED BY <1>5, <2>3, PhaseStutters
          DEF Redispatch, processVars, Same, RunsNow, Alive, Stopped, Waiting
<1>6. ASSUME NEW p \in Processes, Scanning(p), TakeOut,
             status' = status \/ (status[p] = Blocked /\ status' = [status EXCEPT ![p] = Running])
      PROVE  Phase' = Phase
  <2>1. /\ blocked_count \in 0 .. process_count
        /\ Taken(blocked_count) = blocked_count
        /\ blocked_count \in Entries
    BY <1>6 DEF Scanning, TypeOK, ControlTypeOK, QueueTypeOK, Taken, Entries
  <2>2. Queued' = Queued \ {p} /\ p \in Queued
    BY <1>6, <2>1, RemoveSound DEF Scanning, TakeOut, Queued
  <2>3. \A q \in Processes : status'[q] = Done <=> status[q] = Done
    BY <1>6 DEF TypeOK, ProcessTypeOK, Blocked, Running, Done
  <2> QED BY <1>6, <2>2, <2>3, PhaseStutters
          DEF Scanning, TakeOut, Same, RunsNow, Alive, Stopped, Waiting
<1>7. ASSUME NEW p \in Processes, ScanNotBlocked(p) \/ ScanCallbackUnblocks(p)
      PROVE  Phase' = Phase
  BY <1>6, <1>7 DEF ScanNotBlocked, ScanCallbackUnblocks
<1>8. ASSUME NEW p \in Processes, NEW x \in Word, ScanCompares(p, x)
      PROVE  Phase' = Phase
  <2>1. CASE UNCHANGED <<queueVars, status>> /\ os' \in {"scan", "sos"}
    <3>1. Queued' = Queued /\ os = "scan"
      BY <1>8, <2>1, QueueUnchanged DEF ScanCompares, Scanning
    <3> QED BY <2>1, <3>1, PhaseStutters DEF Same, RunsNow, Alive, Stopped, Waiting
  <2> QED BY <1>6, <1>8, <2>1 DEF ScanCompares, Scanning, SOS
<1> QED BY <1>1, <1>2, <1>3, <1>4, <1>5, <1>7, <1>8 DEF OsStep

LEMMA ProcessStepRefines ==
  ASSUME TypeOK, QueueSound, LifeInv, ProcessStep
  PROVE  Api!Next \/ Phase' = Phase
<1>1. os = "process" /\ current_process' = current_process
  BY DEF ProcessStep, ProcessYields, WaitUntil, Delay, Finish, InitProcess, ResetProcess,
         Dispatch, WriteFlag, EnablePreempt, DisablePreempt,
         PreemptDisableInterrupts, InProcess
<1>2. /\ current_process \in Processes /\ current_process \notin Queued
      /\ Api!SomeRunning
      /\ Phase[current_process] = "running"
  BY <1>1, SomeRunningInProcess, PhaseOf DEF TypeOK, InHand, QueueSound, RunsNow
<1>3. ASSUME NEW q \in Processes, NEW preempt \in {0, 1},
             InitProcess(q, preempt) \/ ResetProcess(q)
      PROVE  Api!Next
  <2>1. /\ q \notin Queued /\ q # current_process
        /\ UNCHANGED <<queueVars, os>>
        /\ status' = [status EXCEPT ![q] = Ready]
    BY <1>1, <1>3 DEF InitProcess, ResetProcess, Free, InHand
  <2>2. Queued' = Queued
    BY <2>1, QueueUnchanged
  <2>3. \A p \in Processes \ {q} : Same(p)
    BY <1>1, <2>1, <2>2 DEF TypeOK, ProcessTypeOK, Same, RunsNow, Alive, Stopped, Waiting
  <2>4. Phase[q] \in {"idle", "finished"} /\ Phase'[q] = "idle"
    BY <1>1, <2>1, <2>2, PhaseOf, NextPhaseOf
    DEF TypeOK, ProcessTypeOK, RunsNow, Alive, Stopped, Waiting, Ready, Done
  <2>5. Api!InitProcess(q)
    BY <1>2, <2>3, <2>4, PhaseMoves DEF Api!InitProcess, Api!Moves
  <2> QED BY <2>5 DEF Api!Next
<1>4. ASSUME NEW q \in Processes, Dispatch(q) PROVE Api!Next \/ Phase' = Phase
  <2>1. q \notin Queued /\ q # current_process /\ UNCHANGED <<os, status>>
    BY <1>1, <1>4 DEF Dispatch, Free, InHand, processVars
  <2>2. Queued' = IF status[q] = Done \/ process_count >= MAX THEN Queued
                  ELSE Queued \cup {q}
    BY <1>4, <2>1, DispatchSound DEF Dispatch
  <2>3. CASE Queued' = Queued
    BY <1>1, <2>1, <2>3, PhaseStutters DEF Same, RunsNow, Alive, Stopped, Waiting
  <2>4. CASE status[q] # Done /\ Queued' = Queued \cup {q}
    <3>1. \A p \in Processes \ {q} : Same(p)
      BY <1>1, <2>1, <2>4 DEF Same, RunsNow, Alive, Stopped, Waiting
    <3>2. Phase[q] = "idle" /\ Phase'[q] = "waiting"
      BY <1>1, <2>1, <2>4, PhaseOf, NextPhaseOf DEF RunsNow, Alive, Stopped, Waiting
    <3>3. Api!DispatchProcess(q)
      BY <1>2, <3>1, <3>2, PhaseMoves DEF Api!DispatchProcess, Api!Moves
    <3> QED BY <3>3 DEF Api!Next
  <2> QED BY <2>2, <2>3, <2>4
<1>5. ASSUME NEW f \in Flags, NEW v \in FlagValues, WriteFlag(f, v) PROVE Phase' = Phase
  BY <1>1, <1>5, QuietStep DEF WriteFlag, processVars
<1>6. CASE EnablePreempt \/ DisablePreempt \/ PreemptDisableInterrupts
  BY <1>1, <1>6, QuietStep
  DEF EnablePreempt, DisablePreempt, PreemptDisableInterrupts, processVars
<1>7. ASSUME NEW d, WaitUntil(d) \/ Delay(d) PROVE Api!Next
  <2>1. /\ os' = "return" /\ UNCHANGED queueVars
        /\ status' = [status EXCEPT ![current_process] = Blocked]
    BY <1>7 DEF WaitUntil, Delay, YieldProcess
  <2>2. Queued' = Queued
    BY <2>1, QueueUnchanged
  <2>3. \A p \in Processes \ {current_process} : Same(p)
    BY <1>1, <1>2, <2>1, <2>2
    DEF TypeOK, ProcessTypeOK, Same, RunsNow, Alive, Stopped, Waiting
  <2>4. Phase'[current_process] = "waiting"
    BY <1>1, <1>2, <2>1, <2>2, NextPhaseOf
    DEF TypeOK, ProcessTypeOK, RunsNow, Alive, Waiting, Blocked, Done
  <2>5. Api!Yield(current_process)
    BY <1>2, <2>3, <2>4, PhaseMoves DEF Api!Yield, Api!Moves
  <2> QED BY <1>2, <2>5 DEF Api!Next
<1>8. CASE Finish
  <2>1. os' = "return" /\ UNCHANGED <<queueVars, status>> /\ status[current_process] = Done
    BY <1>1, <1>8 DEF Finish, processVars, LifeInv, HandInitialised
  <2>2. Queued' = Queued
    BY <2>1, QueueUnchanged
  <2>3. \A p \in Processes \ {current_process} : Same(p)
    BY <1>1, <2>1, <2>2 DEF Same, RunsNow, Alive, Stopped, Waiting
  <2>4. Phase'[current_process] = "finished"
    BY <1>1, <1>2, <2>1, <2>2, NextPhaseOf DEF RunsNow, Alive, Stopped, Waiting
  <2>5. Api!Finish(current_process)
    BY <1>2, <2>3, <2>4, PhaseMoves DEF Api!Finish, Api!Moves
  <2> QED BY <1>2, <2>5 DEF Api!Next
<1> QED BY <1>3, <1>4, <1>5, <1>6, <1>7, <1>8 DEF ProcessStep, ProcessYields

(* Preemption finishes a process, for what its callers can see. *)
LEMMA InterruptRefines ==
  ASSUME TypeOK, QueueSound, LifeInv, YieldMasked, PreemptConfined,
         TC4_Handler \/ Environment
  PROVE  Api!Next \/ Phase' = Phase
<1>1. CASE Environment
  BY <1>1, QuietStep DEF Environment, Tick, CompareMatch, FlagInterrupt, processVars
<1>2. CASE TC4_Handler
  <2>1. /\ os' = "sos" /\ UNCHANGED <<queueVars, status, current_process>>
        /\ os \in {"process", "return", "sos"}
        /\ current_process \in Processes
        /\ os = "return" => status[current_process] = Done
    BY <1>2 DEF TC4_Handler, YieldProcess, SOS, PreemptConfined, YieldMasked, TypeOK
  <2>2. Queued' = Queued
    BY <2>1, QueueUnchanged
  <2>3. CASE os # "process"
    BY <2>1, <2>2, <2>3, PhaseStutters DEF Same, RunsNow, Alive, Stopped, Waiting
  <2>4. CASE os = "process"
    <3>1. \A p \in Processes \ {current_process} : Same(p)
      BY <2>1, <2>2, <2>4 DEF Same, RunsNow, Alive, Stopped, Waiting
    <3>2. current_process \notin Queued /\ status[current_process] = Done
      BY <2>4 DEF QueueSound, InHand, LifeInv, HandInitialised
    <3>3. Phase[current_process] = "running" /\ Phase'[current_process] = "finished"
      BY <2>1, <2>2, <2>4, <3>2, PhaseOf, NextPhaseOf DEF RunsNow, Alive, Stopped, Waiting
    <3>4. Api!Finish(current_process)
      BY <2>1, <3>1, <3>3, PhaseMoves DEF Api!Finish, Api!Moves
    <3> QED BY <2>1, <3>4 DEF Api!Next
  <2> QED BY <2>3, <2>4
<1> QED BY <1>1, <1>2

LEMMA InitRefines == Init => Api!Init
<1> SUFFICES ASSUME Init PROVE Api!Init
  OBVIOUS
<1>1. Queued = {MainProcess}
  BY MaxAssumption DEF Init, Queued, Entries, Entry, SlotAt, Wrap, Slots, MAX
<1>2. \A p \in Processes : Phase[p] = IF p = MainProcess THEN "waiting" ELSE "idle"
  BY <1>1, PhaseOf DEF Init, RunsNow, Alive, Stopped, Waiting, Ready, Done
<1> QED BY <1>2 DEF Api!Init, Phase

LEMMA StepRefines ==
  ASSUME Cardinality(Processes) < MAX, TypeOK, QueueSound, LifeInv, YieldMasked,
         PreemptConfined, [Next]_vars
  PROVE  Api!Next \/ Phase' = Phase
<1>1. CASE UNCHANGED vars
  BY <1>1, QuietStep DEF vars, processVars
<1> QED BY <1>1, OsStepRefines, ProcessStepRefines, InterruptRefines DEF Next

(* With a slot to spare, the kernel implements the abstract life of its    *)
(* processes: none is dropped, resumed after its end, or run beside        *)
(* another, in any interleaving of calls, interrupts and time.             *)
THEOREM KernelImplementsApi ==
  ASSUME Cardinality(Processes) < RTOS_MAX_PROCESS_COUNT
  PROVE  Spec => ImplementsApi
<1>1. Init => Api!Init /\ LifeInv /\ YieldMasked
  BY InitRefines, InitLifeInv DEF Init, YieldMasked
<1>2. TypeOK /\ QueueSound /\ LifeInv /\ [Next]_vars => LifeInv'
  BY StepLifeInv DEF MAX
<1>3. TypeOK /\ LifeInv /\ YieldMasked /\ [Next]_vars => YieldMasked'
  BY StepYieldMasked
<1>4. TypeOK /\ QueueSound /\ LifeInv /\ YieldMasked /\ PreemptConfined /\ [Next]_vars
        => [Api!Next]_Phase
  BY StepRefines DEF MAX
<1> QED BY <1>1, <1>2, <1>3, <1>4, TypeCorrect, QueueIsSound, PreemptionConfined, PTL
        DEF Spec, ImplementsApi, Api!Spec
=============================================================================
