--------------------------- MODULE RtosDeadlineProofs ---------------------------
(***************************************************************************)
(* What holds of the deadlines of the table: a delay lasts as long as was *)
(* asked for, and the table stays in the order of its deadlines.           *)
(***************************************************************************)
EXTENDS RtosRefinementProofs

-----------------------------------------------------------------------------
(***************************************************************************)
(* Delays of less than half the range of the counter do not end early,    *)
(* however often the counter wraps.  While one lasts, the ticks still to   *)
(* pass are the unsigned distance from the clock to the deadline, which    *)
(* stays on the positive side of the cast to int.                          *)
(***************************************************************************)

(* A delay of n ticks starts with a distance of n. *)
LEMMA DistanceAtStart ==
  ASSUME NEW t \in Ticks, NEW n \in Ticks PROVE TickSub(TickAdd(t, n), t) = n
BY HalfRangeAssumption DEF Ticks, TickRange, TickSub, TickAdd

(* One tick takes one from a distance that is not 0. *)
LEMMA DistanceAfterTick ==
  ASSUME NEW d \in Ticks, NEW t \in Ticks, TickSub(d, t) # 0
  PROVE  TickSub(d, TickAdd(t, 1)) = TickSub(d, t) - 1
BY HalfRangeAssumption DEF Ticks, TickRange, TickSub, TickAdd

Lasts(p) ==
  /\ Waiting(p)
  /\ status[p] = Blocked
  /\ internal_data[p] = DelayData
  /\ remaining[p] = TickSub(return_deadline[p], now)
  /\ remaining[p] < HalfRange

DelayInv ==
  /\ \A p \in Processes : remaining[p] # 0 => Lasts(p)
  /\ os = "sos" => primask = 1

(* What is out of the table and not on its way back has no delay left. *)
LEMMA NoDelayInHand ==
  ASSUME QueueSound, DelayInv, NEW p \in Processes, p \notin Queued,
         os \in {"return", "dispatch"} /\ p = current_process => status[p] = Done
  PROVE  remaining[p] = 0
BY DEF DelayInv, Lasts, Waiting

LEMMA DelayInvEnough == ASSUME TypeOK, QueueSound, DelayInv PROVE DelayAtLeast
<1>1. InHand => current_process \in Processes /\ current_process \notin Queued
  BY DEF TypeOK, QueueSound
<1> QED BY <1>1, NoDelayInHand DEF DelayAtLeast, InHand

(* A delay that lasts has not elapsed. *)
LEMMA NotElapsed ==
  ASSUME TypeOK, NEW p \in Processes, remaining[p] # 0, Lasts(p)
  PROVE  ~DelayElapsed(p)
<1>1. remaining[p] \in Ticks
  BY DEF TypeOK, ProcessTypeOK
<1> QED BY <1>1, HalfRangeAssumption DEF Lasts, DelayElapsed, AsInt, Ticks, TickRange

(* A step that leaves the delay of a process, and its place, alone. *)
DelayKept(p) ==
  /\ remaining'[p] = remaining[p] /\ return_deadline'[p] = return_deadline[p]
  /\ internal_data'[p] = internal_data[p] /\ status'[p] = status[p]
  /\ Waiting(p) => Waiting(p)'

LEMMA LastsKept ==
  ASSUME NEW p \in Processes, Lasts(p), DelayKept(p), now' = now
  PROVE  Lasts(p)'
BY DEF Lasts, DelayKept

LEMMA OsStepDelayInv ==
  ASSUME Cardinality(Processes) < MAX, TypeOK, QueueSound, DelayInv, OsStep
  PROVE  DelayInv'
<1>1. SUFFICES ASSUME NEW p \in Processes, remaining'[p] # 0 PROVE Lasts(p)'
  BY DEF DelayInv, OsStep, LoopHead, NoneRunnable, SwitchProcess, ProcessReturns, Redispatch,
         ScanNotBlocked, ScanCallbackUnblocks, ScanCompares, Scanning, TakeOut, SOS
<1>2. /\ now' = now /\ UNCHANGED <<remaining, return_deadline, internal_data>>
  BY DEF OsStep, LoopHead, NoneRunnable, SwitchProcess, ProcessReturns, Redispatch,
         ScanNotBlocked, ScanCallbackUnblocks, ScanCompares, Scanning, processVars
<1>3. Lasts(p)
  BY <1>1, <1>2 DEF DelayInv
<1>4. SUFFICES status'[p] = status[p] /\ Waiting(p)'
  BY <1>2, <1>3, LastsKept DEF DelayKept
<1>5. status[p] # Done /\ ~DelayElapsed(p)
  BY <1>1, <1>2, <1>3, NotElapsed DEF Lasts, Blocked, Done
<1>6. CASE LoopHead
  BY <1>3, <1>6, QueueUnchanged DEF LoopHead, processVars, Waiting, Lasts
<1>7. CASE NoneRunnable
  <2>1. /\ blocked_count \in 0 .. process_count
        /\ Taken(blocked_count) = blocked_count - 1
        /\ current_process = Entry(blocked_count - 1)
    BY <1>7 DEF NoneRunnable, TypeOK, ControlTypeOK, QueueTypeOK, Taken
  <2>2. Queued' = Queued \ {current_process}
    BY <1>7, <2>1, RemoveSound DEF NoneRunnable
  <2> QED BY <1>3, <1>5, <1>7, <2>2 DEF NoneRunnable, processVars, Waiting, Lasts
<1>8. CASE SwitchProcess
  <2>1. p \in Queued /\ p # current_process
    BY <1>3, <1>8 DEF SwitchProcess, Lasts, Waiting, QueueSound, InHand
  <2> QED BY <1>8, <2>1, QueueUnchanged DEF SwitchProcess, Waiting, TypeOK, ProcessTypeOK
<1>9. CASE ProcessReturns
  BY <1>3, <1>9, QueueUnchanged DEF ProcessReturns, processVars, Waiting, Lasts
<1>10. CASE Redispatch
  <2>1. current_process \in Processes /\ current_process \notin Queued
    BY <1>10 DEF Redispatch, TypeOK, InHand, QueueSound
  <2>2. ~(process_count >= MAX)
    BY NeverFull, MaxAssumption DEF TypeOK, QueueTypeOK, QueueSound, MAX
  <2>3. Queued' = IF status[current_process] = Done THEN Queued
                  ELSE Queued \cup {current_process}
    BY <1>10, <2>1, <2>2, DispatchSound DEF Redispatch
  <2> QED BY <1>3, <1>5, <1>10, <2>3 DEF Redispatch, processVars, Waiting, Lasts
<1>11. ASSUME NEW q \in Processes, Scanning(q), q # p, TakeOut,
              status' = status \/ status' = [status EXCEPT ![q] = Running]
       PROVE  status'[p] = status[p] /\ Waiting(p)'
  <2>1. blocked_count \in 0 .. process_count /\ Taken(blocked_count) = blocked_count
    BY <1>11 DEF Scanning, TypeOK, ControlTypeOK, QueueTypeOK, Taken
  <2>2. Queued' = Queued \ {q}
    BY <1>11, <2>1, RemoveSound DEF Scanning, TakeOut
  <2> QED BY <1>3, <1>11, <2>2 DEF Scanning, Waiting, Lasts, TypeOK, ProcessTypeOK
\* the scan does not stop at p itself
<1>12. ASSUME NEW q \in Processes, ScanNotBlocked(q) \/ ScanCallbackUnblocks(q)
       PROVE  status'[p] = status[p] /\ Waiting(p)'
  <2>1. q # p
    BY <1>3, <1>5, <1>12 DEF ScanNotBlocked, ScanCallbackUnblocks, Lasts
  <2> QED BY <1>11, <1>12, <2>1 DEF ScanNotBlocked, ScanCallbackUnblocks
<1>13. ASSUME NEW q \in Processes, NEW x \in Word, ScanCompares(q, x)
       PROVE  status'[p] = status[p] /\ Waiting(p)'
  <2>1. CASE UNCHANGED <<queueVars, status>> /\ os = "scan"
    BY <1>3, <2>1, QueueUnchanged DEF Lasts, Waiting
  <2>2. CASE Holds(internal_data[q].condition, x, internal_data[q].value) /\ TakeOut
    <3>1. q # p
      BY <1>3, <2>2 DEF Lasts, DelayData, Holds
    <3>2. status' = [status EXCEPT ![q] = Running] \/ UNCHANGED status
      BY <1>13 DEF ScanCompares
    <3> QED BY <1>11, <1>13, <2>2, <3>1, <3>2 DEF ScanCompares
  <2> QED BY <1>13, <2>1, <2>2 DEF ScanCompares, Scanning
<1> QED BY <1>6, <1>7, <1>8, <1>9, <1>10, <1>12, <1>13 DEF OsStep

LEMMA ProcessStepDelayInv ==
  ASSUME DelayTicks \subseteq 0 .. HalfRange - 1,
         TypeOK, QueueSound, DelayInv, ProcessStep
  PROVE  DelayInv'
<1>1. os = "process" /\ now' = now /\ current_process' = current_process
  BY DEF ProcessStep, ProcessYields, WaitUntil, Delay, Finish, InitProcess, ResetProcess,
         Dispatch, WriteFlag, EnablePreempt, DisablePreempt,
         PreemptDisableInterrupts, InProcess
<1>2. current_process \in Processes /\ current_process \notin Queued
  BY <1>1 DEF TypeOK, InHand, QueueSound
<1>3. os' \in {"process", "return"}
  BY <1>1 DEF ProcessStep, ProcessYields, WaitUntil, Delay, Finish, YieldProcess, InitProcess,
              ResetProcess, Dispatch, WriteFlag, EnablePreempt, DisablePreempt,
              PreemptDisableInterrupts
<1>4. SUFFICES ASSUME NEW p \in Processes, remaining'[p] # 0 PROVE Lasts(p)'
  BY <1>3 DEF DelayInv
\* the process that starts the delay
<1>5. ASSUME NEW n \in DelayTicks, Delay(n), p = current_process PROVE Lasts(p)'
  <2>1. n \in Ticks /\ n < HalfRange
    BY KernelAssumption, HalfRangeAssumption DEF Ticks, TickRange
  <2>2. /\ return_deadline'[p] = TickAdd(now, n) /\ internal_data'[p] = DelayData
        /\ status'[p] = Blocked /\ remaining'[p] = n
    BY <1>5 DEF Delay, YieldProcess, TypeOK, ProcessTypeOK
  <2>3. os' = "return"
    BY <1>5 DEF Delay, YieldProcess
  <2> QED BY <1>1, <1>5, <2>1, <2>2, <2>3, DistanceAtStart
          DEF Lasts, Waiting, Blocked, Done, TypeOK, ControlTypeOK
\* any other process, in any step
<1>6. ASSUME p \in Queued PROVE Lasts(p)'
  <2>1. p # current_process
    BY <1>2, <1>6
  <2>2. p \in Queued'
    <3>1. ASSUME NEW q \in Processes, Dispatch(q) PROVE p \in Queued'
      BY <1>6, <3>1, DispatchSound DEF Dispatch, Free
    <3>2. CASE UNCHANGED queueVars
      BY <1>6, <3>2, QueueUnchanged
    <3> QED BY <3>1, <3>2
            DEF ProcessStep, ProcessYields, WaitUntil, Delay, Finish, InitProcess,
                ResetProcess, WriteFlag, EnablePreempt, DisablePreempt,
                PreemptDisableInterrupts
  <2>3. /\ remaining'[p] = remaining[p] /\ return_deadline'[p] = return_deadline[p]
        /\ internal_data'[p] = internal_data[p] /\ status'[p] = status[p]
    BY <1>6, <2>1
    DEF ProcessStep, ProcessYields, WaitUntil, Delay, Finish, YieldProcess, InitProcess,
        ResetProcess, Dispatch, Free, WriteFlag, EnablePreempt, DisablePreempt,
        PreemptDisableInterrupts, processVars, TypeOK, ProcessTypeOK
  <2>4. Lasts(p)
    BY <1>4, <2>3 DEF DelayInv
  <2> QED BY <1>1, <2>2, <2>3, <2>4, LastsKept DEF DelayKept, Waiting, Lasts
\* what is neither had no delay, and has none now
<1>7. CASE p \notin Queued /\ ~(\E n \in DelayTicks : Delay(n) /\ p = current_process)
  <2>1. remaining[p] = 0
    BY <1>1, <1>7, NoDelayInHand
  <2>2. remaining'[p] = remaining[p]
    BY <1>7 DEF ProcessStep, ProcessYields, WaitUntil, Delay, Finish, InitProcess,
        ResetProcess, Dispatch, WriteFlag, EnablePreempt, DisablePreempt,
        PreemptDisableInterrupts, TypeOK, ProcessTypeOK
  <2> QED BY <1>4, <2>1, <2>2
<1> QED BY <1>5, <1>6, <1>7

LEMMA InterruptDelayInv ==
  ASSUME TypeOK, QueueSound, PreemptConfined, YieldMasked, DelayInv,
         TC4_Handler \/ Environment
  PROVE  DelayInv'
<1>1. CASE Tick
  <2>1. SUFFICES ASSUME NEW p \in Processes, remaining'[p] # 0 PROVE Lasts(p)'
    BY <1>1 DEF Tick, DelayInv
  <2>2. remaining[p] # 0 /\ remaining'[p] = remaining[p] - 1
    BY <1>1, <2>1 DEF Tick
  <2>3. Lasts(p) /\ remaining[p] \in Ticks /\ return_deadline[p] \in Ticks /\ now \in Ticks
    BY <2>2 DEF DelayInv, TypeOK, ProcessTypeOK, ControlTypeOK
  <2>4. remaining'[p] = TickSub(return_deadline[p], TickAdd(now, 1))
    BY <2>2, <2>3, DistanceAfterTick DEF Lasts
  <2>5. remaining'[p] < HalfRange
    BY <2>2, <2>3, HalfRangeAssumption DEF Lasts, Ticks, TickRange
  <2> QED BY <1>1, <2>3, <2>4, <2>5, QueueUnchanged DEF Tick, processVars, Lasts, Waiting
<1>2. ASSUME CompareMatch \/ \E f \in Flags, v \in FlagValues : FlagInterrupt(f, v)
      PROVE  DelayInv'
  <2>1. /\ now' = now /\ Queued' = Queued
        /\ UNCHANGED <<processVars, remaining, os, current_process, primask>>
    BY <1>2, QueueUnchanged DEF CompareMatch, FlagInterrupt
  <2> QED BY <2>1 DEF DelayInv, Lasts, Waiting, processVars
<1>3. CASE TC4_Handler
  \* os is not "sos", where interrupts are masked
  <2>1. /\ os \in {"process", "return"} /\ os' = "sos" /\ primask' = 1
        /\ now' = now /\ Queued' = Queued
        /\ UNCHANGED <<internal_data, status, remaining, current_process>>
        /\ current_process \in Processes
        /\ os = "return" => status[current_process] = Done
    BY <1>3, QueueUnchanged
    DEF TC4_Handler, YieldProcess, SOS, PreemptConfined, YieldMasked, DelayInv, TypeOK
  <2>2. remaining[current_process] = 0
    BY <2>1, NoDelayInHand DEF QueueSound, InHand
  <2>3. ASSUME NEW p \in Processes, remaining[p] # 0 PROVE Lasts(p)'
    <3>1. p # current_process /\ Lasts(p)
      BY <2>2, <2>3 DEF DelayInv
    <3>2. return_deadline'[p] = return_deadline[p]
      BY <1>3, <3>1 DEF TC4_Handler, TypeOK, ProcessTypeOK
    <3> QED BY <2>1, <3>1, <3>2 DEF Lasts, Waiting
  <2> QED BY <2>1, <2>3 DEF DelayInv
<1> QED BY <1>1, <1>2, <1>3 DEF Environment

LEMMA StepDelayInv ==
  ASSUME Cardinality(Processes) < MAX, DelayTicks \subseteq 0 .. HalfRange - 1,
         TypeOK, QueueSound, PreemptConfined, YieldMasked, DelayInv, [Next]_vars
  PROVE  DelayInv'
<1>1. CASE UNCHANGED vars
  <2>1. Queued' = Queued
    BY <1>1, QueueUnchanged DEF vars
  <2> QED BY <1>1, <2>1 DEF vars, processVars, DelayInv, Lasts, Waiting
<1> QED BY <1>1, OsStepDelayInv, ProcessStepDelayInv, InterruptDelayInv DEF Next

(* A delay of less than half the range of the counter lasts at least as    *)
(* long as was asked for (rtos_time.h:29), in a table with a slot to spare; *)
(* the run delay_range shows that longer ones do not.                       *)
THEOREM DelaysLast ==
  ASSUME Cardinality(Processes) < RTOS_MAX_PROCESS_COUNT,
         DelayTicks \subseteq 0 .. HalfRange - 1
  PROVE  Spec => []DelayAtLeast
<1>1. Init => DelayInv /\ LifeInv /\ YieldMasked
  BY InitLifeInv DEF Init, DelayInv, YieldMasked
<1>2. TypeOK /\ QueueSound /\ LifeInv /\ [Next]_vars => LifeInv'
  BY StepLifeInv DEF MAX
<1>3. TypeOK /\ LifeInv /\ YieldMasked /\ [Next]_vars => YieldMasked'
  BY StepYieldMasked
<1>4. TypeOK /\ QueueSound /\ PreemptConfined /\ YieldMasked /\ DelayInv /\ [Next]_vars
        => DelayInv'
  BY StepDelayInv DEF MAX
<1>5. TypeOK /\ QueueSound /\ DelayInv => DelayAtLeast
  BY DelayInvEnough
<1> QED BY <1>1, <1>2, <1>3, <1>4, <1>5, TypeCorrect, QueueIsSound, PreemptionConfined, PTL
        DEF Spec

-----------------------------------------------------------------------------
(***************************************************************************)
(* The process table stays in the order of deadlines.  A process that has *)
(* not started is due "now" at every insertion, so the order is not one    *)
(* of keys that each process keeps; what is true all along is that nothing *)
(* before such a process is still to become due.                           *)
(***************************************************************************)

Started(p) == status[p] # Ready
DueOf(p) == AsInt(TickSub(return_deadline[p], now))

(* p may stand before q. *)
Before(p, q) ==
  /\ Started(p) /\ Started(q) => DueOf(p) <= DueOf(q)
  /\ Started(p) /\ ~Started(q) => DueOf(p) <= 0

Ordered == \A i, j \in Entries : i < j => Before(Entry(i), Entry(j))

StopMasked == os = "sos" => primask = 1

LEMMA DueType == ASSUME TypeOK, NEW p \in Processes PROVE DueOf(p) \in Int
BY TickSubType, AsIntType DEF DueOf, TypeOK, ProcessTypeOK, ControlTypeOK

LEMMA KeyOf ==
  ASSUME NEW p \in Processes
  PROVE  TimeToDeadline[p] = IF Started(p) THEN DueOf(p) ELSE 0
BY DEF TimeToDeadline, Started, DueOf

LEMMA OrderedEnough ==
  ASSUME TypeOK, QueueSound, Ordered PROVE EarliestDeadlineFirst
BY DEF Ordered, Before, Started, DueOf, EarliestDeadlineFirst

(* A tick brings every deadline one nearer, unless it wraps the distance.  *)
LEMMA DueAfterTick ==
  ASSUME NEW d \in Ticks, NEW t \in Ticks, AsInt(TickSub(d, t)) > - HalfRange
  PROVE  AsInt(TickSub(d, TickAdd(t, 1))) = AsInt(TickSub(d, t)) - 1
BY HalfRangeAssumption DEF Ticks, TickRange, TickSub, TickAdd, AsInt

-----------------------------------------------------------------------------

(* Steps that leave the table and what orders it alone. *)
LEMMA OrderedUnchanged ==
  ASSUME Ordered, QueueSound, UNCHANGED <<queueVars, now>>,
         \A p \in Queued : /\ Started(p)' <=> Started(p)
                           /\ return_deadline'[p] = return_deadline[p]
  PROVE  Ordered'
<1>1. Entries' = Entries /\ \A o \in Entries : Entry(o)' = Entry(o) /\ Entry(o) \in Queued
  BY DEF queueVars, Queued, Entries, Entry, SlotAt, Wrap, MAX
<1> QED BY <1>1 DEF Ordered, Before, DueOf

LEMMA InsertOrdered ==
  ASSUME TypeOK, QueueSound, Ordered, process_count < MAX,
         NEW p \in Processes, NEW k \in 0 .. process_count,
         InsertionPoint(k, TimeToDeadline, TimeToDeadline[p]), Insert(p, k),
         UNCHANGED <<now, status, return_deadline>>
  PROVE  Ordered'
<1> DEFINE E(o) == Entry(o)'
<1>1. \A o \in Entries' : E(o) = IF o < k THEN Entry(o) ELSE IF o = k THEN p ELSE Entry(o - 1)
  BY InsertEntries DEF TypeOK, QueueSound
<1>2. /\ Entries' = 0 .. process_count /\ Entries = 0 .. process_count - 1
      /\ process_count \in Nat
  BY DEF Insert, Entries, TypeOK, QueueTypeOK
<1>3. \A o \in Entries : Entry(o) \in Processes
  BY DEF QueueSound, QueueOK
<1>4. \A q, r \in Processes : Before(q, r) =>
        /\ Started(q)' /\ Started(r)' => DueOf(q)' <= DueOf(r)'
        /\ Started(q)' /\ ~Started(r)' => DueOf(q)' <= 0
  BY DEF Before, Started, DueOf
<1>5. ASSUME NEW i \in Entries', i < k PROVE i \in Entries /\ Before(Entry(i), p)
  <2>1. i \in Entries /\ k - 1 \in Entries /\ k > 0 /\ i <= k - 1
    BY <1>2, <1>5 DEF Entries
  <2>2. TimeToDeadline[Entry(k - 1)] <= TimeToDeadline[p]
    BY <2>1 DEF InsertionPoint
  <2>3. i = k - 1 \/ Before(Entry(i), Entry(k - 1))
    BY <2>1 DEF Ordered, Entries
  <2>4. ASSUME NEW q \in Processes, TimeToDeadline[q] <= TimeToDeadline[p]
        PROVE  Before(q, p)
    BY <2>4, KeyOf DEF Before
  <2>5. ASSUME NEW r \in Processes, NEW q \in Processes, Before(r, q),
               TimeToDeadline[q] <= TimeToDeadline[p]
        PROVE  Before(r, p)
    BY <2>5, KeyOf, DueType DEF Before
  <2> QED BY <1>3, <2>1, <2>2, <2>3, <2>4, <2>5
<1>6. ASSUME NEW j \in Entries', k < j PROVE j - 1 \in Entries /\ Before(p, Entry(j - 1))
  <2>1. j - 1 \in Entries /\ j - 1 \in k .. process_count - 1
    BY <1>2, <1>6
  <2>2. TimeToDeadline[Entry(j - 1)] > TimeToDeadline[p]
    BY <2>1 DEF InsertionPoint
  <2>3. ASSUME NEW q \in Processes, TimeToDeadline[q] > TimeToDeadline[p]
        PROVE  Before(p, q)
    BY <2>3, KeyOf, DueType DEF Before
  <2> QED BY <1>3, <2>1, <2>2, <2>3
<1>7. ASSUME NEW i \in Entries', NEW j \in Entries', i < j
      PROVE  E(i) \in Processes /\ E(j) \in Processes /\ Before(E(i), E(j))
  <2> USE <1>1, <1>2, <1>3, <1>7
  <2>1. CASE j < k
    BY <2>1 DEF Ordered, Entries
  <2>2. CASE j = k
    BY <1>5, <2>2
  <2>3. CASE i = k
    BY <1>6, <2>3
  <2>4. CASE i < k /\ k < j
    BY <1>5, <1>6, <2>4 DEF Ordered, Entries
  <2>5. CASE k < i
    BY <1>6, <2>5 DEF Ordered, Entries
  <2> QED BY <2>1, <2>2, <2>3, <2>4, <2>5
<1> QED BY <1>4, <1>7 DEF Ordered, Before, Started, DueOf

LEMMA RemoveOrdered ==
  ASSUME Cardinality(Processes) < MAX, TypeOK, QueueSound, Ordered, os = "scan",
         NEW b \in 0 .. process_count, Remove(b), UNCHANGED <<now, return_deadline>>,
         \A p \in Processes : Started(p)' <=> Started(p)
  PROVE  Ordered'
<1>1. process_count < MAX /\ b < MAX /\ process_count > 0
  BY NeverFull, MaxAssumption DEF TypeOK, QueueSound, QueueTypeOK, MAX
<1>2. \A o \in Entries' : Entry(o)' = IF o < Taken(b) THEN Entry(o) ELSE Entry(o + 1)
  BY <1>1, RemoveEntries DEF TypeOK, QueueSound
<1>3. /\ Entries' = 0 .. process_count - 2 /\ Entries = 0 .. process_count - 1
      /\ process_count \in Nat
  <2>1. process_count' - 1 = process_count - 2 /\ process_count \in Nat
    BY DEF Remove, TypeOK, QueueTypeOK
  <2> QED BY <2>1 DEF Entries
<1>4. \A o \in Entries : Entry(o) \in Processes
  BY DEF QueueSound, QueueOK
<1>5. \A o \in Entries' : o \in Entries /\ o + 1 \in Entries
  BY <1>3
<1>6. Taken(b) \in Int
  BY DEF Taken
<1>7. ASSUME NEW i \in Entries', NEW j \in Entries', i < j
      PROVE  LET e(o) == IF o < Taken(b) THEN Entry(o) ELSE Entry(o + 1)
             IN  e(i) \in Processes /\ e(j) \in Processes /\ Before(e(i), e(j))
  <2>1. /\ i < j /\ i < j + 1 /\ i + 1 < j + 1
        /\ i \in Int /\ j \in Int /\ ~(i >= Taken(b) /\ j < Taken(b))
    BY <1>3, <1>6, <1>7
  <2>2. /\ Before(Entry(i), Entry(j)) /\ Before(Entry(i), Entry(j + 1))
        /\ Before(Entry(i + 1), Entry(j + 1))
    BY <1>5, <1>7, <2>1 DEF Ordered
  <2> QED BY <1>4, <1>5, <1>6, <1>7, <2>1, <2>2
<1>8. \A q, r \in Processes : Before(q, r) =>
        /\ Started(q)' /\ Started(r)' => DueOf(q)' <= DueOf(r)'
        /\ Started(q)' /\ ~Started(r)' => DueOf(q)' <= 0
  BY DEF Before, DueOf
<1> QED BY <1>2, <1>7, <1>8 DEF Ordered, Before, Started, DueOf

LEMMA DispatchOrdered ==
  ASSUME TypeOK, QueueSound, Ordered, NEW p \in Processes, NEW r, DispatchProcess(p, r),
         UNCHANGED <<now, status, return_deadline>>
  PROVE  Ordered'
<1>1. CASE UNCHANGED queueVars
  BY <1>1, OrderedUnchanged DEF Started
<1> QED BY <1>1, InsertOrdered DEF DispatchProcess

-----------------------------------------------------------------------------

LEMMA OsStepOrdered ==
  ASSUME Cardinality(Processes) < MAX, TypeOK, QueueSound, Ordered, OsStep
  PROVE  Ordered'
<1>1. CASE LoopHead \/ ProcessReturns
  BY <1>1, OrderedUnchanged DEF LoopHead, ProcessReturns, processVars, Started
<1>2. CASE NoneRunnable
  <2>1. blocked_count \in 0 .. process_count
    BY <1>2 DEF NoneRunnable, TypeOK, ControlTypeOK, QueueTypeOK
  <2> QED BY <1>2, <2>1, RemoveOrdered DEF NoneRunnable, processVars, Started
<1>3. CASE SwitchProcess
  <2>1. current_process \notin Queued
    BY <1>3 DEF SwitchProcess, QueueSound, InHand
  <2>2. Queued \subseteq Processes
    BY DEF QueueSound, QueueOK, Queued
  <2>3. \A p \in Queued : status'[p] = status[p]
    BY <1>3, <2>1, <2>2 DEF SwitchProcess, TypeOK, ProcessTypeOK
  <2> QED BY <1>3, <2>3, OrderedUnchanged DEF SwitchProcess, Started
<1>4. CASE Redispatch
  BY <1>4, DispatchOrdered DEF Redispatch, processVars, TypeOK, InHand
<1>5. ASSUME NEW p \in Processes, Scanning(p), TakeOut,
             status' = status \/ (status[p] = Blocked /\ status' = [status EXCEPT ![p] = Running])
      PROVE  Ordered'
  <2>1. blocked_count \in 0 .. process_count
    BY <1>5 DEF Scanning, TypeOK, ControlTypeOK, QueueTypeOK
  <2>2. \A q \in Processes : Started(q)' <=> Started(q)
    BY <1>5 DEF TypeOK, ProcessTypeOK, Started, Blocked, Running, Ready
  <2> QED BY <1>5, <2>1, <2>2, RemoveOrdered DEF Scanning, TakeOut
<1>6. ASSUME NEW p \in Processes, ScanNotBlocked(p) \/ ScanCallbackUnblocks(p)
      PROVE  Ordered'
  BY <1>5, <1>6 DEF ScanNotBlocked, ScanCallbackUnblocks
<1>7. ASSUME NEW p \in Processes, NEW x \in Word, ScanCompares(p, x) PROVE Ordered'
  <2>1. CASE UNCHANGED <<queueVars, status>>
    BY <1>7, <2>1, OrderedUnchanged DEF ScanCompares, Scanning, Started
  <2> QED BY <1>5, <1>7, <2>1 DEF ScanCompares
<1> QED BY <1>1, <1>2, <1>3, <1>4, <1>6, <1>7 DEF OsStep

LEMMA ProcessStepOrdered ==
  ASSUME TypeOK, QueueSound, Ordered, ProcessStep
  PROVE  Ordered'
<1>1. Queued \subseteq Processes
  BY DEF QueueSound, QueueOK, Queued
<1>2. current_process \notin Queued
  BY DEF ProcessStep, ProcessYields, WaitUntil, Delay, Finish, InitProcess, ResetProcess,
         Dispatch, WriteFlag, EnablePreempt, DisablePreempt,
         PreemptDisableInterrupts, InProcess, QueueSound, InHand
<1>3. ASSUME NEW q \in Processes, Dispatch(q) PROVE Ordered'
  BY <1>3, DispatchOrdered DEF Dispatch, InProcess, processVars
<1>4. ASSUME NEW q \in Processes, NEW preempt \in {0, 1},
             InitProcess(q, preempt) \/ ResetProcess(q)
      PROVE  Ordered'
  <2>1. /\ q \notin Queued /\ UNCHANGED <<queueVars, now>>
        /\ status' = [status EXCEPT ![q] = Ready]
        /\ return_deadline' = [return_deadline EXCEPT ![q] = now]
    BY <1>4 DEF InitProcess, ResetProcess, InProcess, Free
  <2> QED BY <1>1, <2>1, OrderedUnchanged DEF Started, TypeOK, ProcessTypeOK
<1>5. ASSUME NEW d, WaitUntil(d) \/ Delay(d) PROVE Ordered'
  <2>1. \A p \in Queued : status'[p] = status[p] /\ return_deadline'[p] = return_deadline[p]
    BY <1>1, <1>2, <1>5 DEF WaitUntil, Delay, YieldProcess, TypeOK, ProcessTypeOK
  <2> QED BY <1>5, <2>1, OrderedUnchanged DEF WaitUntil, Delay, InProcess, Started
<1>6. ASSUME NEW f \in Flags, NEW v \in FlagValues, WriteFlag(f, v) PROVE Ordered'
  BY <1>6, OrderedUnchanged DEF WriteFlag, InProcess, processVars, Started
<1>7. CASE Finish \/ EnablePreempt \/ DisablePreempt \/ PreemptDisableInterrupts
  BY <1>7, OrderedUnchanged DEF Finish, EnablePreempt, DisablePreempt,
      PreemptDisableInterrupts, InProcess, processVars, Started
<1> QED BY <1>3, <1>4, <1>5, <1>6, <1>7 DEF ProcessStep, ProcessYields

LEMMA TickOrdered ==
  ASSUME MaxDelayLag <= HalfRange, MaxReadyLag <= HalfRange, MaxWaitLag <= HalfRange,
         TypeOK, QueueSound, Ordered, Tick
  PROVE  Ordered'
<1>1. /\ Entries' = Entries /\ UNCHANGED status
      /\ \A o \in Entries : Entry(o)' = Entry(o) /\ Entry(o) \in Queued /\ Entry(o) \in Processes
  BY DEF Tick, processVars, queueVars, QueueSound, QueueOK, Queued, Entries, Entry, SlotAt,
         Wrap, MAX
<1>2. ASSUME NEW p \in Processes, p \in Queued, Started(p)
      PROVE  DueOf(p)' = DueOf(p) - 1
  <2>1. Lag(p) < MaxLag(p) /\ MaxLag(p) <= HalfRange
    BY <1>2 DEF Tick, Waiting, Started, MaxLag
  <2>2. /\ return_deadline[p] \in Ticks /\ now \in Ticks
        /\ now' = TickAdd(now, 1) /\ return_deadline' = return_deadline
    BY DEF Tick, processVars, TypeOK, ProcessTypeOK, ControlTypeOK
  <2>3. MaxLag(p) \in Int
    BY KernelAssumption DEF MaxLag
  <2>4. AsInt(TickSub(return_deadline[p], now)) > - HalfRange
    BY <2>1, <2>2, <2>3, TickSubType, AsIntType, HalfRangeAssumption DEF Lag
  <2> QED BY <2>2, <2>4, DueAfterTick DEF DueOf
<1>3. ASSUME NEW i \in Entries, NEW j \in Entries, i < j
      PROVE  LET p == Entry(i)
                 q == Entry(j)
             IN  /\ Started(p) /\ Started(q) => DueOf(p)' <= DueOf(q)'
                 /\ Started(p) /\ ~Started(q) => DueOf(p)' <= 0
  <2>1. Before(Entry(i), Entry(j))
    BY <1>3 DEF Ordered
  <2> QED BY <1>1, <1>2, <2>1, DueType DEF Before
<1> QED BY <1>1, <1>3 DEF Ordered, Before, Started, DueOf

LEMMA StepOrdered ==
  ASSUME Cardinality(Processes) < MAX,
         MaxDelayLag <= HalfRange, MaxReadyLag <= HalfRange, MaxWaitLag <= HalfRange,
         TypeOK, QueueSound, PreemptConfined, StopMasked, Ordered, [Next]_vars
  PROVE  Ordered'
<1>1. CASE TC4_Handler
  \* the deadline it writes is that of a process in hand
  <2>1. os \in {"process", "return"}
    BY <1>1 DEF TC4_Handler, PreemptConfined, StopMasked
  <2>2. current_process \notin Queued /\ Queued \subseteq Processes
    BY <2>1 DEF QueueSound, QueueOK, Queued, InHand
  <2>3. \A p \in Queued : status'[p] = status[p] /\ return_deadline'[p] = return_deadline[p]
    BY <1>1, <2>2 DEF TC4_Handler, YieldProcess, TypeOK, ProcessTypeOK
  <2> QED BY <1>1, <2>3, OrderedUnchanged DEF TC4_Handler, Started
<1>2. ASSUME CompareMatch \/ \E f \in Flags, v \in FlagValues : FlagInterrupt(f, v)
      PROVE  Ordered'
  BY <1>2, OrderedUnchanged DEF CompareMatch, FlagInterrupt, processVars, Started
<1>3. CASE UNCHANGED vars
  BY <1>3, OrderedUnchanged DEF vars, processVars, Started
<1> QED BY <1>1, <1>2, <1>3, OsStepOrdered, ProcessStepOrdered, TickOrdered
        DEF Next, Environment

LEMMA StepStopMasked == ASSUME StopMasked, [Next]_vars PROVE StopMasked'
<1> USE DEF StopMasked
<1>1. CASE OsStep
  BY <1>1 DEF OsStep, LoopHead, NoneRunnable, SwitchProcess, ProcessReturns, Redispatch,
              ScanNotBlocked, ScanCallbackUnblocks, ScanCompares, Scanning, TakeOut, SOS
<1>2. CASE ProcessStep
  BY <1>2 DEF ProcessStep, ProcessYields, WaitUntil, Delay, Finish, YieldProcess, SOS,
              InitProcess, ResetProcess, Dispatch, WriteFlag, EnablePreempt, DisablePreempt,
              PreemptDisableInterrupts, InProcess
<1>3. CASE TC4_Handler \/ Environment
  BY <1>3 DEF TC4_Handler, YieldProcess, SOS, Environment, Tick, CompareMatch, FlagInterrupt
<1>4. CASE UNCHANGED vars
  BY <1>4 DEF vars
<1> QED BY <1>1, <1>2, <1>3, <1>4 DEF Next

(* The started processes of the table are in the order of their deadlines, *)
(* as long as none waits for half the range of the counter beyond its own  *)
(* (lines 124-145), in a table with a slot to spare.                        *)
THEOREM TableIsOrdered ==
  ASSUME Cardinality(Processes) < RTOS_MAX_PROCESS_COUNT,
         MaxDelayLag <= HalfRange, MaxReadyLag <= HalfRange, MaxWaitLag <= HalfRange
  PROVE  Spec => []EarliestDeadlineFirst
<1>1. Init => Ordered /\ StopMasked
  <2>1. SUFFICES ASSUME Init PROVE Ordered /\ StopMasked
    OBVIOUS
  <2>2. \A i, j \in Entries : ~(i < j)
    BY <2>1 DEF Init, Entries
  <2> QED BY <2>1, <2>2 DEF Init, Ordered, StopMasked
<1>2. StopMasked /\ [Next]_vars => StopMasked'
  BY StepStopMasked
<1>3. TypeOK /\ QueueSound /\ PreemptConfined /\ StopMasked /\ Ordered /\ [Next]_vars
        => Ordered'
  BY StepOrdered DEF MAX
<1>4. TypeOK /\ QueueSound /\ Ordered => EarliestDeadlineFirst
  BY OrderedEnough
<1> QED BY <1>1, <1>2, <1>3, <1>4, TypeCorrect, QueueIsSound, PreemptionConfined, PTL
        DEF Spec
=============================================================================
