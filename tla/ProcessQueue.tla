----------------------------- MODULE ProcessQueue -----------------------------
(***************************************************************************)
(* The table of dispatched processes (rtos_process.c): a circular buffer  *)
(* of process pointers with a head, a tail and a count.                   *)
(* dispatch_process inserts from the tail, moving entries up to make      *)
(* room; next_process takes one entry out, moving the blocked entries it  *)
(* skipped up by one.  Both loops are given here by what they compute, so *)
(* that facts about them can be proved; QueueLoops.tla holds the loops    *)
(* themselves and compares the two.                                       *)
(*                                                                         *)
(* A slot index is always within one turn of the buffer, so a conditional *)
(* subtraction is the "% RTOS_MAX_PROCESS_COUNT" of the code.             *)
(***************************************************************************)
EXTENDS Integers, FiniteSets

CONSTANTS Processes, RTOS_MAX_PROCESS_COUNT, NoProcess

ASSUME ProcessesAssumption == IsFiniteSet(Processes)
ASSUME MaxAssumption == RTOS_MAX_PROCESS_COUNT \in Nat \ {0, 1}
ASSUME NoProcessAssumption == NoProcess \notin Processes

VARIABLES process_queue, process_queue_head, process_queue_tail, process_count

queueVars ==
  <<process_queue, process_queue_head, process_queue_tail, process_count>>

MAX == RTOS_MAX_PROCESS_COUNT
Slots == 0 .. MAX - 1
WrapLate(i) == IF i > MAX THEN i - MAX ELSE i   \* mutant of Wrap
Wrap(i) == IF i >= MAX THEN i - MAX ELSE i

(* The slot of the entry at a distance from the head, and back. *)
SlotAt(o) == Wrap(process_queue_head + o)
OffsetOf(s) == IF s >= process_queue_head THEN s - process_queue_head
               ELSE s - process_queue_head + MAX

(* The entries of the queue, by their distance from the head. *)
Entries == 0 .. process_count - 1
Entry(o) == process_queue[SlotAt(o)]
Queued == {Entry(o) : o \in Entries}

InitProcessQueue ==
  /\ process_queue = [s \in Slots |-> NoProcess]
  /\ process_queue_head = 0
  /\ process_queue_tail = 0
  /\ process_count = 0

(* The place the insertion loop stops at: every entry from k on is later  *)
(* than the new one (key gives the order of an entry, new that of the new *)
(* process) and moves up; the entry before k, if there is one, is not.    *)
InsertionAtHead(k, key, new) == k = 0   \* mutant: no comparison stops the loop
InsertionPoint(k, key, new) ==
  /\ \A o \in k .. process_count - 1 : key[Entry(o)] > new
  /\ k > 0 => key[Entry(k - 1)] <= new

(* The buffer with p at offset k and the entries from k on moved up. *)
InsertedShort(p, k) ==   \* mutant: the loop ends one entry early
  [s \in Slots |->
     LET o == OffsetOf(s) IN
     IF o = k THEN p
     ELSE IF o > k /\ o < process_count THEN Entry(o - 1)
     ELSE process_queue[s]]
Inserted(p, k) ==
  [s \in Slots |->
     LET o == OffsetOf(s) IN
     IF o = k THEN p
     ELSE IF o > k /\ o <= process_count THEN Entry(o - 1)
     ELSE process_queue[s]]

Insert(p, k) ==
  /\ process_queue' = Inserted(p, k)
  /\ process_count' = process_count + 1
  /\ process_queue_tail' = Wrap(process_queue_tail + 1)
  /\ UNCHANGED process_queue_head

(* The buffer after the b entries at the head moved up by one.  With b    *)
(* equal to the capacity the destination of the first move is the head    *)
(* itself, whose entry is overwritten before it has moved.                *)
MovedUpShort(b) ==   \* mutant: the loop stops before the entry at the head
  [s \in Slots |->
     LET o == OffsetOf(s) IN
     IF o > 1 /\ o <= b THEN Entry(o - 1) ELSE process_queue[s]]
MovedUp(b) ==
  [s \in Slots |->
     LET o == OffsetOf(s) IN
     IF b = MAX /\ o \in {0, 1} THEN Entry(MAX - 1)
     ELSE IF o > 0 /\ o <= b THEN Entry(o - 1)
     ELSE process_queue[s]]

Remove(b) ==
  /\ process_queue' = MovedUp(b)
  /\ process_count' = process_count - 1
  /\ process_queue_head' = Wrap(process_queue_head + 1)
  /\ UNCHANGED process_queue_tail

-----------------------------------------------------------------------------
QueueTypeOK ==
  /\ process_queue \in [Slots -> Processes \cup {NoProcess}]
  /\ process_queue_head \in Slots
  /\ process_queue_tail \in Slots
  /\ process_count \in 0 .. MAX

(* The buffer is coherent: the tail is the slot after the last entry,     *)
(* and every entry is a process (code: the three counters are updated     *)
(* independently at lines 149-151 and 234-236).                           *)
QueueOK ==
  /\ process_queue_tail = SlotAt(process_count)
  /\ \A o \in Entries : Entry(o) \in Processes

(* No process is in the queue twice. *)
NoDuplicate == \A i, j \in Entries : Entry(i) = Entry(j) => i = j
=============================================================================
