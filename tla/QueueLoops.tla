------------------------------ MODULE QueueLoops ------------------------------
(***************************************************************************)
(* The two loops that move entries of the process table, statement by     *)
(* statement, against the closed forms of ProcessQueue that the kernel    *)
(* model uses.  They are compared on every buffer of the size of the      *)
(* instance, whatever the kernel could make of it: copies of one process, *)
(* the full buffer and every position of the head included, for every     *)
(* order of the entries.  The properties are about the code and not about *)
(* a state of it, so TLC looks at them only while nothing has been moved.  *)
(* A loop is a function of the number of its passes, so that it can be    *)
(* reasoned about.                                                         *)
(***************************************************************************)
EXTENDS ProcessQueue

(* Times to deadline, as the integers they are cast to before they are    *)
(* compared: three are enough for earlier, equal and later.               *)
CONSTANT Keys
ASSUME KeysAssumption == Keys \subseteq Int
Orders == [Processes -> Keys]

(* A buffer, and ProcessQueue's definitions for it. *)
Buffers == [queue : [Slots -> Processes], head : Slots, count : 0 .. MAX]
TailOf(b) == (b.head + b.count) % MAX
Buffer(b) == INSTANCE ProcessQueue WITH
  process_queue <- b.queue, process_queue_head <- b.head,
  process_queue_tail <- TailOf(b), process_count <- b.count

-----------------------------------------------------------------------------
(* dispatch_process, lines 127-147: one pass of the loop, with            *)
(* queue_pointer and process_queue as they are at its head, and whether a *)
(* break has ended it; the buffer after line 147.                          *)
InsertPass(l, key, new) ==
  LET next == IF l.pointer - 1 < 0 THEN l.pointer - 1 + MAX ELSE l.pointer - 1 IN
  IF l.going /\ key[l.queue[next]] > new
  THEN [pointer |-> next, queue |-> [l.queue EXCEPT ![l.pointer] = l.queue[next]],
        going |-> TRUE]
  ELSE [pointer |-> l.pointer, queue |-> l.queue, going |-> FALSE]

InsertPasses(b, key, new) ==
  LET after[i \in 0 .. b.count] ==
        IF i = 0 THEN [pointer |-> TailOf(b), queue |-> b.queue, going |-> TRUE]
        ELSE InsertPass(after[i - 1], key, new)
  IN after

InsertLoop(b, p, key, new) ==
  LET l == InsertPasses(b, key, new)[b.count] IN [l.queue EXCEPT ![l.pointer] = p]

(* next_process, lines 228-232: one pass, and the buffer after i passes,  *)
(* in which blocked_count comes down by one each.                          *)
MoveUpPass(queue, head, blocked) ==
  LET source == (head + blocked - 1) % MAX
      destination == (head + blocked) % MAX
  IN [queue EXCEPT ![destination] = queue[source]]

MoveUpPasses(b, blocked) ==
  LET after[i \in 0 .. blocked] ==
        IF i = 0 THEN b.queue ELSE MoveUpPass(after[i - 1], b.head, blocked - i + 1)
  IN after

MoveUpForward(b, blocked) ==   \* mutant: from the head on, over entries not yet moved
  LET after[i \in 0 .. blocked] ==
        IF i = 0 THEN b.queue ELSE MoveUpPass(after[i - 1], b.head, i)
  IN after[blocked]
MoveUpLoop(b, blocked) == MoveUpPasses(b, blocked)[blocked]

(* The scan's pointer after i entries, lines 162 and 221-222. *)
ScanPointers(b) ==
  LET after[i \in 0 .. b.count] == IF i = 0 THEN b.head ELSE (after[i - 1] + 1) % MAX
  IN after

-----------------------------------------------------------------------------
(* The table as rtos_main leaves it for its loop: at most one process, in *)
(* the first slot.                                                         *)
Untouched ==
  process_queue_head = 0 /\ \A s \in Slots \ {0} : process_queue[s] = NoProcess

(* The insertion loop stops at the one place the closed form allows, in   *)
(* order or not, and leaves its buffer, wherever the buffer wraps          *)
(* (rtos_process.c:126-147).                                               *)
InsertionAgrees ==
  Untouched =>
  \A b \in Buffers, p \in Processes, key \in Orders :
    b.count < MAX =>
      \E k \in 0 .. b.count :
        /\ {j \in 0 .. b.count : Buffer(b)!InsertionPoint(j, key, key[p])} = {k}
        /\ InsertLoop(b, p, key, key[p]) = Buffer(b)!Inserted(p, k)

(* The removal loop leaves the buffer of the closed form, for every number *)
(* of skipped entries up to the whole of a full buffer; the entry taken    *)
(* out is the one the scan stopped at (rtos_process.c:162-232).            *)
RemovalAgrees ==
  Untouched =>
  \A b \in Buffers : \A blocked \in 0 .. b.count :
    b.count > 0 =>
      /\ MoveUpLoop(b, blocked) = Buffer(b)!MovedUp(blocked)
      /\ blocked < b.count => b.queue[ScanPointers(b)[blocked]] = Buffer(b)!Entry(blocked)

(* A full buffer that holds only blocked processes is the one case in      *)
(* which the removal loop forgets an entry other than the one it takes     *)
(* out: below that, every other entry keeps its place in the order.        *)
RemovalKeepsOthers ==
  Untouched =>
  \A b \in Buffers : \A blocked \in 0 .. b.count :
    b.count > 0 /\ blocked < MAX =>
      LET taken == IF blocked = b.count THEN blocked - 1 ELSE blocked
          after == MoveUpLoop(b, blocked)
      IN \A o \in 0 .. b.count - 2 :
           after[(b.head + 1 + o) % MAX] = Buffer(b)!Entry(IF o < taken THEN o ELSE o + 1)
=============================================================================
