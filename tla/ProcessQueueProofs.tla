--------------------------- MODULE ProcessQueueProofs ---------------------------
(***************************************************************************)
(* What an insertion and a removal do to the entries of the process table,*)
(* for any table size: the buffer's slots, head and tail behave as a      *)
(* sequence of entries.  At the end, the loops of the code compute these  *)
(* closed forms.                                                           *)
(***************************************************************************)
EXTENDS QueueLoops, FiniteSetTheorems, NaturalsInduction, WellFoundedInduction, TLAPS

LEMMA SlotAtType ==
  ASSUME process_queue_head \in Slots, NEW o \in 0 .. MAX PROVE SlotAt(o) \in Slots
BY MaxAssumption DEF Slots, SlotAt, Wrap, MAX

LEMMA EntryType ==
  ASSUME QueueTypeOK, NEW o \in 0 .. MAX PROVE Entry(o) \in Processes \cup {NoProcess}
BY SlotAtType DEF QueueTypeOK, Entry

LEMMA OffsetOfType ==
  ASSUME process_queue_head \in Slots, NEW s \in Slots
  PROVE  OffsetOf(s) \in 0 .. MAX - 1 /\ SlotAt(OffsetOf(s)) = s
BY MaxAssumption DEF Slots, SlotAt, OffsetOf, Wrap, MAX

LEMMA OffsetOfSlotAt ==
  ASSUME process_queue_head \in Slots, NEW o \in 0 .. MAX - 1
  PROVE  SlotAt(o) \in Slots /\ OffsetOf(SlotAt(o)) = o
BY MaxAssumption DEF Slots, SlotAt, OffsetOf, Wrap, MAX

LEMMA InsertType ==
  ASSUME QueueTypeOK, process_count < MAX, NEW p \in Processes,
         NEW k \in 0 .. process_count, Insert(p, k)
  PROVE  QueueTypeOK'
<1>1. process_queue' \in [Slots -> Processes \cup {NoProcess}]
  <2>1. ASSUME NEW s \in Slots
        PROVE  (LET o == OffsetOf(s) IN
                IF o = k THEN p
                ELSE IF o > k /\ o <= process_count THEN Entry(o - 1)
                ELSE process_queue[s]) \in Processes \cup {NoProcess}
    <3>1. OffsetOf(s) \in 0 .. MAX - 1
      BY OffsetOfType DEF QueueTypeOK
    <3>2. OffsetOf(s) > k => Entry(OffsetOf(s) - 1) \in Processes \cup {NoProcess}
      <4> SUFFICES ASSUME OffsetOf(s) > k
                   PROVE  Entry(OffsetOf(s) - 1) \in Processes \cup {NoProcess}
        OBVIOUS
      <4>1. OffsetOf(s) - 1 \in 0 .. MAX
        BY <3>1, MaxAssumption DEF MAX, QueueTypeOK
      <4> QED BY <4>1, EntryType
    <3> QED BY <3>2 DEF QueueTypeOK
  <2> QED BY <2>1 DEF Insert, Inserted
<1>2. /\ process_queue_head' \in Slots
      /\ process_queue_tail' \in Slots
      /\ process_count' \in 0 .. MAX
  BY MaxAssumption DEF Insert, QueueTypeOK, Slots, Wrap, MAX
<1> QED BY <1>1, <1>2 DEF QueueTypeOK

LEMMA RemoveType ==
  ASSUME QueueTypeOK, process_count > 0, NEW b \in 0 .. process_count, Remove(b)
  PROVE  QueueTypeOK'
<1>1. process_queue' \in [Slots -> Processes \cup {NoProcess}]
  <2>1. ASSUME NEW s \in Slots
        PROVE  (LET o == OffsetOf(s) IN
                IF b = MAX /\ o \in {0, 1} THEN Entry(MAX - 1)
                ELSE IF o > 0 /\ o <= b THEN Entry(o - 1)
                ELSE process_queue[s]) \in Processes \cup {NoProcess}
    <3>1. OffsetOf(s) \in 0 .. MAX - 1
      BY OffsetOfType DEF QueueTypeOK
    <3>2. OffsetOf(s) > 0 => Entry(OffsetOf(s) - 1) \in Processes \cup {NoProcess}
      <4> SUFFICES ASSUME OffsetOf(s) > 0
                   PROVE  Entry(OffsetOf(s) - 1) \in Processes \cup {NoProcess}
        OBVIOUS
      <4>1. OffsetOf(s) - 1 \in 0 .. MAX
        BY <3>1, MaxAssumption DEF MAX
      <4> QED BY <4>1, EntryType
    <3>3. Entry(MAX - 1) \in Processes \cup {NoProcess}
      <4>1. MAX - 1 \in 0 .. MAX
        BY MaxAssumption DEF MAX
      <4> QED BY <4>1, EntryType
    <3> QED BY <3>2, <3>3 DEF QueueTypeOK
  <2> QED BY <2>1 DEF Remove, MovedUp
<1>2. /\ process_queue_head' \in Slots
      /\ process_queue_tail' \in Slots
      /\ process_count' \in 0 .. MAX
  BY MaxAssumption DEF Remove, QueueTypeOK, Slots, Wrap, MAX
<1> QED BY <1>1, <1>2 DEF QueueTypeOK

-----------------------------------------------------------------------------
(* Entries. *)

(* After an insertion at k, the entries before k are where they were and   *)
(* the others one place further from the head.                             *)
LEMMA InsertEntries ==
  ASSUME QueueTypeOK, QueueOK, process_count < MAX, NEW p \in Processes,
         NEW k \in 0 .. process_count, Insert(p, k)
  PROVE  /\ \A o \in Entries' :
              Entry(o)' = IF o < k THEN Entry(o) ELSE IF o = k THEN p ELSE Entry(o - 1)
         /\ QueueOK'
<1>1. ASSUME NEW o \in Entries'
      PROVE  Entry(o)' = IF o < k THEN Entry(o) ELSE IF o = k THEN p ELSE Entry(o - 1)
  <2>1. o \in 0 .. process_count /\ o \in 0 .. MAX - 1
    BY <1>1, MaxAssumption DEF Insert, Entries, QueueTypeOK, MAX
  <2>2. SlotAt(o) \in Slots /\ OffsetOf(SlotAt(o)) = o
    BY <2>1, OffsetOfSlotAt DEF QueueTypeOK
  <2>3. Entry(o)' = process_queue'[SlotAt(o)]
    BY DEF Insert, Entry, SlotAt, Wrap, MAX
  <2> QED BY <2>1, <2>2, <2>3 DEF Insert, Inserted, Entry
<1>2. process_queue_tail' = SlotAt(process_count)'
  BY MaxAssumption DEF Insert, QueueOK, QueueTypeOK, SlotAt, Slots, Wrap, MAX
<1>3. ASSUME NEW o \in Entries' PROVE Entry(o)' \in Processes
  BY <1>1 DEF Insert, Entries, QueueOK, QueueTypeOK
<1> QED BY <1>1, <1>2, <1>3 DEF QueueOK

(* The entry a removal takes out: the one the scan stopped at, or the last *)
(* one when it skipped them all.                                           *)
Taken(b) == IF b = process_count THEN b - 1 ELSE b

(* After the removal of an entry from a buffer that was not full, the      *)
(* others keep their order.                                                *)
LEMMA RemoveEntries ==
  ASSUME QueueTypeOK, QueueOK, process_count > 0, NEW b \in 0 .. process_count,
         b < MAX, Remove(b)
  PROVE  /\ \A o \in Entries' :
              Entry(o)' = IF o < Taken(b) THEN Entry(o) ELSE Entry(o + 1)
         /\ QueueOK'
<1>1. ASSUME NEW o \in Entries'
      PROVE  Entry(o)' = IF o < Taken(b) THEN Entry(o) ELSE Entry(o + 1)
  <2>1. o \in 0 .. process_count - 2 /\ o + 1 \in 0 .. MAX - 1
    BY <1>1, MaxAssumption DEF Remove, Entries, QueueTypeOK, MAX
  <2>2. SlotAt(o + 1) \in Slots /\ OffsetOf(SlotAt(o + 1)) = o + 1
    BY <2>1, OffsetOfSlotAt DEF QueueTypeOK
  <2>3. Entry(o)' = process_queue'[SlotAt(o + 1)]
    BY <2>1, MaxAssumption DEF Remove, Entry, SlotAt, Slots, QueueTypeOK, Wrap, MAX
  <2>4. (o + 1) - 1 = o
    BY <2>1
  <2> QED BY <2>1, <2>2, <2>3, <2>4 DEF Remove, MovedUp, Entry, Taken, QueueTypeOK
<1>2. process_queue_tail' = SlotAt(process_count)'
  BY MaxAssumption DEF Remove, QueueOK, QueueTypeOK, SlotAt, Slots, Wrap, MAX
<1>3. ASSUME NEW o \in Entries' PROVE Entry(o)' \in Processes
  BY <1>1 DEF Remove, Entries, QueueOK, QueueTypeOK, Taken
<1> QED BY <1>1, <1>2, <1>3 DEF QueueOK

-----------------------------------------------------------------------------
(* No copies. *)

LEMMA InsertNoDuplicate ==
  ASSUME QueueTypeOK, QueueOK, NoDuplicate, process_count < MAX,
         NEW p \in Processes, p \notin Queued,
         NEW k \in 0 .. process_count, Insert(p, k)
  PROVE  NoDuplicate' /\ Queued' = Queued \cup {p}
<1> DEFINE E(o) == Entry(o)'
<1>1. process_count \in Nat /\ Entries' = 0 .. process_count
  BY DEF Insert, Entries, QueueTypeOK
<1>2. \A o \in 0 .. process_count :
        E(o) = IF o < k THEN Entry(o) ELSE IF o = k THEN p ELSE Entry(o - 1)
  BY <1>1, InsertEntries
<1>3. /\ \A i, j \in 0 .. process_count - 1 : Entry(i) = Entry(j) => i = j
      /\ \A i \in 0 .. process_count - 1 : Entry(i) # p
  BY DEF NoDuplicate, Entries, Queued
<1>4. /\ Queued = {Entry(o) : o \in 0 .. process_count - 1}
      /\ Queued' = {E(o) : o \in 0 .. process_count}
  BY <1>1 DEF Queued, Entries
<1> HIDE DEF E
<1>5. \A i, j \in 0 .. process_count : E(i) = E(j) => i = j
  <2> SUFFICES ASSUME NEW i \in 0 .. process_count, NEW j \in 0 .. process_count, E(i) = E(j)
               PROVE  i = j
    OBVIOUS
  <2>1. /\ i < k => i \in 0 .. process_count - 1
        /\ i > k => i - 1 \in 0 .. process_count - 1
        /\ j < k => j \in 0 .. process_count - 1
        /\ j > k => j - 1 \in 0 .. process_count - 1
    BY <1>1
  <2> QED BY <1>1, <1>2, <1>3, <2>1
<1>6. {E(o) : o \in 0 .. process_count} = {Entry(o) : o \in 0 .. process_count - 1} \cup {p}
  <2>1. ASSUME NEW o \in 0 .. process_count
        PROVE  E(o) \in {Entry(i) : i \in 0 .. process_count - 1} \cup {p}
    <3>1. /\ o < k => o \in 0 .. process_count - 1
          /\ o > k => o - 1 \in 0 .. process_count - 1
      BY <1>1
    <3> QED BY <1>1, <1>2, <3>1
  <2>2. ASSUME NEW o \in 0 .. process_count - 1
        PROVE  Entry(o) \in {E(i) : i \in 0 .. process_count}
    <3>1. CASE o < k
      <4>1. o \in 0 .. process_count /\ E(o) = Entry(o)
        BY <1>1, <1>2, <3>1
      <4> QED BY <4>1
    <3>2. CASE o >= k
      <4>1. o + 1 \in 0 .. process_count /\ (o + 1) - 1 = o /\ o + 1 > k
        BY <1>1, <3>2
      <4>2. E(o + 1) = Entry(o)
        BY <1>1, <1>2, <4>1
      <4> QED BY <4>1, <4>2
    <3> QED BY <1>1, <3>1, <3>2
  <2>3. p \in {E(i) : i \in 0 .. process_count}
    <3>1. k \in 0 .. process_count /\ E(k) = p
      BY <1>1, <1>2
    <3> QED BY <3>1
  <2> QED BY <2>1, <2>2, <2>3
<1>7. NoDuplicate'
  BY <1>1, <1>5 DEF NoDuplicate, E
<1> QED BY <1>4, <1>6, <1>7

LEMMA RemoveNoDuplicate ==
  ASSUME QueueTypeOK, QueueOK, NoDuplicate, process_count > 0,
         NEW b \in 0 .. process_count, b < MAX, Remove(b)
  PROVE  NoDuplicate' /\ Queued' = Queued \ {Entry(Taken(b))}
<1> DEFINE E(o) == Entry(o)'
           t == Taken(b)
<1>1. /\ process_count \in Nat /\ Entries' = 0 .. process_count - 2
      /\ t \in 0 .. process_count - 1
  BY DEF Remove, Entries, QueueTypeOK, Taken
<1>2. \A o \in 0 .. process_count - 2 :
        E(o) = IF o < t THEN Entry(o) ELSE Entry(o + 1)
  BY <1>1, RemoveEntries
<1>3. \A i, j \in 0 .. process_count - 1 : Entry(i) = Entry(j) => i = j
  BY DEF NoDuplicate, Entries
<1>4. /\ Queued = {Entry(o) : o \in 0 .. process_count - 1}
      /\ Queued' = {E(o) : o \in 0 .. process_count - 2}
  BY <1>1 DEF Queued, Entries
<1> HIDE DEF E, t
<1>5. \A i, j \in 0 .. process_count - 2 : E(i) = E(j) => i = j
  <2> SUFFICES ASSUME NEW i \in 0 .. process_count - 2, NEW j \in 0 .. process_count - 2,
                      E(i) = E(j)
               PROVE  i = j
    OBVIOUS
  <2>1. /\ i \in 0 .. process_count - 1 /\ i + 1 \in 0 .. process_count - 1
        /\ j \in 0 .. process_count - 1 /\ j + 1 \in 0 .. process_count - 1
    BY <1>1
  <2> QED BY <1>1, <1>2, <1>3, <2>1
<1>6. {E(o) : o \in 0 .. process_count - 2}
        = {Entry(o) : o \in 0 .. process_count - 1} \ {Entry(t)}
  <2>1. ASSUME NEW o \in 0 .. process_count - 2
        PROVE  E(o) \in {Entry(i) : i \in 0 .. process_count - 1} \ {Entry(t)}
    <3>1. o \in 0 .. process_count - 1 /\ o + 1 \in 0 .. process_count - 1
      BY <1>1
    <3>2. CASE o < t
      BY <1>1, <1>2, <1>3, <3>1, <3>2
    <3>3. CASE ~(o < t)
      <4>1. E(o) = Entry(o + 1) /\ o + 1 # t
        BY <1>1, <1>2, <3>3
      <4> QED BY <1>1, <1>3, <3>1, <4>1
    <3> QED BY <3>2, <3>3
  <2>2. ASSUME NEW o \in 0 .. process_count - 1, o # t
        PROVE  Entry(o) \in {E(i) : i \in 0 .. process_count - 2}
    <3>1. CASE o < t
      <4>1. o \in 0 .. process_count - 2 /\ E(o) = Entry(o)
        BY <1>1, <1>2, <3>1
      <4> QED BY <4>1
    <3>2. CASE o > t
      <4>1. o - 1 \in 0 .. process_count - 2 /\ (o - 1) + 1 = o /\ ~(o - 1 < t)
        BY <1>1, <3>2
      <4>2. E(o - 1) = Entry(o)
        BY <1>1, <1>2, <4>1
      <4> QED BY <4>1, <4>2
    <3> QED BY <1>1, <2>2, <3>1, <3>2
  <2> QED BY <2>1, <2>2
<1>7. NoDuplicate'
  BY <1>1, <1>5 DEF NoDuplicate, E
<1> QED BY <1>4, <1>6, <1>7 DEF t

(* A table with more slots than there are processes is never full.         *)
LEMMA NeverFull ==
  ASSUME QueueTypeOK, QueueOK, NoDuplicate, Cardinality(Processes) < MAX
  PROVE  process_count < MAX
<1> DEFINE f == [o \in Entries |-> Entry(o)]
<1>1. f \in Injection(Entries, Processes)
  BY DEF QueueOK, NoDuplicate, Injection, IsInjective
<1>2. Cardinality(Entries) <= Cardinality(Processes)
  BY <1>1, ProcessesAssumption, FS_Injection
<1>3. Cardinality(Entries) = process_count
  BY FS_Interval DEF Entries, QueueTypeOK
<1>4. Cardinality(Processes) \in Nat
  BY ProcessesAssumption, FS_CardinalityType
<1> QED BY <1>2, <1>3, <1>4, MaxAssumption DEF QueueTypeOK, MAX

-----------------------------------------------------------------------------
(* A set of numbers that is not empty has a least one. *)
LEMMA LeastNumber ==
  ASSUME NEW S \in SUBSET Nat, S # {}
  PROVE  \E m \in S : \A n \in S : m <= n
<1> DEFINE R == OpToRel(<, Nat)
<1>1. IsWellFoundedOn(R, Nat)
  BY NatLessThanWellFounded, Zenon
<1>2. \A x, y \in Nat : x < y => <<x, y>> \in R
  BY DEF OpToRel
<1> HIDE DEF R
<1>3. PICK m \in S : \A n \in S : ~(<<n, m>> \in R)
  <2>1. S \subseteq Nat /\ S # {}
    OBVIOUS
  <2> QED BY <1>1, <2>1, WFMin, Zenon
<1>4. \A n \in S : ~(n < m)
  BY <1>2, <1>3, S \subseteq Nat, Zenon
<1> QED BY <1>4

(* Counting up to n: what holds of 0, and of a number if of the one       *)
(* before it, holds of all of them.                                        *)
LEMMA UpTo ==
  ASSUME NEW n \in Nat, NEW S, 0 \in S,
         \A i \in 1 .. n : i - 1 \in S => i \in S
  PROVE  \A i \in 0 .. n : i \in S
<1> SUFFICES ASSUME NEW j \in 0 .. n, j \notin S PROVE FALSE
  OBVIOUS
<1> DEFINE Bad == {i \in 0 .. n : i \notin S}
<1>1. PICK m \in Bad : \A i \in Bad : m <= i
  <2>1. Bad \in SUBSET Nat /\ Bad # {}
    OBVIOUS
  <2> HIDE DEF Bad
  <2> QED BY <2>1, LeastNumber
<1>2. m \in 1 .. n
  BY <1>1
<1>3. m - 1 \in S
  BY <1>1, <1>2
<1> QED BY <1>1, <1>2, <1>3

(* Two functions that start alike and go on alike are the same up to n.    *)
(* A loop's function of its passes is compared with a closed form of it by *)
(* this lemma; that the function exists at all is shown by the closed form *)
(* itself, which satisfies the equation the loop is chosen by.             *)
LEMMA SameValues ==
  ASSUME NEW n \in Nat, NEW f, NEW g, f[0] = g[0],
         \A i \in 1 .. n : f[i - 1] = g[i - 1] => f[i] = g[i]
  PROVE  \A i \in 0 .. n : f[i] = g[i]
<1> DEFINE S == {i \in 0 .. n : f[i] = g[i]}
<1>1. 0 \in S
  OBVIOUS
<1>2. ASSUME NEW i \in 1 .. n, i - 1 \in S PROVE i \in S
  BY <1>2
<1> HIDE DEF S
<1>3. \A i \in 0 .. n : i \in S
  BY <1>1, <1>2, UpTo, Zenon
<1> QED BY <1>3 DEF S

(* Less than two turns of the buffer: the code's % is one subtraction. *)
LEMMA Remainder ==
  ASSUME NEW i \in 0 .. 2 * MAX - 1
  PROVE  i % MAX = Wrap(i)
<1>1. CASE i < MAX
  BY <1>1, MaxAssumption DEF MAX, Wrap
<1>2. CASE i >= MAX
  BY <1>2, MaxAssumption DEF MAX, Wrap
<1> QED BY <1>1, <1>2, MaxAssumption DEF MAX

(* The slot of an entry of a buffer by its distance from the head, and back. *)
At(b, o) == Wrap(b.head + o)
Off(b, s) == IF s >= b.head THEN s - b.head ELSE s - b.head + MAX

(* ProcessQueue's definitions for a buffer, in these terms. *)
LEMMA BufferDefinitions ==
  ASSUME NEW b \in Buffers
  PROVE  /\ \A o : Buffer(b)!Entry(o) = b.queue[At(b, o)]
         /\ \A s : Buffer(b)!OffsetOf(s) = Off(b, s)
         /\ Buffer(b)!MAX = MAX
         /\ Buffer(b)!Slots = Slots
BY DEF Buffer!Entry, Buffer!SlotAt, Buffer!OffsetOf, Buffer!Wrap, Buffer!MAX, Buffer!Slots, At, Off, Wrap, MAX, Slots

LEMMA OffAt ==
  ASSUME NEW b \in Buffers, NEW o \in 0 .. MAX - 1
  PROVE  At(b, o) \in Slots /\ Off(b, At(b, o)) = o
BY MaxAssumption DEF Buffers, Slots, At, Off, Wrap, MAX

LEMMA AtOff ==
  ASSUME NEW b \in Buffers, NEW s \in Slots
  PROVE  Off(b, s) \in 0 .. MAX - 1 /\ At(b, Off(b, s)) = s
BY MaxAssumption DEF Buffers, Slots, At, Off, Wrap, MAX

(* The three steps the loops take around the buffer. *)
LEMMA AtNext ==
  ASSUME NEW b \in Buffers, NEW o \in 0 .. MAX - 1
  PROVE  /\ (b.head + o) % MAX = At(b, o)
         /\ (At(b, o) + 1) % MAX = At(b, o + 1)
         /\ o > 0 => (IF At(b, o) - 1 < 0 THEN At(b, o) - 1 + MAX ELSE At(b, o) - 1) = At(b, o - 1)
<1>1. b.head \in 0 .. MAX - 1 /\ MAX \in Nat /\ MAX >= 2
  BY MaxAssumption DEF Buffers, Slots, MAX
<1>2. At(b, o) \in 0 .. MAX - 1
  BY <1>1 DEF At, Wrap
<1>3. (b.head + o) % MAX = At(b, o)
  BY <1>1, Remainder DEF At
<1>4. (At(b, o) + 1) % MAX = Wrap(At(b, o) + 1)
  BY <1>1, <1>2, Remainder
<1>5. Wrap(At(b, o) + 1) = At(b, o + 1)
  BY <1>1 DEF At, Wrap
<1>6. o > 0 => (IF At(b, o) - 1 < 0 THEN At(b, o) - 1 + MAX ELSE At(b, o) - 1) = At(b, o - 1)
  BY <1>1 DEF At, Wrap
<1> QED BY <1>3, <1>4, <1>5, <1>6

LEMMA AtMax ==
  ASSUME NEW b \in Buffers
  PROVE  (b.head + MAX) % MAX = At(b, 0) /\ At(b, MAX) = At(b, 0)
<1>1. b.head \in 0 .. MAX - 1 /\ MAX \in Nat /\ MAX >= 2
  BY MaxAssumption DEF Buffers, Slots, MAX
<1>2. (b.head + MAX) % MAX = Wrap(b.head + MAX)
  BY <1>1, Remainder
<1> QED BY <1>1, <1>2 DEF At, Wrap

(* The scan's pointer is at the entry it has come to. *)
LEMMA ScanPointersAre ==
  ASSUME NEW b \in Buffers, NEW i \in 0 .. b.count - 1
  PROVE  ScanPointers(b)[i] = At(b, i)
<1> DEFINE n == b.count
           at == [j \in 0 .. n |-> At(b, j)]
           F == ScanPointers(b)
<1>1. n \in 0 .. MAX /\ MAX \in Nat
  BY MaxAssumption DEF Buffers, MAX
<1>2. \A j \in 1 .. n : (At(b, j - 1) + 1) % MAX = At(b, j)
  <2> SUFFICES ASSUME NEW j \in 1 .. n PROVE (At(b, j - 1) + 1) % MAX = At(b, j)
    OBVIOUS
  <2>1. j - 1 \in 0 .. MAX - 1 /\ (j - 1) + 1 = j
    BY <1>1
  <2> QED BY <2>1, AtNext
<1>3. At(b, 0) = b.head
  BY <1>1 DEF At, Wrap, Buffers, Slots
<1>4. at = [j \in 0 .. n |-> IF j = 0 THEN b.head ELSE (at[j - 1] + 1) % MAX]
  <2> SUFFICES ASSUME NEW j \in 0 .. n
               PROVE  At(b, j) = IF j = 0 THEN b.head ELSE (at[j - 1] + 1) % MAX
    OBVIOUS
  <2>1. j # 0 => at[j - 1] = At(b, j - 1) /\ j \in 1 .. n
    BY <1>1
  <2> HIDE DEF at
  <2> QED BY <1>2, <1>3, <2>1
<1> HIDE DEF at
<1>5. F = [j \in 0 .. n |-> IF j = 0 THEN b.head ELSE (F[j - 1] + 1) % MAX]
  BY <1>4, Zenon DEF ScanPointers
<1> HIDE DEF F
<1>6. \A j \in 0 .. n : F[j] = at[j]
  <2>1. n \in Nat /\ F[0] = at[0]
    BY <1>1, <1>4, <1>5
  <2>2. ASSUME NEW j \in 1 .. n, F[j - 1] = at[j - 1] PROVE F[j] = at[j]
    BY <1>1, <1>4, <1>5, <2>2
  <2> QED BY <2>1, <2>2, SameValues, Zenon
<1>7. i \in 0 .. n /\ F[i] = at[i]
  BY <1>1, <1>6
<1> QED BY <1>7 DEF at, F

(* The buffer after i passes of the removal loop over the first B entries. *)
Moved(b, B, i) ==
  [s \in Slots |->
     LET o == Off(b, s) IN
     IF B = MAX /\ ((o = 0 /\ i > 0) \/ (o = 1 /\ i = MAX)) THEN b.queue[At(b, MAX - 1)]
     ELSE IF o > B - i /\ o <= B THEN b.queue[At(b, o - 1)]
     ELSE b.queue[s]]

(* One more pass moves one more entry.  In a full buffer of blocked       *)
(* entries the first destination is the head itself.                       *)
LEMMA MovedByPass ==
  ASSUME NEW b \in Buffers, NEW B \in 0 .. b.count, NEW i \in 1 .. B
  PROVE  Moved(b, B, i) = MoveUpPass(Moved(b, B, i - 1), b.head, B - i + 1)
<1> DEFINE d == B - i + 1
           q == Moved(b, B, i - 1)
           source == (b.head + d - 1) % MAX
           destination == (b.head + d) % MAX
<1>1. B \in 0 .. MAX /\ i \in 1 .. B /\ d \in 1 .. B /\ MAX \in Nat /\ MAX >= 2
  BY MaxAssumption DEF Buffers, MAX
<1>2. source = At(b, d - 1)
  <2>1. b.head + d - 1 = b.head + (d - 1) /\ d - 1 \in 0 .. MAX - 1
    BY <1>1 DEF Buffers, Slots
  <2> HIDE DEF d
  <2> QED BY <2>1, AtNext
<1>3. destination = At(b, IF d = MAX THEN 0 ELSE d)
  <2> HIDE DEF d
  <2>1. CASE d = MAX
    BY <2>1, AtMax
  <2>2. CASE d # MAX
    BY <1>1, <2>2, AtNext
  <2> QED BY <2>1, <2>2
<1>4. MoveUpPass(q, b.head, d) = [q EXCEPT ![destination] = q[source]]
  BY DEF MoveUpPass
<1> HIDE DEF source, destination
<1>5. ASSUME NEW s \in Slots
      PROVE  Moved(b, B, i)[s] = IF s = destination THEN q[source] ELSE q[s]
  <2> DEFINE o == Off(b, s)
  <2>1. o \in 0 .. MAX - 1 /\ At(b, o) = s
    BY AtOff
  <2>2. s = destination <=> o = IF d = MAX THEN 0 ELSE d
    BY <1>1, <1>3, <2>1, OffAt
  <2>3. source \in Slots /\ Off(b, source) = d - 1
    BY <1>1, <1>2, OffAt
  <2>4. q[s] = IF B = MAX /\ ((o = 0 /\ i - 1 > 0) \/ (o = 1 /\ i - 1 = MAX))
               THEN b.queue[At(b, MAX - 1)]
               ELSE IF o > B - (i - 1) /\ o <= B THEN b.queue[At(b, o - 1)]
               ELSE b.queue[s]
    BY DEF Moved
  <2>5. q[source] = IF B = MAX /\ ((d - 1 = 0 /\ i - 1 > 0) \/ (d - 1 = 1 /\ i - 1 = MAX))
                    THEN b.queue[At(b, MAX - 1)]
                    ELSE IF d - 1 > B - (i - 1) /\ d - 1 <= B THEN b.queue[At(b, d - 1 - 1)]
                    ELSE b.queue[source]
    BY <2>3 DEF Moved
  <2>6. Moved(b, B, i)[s] =
               IF B = MAX /\ ((o = 0 /\ i > 0) \/ (o = 1 /\ i = MAX))
               THEN b.queue[At(b, MAX - 1)]
               ELSE IF o > B - i /\ o <= B THEN b.queue[At(b, o - 1)]
               ELSE b.queue[s]
    BY DEF Moved
  <2> HIDE DEF o, q
  <2>7. CASE s = destination
    <3>1. q[source] = IF B = MAX /\ d = 1 /\ i > 1 THEN b.queue[At(b, MAX - 1)]
                      ELSE b.queue[At(b, d - 1)]
      BY <1>1, <1>2, <2>5
    <3> QED BY <1>1, <2>1, <2>2, <2>6, <2>7, <3>1
  <2>8. CASE s # destination
    BY <1>1, <2>1, <2>2, <2>4, <2>6, <2>8
  <2> QED BY <2>7, <2>8
<1>6. Moved(b, B, i) = [q EXCEPT ![destination] = q[source]]
  BY <1>5 DEF Moved
<1> QED BY <1>4, <1>6

(* The removal loop, by what it computes. *)
LEMMA MoveUpLoopIs ==
  ASSUME NEW b \in Buffers, NEW B \in 0 .. b.count
  PROVE  MoveUpLoop(b, B) = Moved(b, B, B)
<1> DEFINE g == [i \in 0 .. B |-> Moved(b, B, i)]
           F == MoveUpPasses(b, B)
<1>1. B \in Nat
  BY MaxAssumption DEF Buffers, MAX
<1>2. Moved(b, B, 0) = b.queue
  <2> SUFFICES ASSUME NEW s \in Slots PROVE Moved(b, B, 0)[s] = b.queue[s]
    BY DEF Moved, Buffers
  <2> QED BY <1>1, AtOff, MaxAssumption DEF Moved, MAX
<1>3. g = [i \in 0 .. B |->
             IF i = 0 THEN b.queue ELSE MoveUpPass(g[i - 1], b.head, B - i + 1)]
  <2> SUFFICES ASSUME NEW i \in 0 .. B
               PROVE  Moved(b, B, i) =
                        IF i = 0 THEN b.queue
                        ELSE MoveUpPass(g[i - 1], b.head, B - i + 1)
    OBVIOUS
  <2>1. i # 0 => g[i - 1] = Moved(b, B, i - 1) /\ i \in 1 .. B
    BY <1>1
  <2> HIDE DEF g
  <2> QED BY <1>2, <2>1, MovedByPass
<1> HIDE DEF g
<1>4. F = [i \in 0 .. B |->
             IF i = 0 THEN b.queue ELSE MoveUpPass(F[i - 1], b.head, B - i + 1)]
  BY <1>3, Zenon DEF MoveUpPasses
<1> HIDE DEF F
<1>5. \A i \in 0 .. B : F[i] = g[i]
  <2>1. F[0] = g[0]
    BY <1>1, <1>3, <1>4
  <2>2. ASSUME NEW i \in 1 .. B, F[i - 1] = g[i - 1] PROVE F[i] = g[i]
    BY <1>1, <1>3, <1>4, <2>2
  <2>3. B \in Nat
    BY <1>1

  <2> QED BY <2>1, <2>2, <2>3, SameValues
<1>6. B \in 0 .. B
  BY <1>1
<1> QED BY <1>5, <1>6 DEF g, F, MoveUpLoop

(* The buffer after the insertion loop has moved the last m entries. *)
Shifted(b, m) ==
  [s \in Slots |->
     LET o == Off(b, s) IN
     IF o > b.count - m /\ o <= b.count THEN b.queue[At(b, o - 1)] ELSE b.queue[s]]

(* One more pass moves one more entry away from the head. *)
LEMMA ShiftedByPass ==
  ASSUME NEW b \in Buffers, b.count < MAX, NEW m \in 1 .. b.count
  PROVE  LET q == Shifted(b, m - 1)
             source == At(b, b.count - m)
             destination == At(b, b.count - m + 1)
         IN /\ q[source] = b.queue[source]
            /\ Shifted(b, m) = [q EXCEPT ![destination] = q[source]]
<1> DEFINE c == b.count
           q == Shifted(b, m - 1)
           source == At(b, c - m)
           destination == At(b, c - m + 1)
<1>1. c \in 0 .. MAX - 1 /\ m \in 1 .. c /\ MAX \in Nat
  BY MaxAssumption DEF Buffers, MAX
<1>2. /\ source \in Slots /\ Off(b, source) = c - m
      /\ destination \in Slots /\ Off(b, destination) = c - m + 1
  BY <1>1, OffAt
<1>3. q[source] = b.queue[source]
  BY <1>1, <1>2 DEF Shifted
<1>4. ASSUME NEW s \in Slots
      PROVE  Shifted(b, m)[s] = IF s = destination THEN q[source] ELSE q[s]
  <2> DEFINE o == Off(b, s)
  <2>1. o \in 0 .. MAX - 1 /\ At(b, o) = s
    BY AtOff
  <2>2. s = destination <=> o = c - m + 1
    BY <1>2, <2>1
  <2>3. q[s] = IF o > c - (m - 1) /\ o <= c THEN b.queue[At(b, o - 1)] ELSE b.queue[s]
    BY DEF Shifted
  <2>4. Shifted(b, m)[s] =
          IF o > c - m /\ o <= c THEN b.queue[At(b, o - 1)] ELSE b.queue[s]
    BY DEF Shifted
  <2>5. o = c - m + 1 => b.queue[At(b, o - 1)] = b.queue[source]
    BY <1>1
  <2> HIDE DEF o, q, source, destination
  <2> QED BY <1>1, <1>3, <2>1, <2>2, <2>3, <2>4, <2>5
<1>5. Shifted(b, m) = [q EXCEPT ![destination] = q[source]]
  <2> HIDE DEF destination, source
  <2> QED BY <1>4 DEF Shifted
<1> QED BY <1>3, <1>5

(* The insertion loop, by what it computes, if every entry from k on is   *)
(* later than the new one and the entry before k is not: it moves until it *)
(* reaches k, and the passes that are left change nothing.                 *)
LEMMA InsertLoopIs ==
  ASSUME NEW b \in Buffers, b.count < MAX, NEW p, NEW key \in [Processes -> Int], NEW new \in Int,
         NEW k \in 0 .. b.count,
         \A o \in k .. b.count - 1 : key[b.queue[At(b, o)]] > new,
         k > 0 => ~(key[b.queue[At(b, k - 1)]] > new)
  PROVE  InsertLoop(b, p, key, new) =
           [s \in Slots |->
              LET o == Off(b, s) IN
              IF o = k THEN p
              ELSE IF o > k /\ o <= b.count THEN b.queue[At(b, o - 1)]
              ELSE b.queue[s]]
<1> DEFINE c == b.count
           moves(i) == IF i <= c - k THEN i ELSE c - k
           state(i) == [pointer |-> At(b, c - moves(i)), queue |-> Shifted(b, moves(i)),
                        going |-> i <= c - k]
           start == [pointer |-> TailOf(b), queue |-> b.queue, going |-> TRUE]
           g == [i \in 0 .. c |-> state(i)]
           F == InsertPasses(b, key, new)
<1>1. c \in 0 .. MAX - 1 /\ k \in 0 .. c /\ MAX \in Nat
  BY MaxAssumption DEF Buffers, MAX
<1>2. start = state(0)
  <2>1. TailOf(b) = At(b, c)
    BY <1>1, AtNext DEF TailOf
  <2>2. b.queue = Shifted(b, 0)
    <3> SUFFICES ASSUME NEW s \in Slots PROVE Shifted(b, 0)[s] = b.queue[s]
      BY DEF Shifted, Buffers
    <3> QED BY <1>1, AtOff DEF Shifted
  <2>3. moves(0) = 0 /\ (0 <= c - k) = TRUE /\ c - 0 = c
    BY <1>1
  <2> QED BY <2>1, <2>2, <2>3
<1>3. ASSUME NEW i \in 1 .. c PROVE state(i) = InsertPass(state(i - 1), key, new)
  <2> DEFINE l == state(i - 1)
             at == IF l.pointer - 1 < 0 THEN l.pointer - 1 + MAX ELSE l.pointer - 1
  <2>1. InsertPass(l, key, new) =
          IF l.going /\ key[l.queue[at]] > new
          THEN [pointer |-> at, queue |-> [l.queue EXCEPT ![l.pointer] = l.queue[at]],
                going |-> TRUE]
          ELSE [pointer |-> l.pointer, queue |-> l.queue, going |-> FALSE]
    BY DEF InsertPass
  <2>2. l.pointer = At(b, c - moves(i - 1)) /\ l.queue = Shifted(b, moves(i - 1))
        /\ l.going = (i - 1 <= c - k)
    OBVIOUS
  <2> HIDE DEF l
  <2>3. CASE i <= c - k
    <3>1. moves(i) = i /\ moves(i - 1) = i - 1 /\ i <= c - k /\ i - 1 <= c - k
          /\ c - (i - 1) = c - i + 1 /\ c - (i - 1) - 1 = c - i
      BY <1>1, <2>3
    <3>2. at = At(b, c - i)
      <4>1. c - (i - 1) \in 0 .. MAX - 1 /\ c - (i - 1) > 0
        BY <1>1
      <4> HIDE DEF moves
      <4> QED BY <2>2, <3>1, <4>1, AtNext
    <3>3. /\ l.queue[at] = b.queue[At(b, c - i)]
          /\ Shifted(b, i) = [l.queue EXCEPT ![l.pointer] = l.queue[at]]
      <4> HIDE DEF moves, at
      <4> QED BY <2>2, <3>1, <3>2, ShiftedByPass
    <3>4. key[b.queue[At(b, c - i)]] > new
      <4>1. c - i \in k .. c - 1
        BY <1>1, <2>3
      <4> QED BY <4>1
    <3>5. l.going = TRUE
      BY <2>2, <3>1
    <3>6. state(i) = [pointer |-> At(b, c - i), queue |-> Shifted(b, i), going |-> TRUE]
      BY <3>1
    <3> HIDE DEF at
    <3>7. InsertPass(l, key, new) =
            [pointer |-> at, queue |-> [l.queue EXCEPT ![l.pointer] = l.queue[at]],
             going |-> TRUE]
      BY <2>1, <3>3, <3>4, <3>5
    <3> QED BY <3>2, <3>3, <3>6, <3>7 DEF l
  <2>4. CASE ~(i <= c - k)
    <3>1. moves(i) = c - k /\ moves(i - 1) = c - k /\ (i <= c - k) = FALSE
          /\ c - (c - k) = k
      BY <1>1, <2>4
    <3>2. ~(l.going /\ key[l.queue[at]] > new)
      <4> SUFFICES ASSUME l.going PROVE ~(key[l.queue[at]] > new)
        OBVIOUS
      <4>1. i - 1 = c - k /\ k > 0 /\ k \in 0 .. MAX - 1
        <5>1. i - 1 <= c - k
          BY <2>2, Zenon
        <5> QED BY <1>1, <2>4, <5>1
      <4>2. at = At(b, k - 1)
        <5> HIDE DEF moves
        <5> QED BY <2>2, <3>1, <4>1, AtNext
      <4>3. l.queue[at] = b.queue[at]
        <5>1. at \in Slots /\ Off(b, at) = k - 1
          <6> HIDE DEF at
          <6>1. k - 1 \in 0 .. MAX - 1
            BY <1>1, <4>1
          <6> QED BY <4>2, <6>1, OffAt
        <5> HIDE DEF moves, at
        <5>2. l.queue = Shifted(b, c - k)
          BY <2>2, <3>1
        <5> QED BY <1>1, <5>1, <5>2 DEF Shifted
      <4> HIDE DEF at
      <4> QED BY <4>1, <4>2, <4>3
    <3>3. state(i) = [pointer |-> l.pointer, queue |-> l.queue, going |-> FALSE]
      BY <2>2, <3>1
    <3> HIDE DEF at
    <3> QED BY <2>1, <3>2, <3>3 DEF l
  <2> QED BY <2>3, <2>4
<1>4. g = [i \in 0 .. c |-> IF i = 0 THEN start ELSE InsertPass(g[i - 1], key, new)]
  <2> HIDE DEF state
  <2> SUFFICES ASSUME NEW i \in 0 .. c
               PROVE  state(i) = IF i = 0 THEN start ELSE InsertPass(g[i - 1], key, new)
    OBVIOUS
  <2>1. i # 0 => g[i - 1] = state(i - 1) /\ i \in 1 .. c
    BY <1>1
  <2> HIDE DEF g, start
  <2> QED BY <1>2, <1>3, <2>1
<1> HIDE DEF g
<1>5. F = [i \in 0 .. c |-> IF i = 0 THEN start ELSE InsertPass(F[i - 1], key, new)]
  BY <1>4, Zenon DEF InsertPasses
<1> HIDE DEF F, start
<1>6. \A i \in 0 .. c : F[i] = g[i]
  <2>1. F[0] = g[0] /\ c \in Nat
    BY <1>1, <1>4, <1>5
  <2>2. ASSUME NEW i \in 1 .. c, F[i - 1] = g[i - 1] PROVE F[i] = g[i]
    BY <1>1, <1>4, <1>5, <2>2
  <2> HIDE DEF c
  <2> QED BY <2>1, <2>2, SameValues
<1>7. F[c].pointer = At(b, k) /\ F[c].queue = Shifted(b, c - k)
  <2>1. c \in 0 .. c /\ moves(c) = c - k /\ c - (c - k) = k
    BY <1>1
  <2>2. g[c] = state(c)
    BY <2>1, Zenon DEF g
  <2>3. state(c).pointer = At(b, c - moves(c)) /\ state(c).queue = Shifted(b, moves(c))
    OBVIOUS
  <2>4. F[c] = state(c)
    BY <1>6, <2>1, <2>2, Zenon
  <2> HIDE DEF moves, state, c
  <2> QED BY <2>1, <2>3, <2>4
<1>8. InsertLoop(b, p, key, new) = [Shifted(b, c - k) EXCEPT ![At(b, k)] = p]
  BY <1>7 DEF InsertLoop, F
<1>9. ASSUME NEW s \in Slots
      PROVE  (IF s = At(b, k) THEN p ELSE Shifted(b, c - k)[s]) =
               IF Off(b, s) = k THEN p
               ELSE IF Off(b, s) > k /\ Off(b, s) <= c THEN b.queue[At(b, Off(b, s) - 1)]
               ELSE b.queue[s]
  <2>1. Off(b, s) \in 0 .. MAX - 1 /\ At(b, Off(b, s)) = s
    BY AtOff
  <2>2. k \in 0 .. MAX - 1 /\ Off(b, At(b, k)) = k /\ c - (c - k) = k
    BY <1>1, OffAt
  <2>3. Shifted(b, c - k)[s] =
          IF Off(b, s) > c - (c - k) /\ Off(b, s) <= c THEN b.queue[At(b, Off(b, s) - 1)]
          ELSE b.queue[s]
    BY DEF Shifted
  <2> QED BY <2>1, <2>2, <2>3
<1> QED BY <1>8, <1>9 DEF Shifted

(* There is exactly one such k, in order or not: the least number from    *)
(* which on every entry is later.                                          *)
LEMMA OneInsertionPoint ==
  ASSUME NEW b \in Buffers, NEW key \in [Processes -> Int], NEW new \in Int, b.count < MAX
  PROVE  \E k \in 0 .. b.count :
           /\ \A o \in k .. b.count - 1 : key[b.queue[At(b, o)]] > new
           /\ k > 0 => ~(key[b.queue[At(b, k - 1)]] > new)
           /\ {j \in 0 .. b.count : Buffer(b)!InsertionPoint(j, key, new)} = {k}
<1> DEFINE c == b.count
           Later(o) == key[b.queue[At(b, o)]] > new
           S == {j \in 0 .. c : \A o \in j .. c - 1 : Later(o)}
<1>1. c \in 0 .. MAX - 1 /\ MAX \in Nat
  BY MaxAssumption DEF Buffers, MAX
<1>2. \A o \in 0 .. c - 1 : key[b.queue[At(b, o)]] \in Int
  <2> SUFFICES ASSUME NEW o \in 0 .. c - 1 PROVE key[b.queue[At(b, o)]] \in Int
    OBVIOUS
  <2>1. At(b, o) \in Slots
    BY <1>1, OffAt
  <2> QED BY <2>1 DEF Buffers
<1>3. \A j \in 0 .. c : Buffer(b)!InsertionPoint(j, key, new) <=>
        /\ \A o \in j .. c - 1 : Later(o)
        /\ j > 0 => ~Later(j - 1)
  <2> SUFFICES ASSUME NEW j \in 0 .. c
               PROVE  Buffer(b)!InsertionPoint(j, key, new) <=>
                        /\ \A o \in j .. c - 1 : Later(o)
                        /\ j > 0 => ~Later(j - 1)
    OBVIOUS
  <2>1. j > 0 => (key[b.queue[At(b, j - 1)]] <= new <=> ~Later(j - 1))
    BY <1>1, <1>2
  <2>2. Buffer(b)!InsertionPoint(j, key, new) <=>
          /\ \A o \in j .. c - 1 : key[Buffer(b)!Entry(o)] > new
          /\ j > 0 => key[Buffer(b)!Entry(j - 1)] <= new
    BY DEF Buffer!InsertionPoint
  <2>3. \A o : Buffer(b)!Entry(o) = b.queue[At(b, o)]
    BY BufferDefinitions
  <2> QED BY <2>1, <2>2, <2>3
<1> HIDE DEF Later
<1>4. PICK k \in S : \A j \in S : k <= j
  <2>1. S \in SUBSET Nat /\ c \in S
    BY <1>1
  <2> HIDE DEF S
  <2> QED BY <2>1, LeastNumber
<1>5. k \in 0 .. c /\ \A o \in k .. c - 1 : Later(o)
  BY <1>4
<1>6. k > 0 => ~Later(k - 1)
  <2> SUFFICES ASSUME k > 0, Later(k - 1) PROVE FALSE
    OBVIOUS
  <2>1. k - 1 \in S
    BY <1>1, <1>5
  <2> HIDE DEF S
  <2> QED BY <1>1, <1>4, <1>5, <2>1
<1>7. ASSUME NEW j \in 0 .. c, j # k PROVE ~Buffer(b)!InsertionPoint(j, key, new)
  <2> SUFFICES ASSUME \A o \in j .. c - 1 : Later(o), j > 0 => ~Later(j - 1) PROVE FALSE
    BY <1>3
  <2>1. j \in S
    OBVIOUS
  <2>2. k <= j
    BY <1>4, <2>1, Zenon
  <2>3. j > 0 /\ j - 1 \in k .. c - 1
    BY <1>1, <1>5, <1>7, <2>2
  <2> QED BY <1>5, <2>3
<1>8. Buffer(b)!InsertionPoint(k, key, new)
  BY <1>3, <1>5, <1>6
<1>9. {j \in 0 .. c : Buffer(b)!InsertionPoint(j, key, new)} = {k}
  BY <1>5, <1>7, <1>8, Zenon
<1> QED BY <1>5, <1>6, <1>9 DEF Later

(* The insertion loop of dispatch_process leaves the buffer Inserted      *)
(* describes, with the new entry at the one place InsertionPoint allows,   *)
(* for a table of any size, every buffer and every order of its entries    *)
(* (rtos_process.c:126-147).                                               *)
THEOREM InsertionLoop == InsertionAgrees
<1> SUFFICES ASSUME NEW b \in Buffers, NEW p \in Processes, NEW key \in Orders, b.count < MAX
             PROVE  \E k \in 0 .. b.count :
                      /\ {j \in 0 .. b.count : Buffer(b)!InsertionPoint(j, key, key[p])} = {k}
                      /\ InsertLoop(b, p, key, key[p]) = Buffer(b)!Inserted(p, k)
  BY DEF InsertionAgrees
<1>1. key \in [Processes -> Int] /\ key[p] \in Int
  BY KeysAssumption DEF Orders
<1>2. PICK k \in 0 .. b.count :
        /\ \A o \in k .. b.count - 1 : key[b.queue[At(b, o)]] > key[p]
        /\ k > 0 => ~(key[b.queue[At(b, k - 1)]] > key[p])
        /\ {j \in 0 .. b.count : Buffer(b)!InsertionPoint(j, key, key[p])} = {k}
  BY <1>1, OneInsertionPoint
<1>3. InsertLoop(b, p, key, key[p]) =
        [s \in Slots |->
           LET o == Off(b, s) IN
           IF o = k THEN p
           ELSE IF o > k /\ o <= b.count THEN b.queue[At(b, o - 1)]
           ELSE b.queue[s]]
  BY <1>1, <1>2, InsertLoopIs
<1>4. Buffer(b)!Inserted(p, k) =
        [s \in Slots |->
           LET o == Off(b, s) IN
           IF o = k THEN p
           ELSE IF o > k /\ o <= b.count THEN b.queue[At(b, o - 1)]
           ELSE b.queue[s]]
  BY BufferDefinitions, Zenon DEF Buffer!Inserted
<1> QED BY <1>2, <1>3, <1>4, Zenon

(* The removal loop of next_process leaves the buffer MovedUp describes,  *)
(* whatever the number of entries it has skipped, the whole of a full      *)
(* buffer included, and the scan's pointer is at the entry it takes out    *)
(* (rtos_process.c:162-232).                                               *)
THEOREM RemovalLoop == RemovalAgrees
<1> SUFFICES ASSUME NEW b \in Buffers, NEW blocked \in 0 .. b.count
             PROVE  /\ MoveUpLoop(b, blocked) = Buffer(b)!MovedUp(blocked)
                    /\ blocked < b.count =>
                         b.queue[ScanPointers(b)[blocked]] = Buffer(b)!Entry(blocked)
  BY DEF RemovalAgrees
<1>1. blocked \in 0 .. MAX /\ b.count \in 0 .. MAX /\ MAX \in Nat /\ MAX >= 2
  BY MaxAssumption DEF Buffers, MAX
<1>2. MoveUpLoop(b, blocked) = Moved(b, blocked, blocked)
  BY MoveUpLoopIs
<1>3. Buffer(b)!MovedUp(blocked) =
        [s \in Slots |->
           LET o == Off(b, s) IN
           IF blocked = MAX /\ o \in {0, 1} THEN b.queue[At(b, MAX - 1)]
           ELSE IF o > 0 /\ o <= blocked THEN b.queue[At(b, o - 1)]
           ELSE b.queue[s]]
  BY BufferDefinitions, Zenon DEF Buffer!MovedUp
<1>4. Moved(b, blocked, blocked) = Buffer(b)!MovedUp(blocked)
  <2> SUFFICES ASSUME NEW s \in Slots
               PROVE  Moved(b, blocked, blocked)[s] = Buffer(b)!MovedUp(blocked)[s]
    BY <1>3 DEF Moved
  <2>1. Off(b, s) \in 0 .. MAX - 1
    BY AtOff
  <2> QED BY <1>1, <1>3, <2>1 DEF Moved
<1>5. blocked < b.count => ScanPointers(b)[blocked] = At(b, blocked)
  BY <1>1, ScanPointersAre
<1> QED BY <1>2, <1>4, <1>5, BufferDefinitions

(* The removal loop keeps every entry but the one it takes out, in its    *)
(* place in the order, unless it has skipped a table full of entries       *)
(* (rtos_process.c:227-236).                                               *)
THEOREM OthersKept == RemovalKeepsOthers
<1> SUFFICES ASSUME NEW b \in Buffers, NEW blocked \in 0 .. b.count,
                    b.count > 0, blocked < MAX, NEW o \in 0 .. b.count - 2
             PROVE  MoveUpLoop(b, blocked)[(b.head + 1 + o) % MAX] =
                      Buffer(b)!Entry(IF o < IF blocked = b.count THEN blocked - 1 ELSE blocked
                                      THEN o ELSE o + 1)
  BY DEF RemovalKeepsOthers
<1>1. blocked \in 0 .. MAX - 1 /\ b.count \in 0 .. MAX /\ MAX \in Nat /\ MAX >= 2
  BY MaxAssumption DEF Buffers, MAX
<1>2. (b.head + 1 + o) % MAX = At(b, o + 1)
  <2>1. b.head + 1 + o = b.head + (o + 1) /\ o + 1 \in 0 .. MAX - 1
    BY <1>1 DEF Buffers, Slots
  <2> QED BY <2>1, AtNext
<1>3. At(b, o + 1) \in Slots /\ Off(b, At(b, o + 1)) = o + 1
  BY <1>1, OffAt
<1>4. Moved(b, blocked, blocked)[At(b, o + 1)] =
        IF o + 1 <= blocked THEN b.queue[At(b, o)] ELSE b.queue[At(b, o + 1)]
  <2>1. o + 1 > 0 /\ blocked - blocked = 0 /\ o + 1 - 1 = o
    BY <1>1
  <2> QED BY <1>1, <1>3, <2>1 DEF Moved
<1>5. o < (IF blocked = b.count THEN blocked - 1 ELSE blocked) <=> o + 1 <= blocked
  BY <1>1
<1> QED BY <1>2, <1>4, <1>5, MoveUpLoopIs, BufferDefinitions
=============================================================================
