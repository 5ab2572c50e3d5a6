------------------------------- MODULE MCKernel -------------------------------
(***************************************************************************)
(* A small system: the main process and two others, in a table with one   *)
(* slot more than there are processes.                                     *)
(***************************************************************************)
EXTENDS RtosKernel

CONSTANTS main, p1, p2, f

WaitTrue == [variable |-> f, value |-> 0, mask |-> 1,
             callback |-> "none", condition |-> "NotEqual"]
WaitFalse == [WaitTrue EXCEPT !.condition = "Equal"]
Polled == [WaitTrue EXCEPT !.callback = "user", !.condition = "GEqual", !.value = 1]
Join(p) == [WaitTrue EXCEPT !.variable = p, !.value = Done, !.condition = "Equal"]
Started(p) == [Join(p) EXCEPT !.value = Ready, !.condition = "NotEqual"]

(* Two states that differ only in what the program never reads again are  *)
(* explored once: slots outside the queue, the deadline and the wait of a *)
(* process that is not blocked, the result of an earlier dispatch.         *)
View == <<[o \in Entries |-> Entry(o)], process_queue_head, process_queue_tail,
          now, status, program_counter, enable_preempt, flags, os, blocked_count,
          primask, preemptVars, remaining,
          [p \in Processes |-> IF status[p] \in {Running, Blocked}
                               THEN <<return_deadline[p], internal_data[p]>> ELSE <<>>],
          IF InHand \/ os = "sos" THEN current_process ELSE NoProcess,
          os = "process" /\ dispatch_result>>

UnknownCondition == [WaitTrue EXCEPT !.condition = "unknown"]
Unmasked == [WaitTrue EXCEPT !.mask = 0]

KernelWaits == {WaitTrue, Join(p1)}
TimeWaits == {Polled, Unmasked, Started(p1), UnknownCondition}
LiveWaits == {WaitTrue}
=============================================================================
