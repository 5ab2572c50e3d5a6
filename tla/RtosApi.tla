-------------------------------- MODULE RtosApi --------------------------------
(***************************************************************************)
(* What the scheduler promises its callers, without a queue, a clock or   *)
(* interrupts: the life of each process.  A dispatched process waits      *)
(* until it runs; at most one runs; it goes back to waiting when it       *)
(* yields and stops for good when its function returns, until it is       *)
(* initialised or reset; a dispatched process is never forgotten.         *)
(***************************************************************************)
CONSTANTS Processes, MainProcess

VARIABLE phase

Phases == {"idle", "waiting", "running", "finished"}

Init == phase = [p \in Processes |-> IF p = MainProcess THEN "waiting" ELSE "idle"]

SomeRunning == \E p \in Processes : phase[p] = "running"

Moves(p, from, to) == phase[p] \in from /\ phase' = [phase EXCEPT ![p] = to]

(* The calls, which only a running process makes. *)
InitProcess(p) == SomeRunning /\ Moves(p, {"idle", "finished"}, "idle")
DispatchProcess(p) == SomeRunning /\ Moves(p, {"idle"}, "waiting")
Yield(p) == Moves(p, {"running"}, "waiting")
Finish(p) == Moves(p, {"running"}, "finished")

(* The scheduler's own step. *)
Run(p) == ~SomeRunning /\ Moves(p, {"waiting"}, "running")

Next == \E p \in Processes :
  InitProcess(p) \/ DispatchProcess(p) \/ Yield(p) \/ Finish(p) \/ Run(p)

Spec == Init /\ [][Next]_phase
=============================================================================
