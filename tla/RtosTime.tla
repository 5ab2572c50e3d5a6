------------------------------- MODULE RtosTime -------------------------------
(***************************************************************************)
(* The arithmetic the scheduler does on the 32-bit tick counter of TC4.   *)
(* time_read_ticks() returns the free-running COUNT register, a deadline  *)
(* is a count in the future, and every comparison goes through the        *)
(* difference of two counts read as a signed int.  The width is a         *)
(* parameter: the counter has 2 * HalfRange values (HalfRange is 2^31 in  *)
(* the program), and each operator is the wrapping uint32_t operation of  *)
(* C.  Operands stay inside Ticks, so one conditional correction is the   *)
(* remainder modulo TickRange.                                            *)
(***************************************************************************)
EXTENDS Integers

CONSTANT HalfRange

ASSUME HalfRangeAssumption == HalfRange \in Nat \ {0}

TickRange == 2 * HalfRange
Ticks == 0 .. TickRange - 1

(* a + b and a - b in uint32_t. *)
TickAdd(a, b) == IF a + b >= TickRange THEN a + b - TickRange ELSE a + b
TickSub(a, b) == IF a >= b THEN a - b ELSE a - b + TickRange

(* The cast (int)x of an uint32_t. *)
AsInt(x) == IF x >= HalfRange THEN x - TickRange ELSE x
=============================================================================
