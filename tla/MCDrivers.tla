------------------------------- MODULE MCDrivers -------------------------------
(***************************************************************************)
(* A counter of eight values, and waits of which the longest is the        *)
(* longest that cannot be missed with a lag of one tick.  Counters of      *)
(* three and five bits, and frequencies on either side of what they have   *)
(* room for.  A block of two halfwords to and one of a word from a fixed    *)
(* address, on two channels.  The SERCOM, the counters and the channels     *)
(* share no state, so that only one of them is used at a time.              *)
(***************************************************************************)
EXTENDS Drivers, Bitwise

MCOr(m, n) == m | n
MCWaits == {-1, 0, 5}
MCMaxPeriod == [c \in {"TC3", "TCC2"} |-> IF c = "TC3" THEN 7 ELSE 31]
MCBlocks ==
  {[beatsize |-> 1, count |-> 2, incsource |-> TRUE, incdest |-> FALSE, src |-> 10, dst |-> 30],
   [beatsize |-> 2, count |-> 1, incsource |-> FALSE, incdest |-> TRUE, src |-> 20, dst |-> 40]}

PortUntouched == mode = "off"
PwmUntouched == InitPwm
DmaUntouched == InitDma
OneAtATime ==
  \/ PwmUntouched /\ DmaUntouched
  \/ PortUntouched /\ DmaUntouched
  \/ PortUntouched /\ PwmUntouched
=============================================================================
