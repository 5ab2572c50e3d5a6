---------------------------------- MODULE Pwm ----------------------------------
(***************************************************************************)
(* pwm.c: the registers of the counters, as calls in any order leave them. *)
(* A TC is written, a TCC is or-ed into.  The widths, the clock and the    *)
(* rates are parameters.  The arithmetic of pwm.c is in floating point; it *)
(* is of integers here, a duty being a number of DutyUnits: what is         *)
(* rounded away is not modelled.                                            *)
(***************************************************************************)
EXTENDS Integers

CONSTANTS
  Clock,        \* F_CPU
  Frequencies, DutyUnits, Prescalers,
  MaxPeriod,    \* of each counter: 0xFF of a TC, more of a TCC
  SetAgain,     \* counters whose duty is set more than once
  BitOr(_, _)   \* the operator | of C, which fits a register its operands fit

VARIABLES
  clocked,              \* the counters that PM and GCLK give a clock
  prescaler, running,   \* CTRLA of each counter
  per, cc,
  asked                 \* of each counter: the last frequency that was taken, with its
                        \* divisor, and the last duty, with the period it was set in

pwmVars == <<clocked, prescaler, running, per, cc, asked>>

Tcs == {"TC3", "TC4", "TC5"}
Tccs == {"TCC0", "TCC1", "TCC2"}
Counters == DOMAIN MaxPeriod
Nothing == [frequency |-> 0, div |-> 0, duty |-> -1, per |-> 0]

ASSUME PwmAssumption ==
  /\ Clock \in Nat /\ DutyUnits \in Nat \ {0}
  /\ Frequencies \subseteq Nat \ {0} /\ Prescalers \subseteq 0 .. 7
  /\ Counters \subseteq Tcs \cup Tccs /\ SetAgain \subseteq Counters
  /\ MaxPeriod \in [Counters -> Nat]
ASSUME OrAssumption ==
  \A c \in Counters : \A m, n \in 0 .. MaxPeriod[c] :
    BitOr(m, n) \in 0 .. MaxPeriod[c] /\ BitOr(0, n) = n

(* The counters after reset. *)
InitPwm ==
  /\ clocked = {}
  /\ prescaler = [c \in Counters |-> 0] /\ running = [c \in Counters |-> FALSE]
  /\ per = MaxPeriod /\ cc = [c \in Counters |-> 0]
  /\ asked = [c \in Counters |-> Nothing]

-----------------------------------------------------------------------------
(* pwm_init_tc and pwm_init_tcc.  The prescaler of a counter that is       *)
(* running cannot be written: the call only stops the counter.  A TC now    *)
(* counts 8 bits, as the other calls take it to.                            *)
PwmInit(c, value) ==
  /\ clocked' = clocked \cup {c}
  /\ prescaler' = IF running[c] THEN prescaler ELSE [prescaler EXCEPT ![c] = value]
  /\ running' = [running EXCEPT ![c] = FALSE]
  /\ UNCHANGED <<per, cc, asked>>

(* pwm_enable_tc and pwm_enable_tcc.  These and the calls that follow are   *)
(* made on a counter that has been initialised: the code does not look, and *)
(* the registers of one without a clock cannot be written.                  *)
PwmEnable(c) ==
  /\ c \in clocked
  /\ running' = [running EXCEPT ![c] = TRUE]
  /\ UNCHANGED <<clocked, prescaler, per, cc, asked>>

WrittenInto(c, old, new) == BitOr(old, new)   \* mutant: a TC is or-ed into, too
Written(c, old, new) == IF c \in Tcs THEN new ELSE BitOr(old, new)

(* pwm_get_div_val. *)
DivVal(value) == <<1, 2, 4, 8, 16, 64, 256, 1024>>[value + 1]

FitsUnchecked(c, period) == TRUE   \* mutant: any period is taken
Fits(c, period) == period <= MaxPeriod[c]

(* pwm_set_frequency_tc and pwm_set_frequency_tcc; a period the counter    *)
(* has no room for is refused, and nothing changes.                        *)
SetFrequency(c, frequency) ==
  LET div == DivVal(prescaler[c])
      period == Clock \div (frequency * div)
  IN /\ c \in clocked /\ Fits(c, period)
     /\ per' = [per EXCEPT ![c] = Written(c, @, period) % (MaxPeriod[c] + 1)]
     /\ asked' = [asked EXCEPT ![c] = [frequency |-> frequency, div |-> div,
                                              duty |-> @.duty, per |-> @.per]]
     /\ UNCHANGED <<clocked, prescaler, running, cc>>

Clamped(duty) == IF duty < 0 THEN 0 ELSE IF duty > DutyUnits THEN DutyUnits ELSE duty

(* pwm_set_duty_tc and pwm_set_duty_tcc. *)
SetDuty(c, duty) ==
  /\ c \in clocked
  /\ c \in SetAgain \/ asked[c].duty = -1
  /\ cc' = [cc EXCEPT ![c] = Written(c, @, (Clamped(duty) * per[c]) \div DutyUnits)]
  /\ asked' = [asked EXCEPT ![c] = [frequency |-> @.frequency, div |-> @.div,
                                           duty |-> Clamped(duty), per |-> per[c]]]
  /\ UNCHANGED <<clocked, prescaler, running, per>>

PwmCall ==
  \E c \in Counters :
    \/ \E value \in Prescalers : PwmInit(c, value)
    \/ PwmEnable(c)
    \/ \E frequency \in Frequencies : SetFrequency(c, frequency)
    \/ \E duty \in -1 .. DutyUnits + 1 : SetDuty(c, duty)

-----------------------------------------------------------------------------
PwmTypeOK ==
  /\ clocked \subseteq Counters
  /\ prescaler \in [Counters -> 0 .. 7] /\ running \in [Counters -> BOOLEAN]
  /\ per \in [Counters -> Nat] /\ cc \in [Counters -> Nat]
  /\ \A c \in Counters : per[c] <= MaxPeriod[c] /\ cc[c] <= MaxPeriod[c]
  /\ asked \in [Counters -> [frequency : Frequencies \cup {0}, div : Nat,
                             duty : -1 .. DutyUnits, per : Nat]]

(* The period of a TC is that of the last frequency it took, to within one *)
(* count of the prescaler of that time, whatever was set, refused or        *)
(* initialised before and after (pwm.c:161-183).                            *)
PeriodAsAsked ==
  \A c \in Counters \cap Tcs :
    asked[c].frequency > 0 =>
      LET step == asked[c].frequency * asked[c].div
      IN Clock - step < per[c] * step /\ per[c] * step <= Clock

(* While the period of a counter is what it was when its duty was set, its *)
(* output is high for that part of it, rounded down to a count             *)
(* (pwm.c:196-249).                                                        *)
DutyAsAsked ==
  \A c \in Counters :
    asked[c].duty >= 0 /\ asked[c].per = per[c] =>
      LET shown == cc[c] * DutyUnits
      IN asked[c].duty * per[c] - DutyUnits < shown /\ shown <= asked[c].duty * per[c]
=============================================================================
