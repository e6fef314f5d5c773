------------------------------- MODULE Clint -------------------------------
(***************************************************************************)
(* The timer of one hart (devices/src/clint.cpp). A register is a number   *)
(* of Digits digits in base Base: an access names the digits it covers, as *)
(* an access of the code names bytes. Firmware of a 32-bit machine sets    *)
(* mtimecmp in three writes, with ticks between them.                      *)
(***************************************************************************)
EXTENDS Integers, Powers

CONSTANTS
  Base,          \* values of a digit
  Digits,        \* digits of mtime and mtimecmp
  MaxCycles      \* cycles that pass in one tick

ASSUME ClintAssumption ==
  Base \in Nat \ {0, 1} /\ Digits \in Nat \ {0, 1} /\ MaxCycles \in Nat \ {0}

Times == 0 .. Pow(Base, Digits) - 1

VARIABLES
  mtime, mtimecmp, msip,
  arming         \* the firmware's steps left, its deadlines before and after

clint == <<mtime, mtimecmp, msip, arming>>

\* An access that leaves its register is refused.
Fits(size, offset, count) == count <= size /\ offset <= size - count

Piece(value, offset, count) == (value \div Pow(Base, offset)) % Pow(Base, count)

\* Mutant: the digits written are not moved to their place.
write_registerUnshifted(value, offset, count, input) ==
  value - Piece(value, offset, count) * Pow(Base, offset) + (input % Pow(Base, count))

\* The digits the access covers are replaced, the others stay.
write_register(value, offset, count, input) ==
  value - Piece(value, offset, count) * Pow(Base, offset)
    + (input % Pow(Base, count)) * Pow(Base, offset)

machine_timer_irq == mtime >= mtimecmp

ClintInit ==
  /\ mtime = 0 /\ mtimecmp = Pow(Base, Digits) - 1 /\ msip = 0
  /\ arming = [left |-> 0, before |-> mtimecmp, after |-> mtimecmp]

tick_clint ==
  /\ \E cycles \in 1 .. MaxCycles : mtime' = (mtime + cycles) % Pow(Base, Digits)
  /\ UNCHANGED <<mtimecmp, msip, arming>>

WriteMtime(offset, count, input) ==
  /\ Fits(Digits, offset, count)
  /\ mtime' = write_register(mtime, offset, count, input)
  /\ UNCHANGED <<mtimecmp, msip, arming>>

\* Only the lowest bit of msip is kept; the register is half as wide.
WriteMsip(offset, count, input) ==
  /\ Fits(Digits \div 2, offset, count)
  /\ msip' = write_register(msip, offset, count, input) % 2
  /\ UNCHANGED <<mtime, mtimecmp, arming>>

\* The whole register in one access.
WriteMtimecmp(deadline) ==
  /\ arming.left = 0
  /\ mtimecmp' = write_register(mtimecmp, 0, Digits, deadline)
  /\ arming' = [left |-> 0, before |-> deadline, after |-> deadline]
  /\ UNCHANGED <<mtime, msip>>

\* Firmware sets a deadline: the lower half to its largest value, the upper
\* half, the lower half.
StartArming(deadline) ==
  /\ arming.left = 0
  /\ arming' = [left |-> 3, before |-> mtimecmp, after |-> deadline]
  /\ UNCHANGED <<mtime, mtimecmp, msip>>

Half == Digits \div 2

ArmingStep ==
  /\ arming.left > 0
  /\ mtimecmp' = CASE arming.left = 3 -> write_register(mtimecmp, 0, Half, Pow(Base, Half) - 1)
                   [] arming.left = 2 -> write_register(mtimecmp, Half, Digits - Half,
                                                        arming.after \div Pow(Base, Half))
                   [] OTHER -> write_register(mtimecmp, 0, Half, arming.after)
  /\ arming' = [arming EXCEPT !.left = @ - 1]
  /\ UNCHANGED <<mtime, msip>>

ClintNext ==
  \/ tick_clint \/ ArmingStep
  \/ \E deadline \in Times : WriteMtimecmp(deadline) \/ StartArming(deadline)
  \/ \E offset \in 0 .. Digits - 1, count \in 1 .. Digits, input \in Times :
       WriteMtime(offset, count, input) \/ WriteMsip(offset, count, input)

\* While the deadline is replaced piece by piece, and after, the timer interrupt
\* comes at the old or the new deadline and never before both.
TimerNeverEarly ==
  /\ mtimecmp \in Times /\ mtime \in Times
  /\ machine_timer_irq => mtime >= arming.before \/ mtime >= arming.after
  /\ arming.left = 0 => mtimecmp = arming.after
=============================================================================
