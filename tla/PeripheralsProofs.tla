-------------------------- MODULE PeripheralsProofs --------------------------
(***************************************************************************)
(* Proofs about the peripherals, one inductive invariant for each device:  *)
(* the timer's three writes, the clock's two words, the timers of the      *)
(* network, and what the window shows.                                     *)
(***************************************************************************)
EXTENDS Peripherals, WellOrder

\* A number is its quotient and its remainder.
LEMMA DivMod ==
  ASSUME NEW x \in Nat, NEW b \in Nat \ {0}
  PROVE  /\ x \div b \in Nat /\ x % b \in 0 .. b - 1
         /\ x = (x \div b) * b + (x % b)
  OBVIOUS

\* The quotient of a number below a product.
LEMMA DivBelow ==
  ASSUME NEW x \in Nat, NEW a \in Nat, NEW b \in Nat \ {0}, x < a * b
  PROVE  x \div b < a
<1>1. x \div b \in Nat /\ x % b \in Nat /\ x = (x \div b) * b + (x % b)  BY DivMod
<1>2. \A q \in Nat : q >= a => q * b >= a * b  OBVIOUS
<1>. QED  BY <1>1, <1>2

\* Quotient and remainder are unique.
LEMMA DivUnique ==
  ASSUME NEW q \in Nat, NEW b \in Nat \ {0}, NEW r \in 0 .. b - 1
  PROVE  (q * b + r) \div b = q /\ (q * b + r) % b = r
  OBVIOUS

-----------------------------------------------------------------------------
(* The timer. *)

\* A write to the middle of a number of three parts replaces that part.
LEMMA MiddleWritten ==
  ASSUME NEW P \in Nat \ {0}, NEW Q \in Nat \ {0}, NEW R \in Nat \ {0},
         NEW v \in Nat, v < P * Q * R, NEW y \in 0 .. Q - 1
  PROVE  LET w == v - ((v \div P) % Q) * P + y * P
         IN  w \in Nat /\ w < P * Q * R
<1> DEFINE a == v \div P
           low == v % P
           h == a \div Q
           m == a % Q
<1>1. a \in Nat /\ low \in 0 .. P - 1 /\ v = a * P + low  BY DivMod
<1>2. h \in Nat /\ m \in 0 .. Q - 1 /\ a = h * Q + m
  <2> HIDE DEF a
  <2>. QED  BY <1>1, DivMod
<1>3. h < R
  <2>1. P * Q * R = (R * Q) * P /\ R * Q \in Nat  OBVIOUS
  <2>2. a < R * Q  BY <2>1, DivBelow
  <2> HIDE DEF a
  <2>. QED  BY <1>1, <2>2, DivBelow
<1> HIDE DEF a, low, h, m
<1>4. a - m + y = h * Q + y  BY <1>2
<1>5. h * Q + y < R * Q
  <2>1. \A x \in Nat : x + 1 <= R => x * Q + Q <= R * Q  OBVIOUS
  <2>2. h * Q \in Nat /\ R * Q \in Nat  BY <1>2
  <2>. QED  BY <1>2, <1>3, <2>1, <2>2
<1> DEFINE n == h * Q + y
<1>6. n \in Nat /\ n < R * Q  BY <1>2, <1>5
<1>7. v - m * P + y * P = n * P + low
  <2>1. a * P - m * P + y * P = (a - m + y) * P  BY <1>1, <1>2
  <2>2. a * P \in Int /\ m * P \in Int /\ y * P \in Int /\ low \in Int /\ n * P \in Int
    BY <1>1, <1>2, <1>6
  <2>. QED  BY <1>1, <1>4, <2>1, <2>2
<1> HIDE DEF n
<1>8. n * P + low < (R * Q) * P
  <2>1. R * Q \in Nat  OBVIOUS
  <2>2. \A x, z \in Nat : x + 1 <= z => x * P + P <= z * P  OBVIOUS
  <2>3. n * P + P <= (R * Q) * P  BY <1>6, <2>1, <2>2
  <2>4. n * P \in Nat /\ (R * Q) * P \in Nat  BY <1>6, <2>1
  <2>. QED  BY <1>1, <2>3, <2>4
<1>9. n * P + low \in Nat  BY <1>1, <1>6
<1>10. P * Q * R = (R * Q) * P  OBVIOUS
<1>. QED  BY <1>7, <1>8, <1>9, <1>10 DEF m, a

LEMMA RegisterWritten ==
  ASSUME NEW v \in Times, NEW offset \in Nat, NEW count \in Nat, Fits(Digits, offset, count),
         NEW input \in Nat
  PROVE  write_register(v, offset, count, input) \in Times
<1> DEFINE P == Pow(Base, offset)
           Q == Pow(Base, count)
           rest == Digits - count - offset
           R == Pow(Base, rest)
<1>1. Base \in Nat \ {0} /\ Digits \in Nat /\ rest \in Nat
  BY ClintAssumption DEF Fits
<1>2. P \in Nat \ {0} /\ Q \in Nat \ {0} /\ R \in Nat \ {0}  BY <1>1, PowDef
<1>3. Pow(Base, Digits) = P * Q * R
  <2>1. Pow(Base, offset + count) = P * Q  BY <1>1, PowAdd
  <2>2. offset + count \in Nat /\ (offset + count) + rest = Digits  BY <1>1
  <2>3. Pow(Base, (offset + count) + rest) = Pow(Base, offset + count) * R
    <3> HIDE DEF rest
    <3>. QED  BY <1>1, <2>2, PowAdd
  <2>. QED  BY <2>1, <2>2, <2>3
<1> DEFINE y == input % Q
<1> HIDE DEF P, Q, R
<1>4. y \in 0 .. Q - 1  BY <1>2, DivMod
<1>5. P * Q * R \in Nat  BY <1>2
<1>6. v \in Nat /\ v < P * Q * R  BY <1>3, <1>5 DEF Times
<1>7. write_register(v, offset, count, input) = v - ((v \div P) % Q) * P + y * P
  BY DEF write_register, Piece, P, Q
<1> HIDE DEF y
<1>8. LET w == v - ((v \div P) % Q) * P + y * P IN w \in Nat /\ w < P * Q * R
  BY <1>2, <1>4, <1>6, MiddleWritten
<1>. QED  BY <1>3, <1>5, <1>7, <1>8 DEF Times

\* The values of the lower and of the upper half.
Low == Pow(Base, Half)
High == Pow(Base, Digits - Half)

LEMMA Halves ==
  /\ Low \in Nat \ {0} /\ High \in Nat \ {0} /\ Pow(Base, Digits) = Low * High
  /\ Times = 0 .. Low * High - 1
  /\ Half \in Nat /\ Digits - Half \in Nat /\ Digits \in Nat
  /\ \A t \in Times : t \in Nat
<1>1. Base \in Nat \ {0} /\ Digits \in Nat  BY ClintAssumption
<1>2. Half \in Nat /\ Digits - Half \in Nat /\ Half + (Digits - Half) = Digits
  BY <1>1 DEF Half
<1>3. Low \in Nat \ {0} /\ High \in Nat \ {0}  BY <1>1, <1>2, PowDef DEF Low, High
<1>4. Pow(Base, Half + (Digits - Half)) = Low * High  BY <1>1, <1>2, PowAdd DEF Low, High
<1>. QED  BY <1>1, <1>2, <1>3, <1>4 DEF Times

LEMMA LowWritten ==
  ASSUME NEW v \in Nat, NEW x \in Nat
  PROVE  write_register(v, 0, Half, x) = (v \div Low) * Low + (x % Low)
<1>1. Pow(Base, 0) = 1  BY ClintAssumption, PowDef
<1>2. Low \in Nat \ {0}  BY Halves
<1>3. write_register(v, 0, Half, x) = v - ((v \div 1) % Low) * 1 + (x % Low) * 1
  BY <1>1 DEF write_register, Piece, Low
<1>4. v \div 1 = v  OBVIOUS
<1>5. /\ v \div Low \in Nat /\ v % Low \in Nat /\ x % Low \in Nat
      /\ v = (v \div Low) * Low + (v % Low)
  BY <1>2, DivMod
<1>6. (v \div Low) * Low \in Nat  BY <1>2, <1>5
<1> HIDE DEF Low
<1>. QED  BY <1>3, <1>4, <1>5, <1>6

LEMMA HighWritten ==
  ASSUME NEW v \in Nat, v \in Times, NEW x \in 0 .. High - 1
  PROVE  write_register(v, Half, Digits - Half, x) = x * Low + (v % Low)
<1>1. write_register(v, Half, Digits - Half, x)
        = v - ((v \div Low) % High) * Low + (x % High) * Low
  BY DEF write_register, Piece, Low, High
<1>2. Low \in Nat \ {0} /\ High \in Nat \ {0} /\ v \in Nat
  BY Halves
<1>3. /\ v \div Low \in Nat /\ v % Low \in 0 .. Low - 1
      /\ v = (v \div Low) * Low + (v % Low)
  BY <1>2, DivMod
<1>9. v % Low \in Nat  BY <1>2, <1>3
<1>4. v \div Low < High
  <2>1. Low * High = High * Low /\ High * Low \in Nat  BY Halves
  <2>2. v < High * Low  BY <1>2, <2>1, Halves
  <2>. QED  BY <1>2, <2>2, DivBelow
<1>5. \A y \in Nat : y < High => y % High = y  BY <1>2
<1>6. (v \div Low) % High = v \div Low /\ x % High = x  BY <1>2, <1>3, <1>4, <1>5
<1>7. (v \div Low) * Low \in Nat /\ x * Low \in Nat  BY <1>2, <1>3
<1>. QED  BY <1>1, <1>3, <1>6, <1>7, <1>9

LEMMA AllWritten ==
  ASSUME NEW v \in Times, NEW x \in Times
  PROVE  write_register(v, 0, Digits, x) = x
<1> DEFINE All == Pow(Base, Digits)
<1>1. Pow(Base, 0) = 1 /\ All \in Nat \ {0}  BY ClintAssumption, PowDef
<1>2. v \in Nat /\ x \in Nat /\ v < All /\ x < All  BY <1>1 DEF Times
<1>3. write_register(v, 0, Digits, x) = v - ((v \div 1) % All) * 1 + (x % All) * 1
  BY <1>1 DEF write_register, Piece
<1> HIDE DEF All
<1>4. v \div 1 = v /\ v % All = v /\ x % All = x  BY <1>1, <1>2
<1>. QED  BY <1>2, <1>3, <1>4

\* What the firmware has written after each of its three steps.
ArmingInv ==
  /\ mtime \in Times /\ mtimecmp \in Times
  /\ arming \in [left : 0 .. 3, before : Times, after : Times]
  /\ arming.left = 3 => mtimecmp = arming.before
  /\ arming.left = 2 => mtimecmp = (arming.before \div Low) * Low + (Low - 1)
  /\ arming.left = 1 => mtimecmp = (arming.after \div Low) * Low + (Low - 1)
  /\ arming.left = 0 => mtimecmp = arming.after

LEMMA ArmingKept ==
  ASSUME ArmingInv, ArmingStep
  PROVE  ArmingInv'
<1> DEFINE n == arming.left
           b == arming.before
           a == arming.after
<1>1. n \in 1 .. 3 /\ b \in Times /\ a \in Times /\ mtimecmp \in Times /\ mtime' = mtime
  BY DEF ArmingInv, ArmingStep
<1>2. /\ arming' \in [left : 0 .. 3, before : Times, after : Times]
      /\ arming'.left = n - 1 /\ arming'.before = b /\ arming'.after = a
  BY DEF ArmingInv, ArmingStep
<1>3. /\ Low \in Nat \ {0} /\ High \in Nat \ {0} /\ Low * High = High * Low /\ High * Low \in Nat
      /\ Times = 0 .. Low * High - 1
  BY Halves
<1>0. a \in Nat /\ b \in Nat /\ mtimecmp \in Nat /\ Low - 1 \in Nat  BY <1>1, Halves
<1>4. /\ a \div Low \in Nat /\ a % Low \in 0 .. Low - 1 /\ a = (a \div Low) * Low + (a % Low)
      /\ a \div Low < High
  <2>1. a < High * Low  BY <1>0, <1>1, <1>3
  <2> HIDE DEF a
  <2>2. a \div Low < High  BY <1>0, <1>3, <2>1, DivBelow
  <2>3. Low \in Nat \ {0} /\ a \in Nat  BY <1>0, <1>3
  <2>4. a \div Low \in Nat /\ a % Low \in 0 .. Low - 1 /\ a = (a \div Low) * Low + (a % Low)
    BY <2>3, DivMod
  <2>. QED  BY <2>2, <2>4
<1>5. /\ Fits(Digits, 0, Half) /\ Fits(Digits, Half, Digits - Half)
  BY Halves DEF Fits
<1>6. (Low - 1) % Low = Low - 1 /\ Low - 1 \in 0 .. Low - 1  BY <1>3
<1>7. CASE n = 3
  <2>1. mtimecmp' = write_register(mtimecmp, 0, Half, Low - 1)  BY <1>7 DEF ArmingStep, Low
  <2>2. mtimecmp' \in Times  BY <1>0, <1>1, <1>5, <2>1, Halves, RegisterWritten
  <2>3. mtimecmp' = (mtimecmp \div Low) * Low + ((Low - 1) % Low)
    BY <1>0, <2>1, LowWritten
  <2>4. mtimecmp = b  BY <1>7 DEF ArmingInv
  <2>. QED  BY <1>1, <1>2, <1>6, <1>7, <2>2, <2>3, <2>4 DEF ArmingInv
<1>8. CASE n = 2
  <2>1. mtimecmp' = write_register(mtimecmp, Half, Digits - Half, a \div Low)
    BY <1>8 DEF ArmingStep, Low
  <2>2. mtimecmp' \in Times  BY <1>1, <1>4, <1>5, <2>1, Halves, RegisterWritten
  <2>3. mtimecmp' = (a \div Low) * Low + (mtimecmp % Low)
    BY <1>1, <1>3, <1>4, <2>1, HighWritten
  <2>4. mtimecmp % Low = Low - 1
    <3>1. mtimecmp = (b \div Low) * Low + (Low - 1)  BY <1>8 DEF ArmingInv
    <3>2. b \div Low \in Nat  BY <1>1, <1>3, DivMod
    <3>. QED  BY <1>3, <1>6, <3>1, <3>2, DivUnique
  <2>. QED  BY <1>1, <1>2, <1>8, <2>2, <2>3, <2>4 DEF ArmingInv
<1>9. CASE n = 1
  <2>1. mtimecmp' = write_register(mtimecmp, 0, Half, a)  BY <1>9 DEF ArmingStep, Low
  <2>2. mtimecmp' \in Times  BY <1>0, <1>1, <1>5, <2>1, Halves, RegisterWritten
  <2>3. mtimecmp' = (mtimecmp \div Low) * Low + (a % Low)
    BY <1>0, <2>1, LowWritten
  <2>4. mtimecmp \div Low = a \div Low
    <3>1. mtimecmp = (a \div Low) * Low + (Low - 1)  BY <1>9 DEF ArmingInv
    <3>. QED  BY <1>3, <1>4, <1>6, <3>1, DivUnique
  <2>5. mtimecmp' = a  BY <1>4, <2>3, <2>4
  <2>. QED  BY <1>1, <1>2, <1>9, <2>2, <2>5 DEF ArmingInv
<1>. QED  BY <1>1, <1>7, <1>8, <1>9

LEMMA ClintKept == ArmingInv /\ [ClintNext]_clint => ArmingInv'
<1> SUFFICES ASSUME ArmingInv, [ClintNext]_clint PROVE ArmingInv'  OBVIOUS
<1>1. CASE tick_clint
  <2>1. PICK cycles \in 1 .. MaxCycles : mtime' = (mtime + cycles) % Pow(Base, Digits)
    BY <1>1 DEF tick_clint
  <2>2. mtime + cycles \in Nat /\ Pow(Base, Digits) \in Nat \ {0}
    BY ClintAssumption, PowDef DEF ArmingInv, Times
  <2>3. mtime' \in Times  BY <2>1, <2>2, DivMod DEF Times
  <2>. QED  BY <1>1, <2>3 DEF tick_clint, ArmingInv
<1>2. CASE ArmingStep  BY <1>2, ArmingKept
<1>3. ASSUME NEW deadline \in Times, WriteMtimecmp(deadline) PROVE ArmingInv'
  <2>1. mtimecmp' = deadline  BY <1>3, AllWritten DEF WriteMtimecmp, ArmingInv
  <2>. QED  BY <1>3, <2>1 DEF WriteMtimecmp, ArmingInv
<1>4. ASSUME NEW deadline \in Times, StartArming(deadline) PROVE ArmingInv'
  BY <1>4 DEF StartArming, ArmingInv
<1>5. ASSUME NEW offset \in 0 .. Digits - 1, NEW count \in 1 .. Digits, NEW input \in Times,
             WriteMtime(offset, count, input)
      PROVE  ArmingInv'
  <2>1. offset \in Nat /\ count \in Nat /\ input \in Nat  BY ClintAssumption DEF Times
  <2>2. mtime' \in Times  BY <1>5, <2>1, RegisterWritten DEF WriteMtime, ArmingInv
  <2>. QED  BY <1>5, <2>2 DEF WriteMtime, ArmingInv
<1>6. ASSUME NEW offset, NEW count, NEW input, WriteMsip(offset, count, input)
      PROVE  ArmingInv'
  BY <1>6 DEF WriteMsip, ArmingInv
<1>7. CASE UNCHANGED clint  BY <1>7 DEF clint, ArmingInv
<1>. QED  BY <1>1, <1>2, <1>3, <1>4, <1>5, <1>6, <1>7 DEF ClintNext

LEMMA ArmingNeverEarly == ArmingInv => TimerNeverEarly
<1> SUFFICES ASSUME ArmingInv PROVE TimerNeverEarly  OBVIOUS
<1> DEFINE b == arming.before
           a == arming.after
<1>1. a \in Times /\ b \in Times /\ mtime \in Nat /\ arming.left \in 0 .. 3
  BY DEF ArmingInv, Times
<1>2. Low \in Nat \ {0} /\ a \in Nat /\ b \in Nat  BY <1>1, Halves DEF Times
<1>3. \A x \in Nat : (x \div Low) * Low + (Low - 1) \in Nat /\ (x \div Low) * Low + (Low - 1) >= x
  <2> TAKE x \in Nat
  <2>1. x \div Low \in Nat /\ x % Low \in 0 .. Low - 1 /\ x = (x \div Low) * Low + (x % Low)
    BY <1>2, DivMod
  <2>2. (x \div Low) * Low \in Nat  BY <1>2, <2>1
  <2>. QED  BY <1>2, <2>1, <2>2
<1>4. mtimecmp \in Nat /\ (mtimecmp >= b \/ mtimecmp >= a)
  <2>1. mtimecmp \in Nat  BY Halves DEF ArmingInv
  <2>2. CASE arming.left = 3  BY <1>2, <2>2 DEF ArmingInv
  <2>3. CASE arming.left = 2  BY <1>2, <1>3, <2>3 DEF ArmingInv
  <2>4. CASE arming.left = 1  BY <1>2, <1>3, <2>4 DEF ArmingInv
  <2>5. CASE arming.left = 0  BY <1>2, <2>5 DEF ArmingInv
  <2>. QED  BY <1>1, <2>1, <2>2, <2>3, <2>4, <2>5
<1>5. machine_timer_irq => mtime >= b \/ mtime >= a  BY <1>1, <1>2, <1>4 DEF machine_timer_irq
<1>. QED  BY <1>5 DEF TimerNeverEarly, ArmingInv

LEMMA ClintStarts == ClintInit => ArmingInv
<1> SUFFICES ASSUME ClintInit PROVE ArmingInv  OBVIOUS
<1>1. Pow(Base, Digits) \in Nat \ {0}  BY ClintAssumption, PowDef
<1>. QED  BY <1>1 DEF ClintInit, ArmingInv, Times

-----------------------------------------------------------------------------
(* The clock. *)

\* The high word that ReadTimeHigh returns belongs to the low word read before.
ClockInv ==
  /\ host_time \in Int /\ host_time_offset \in Int /\ pending_time_high \in Int
  /\ latched_time_high \in Int /\ reading.low \in Int /\ reading.expected \in Int
  /\ latched_time_high * WordBase + reading.low = reading.expected
  /\ reading \in [low : Int, time : Int, expected : Int]
  /\ TimeNotTorn
  /\ waiting => irq_enabled
  /\ AlarmNotMissed

LEMMA TimeInt ==
  ASSUME ClockInv
  PROVE  time_nanoseconds \in Int
<1>1. UnsignedMax \in Int  BY RtcAssumption DEF UnsignedMax
<1>. QED  BY <1>1 DEF ClockInv, time_nanoseconds, Least, Greatest

LEMMA ClockKept == ClockInv /\ [RtcNext]_rtc => ClockInv'
<1> SUFFICES ASSUME ClockInv, [RtcNext]_rtc PROVE ClockInv'  OBVIOUS
<1> USE DEF TimeNotTorn, AlarmNotMissed
<1>0. WordBase \in Nat \ {0} /\ SignedMax \in Int /\ HostTimes \subseteq Int
  <2>1. WordBase * WordBase \in Nat /\ WordBase \in Nat \ {0}  BY RtcAssumption
  <2>2. SignedMax \in Int  BY <2>1 DEF SignedMax
  <2>. QED  BY <2>1, <2>2, RtcAssumption
<1>1. CASE HostClock  BY <1>0, <1>1 DEF HostClock, ClockInv, rtc_time, rtc_alarm
<1>2. CASE ReadTimeLow
  <2> DEFINE t == time_nanoseconds
  <2>1. t \in Int  BY TimeInt
  <2>2. /\ latched_time_high' = t \div WordBase
        /\ reading' = [low |-> t % WordBase, time |-> -1, expected |-> t]
        /\ UNCHANGED <<host_time, host_time_offset, pending_time_high, rtc_alarm>>
    BY <1>2 DEF ReadTimeLow
  <2> HIDE DEF t
  <2>3. \A x \in Int, w \in Nat \ {0} :
          x \div w \in Int /\ x % w \in Int /\ (x \div w) * w + (x % w) = x
    OBVIOUS
  <2>4. t \div WordBase \in Int /\ t % WordBase \in Int
        /\ (t \div WordBase) * WordBase + (t % WordBase) = t
    BY <1>0, <2>1, <2>3
  <2>. QED  BY <2>1, <2>2, <2>4 DEF ClockInv, rtc_alarm
<1>3. CASE ReadTimeHigh  BY <1>0, <1>3 DEF ReadTimeHigh, ClockInv, rtc_alarm
<1>4. CASE tick_rtc  BY <1>4 DEF tick_rtc, ClockInv, rtc_time
<1>5. CASE ClearAlarm  BY <1>5 DEF ClearAlarm, ClockInv, rtc_time
<1>6. CASE ClearInterrupt  BY <1>6 DEF ClearInterrupt, ClockInv, rtc_time
<1>7. ASSUME NEW word \in Words, WriteTimeHigh(word) PROVE ClockInv'
  <2>1. word \in Int  BY <1>0 DEF Words
  <2>. QED  BY <1>7, <2>1 DEF WriteTimeHigh, ClockInv, rtc_alarm
<1>8. ASSUME NEW word \in Words, WriteTimeLow(word) PROVE ClockInv'
  <2>1. word \in Int  BY <1>0 DEF Words
  <2>2. pending_time_high * WordBase + word \in Int  BY <1>0, <2>1 DEF ClockInv
  <2>3. host_time_offset' \in Int  BY <1>0, <1>8, <2>2 DEF WriteTimeLow, ClockInv
  <2>. QED  BY <1>8, <2>3 DEF WriteTimeLow, ClockInv, rtc_alarm
<1>9. ASSUME NEW word \in Words, WriteAlarmHigh(word) PROVE ClockInv'
  BY <1>9 DEF WriteAlarmHigh, ClockInv, rtc_time
<1>10. ASSUME NEW word \in Words, WriteAlarmLow(word) PROVE ClockInv'
  BY <1>10 DEF WriteAlarmLow, ClockInv, rtc_time
<1>11. ASSUME NEW enable \in BOOLEAN, WriteIrqEnabled(enable) PROVE ClockInv'
  BY <1>11 DEF WriteIrqEnabled, ClockInv, rtc_time
<1>12. CASE UNCHANGED rtc  BY <1>12 DEF rtc, rtc_time, rtc_alarm, ClockInv
<1>. QED  BY <1>1, <1>2, <1>3, <1>4, <1>5, <1>6, <1>7, <1>8, <1>9, <1>10, <1>11, <1>12 DEF RtcNext

LEMMA ClockStarts == RtcInit => ClockInv
  BY RtcAssumption DEF RtcInit, ClockInv, TimeNotTorn, AlarmNotMissed

-----------------------------------------------------------------------------
(* The timers of the network. *)

LEMMA ListedEnds ==
  ASSUME NEW D, NEW q \in Seq(D), NEW d \in D
  PROVE  /\ Append(q, d) \in Seq(D) /\ Listed(Append(q, d)) = Listed(q) \cup {d}
         /\ q # <<>> => /\ Head(q) \in D /\ Tail(q) \in Seq(D)
                        /\ Listed(q) = {Head(q)} \cup Listed(Tail(q))
<1>1. DOMAIN q = 1 .. Len(q) /\ Len(q) \in Nat  OBVIOUS
<1>2. DOMAIN Append(q, d) = 1 .. Len(q) + 1  OBVIOUS
<1>3. Listed(Append(q, d)) = Listed(q) \cup {d}
  <2>1. ASSUME NEW x \in Listed(q) PROVE x \in Listed(Append(q, d))
    <3>1. PICK j \in 1 .. Len(q) : x = q[j]  BY <1>1 DEF Listed
    <3>2. j \in DOMAIN Append(q, d) /\ Append(q, d)[j] = x  BY <1>1, <1>2, <3>1
    <3>. QED  BY <3>2 DEF Listed
  <2>2. d \in Listed(Append(q, d))
    <3>1. Len(q) + 1 \in DOMAIN Append(q, d) /\ Append(q, d)[Len(q) + 1] = d  BY <1>1, <1>2
    <3>. QED  BY <3>1 DEF Listed
  <2>3. ASSUME NEW x \in Listed(Append(q, d)) PROVE x \in Listed(q) \cup {d}
    <3>1. PICK j \in 1 .. Len(q) + 1 : x = Append(q, d)[j]  BY <1>2 DEF Listed
    <3>2. CASE j = Len(q) + 1  BY <1>1, <3>1, <3>2
    <3>3. CASE j # Len(q) + 1
      <4>1. j \in DOMAIN q /\ x = q[j]  BY <1>1, <3>1, <3>3
      <4>. QED  BY <4>1 DEF Listed
    <3>. QED  BY <3>2, <3>3
  <2>. QED  BY <2>1, <2>2, <2>3
<1>4. ASSUME q # <<>>
      PROVE  Head(q) \in D /\ Tail(q) \in Seq(D) /\ Listed(q) = {Head(q)} \cup Listed(Tail(q))
  <2>1. /\ Len(q) # 0 /\ Head(q) = q[1] /\ Tail(q) \in Seq(D) /\ Len(Tail(q)) = Len(q) - 1
        /\ \A j \in 1 .. Len(q) - 1 : Tail(q)[j] = q[j + 1]
    BY <1>1, <1>4
  <2>2. DOMAIN Tail(q) = 1 .. Len(q) - 1  BY <2>1
  <2>3. ASSUME NEW x \in Listed(Tail(q)) PROVE x \in Listed(q)
    <3>1. PICK j \in 1 .. Len(q) - 1 : x = Tail(q)[j]  BY <2>2 DEF Listed
    <3>2. j + 1 \in DOMAIN q /\ x = q[j + 1]  BY <1>1, <2>1, <3>1
    <3>. QED  BY <3>2 DEF Listed
  <2>4. ASSUME NEW x \in Listed(q) PROVE x \in {Head(q)} \cup Listed(Tail(q))
    <3>1. PICK j \in 1 .. Len(q) : x = q[j]  BY <1>1 DEF Listed
    <3>2. CASE j = 1  BY <2>1, <3>1, <3>2
    <3>3. CASE j # 1
      <4>1. j - 1 \in 1 .. Len(q) - 1 /\ (j - 1) + 1 = j  BY <1>1, <3>1, <3>3
      <4>2. Tail(q)[j - 1] = x /\ j - 1 \in DOMAIN Tail(q)  BY <2>1, <2>2, <3>1, <4>1
      <4>. QED  BY <4>2 DEF Listed
    <3>. QED  BY <3>2, <3>3
  <2>5. 1 \in DOMAIN q  BY <1>1, <2>1
  <2>6. Head(q) \in Listed(q)  BY <2>1, <2>5 DEF Listed
  <2>7. Head(q) \in D  BY <2>1, <2>5
  <2>. QED  BY <2>1, <2>3, <2>4, <2>6, <2>7
<1>. QED  BY <1>3, <1>4

\* What Keep keeps.
LEMMA KeepFacts ==
  ASSUME NEW D, NEW list \in Seq(D), NEW set
  PROVE  Keep(list, set) \in Seq(D) /\ Listed(Keep(list, set)) = Listed(list) \cap set
<1> DEFINE L == Len(list)
           Q == Seq(D)
           Next1(n, q) == IF n + 1 \in 1 .. L /\ list[n + 1] \in set THEN Append(q, list[n + 1]) ELSE q
           step == [n \in Nat |-> [q \in Q |-> Next1(n, q)]]
<1>0. L \in Nat /\ DOMAIN list = 1 .. L /\ \A j \in 1 .. L : list[j] \in D  OBVIOUS
<1>1. \A n \in Nat, q \in Q : Next1(n, q) \in Q
  <2> SUFFICES ASSUME NEW n \in Nat, NEW q \in Q PROVE Next1(n, q) \in Q  OBVIOUS
  <2>1. n + 1 \in 1 .. L => Append(q, list[n + 1]) \in Q  BY <1>0
  <2>. QED  BY <2>1
<1>2. step \in [Nat -> [Q -> Q]]
  <2> HIDE DEF Next1, Q
  <2>. QED  BY <1>1
<1>3. PICK f : Recursive(f, Q, <<>>, step)
  <2>1. <<>> \in Q  OBVIOUS
  <2> HIDE DEF Q, step
  <2>. QED  BY <1>2, <2>1, NatRecursion
<1>4. f \in [Nat -> Q] /\ f[0] = <<>> /\ \A n \in Nat : f[n + 1] = Next1(n, f[n])
  <2>1. f \in [Nat -> Q] /\ f[0] = <<>>  BY <1>3 DEF Recursive
  <2>2. ASSUME NEW n \in Nat PROVE f[n + 1] = Next1(n, f[n])
    <3>1. f[n + 1] = step[n][f[n]] /\ f[n] \in Q
      <4> HIDE DEF Q, step
      <4>. QED  BY <1>3 DEF Recursive
    <3>2. step[n][f[n]] = Next1(n, f[n])
      <4> HIDE DEF Q, Next1
      <4>. QED  BY <3>1
    <3>. QED  BY <3>1, <3>2
  <2>. QED  BY <2>1, <2>2
<1> DEFINE Is(g) == g = [i \in 0 .. Len(list) |->
                          IF i = 0 THEN <<>>
                          ELSE IF list[i] \in set THEN Append(g[i - 1], list[i]) ELSE g[i - 1]]
           kept == CHOOSE g : Is(g)
           h == [i \in 0 .. L |-> f[i]]
<1>5. Is(h)
  <2>1. ASSUME NEW i \in 0 .. L, i # 0
        PROVE  h[i] = IF list[i] \in set THEN Append(h[i - 1], list[i]) ELSE h[i - 1]
    <3>1. i - 1 \in Nat /\ (i - 1) + 1 = i /\ i \in 1 .. L /\ i - 1 \in 0 .. L  BY <1>0, <2>1
    <3>2. f[i] = Next1(i - 1, f[i - 1])  BY <1>4, <3>1
    <3>3. h[i] = f[i] /\ h[i - 1] = f[i - 1]  BY <3>1
    <3> HIDE DEF h
    <3>. QED  BY <3>1, <3>2, <3>3
  <2>2. h[0] = <<>>  BY <1>0, <1>4
  <2>3. h = [i \in 0 .. L |-> h[i]]  OBVIOUS
  <2> HIDE DEF h
  <2>. QED  BY <2>1, <2>2, <2>3
<1>6. Is(kept)
  <2> HIDE DEF Is, h
  <2>. QED  BY <1>5
<1>7. Keep(list, set) = kept[L]  BY DEF Keep
<1> HIDE DEF kept
<1>8. kept[0] = <<>>  BY <1>0, <1>6
<1>9. ASSUME NEW n \in Nat, n + 1 \in 1 .. L PROVE kept[n + 1] = Next1(n, kept[n])
  <2>1. n + 1 \in 0 .. L /\ n + 1 # 0 /\ (n + 1) - 1 = n  BY <1>9
  <2>. QED  BY <1>6, <1>9, <2>1
<1> DEFINE Before(n) == {list[j] : j \in 1 .. n}
           Good(n) == kept[n] \in Q /\ Listed(kept[n]) = Before(n) \cap set
           S == {n \in Nat : n <= L => Good(n)}
<1>10. 0 \in S
  <2>1. Listed(<<>>) = {} /\ <<>> \in Q  BY DEF Listed
  <2>2. Before(0) = {}  OBVIOUS
  <2> HIDE DEF Before, Q
  <2>3. Good(0)  BY <1>8, <2>1, <2>2
  <2>. QED  BY <2>3
<1>11. ASSUME NEW n \in S PROVE n + 1 \in S
  <2>0. n \in Nat /\ n + 1 \in Nat  OBVIOUS
  <2> SUFFICES ASSUME n + 1 <= L PROVE Good(n + 1)  BY <2>0
  <2>1. n + 1 \in 1 .. L /\ n <= L  BY <1>0, <2>0
  <2>2. Good(n)  BY <2>1
  <2>3. kept[n + 1] = IF list[n + 1] \in set THEN Append(kept[n], list[n + 1]) ELSE kept[n]
    BY <1>9, <2>0, <2>1
  <2>4. Before(n + 1) = Before(n) \cup {list[n + 1]}
    <3>1. 1 .. n + 1 = (1 .. n) \cup {n + 1}  BY <2>0
    <3>. QED  BY <3>1
  <2> DEFINE d == list[n + 1]
             q == kept[n]
  <2>5. d \in D /\ q \in Q  BY <1>0, <2>1, <2>2
  <2> HIDE DEF d, q, Before
  <2>6. Append(q, d) \in Q /\ Listed(Append(q, d)) = Listed(q) \cup {d}
    <3> HIDE DEF Good
    <3>. QED  BY <2>5, ListedEnds
  <2>. QED  BY <2>2, <2>3, <2>4, <2>5, <2>6 DEF d, q
<1>12. S = Nat
  <2>1. S \in SUBSET Nat  OBVIOUS
  <2> HIDE DEF S
  <2>. QED  BY <1>10, <1>11, <2>1, NatSetInduction
<1>13. Good(L)
  <2>1. L \in S
    <3> HIDE DEF S
    <3>. QED  BY <1>0, <1>12
  <2>2. L <= L  BY <1>0
  <2> HIDE DEF Good, L
  <2>. QED  BY <2>1, <2>2
<1>14. Before(L) = Listed(list)  BY <1>0 DEF Listed
<1>. QED  BY <1>7, <1>13, <1>14

\* A timer that is owed exists and is enabled or listed; nothing is listed while
\* no timers are fired.
TimersInv ==
  /\ timers \in Seq(Addresses) /\ expired \in Seq(Addresses)
  /\ ~firing => expired = <<>>
  /\ called # "freed"
  /\ \A t \in owed : t \in Existing /\ (t \in enabled \/ t \in Listed(expired))

LEMMA TimersStep == TimersInv /\ [TimersNext]_slirp_timers => TimersInv'
<1> SUFFICES ASSUME TimersInv, [TimersNext]_slirp_timers PROVE TimersInv'  OBVIOUS
<1> USE DEF Existing
<1>1. ASSUME NEW address \in Addresses, timer_new(address) PROVE TimersInv'
  <2>1. timers' \in Seq(Addresses) /\ Listed(timers') = Listed(timers) \cup {address}
    BY <1>1, ListedEnds DEF timer_new, TimersInv
  <2>. QED  BY <1>1, <2>1 DEF timer_new, TimersInv
<1>2. ASSUME NEW address \in Addresses, timer_free(address) PROVE TimersInv'
  <2>1. timers' = Keep(timers, Existing \ {address})  BY <1>2 DEF timer_free
  <2>2. timers' \in Seq(Addresses) /\ Listed(timers') = Listed(timers) \cap (Existing \ {address})
    BY <2>1, KeepFacts DEF TimersInv
  <2>. QED  BY <1>2, <2>2 DEF timer_free, TimersInv
<1>3. ASSUME NEW address \in Addresses, timer_mod(address) PROVE TimersInv'
  BY <1>3 DEF timer_mod, TimersInv
<1>4. ASSUME NEW due \in SUBSET enabled, fire_expired_timers(due) PROVE TimersInv'
  <2>1. expired' = Keep(timers, due)  BY <1>4 DEF fire_expired_timers
  <2>2. expired' \in Seq(Addresses) /\ Listed(expired') = Listed(timers) \cap due
    BY <2>1, KeepFacts DEF TimersInv
  <2>3. Listed(expired) = {}  BY <1>4 DEF fire_expired_timers, TimersInv, Listed
  <2>. QED  BY <1>4, <2>2, <2>3 DEF fire_expired_timers, TimersInv
<1>5. CASE CallNext
  <2>1. /\ expired # <<>> /\ expired' = Tail(expired) /\ firing
        /\ UNCHANGED <<timers, enabled, firing>>
    BY <1>5 DEF CallNext
  <2>2. /\ Head(expired) \in Addresses /\ Tail(expired) \in Seq(Addresses)
        /\ Listed(expired) = {Head(expired)} \cup Listed(Tail(expired))
    <3>1. \A d \in Addresses : expired # <<>> =>
            /\ Head(expired) \in Addresses /\ Tail(expired) \in Seq(Addresses)
            /\ Listed(expired) = {Head(expired)} \cup Listed(Tail(expired))
      BY ListedEnds DEF TimersInv
    <3>2. expired[1] \in Addresses  BY <2>1 DEF TimersInv
    <3>. QED  BY <2>1, <3>1, <3>2
  <2>3. CASE Head(expired) \in Existing
    <3>1. called' = "existing" /\ owed' = owed \ ({Head(expired)} \ enabled)
      BY <1>5, <2>3 DEF CallNext, Call
    <3>. QED  BY <2>1, <2>2, <3>1 DEF TimersInv
  <2>4. CASE Head(expired) \notin Existing
    <3>1. UNCHANGED <<called, owed>>  BY <1>5, <2>4 DEF CallNext
    <3>. QED  BY <2>1, <2>2, <2>4, <3>1 DEF TimersInv
  <2>. QED  BY <2>3, <2>4
<1>6. CASE FiringEnds  BY <1>6 DEF FiringEnds, TimersInv
<1>7. CASE UNCHANGED slirp_timers  BY <1>7 DEF slirp_timers, TimersInv
<1>. QED  BY <1>1, <1>2, <1>3, <1>4, <1>5, <1>6, <1>7 DEF TimersNext

LEMMA TimersStart == TimersInit => TimersInv
  BY DEF TimersInit, TimersInv

-----------------------------------------------------------------------------
(* The picture. *)

Region == [x : Nat, y : Nat, width : Nat, height : Nat]

OnScreen(r) == r \in Region /\ r.x + r.width <= Width /\ r.y + r.height <= Height

\* A pixel lies in the picture, in the row that its index says.
LEMMA PixelFacts ==
  ASSUME NEW n \in Nat, n < Height * Width
  PROVE  /\ PixelAt(n) \in Pixels /\ PixelAt(n) = <<n % Width, n \div Width>>
         /\ n \div Width \in 0 .. Height - 1 /\ n % Width \in 0 .. Width - 1
<1>1. Width \in Nat \ {0} /\ Height \in Nat  BY FramebufferAssumption
<1>2. n \div Width \in Nat /\ n % Width \in 0 .. Width - 1  BY <1>1, DivMod
<1>3. n \div Width < Height  BY <1>1, DivBelow
<1>. QED  BY <1>1, <1>2, <1>3 DEF PixelAt, Pixels

\* Division keeps the order.
LEMMA DivMonotone ==
  ASSUME NEW a \in Nat, NEW c \in Nat, NEW b \in Nat \ {0}, a <= c
  PROVE  a \div b <= c \div b
<1>1. /\ a \div b \in Nat /\ a % b \in 0 .. b - 1 /\ a = (a \div b) * b + (a % b)
      /\ c \div b \in Nat /\ c % b \in 0 .. b - 1 /\ c = (c \div b) * b + (c % b)
  BY DivMod
<1>2. \A p, q \in Nat : p >= q + 1 => p * b >= q * b + b  OBVIOUS
<1>3. (a \div b) * b \in Nat /\ (c \div b) * b \in Nat  BY <1>1
<1>. QED  BY <1>1, <1>2, <1>3

\* Two indices of one row are ordered as their columns.
LEMMA ModMonotone ==
  ASSUME NEW a \in Nat, NEW c \in Nat, NEW b \in Nat \ {0}, a <= c, a \div b = c \div b
  PROVE  a % b <= c % b
<1>1. /\ a \div b \in Nat /\ a % b \in 0 .. b - 1 /\ a = (a \div b) * b + (a % b)
      /\ c % b \in 0 .. b - 1 /\ c = (c \div b) * b + (c % b)
  BY DivMod
<1>2. (a \div b) * b \in Nat  BY <1>1
<1>. QED  BY <1>1, <1>2

\* The rectangle of an access covers what the access touches.
LEMMA UpdateFacts ==
  ASSUME NEW offset \in Nat, NEW count \in Nat \ {0},
         offset + count <= Width * Height * BytesPerPixel
  PROVE  /\ OnScreen(Update(offset, count))
         /\ Touched(offset, count) \subseteq Covered(Update(offset, count))
         /\ Touched(offset, count) \subseteq Pixels
<1> DEFINE f == offset \div BytesPerPixel
           l == (offset + count - 1) \div BytesPerPixel
           row(n) == n \div Width
           col(n) == n % Width
           height == row(l) - row(f) + 1
<1>1. Width \in Nat \ {0} /\ Height \in Nat \ {0} /\ BytesPerPixel \in Nat \ {0}
  BY FramebufferAssumption
<1>2. f \in Nat /\ l \in Nat /\ f <= l /\ l < Height * Width
  <2>1. offset + count - 1 \in Nat /\ offset <= offset + count - 1  OBVIOUS
  <2>2. f \in Nat /\ l \in Nat  BY <1>1, <2>1, DivMod
  <2>3. f <= l  BY <1>1, <2>1, DivMonotone
  <2>4. Height * Width \in Nat /\ Width * Height * BytesPerPixel = (Height * Width) * BytesPerPixel
    BY <1>1
  <2>5. (Height * Width) * BytesPerPixel \in Nat  BY <1>1
  <2>6. offset + count - 1 < (Height * Width) * BytesPerPixel  BY <2>4, <2>5
  <2> DEFINE m == offset + count - 1
             a == Height * Width
  <2>7. m \div BytesPerPixel < a
    <3>1. m \in Nat /\ a \in Nat /\ m < a * BytesPerPixel  BY <2>1, <2>4, <2>6
    <3> HIDE DEF m, a
    <3>. QED  BY <1>1, <3>1, DivBelow
  <2>. QED  BY <2>2, <2>3, <2>7
<1> HIDE DEF f, l
<1>3. ASSUME NEW n \in f .. l
      PROVE  /\ n \in Nat /\ PixelAt(n) \in Pixels /\ PixelAt(n) = <<col(n), row(n)>>
             /\ row(n) \in 0 .. Height - 1 /\ col(n) \in 0 .. Width - 1
             /\ row(f) <= row(n) /\ row(n) <= row(l)
  <2>1. Height * Width \in Nat  BY <1>1
  <2>2. n \in Nat /\ n < Height * Width /\ f <= n /\ n <= l  BY <1>2, <2>1
  <2>3. row(f) <= row(n) /\ row(n) <= row(l)  BY <1>1, <1>2, <2>2, DivMonotone
  <2>. QED  BY <2>2, <2>3, PixelFacts
<1>4. f \in f .. l /\ l \in f .. l  BY <1>2
<1>5. /\ PixelAt(f) = <<col(f), row(f)>> /\ PixelAt(l) = <<col(l), row(l)>>
      /\ row(f) \in 0 .. Height - 1 /\ col(f) \in 0 .. Width - 1
      /\ row(l) \in 0 .. Height - 1 /\ col(l) \in 0 .. Width - 1
      /\ row(f) <= row(l)
  BY <1>3, <1>4
<1>6. Touched(offset, count) = {PixelAt(n) : n \in f .. l}  BY DEF Touched, f, l
<1>7. Update(offset, count) =
        IF height = 1
        THEN [x |-> col(f), y |-> row(f), width |-> col(l) - col(f) + 1, height |-> 1]
        ELSE [x |-> 0, y |-> row(f), width |-> Width, height |-> height]
  BY <1>5 DEF Update, f, l
<1>8. Touched(offset, count) \subseteq Pixels  BY <1>3, <1>6
<1> DEFINE u == Update(offset, count)
<1>9. CASE height = 1
  <2>1. row(f) = row(l)  BY <1>1, <1>5, <1>9
  <2>2. col(f) <= col(l)  BY <1>1, <1>2, <2>1, ModMonotone
  <2>3. u.x = col(f) /\ u.y = row(f) /\ u.width = col(l) - col(f) + 1 /\ u.height = 1
        /\ u = [x |-> col(f), y |-> row(f), width |-> col(l) - col(f) + 1, height |-> 1]
    BY <1>7, <1>9
  <2>4. OnScreen(u)
    <3> HIDE DEF u, row, col
    <3>. QED  BY <1>1, <1>5, <2>2, <2>3 DEF OnScreen, Region
  <2>5. ASSUME NEW n \in f .. l PROVE PixelAt(n) \in Covered(u)
    <3>1. n \in Nat /\ f <= n /\ n <= l  BY <1>2
    <3>2. row(n) = row(f) /\ row(n) = row(l)  BY <1>1, <1>3, <1>5, <2>1
    <3>3. col(f) <= col(n) /\ col(n) <= col(l)  BY <1>1, <1>2, <3>1, <3>2, ModMonotone
    <3>4. PixelAt(n) \in Pixels /\ PixelAt(n) = <<col(n), row(n)>> /\ col(n) \in 0 .. Width - 1
      BY <1>3
    <3> HIDE DEF u, row, col
    <3>. QED  BY <1>1, <1>5, <2>3, <3>2, <3>3, <3>4 DEF Covered
  <2>. QED  BY <1>6, <1>8, <2>4, <2>5
<1>10. CASE height # 1
  <2>1. u.x = 0 /\ u.y = row(f) /\ u.width = Width /\ u.height = height
        /\ u = [x |-> 0, y |-> row(f), width |-> Width, height |-> height]
    BY <1>7, <1>10
  <2>2. height \in Nat /\ row(f) + height = row(l) + 1  BY <1>5
  <2>3. OnScreen(u)
    <3> HIDE DEF u, row, col, height
    <3>. QED  BY <1>1, <1>5, <2>1, <2>2 DEF OnScreen, Region
  <2>4. ASSUME NEW n \in f .. l PROVE PixelAt(n) \in Covered(u)
    <3>1. /\ PixelAt(n) \in Pixels /\ PixelAt(n) = <<col(n), row(n)>> /\ col(n) \in 0 .. Width - 1
          /\ row(n) \in 0 .. Height - 1 /\ row(f) <= row(n) /\ row(n) <= row(l)
      BY <1>3
    <3> HIDE DEF u, row, col, height
    <3>. QED  BY <1>1, <1>5, <2>1, <2>2, <3>1 DEF Covered
  <2>. QED  BY <1>6, <1>8, <2>3, <2>4
<1>. QED  BY <1>9, <1>10

\* The merged rectangle covers both.
LEMMA MergedFacts ==
  ASSUME NEW a, NEW b, OnScreen(a), OnScreen(b)
  PROVE  /\ OnScreen(Merged(a, b))
         /\ Covered(a) \subseteq Covered(Merged(a, b)) /\ Covered(b) \subseteq Covered(Merged(a, b))
<1> DEFINE m == Merged(a, b)
<1>1. /\ a.x \in Nat /\ a.y \in Nat /\ a.width \in Nat /\ a.height \in Nat
      /\ b.x \in Nat /\ b.y \in Nat /\ b.width \in Nat /\ b.height \in Nat
      /\ a.x + a.width <= Width /\ a.y + a.height <= Height
      /\ b.x + b.width <= Width /\ b.y + b.height <= Height
      /\ Width \in Nat /\ Height \in Nat
  BY FramebufferAssumption DEF OnScreen, Region
<1> DEFINE left == Smaller(a.x, b.x)
           top == Smaller(a.y, b.y)
           right == Larger(a.x + a.width, b.x + b.width)
           bottom == Larger(a.y + a.height, b.y + b.height)
<1>3. /\ left \in Nat /\ left <= a.x /\ left <= b.x /\ top \in Nat /\ top <= a.y /\ top <= b.y
      /\ right \in Nat /\ right >= a.x + a.width /\ right >= b.x + b.width
      /\ bottom \in Nat /\ bottom >= a.y + a.height /\ bottom >= b.y + b.height
      /\ right <= Width /\ bottom <= Height
  BY <1>1 DEF Smaller, Larger
<1>4. m = [x |-> left, y |-> top, width |-> right - left, height |-> bottom - top]
  BY DEF Merged
<1> HIDE DEF left, top, right, bottom, m
<1>5. m.x = left /\ m.y = top /\ m.width = right - left /\ m.height = bottom - top
  BY <1>4
<1>6. right - left \in Nat /\ bottom - top \in Nat
      /\ left + (right - left) = right /\ top + (bottom - top) = bottom
  BY <1>1, <1>3
<1>7. OnScreen(m)  BY <1>3, <1>4, <1>5, <1>6 DEF OnScreen, Region
<1>8. \A p \in Pixels : p[1] \in Nat /\ p[2] \in Nat  BY <1>1 DEF Pixels
<1>9. Covered(a) \subseteq Covered(m) /\ Covered(b) \subseteq Covered(m)
  BY <1>1, <1>3, <1>5, <1>6, <1>8 DEF Covered
<1>. QED  BY <1>7, <1>9 DEF m

-----------------------------------------------------------------------------
(* The text. *)

Places == [column : 0 .. Columns - 1, row : 0 .. Rows - 1]

TerminalInv ==
  /\ cursor \in Places
  /\ parser \in [state : {"Normal", "Escape", "Control"}, index : Parameters,
                 values : [Parameters -> Nat]]

\* A step of the console either marks the screen as changed or changes nothing.
Noted ==
  \/ terminal_dirty' = TRUE
  \/ cells' = cells /\ cursor' = cursor /\ terminal_dirty' = terminal_dirty

LEMMA NoSequenceType ==
  /\ NoSequence \in [state : {"Normal", "Escape", "Control"}, index : Parameters,
                     values : [Parameters -> Nat]]
  /\ 0 \in Parameters /\ 1 \in Parameters
<1>1. 0 \in Parameters /\ 1 \in Parameters  BY TerminalAssumption DEF Parameters
<1>. QED  BY <1>1 DEF NoSequence

LEMMA PlaceMoved ==
  ASSUME NEW c \in 0 .. Columns - 1, NEW r \in 0 .. Rows - 1
  PROVE  [column |-> c, row |-> r] \in Places
  BY DEF Places

LEMMA FeedKept ==
  ASSUME TerminalInv, NEW grid, NEW column \in 0 .. Columns - 1, line_feed(grid, column)
  PROVE  cursor' \in Places
<1>1. Rows \in Nat \ {0} /\ cursor.row \in 0 .. Rows - 1
  BY TerminalAssumption DEF TerminalInv, Places
<1>2. CASE cursor.row + 1 = Rows
  <2>1. cursor' = [column |-> column, row |-> Rows - 1] /\ Rows - 1 \in 0 .. Rows - 1
    BY <1>1, <1>2 DEF line_feed
  <2>. QED  BY <2>1, PlaceMoved
<1>3. CASE cursor.row + 1 # Rows
  <2>1. cursor' = [column |-> column, row |-> cursor.row + 1]
        /\ cursor.row + 1 \in 0 .. Rows - 1
    BY <1>1, <1>3 DEF line_feed
  <2>. QED  BY <2>1, PlaceMoved
<1>. QED  BY <1>2, <1>3

LEMMA ColumnMoved ==
  ASSUME TerminalInv, NEW column \in 0 .. Columns - 1, cursor' = [cursor EXCEPT !.column = column]
  PROVE  cursor' \in Places
  BY DEF TerminalInv, Places

LEMMA PlainKept ==
  ASSUME TerminalInv, NEW character, Plain(character)
  PROVE  TerminalInv' /\ Noted
<1>1. /\ Columns \in Nat \ {0} /\ Rows \in Nat \ {0} /\ TabStop \in Nat \ {0}
      /\ cursor.column \in 0 .. Columns - 1 /\ cursor.row \in 0 .. Rows - 1
  BY TerminalAssumption DEF TerminalInv, Places
<1>2. parser' = parser  BY DEF Plain
<1>3. CASE put_character(IF character = Blank THEN Blank ELSE "x") /\ terminal_dirty' = TRUE
  <2>1. CASE cursor.column + 1 = Columns
    <3>1. 0 \in 0 .. Columns - 1  BY <1>1
    <3>2. cursor' \in Places  BY <1>3, <2>1, <3>1, FeedKept DEF put_character
    <3>. QED  BY <1>2, <1>3, <3>2 DEF TerminalInv, Noted
  <2>2. CASE cursor.column + 1 # Columns
    <3>1. /\ cursor' = [cursor EXCEPT !.column = cursor.column + 1]
          /\ cursor.column + 1 \in 0 .. Columns - 1
      BY <1>1, <1>3, <2>2 DEF put_character
    <3>2. cursor' \in Places  BY <3>1, ColumnMoved
    <3>. QED  BY <1>2, <1>3, <3>2 DEF TerminalInv, Noted
  <2>. QED  BY <2>1, <2>2
<1>4. CASE line_feed(cells, cursor.column) /\ terminal_dirty' = TRUE
  <2>1. cursor' \in Places  BY <1>1, <1>4, FeedKept
  <2>. QED  BY <1>2, <1>4, <2>1 DEF TerminalInv, Noted
<1>5. ASSUME NEW column \in 0 .. Columns - 1, cursor' = [cursor EXCEPT !.column = column],
             terminal_dirty' = TRUE
      PROVE  TerminalInv' /\ Noted
  <2>1. cursor' \in Places  BY <1>5, ColumnMoved
  <2>. QED  BY <1>2, <1>5, <2>1 DEF TerminalInv, Noted
<1>6. 0 \in 0 .. Columns - 1 /\ (cursor.column > 0 => cursor.column - 1 \in 0 .. Columns - 1)
  BY <1>1
<1>7. NextTab \in 0 .. Columns - 1
  <2> DEFINE x == (cursor.column + TabStop) \div TabStop
  <2>1. cursor.column + TabStop \in Nat  BY <1>1
  <2>2. x \in Nat  BY <1>1, <2>1, DivMod
  <2> HIDE DEF x
  <2>3. x * TabStop \in Nat  BY <1>1, <2>2
  <2>. QED  BY <1>1, <2>3 DEF NextTab, Lesser, x
<1>8. CASE character = "CR" /\ cursor' = [cursor EXCEPT !.column = 0] /\ terminal_dirty' = TRUE
  BY <1>5, <1>6, <1>8
<1>9. CASE character = "TAB" /\ cursor' = [cursor EXCEPT !.column = NextTab] /\ terminal_dirty' = TRUE
  BY <1>5, <1>7, <1>9
<1>10. CASE character = "BS" /\ cursor.column > 0 /\ terminal_dirty' = TRUE
              /\ cursor' = [cursor EXCEPT !.column = cursor.column - 1]
  BY <1>5, <1>6, <1>10
<1>11. CASE UNCHANGED <<cells, cursor, terminal_dirty>>
  BY <1>2, <1>11 DEF TerminalInv, Noted
<1>. QED  BY <1>3, <1>4, <1>8, <1>9, <1>10, <1>11 DEF Plain

LEMMA MovedPlace ==
  ASSUME TerminalInv, NEW command
  PROVE  Moved(command) \in Places
<1>1. /\ Columns \in Nat \ {0} /\ Rows \in Nat \ {0}
      /\ cursor.column \in 0 .. Columns - 1 /\ cursor.row \in 0 .. Rows - 1
      /\ cursor = [column |-> cursor.column, row |-> cursor.row]
  BY TerminalAssumption DEF TerminalInv, Places
<1>2. parser.values \in [Parameters -> Nat]  BY DEF TerminalInv
<1>3. parameter(0) \in Nat \ {0} /\ parameter(1) \in Nat \ {0}
  BY <1>2, NoSequenceType DEF parameter
<1>4. \A n \in Nat \ {0} : /\ clamp(n, Columns) \in 0 .. Columns - 1
                           /\ clamp(n, Rows) \in 0 .. Rows - 1
  BY <1>1 DEF clamp, Lesser
<1>5. \A n \in Nat \ {0} :
        /\ cursor.row - Lesser(cursor.row, n) \in 0 .. Rows - 1
        /\ Lesser(Rows - 1, cursor.row + n) \in 0 .. Rows - 1
        /\ cursor.column - Lesser(cursor.column, n) \in 0 .. Columns - 1
        /\ Lesser(Columns - 1, cursor.column + n) \in 0 .. Columns - 1
  BY <1>1 DEF Lesser
<1>6. \A c \in 0 .. Columns - 1 : [cursor EXCEPT !.column = c] \in Places
  BY DEF TerminalInv, Places
<1>7. \A r \in 0 .. Rows - 1 : [cursor EXCEPT !.row = r] \in Places
  BY DEF TerminalInv, Places
<1>8. \A c \in 0 .. Columns - 1, r \in 0 .. Rows - 1 : [row |-> r, column |-> c] \in Places
  BY DEF Places
<1>9. 0 \in 0 .. Columns - 1 /\ 0 \in 0 .. Rows - 1 /\ cursor \in Places  BY <1>1 DEF TerminalInv
<1> DEFINE p == parameter(0)
           q == parameter(1)
<1> HIDE DEF p, q
<1>10. /\ [cursor EXCEPT !.row = cursor.row - Lesser(cursor.row, p)] \in Places
       /\ [cursor EXCEPT !.row = Lesser(Rows - 1, cursor.row + p)] \in Places
       /\ [cursor EXCEPT !.column = Lesser(Columns - 1, cursor.column + p)] \in Places
       /\ [cursor EXCEPT !.column = cursor.column - Lesser(cursor.column, p)] \in Places
       /\ [cursor EXCEPT !.column = clamp(p, Columns)] \in Places
       /\ [cursor EXCEPT !.row = clamp(p, Rows)] \in Places
       /\ [row |-> clamp(p, Rows), column |-> clamp(q, Columns)] \in Places
       /\ [row |-> 0, column |-> 0] \in Places
  BY <1>3, <1>4, <1>5, <1>6, <1>7, <1>8, <1>9 DEF p, q
<1>. QED  BY <1>9, <1>10 DEF Moved, p, q

LEMMA OutputKept ==
  ASSUME TerminalInv, Output
  PROVE  TerminalInv' /\ Noted
<1>1. ASSUME NEW character, Plain(character) PROVE TerminalInv' /\ Noted
  BY <1>1, PlainKept
<1>2. CASE StartEscape  BY <1>2 DEF StartEscape, TerminalInv, Noted
<1>3. ASSUME NEW character, Escape(character) PROVE TerminalInv' /\ Noted
  <2>1. UNCHANGED <<cells, cursor, terminal_dirty>>  BY <1>3 DEF Escape
  <2>2. CASE character = "["
    <3>1. parser' = [NoSequence EXCEPT !.state = "Control"]  BY <1>3, <2>2 DEF Escape
    <3>. QED  BY <2>1, <3>1, NoSequenceType DEF TerminalInv, Noted
  <2>3. CASE character # "["
    <3>1. parser' = [parser EXCEPT !.state = "Normal"]  BY <1>3, <2>3 DEF Escape
    <3>. QED  BY <2>1, <3>1 DEF TerminalInv, Noted
  <2>. QED  BY <2>2, <2>3
<1>4. CASE SequenceSeparator
  BY <1>4 DEF SequenceSeparator, TerminalInv, Noted
<1>5. ASSUME NEW command, finish_control_sequence(command) PROVE TerminalInv' /\ Noted
  BY <1>5, MovedPlace, NoSequenceType DEF finish_control_sequence, TerminalInv, Noted
<1>6. ASSUME NEW digit \in Digit, SequenceDigit(digit) PROVE TerminalInv' /\ Noted
  <2> DEFINE v == parser.values[parser.index]
             w == Lesser(MaxParameter, v * DigitBase + digit)
  <2>1. v \in Nat /\ parser.index \in Parameters  BY DEF TerminalInv
  <2>2. digit \in Nat /\ DigitBase \in Nat /\ MaxParameter \in Nat
    BY TerminalAssumption DEF Digit
  <2> HIDE DEF v
  <2>3. v * DigitBase + digit \in Nat  BY <2>1, <2>2
  <2>4. w \in Nat  BY <2>2, <2>3 DEF Lesser
  <2>5. parser' = [parser EXCEPT !.values[parser.index] = w]
    BY <1>6 DEF SequenceDigit, v
  <2> HIDE DEF w
  <2>6. parser' \in [state : {"Normal", "Escape", "Control"}, index : Parameters,
                     values : [Parameters -> Nat]]
    BY <2>1, <2>4, <2>5 DEF TerminalInv
  <2>. QED  BY <1>6, <2>6 DEF SequenceDigit, TerminalInv, Noted
<1>. QED  BY <1>1, <1>2, <1>3, <1>4, <1>5, <1>6 DEF Output, consume

-----------------------------------------------------------------------------
(* The window. *)

\* A redraw is forced, or the dirty mark of the view covers what is not shown.
Honest ==
  (window.active /\ ~force_redraw)
    => IF view = "terminal" THEN terminal_shown \/ terminal_dirty
                            ELSE stale \subseteq Covered(dirty_region)

ScreenInv ==
  /\ TerminalInv
  /\ OnScreen(dirty_region) /\ stale \subseteq Pixels
  /\ window \in [ready : BOOLEAN, active : BOOLEAN, direct : BOOLEAN]
  /\ force_redraw \in BOOLEAN /\ terminal_shown \in BOOLEAN
  /\ selection \in [dragging : BOOLEAN, active : BOOLEAN]
  /\ Honest

LEMMA NoRegionOnScreen == OnScreen(NoRegion)
  BY FramebufferAssumption DEF OnScreen, Region, NoRegion

LEMMA EmptyCoversNothing ==
  ASSUME OnScreen(dirty_region), dirty_region.width = 0 \/ dirty_region.height = 0
  PROVE  Covered(dirty_region) = {}
<1>1. dirty_region.x \in Nat /\ dirty_region.y \in Nat  BY DEF OnScreen, Region
<1>2. \A q \in Pixels : q[1] \in Nat /\ q[2] \in Nat  BY FramebufferAssumption DEF Pixels
<1>. QED  BY <1>1, <1>2 DEF Covered

LEMMA DrawKept ==
  ASSUME ScreenInv, NEW offset \in Nat, NEW count \in Nat \ {0}, DrawPixels(offset, count)
  PROVE  ScreenInv'
<1> DEFINE u == Update(offset, count)
           t == Touched(offset, count)
<1>1. /\ offset + count <= Width * Height * BytesPerPixel
      /\ stale' = stale \cup t
      /\ dirty_region' = IF dirty_region.width = 0 \/ dirty_region.height = 0
                         THEN u ELSE Merged(dirty_region, u)
      /\ UNCHANGED <<terminal, sdl>>
  BY DEF DrawPixels, WritePixels
<1>2. OnScreen(u) /\ t \subseteq Covered(u) /\ t \subseteq Pixels  BY <1>1, UpdateFacts
<1>3. OnScreen(dirty_region)  BY DEF ScreenInv
<1> HIDE DEF u, t
<1>4. OnScreen(dirty_region') /\ Covered(dirty_region) \cup t \subseteq Covered(dirty_region')
  <2>1. CASE dirty_region.width = 0 \/ dirty_region.height = 0
    BY <1>1, <1>2, <1>3, <2>1, EmptyCoversNothing
  <2>2. CASE ~(dirty_region.width = 0 \/ dirty_region.height = 0)
    <3>1. dirty_region' = Merged(dirty_region, u)  BY <1>1, <2>2
    <3>. QED  BY <1>2, <1>3, <3>1, MergedFacts
  <2>. QED  BY <2>1, <2>2
<1>5. Honest'
  BY <1>1, <1>4 DEF Honest, ScreenInv, terminal, sdl
<1>. QED  BY <1>1, <1>2, <1>4, <1>5 DEF ScreenInv, TerminalInv, terminal, sdl

LEMMA AppendKept ==
  ASSUME ScreenInv, append_uart
  PROVE  ScreenInv'
<1>1. TerminalInv' /\ Noted  BY OutputKept DEF append_uart, ScreenInv
<1>2. /\ selection' = NoSelection
      /\ force_redraw' = (force_redraw \/ selection # NoSelection)
      /\ terminal_shown' =
           (terminal_shown /\ selection = NoSelection /\ cells' = cells /\ cursor' = cursor)
      /\ UNCHANGED <<framebuffer, window, view, since_present>>
  BY DEF append_uart
<1>3. Honest'
  BY <1>1, <1>2 DEF Noted, Honest, ScreenInv, framebuffer
<1>. QED  BY <1>1, <1>2, <1>3 DEF ScreenInv, framebuffer, NoSelection

LEMMA PresentKept ==
  ASSUME ScreenInv, present
  PROVE  ScreenInv'
<1>1. /\ Clean /\ terminal_shown' = (view = "terminal")
      /\ stale' = IF view = "terminal" THEN Pixels ELSE stale \ Uploaded
      /\ force_redraw' = FALSE /\ UNCHANGED <<window, view, selection>>
      /\ window.active
  BY DEF present, Event
<1>2. CASE view = "terminal"
  <2>1. clear_terminal_dirty /\ UNCHANGED dirty_region  BY <1>1, <1>2 DEF Clean
  <2>. QED  BY <1>1, <1>2, <2>1 DEF clear_terminal_dirty, ScreenInv, TerminalInv, Honest
<1>3. CASE view # "terminal"
  <2>1. dirty_region' = NoRegion /\ UNCHANGED terminal  BY <1>1, <1>3 DEF Clean, clear_dirty
  <2>2. OnScreen(dirty_region')  BY <2>1, NoRegionOnScreen
  <2>3. stale' = {}
    <3>1. CASE window.direct /\ ~force_redraw
      <4>1. Uploaded = Covered(dirty_region)  BY <3>1 DEF Uploaded
      <4>2. stale \subseteq Covered(dirty_region)
        BY <1>1, <1>3, <3>1 DEF ScreenInv, Honest
      <4>. QED  BY <1>1, <1>3, <4>1, <4>2
    <3>2. CASE ~(window.direct /\ ~force_redraw)
      <4>1. Uploaded = Pixels  BY <3>2 DEF Uploaded
      <4>. QED  BY <1>1, <1>3, <4>1 DEF ScreenInv
    <3>. QED  BY <3>1, <3>2
  <2>. QED  BY <1>1, <1>3, <2>1, <2>2, <2>3 DEF ScreenInv, TerminalInv, Honest, terminal
<1>. QED  BY <1>2, <1>3

LEMMA SelectionKept ==
  ASSUME ScreenInv, NEW moved \in BOOLEAN, NEW apart \in BOOLEAN, NEW dragging \in BOOLEAN,
         update_selection(moved, apart, dragging)
  PROVE  ScreenInv'
<1>1. /\ force_redraw' = (force_redraw \/ moved \/ (~dragging /\ ~apart))
      /\ terminal_shown' = (terminal_shown /\ ~moved)
      /\ selection' = [dragging |-> dragging, active |-> apart]
      /\ UNCHANGED <<terminal, framebuffer, window, view, since_present>>
  BY DEF update_selection
<1>2. Honest'  BY <1>1 DEF Honest, ScreenInv, terminal, framebuffer
<1>. QED  BY <1>1, <1>2 DEF ScreenInv, TerminalInv, terminal, framebuffer

LEMMA ScreenKept == ScreenInv /\ [Draw \/ append_uart \/ WindowNext]_display => ScreenInv'
<1> SUFFICES ASSUME ScreenInv, [Draw \/ append_uart \/ WindowNext]_display PROVE ScreenInv'
  OBVIOUS
<1> USE DEF terminal, framebuffer
<1>1. CASE Draw
  <2>1. PICK count \in AccessBytes, offset \in 0 .. Width * Height * BytesPerPixel - 1 :
          DrawPixels(offset, count)
    BY <1>1 DEF Draw
  <2>2. offset \in Nat /\ count \in Nat \ {0}  BY FramebufferAssumption
  <2>. QED  BY <2>1, <2>2, DrawKept
<1>2. CASE append_uart  BY <1>2, AppendKept
<1>3. CASE CloseWindow  BY <1>3 DEF CloseWindow, ScreenInv, TerminalInv, Honest
<1>4. CASE ExposeWindow  BY <1>4 DEF ExposeWindow, ScreenInv, TerminalInv, Honest
<1>5. CASE DragSelection \/ finish_selection
  <2>1. PICK moved, apart, dragging \in BOOLEAN : update_selection(moved, apart, dragging)
    BY <1>5 DEF DragSelection, finish_selection
  <2>. QED  BY <2>1, SelectionKept
<1>6. ASSUME NEW chosen, set_view(chosen) PROVE ScreenInv'
  BY <1>6 DEF set_view, ScreenInv, TerminalInv, Honest
<1>7. ASSUME NEW inside \in BOOLEAN, begin_selection(inside) PROVE ScreenInv'
  BY <1>7 DEF begin_selection, ScreenInv, TerminalInv, Honest
<1>8. CASE present  BY <1>8, PresentKept
<1>9. CASE PresentFails  BY <1>9 DEF PresentFails, ScreenInv, TerminalInv, Honest
<1>10. CASE TimePasses  BY <1>10 DEF TimePasses, ScreenInv, TerminalInv, Honest
<1>11. CASE UNCHANGED display  BY <1>11 DEF display, sdl, ScreenInv, TerminalInv, Honest
<1>. QED
  BY <1>1, <1>2, <1>3, <1>4, <1>5, <1>6, <1>7, <1>8, <1>9, <1>10, <1>11
  DEF WindowNext, WindowEvents

LEMMA ScreenStarts == DisplayInit => ScreenInv
<1> SUFFICES ASSUME DisplayInit PROVE ScreenInv  OBVIOUS
<1>1. cursor \in Places  BY TerminalAssumption DEF DisplayInit, TerminalInit, Places
<1>2. TerminalInv  BY <1>1, NoSequenceType DEF DisplayInit, TerminalInit, TerminalInv
<1>. QED
  BY <1>2, NoRegionOnScreen DEF DisplayInit, FramebufferInit, ScreenInv, Honest, NoSelection

LEMMA ScreenIsHonest == ScreenInv => ScreenHonest
  BY DEF ScreenInv, TerminalInv, Places, OnScreen, Honest, ScreenHonest

-----------------------------------------------------------------------------
(* The bench. *)

BenchInv == ArmingInv /\ ClockInv /\ TimersInv /\ ScreenInv

LEMMA BenchKept == BenchInv /\ [Next]_vars => BenchInv'
<1> SUFFICES ASSUME BenchInv, [Next]_vars PROVE BenchInv'  OBVIOUS
<1>1. [ClintNext]_clint  BY DEF Next, OnClint, OnRtc, OnTimers, OnDisplay, Displayed, vars
<1>2. [RtcNext]_rtc  BY DEF Next, OnClint, OnRtc, OnTimers, OnDisplay, Displayed, vars
<1>3. [TimersNext]_slirp_timers
  BY DEF Next, OnClint, OnRtc, OnTimers, OnDisplay, Displayed, vars
<1>4. [Draw \/ append_uart \/ WindowNext]_display
  BY DEF Next, OnClint, OnRtc, OnTimers, OnDisplay, Displayed, vars
<1>. QED  BY <1>1, <1>2, <1>3, <1>4, ClintKept, ClockKept, TimersStep, ScreenKept DEF BenchInv

LEMMA BenchAlways == Spec => []BenchInv
<1>1. Init => BenchInv
  BY ClintStarts, ClockStarts, TimersStart, ScreenStarts DEF Init, BenchInv
<1>. QED  BY <1>1, BenchKept, PTL DEF Spec

\* For every width of the registers: while firmware replaces mtimecmp in three
\* writes, Clint raises the timer interrupt at the old or the new deadline.
THEOREM TimerIsNeverEarly == Spec => []TimerNeverEarly
<1>1. BenchInv => TimerNeverEarly  BY ArmingNeverEarly DEF BenchInv
<1>. QED  BY <1>1, BenchAlways, PTL

\* For every host clock: the two words that GoldfishRtc returns belong together.
THEOREM TimeIsNotTorn == Spec => []TimeNotTorn
<1>1. BenchInv => TimeNotTorn  BY DEF BenchInv, ClockInv
<1>. QED  BY <1>1, BenchAlways, PTL

\* An alarm of GoldfishRtc that is set and enabled is active until it interrupts.
THEOREM AlarmIsNotMissed == Spec => []AlarmNotMissed
<1>1. BenchInv => AlarmNotMissed  BY DEF BenchInv, ClockInv
<1>. QED  BY <1>1, BenchAlways, PTL

\* For any number of timers: fire_expired_timers forgets none that was set and
\* calls none that a callback has freed.
THEOREM TimersAreKept == Spec => []TimersKept
<1>1. BenchInv => TimersKept  BY DEF BenchInv, TimersInv, TimersKept
<1>. QED  BY <1>1, BenchAlways, PTL

\* For every size of the text and the picture and every access width: what
\* SdlFrontend does not show as it is will be redrawn, and the cursor and the
\* dirty rectangle stay on the screen.
THEOREM ScreenStaysHonest == Spec => []ScreenHonest
<1>1. BenchInv => ScreenHonest  BY ScreenIsHonest DEF BenchInv
<1>. QED  BY <1>1, BenchAlways, PTL
=============================================================================
