---------------------------- MODULE GoldfishRtc ----------------------------
(***************************************************************************)
(* The real-time clock (devices/src/goldfish_rtc.cpp). Times are numbers   *)
(* below WordBase^2, read and written as a low and a high word; the upper  *)
(* half of them stands for the ones beyond the largest int64. The host's   *)
(* clock may be set forward and back between any two accesses.             *)
(***************************************************************************)
EXTENDS Integers

CONSTANTS
  WordBase,      \* values of a 32-bit word
  HostTimes      \* what the host's clock may show

SignedMax == (WordBase * WordBase) \div 2 - 1
UnsignedMax == WordBase * WordBase - 1
Words == 0 .. WordBase - 1

ASSUME RtcAssumption ==
  WordBase \in Nat \ {0, 1} /\ HostTimes \subseteq 0 .. SignedMax /\ 0 \in HostTimes

VARIABLES
  host_time, host_time_offset, latched_time_high, pending_time_high,
  pending_alarm_high, alarm_time, alarm_active, irq_enabled, alarm_interrupt,
  reading,       \* the guest's reading: low word, both words, the time of the first
  waiting        \* history: the guest has an alarm set and its interrupt enabled

rtc_time == <<host_time_offset, latched_time_high, pending_time_high, reading>>
rtc_alarm == <<pending_alarm_high, alarm_time, alarm_active, irq_enabled, alarm_interrupt, waiting>>
rtc == <<host_time, rtc_time, rtc_alarm>>

Least(a, b) == IF a < b THEN a ELSE b
Greatest(a, b) == IF a > b THEN a ELSE b

\* The host's time moved by the offset, kept within 64 bits.
time_nanoseconds ==
  IF host_time_offset >= 0
  THEN Least(UnsignedMax, host_time + host_time_offset)
  ELSE Greatest(0, host_time + host_time_offset)

RtcInit ==
  /\ host_time = 0 /\ host_time_offset = 0
  /\ latched_time_high = 0 /\ pending_time_high = 0 /\ pending_alarm_high = 0
  /\ alarm_time = 0 /\ alarm_active = FALSE /\ irq_enabled = FALSE
  /\ alarm_interrupt = FALSE /\ waiting = FALSE
  /\ reading = [low |-> 0, time |-> 0, expected |-> 0]

HostClock ==
  /\ host_time' \in HostTimes
  /\ UNCHANGED <<rtc_time, rtc_alarm>>

ReadTimeLow ==
  /\ latched_time_high' = time_nanoseconds \div WordBase
  /\ reading' = [low |-> time_nanoseconds % WordBase, time |-> -1, expected |-> time_nanoseconds]
  /\ UNCHANGED <<host_time, host_time_offset, pending_time_high, rtc_alarm>>

\* Mutant: the high word is the one of the present time.
ReadTimeHighUnlatched ==
  /\ reading' = [reading EXCEPT !.time = (time_nanoseconds \div WordBase) * WordBase + reading.low]
  /\ UNCHANGED <<host_time, host_time_offset, latched_time_high, pending_time_high,
                 rtc_alarm>>

ReadTimeHigh ==
  /\ reading' = [reading EXCEPT !.time = latched_time_high * WordBase + reading.low]
  /\ UNCHANGED <<host_time, host_time_offset, latched_time_high, pending_time_high,
                 rtc_alarm>>

WriteTimeHigh(word) ==
  /\ pending_time_high' = word
  /\ UNCHANGED <<host_time, host_time_offset, latched_time_high, reading, rtc_alarm>>

\* set_time: a time beyond int64 leaves the largest offset.
WriteTimeLow(word) ==
  LET time == pending_time_high * WordBase + word IN
  /\ host_time_offset' = IF time > SignedMax THEN SignedMax ELSE time - host_time
  /\ UNCHANGED <<host_time, latched_time_high, pending_time_high, reading, rtc_alarm>>

WriteAlarmHigh(word) ==
  /\ pending_alarm_high' = word
  /\ UNCHANGED <<host_time, rtc_time, alarm_time, alarm_active, irq_enabled,
                 alarm_interrupt, waiting>>

WriteAlarmLow(word) ==
  /\ alarm_time' = pending_alarm_high * WordBase + word
  /\ alarm_active' = TRUE /\ alarm_interrupt' = FALSE
  /\ waiting' = irq_enabled
  /\ UNCHANGED <<host_time, rtc_time, pending_alarm_high, irq_enabled>>

\* Mutant: enabling the interrupt drops one that is pending.
WriteIrqEnabledDrops(enable) ==
  /\ irq_enabled' = enable /\ alarm_interrupt' = FALSE
  /\ waiting' = (enable /\ (waiting \/ alarm_active))
  /\ UNCHANGED <<host_time, rtc_time, pending_alarm_high, alarm_time, alarm_active>>

WriteIrqEnabled(enable) ==
  /\ irq_enabled' = enable /\ alarm_interrupt' = (alarm_interrupt /\ enable)
  /\ waiting' = (enable /\ (waiting \/ alarm_active))
  /\ UNCHANGED <<host_time, rtc_time, pending_alarm_high, alarm_time, alarm_active>>

\* clear_alarm and clear_interrupt, written with a word other than zero.
ClearAlarm ==
  /\ alarm_active' = FALSE /\ alarm_interrupt' = FALSE /\ waiting' = FALSE
  /\ UNCHANGED <<host_time, rtc_time, pending_alarm_high, alarm_time, irq_enabled>>

ClearInterrupt ==
  /\ alarm_interrupt' = FALSE /\ waiting' = (waiting /\ ~alarm_interrupt)
  /\ UNCHANGED <<host_time, rtc_time, pending_alarm_high, alarm_time, alarm_active, irq_enabled>>

\* An alarm that is due ends, and is announced only if its interrupt is enabled:
\* one that ends while it is disabled is forgotten.
tick_rtc ==
  /\ alarm_active /\ time_nanoseconds >= alarm_time
  /\ alarm_active' = FALSE /\ alarm_interrupt' = irq_enabled
  /\ UNCHANGED <<host_time, rtc_time, pending_alarm_high, alarm_time, irq_enabled, waiting>>

RtcNext ==
  \/ HostClock \/ ReadTimeLow \/ ReadTimeHigh \/ tick_rtc \/ ClearAlarm \/ ClearInterrupt
  \/ \E word \in Words :
       WriteTimeHigh(word) \/ WriteTimeLow(word) \/ WriteAlarmHigh(word) \/ WriteAlarmLow(word)
  \/ \E enable \in BOOLEAN : WriteIrqEnabled(enable)

\* A time read in two words is the time of the first of the two reads, whatever
\* the host's clock, alarms and a change of the guest's time do in between.
TimeNotTorn == reading.time # -1 => reading.time = reading.expected

\* An alarm whose interrupt is enabled before it is due stays active until its
\* interrupt is raised, and the interrupt stays until the guest takes it away.
AlarmNotMissed == waiting => alarm_active \/ alarm_interrupt
=============================================================================
