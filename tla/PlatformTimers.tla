---------------------------- MODULE PlatformTimers ----------------------------
(***************************************************************************)
(* The two delays of the platform, both of which poll a counter that never *)
(* stops: Stall of the PEI driver (PlatformInit/Pei/Platform.c) reads the  *)
(* 32-bit count of the HPET, MicroSecondDelay and NanoSecondDelay          *)
(* (AcpiTimerLib.c) the 24-bit ACPI timer.  What decides whether a delay   *)
(* is long enough, and ends, is how far the counter moves between two      *)
(* reads: a gap of up to MaxGap counts, which an SMI makes much longer     *)
(* than the loop itself.  Word is 2^32, Quarter 1 << (ACPI_TIMER_WIDTH-2). *)
(***************************************************************************)
EXTENDS Integers

CONSTANTS
  Word, Quarter, MaxGap,
  HPET_1US,                 \* counts of the HPET in a microsecond
  ACPI_TIMER_FREQUENCY,     \* counts of the ACPI timer in a second
  Micro, Nano,              \* microseconds and nanoseconds in a second
  Delays                    \* the delays asked for

AcpiSize == 4 * Quarter

(* A longer gap than half the ACPI timer cannot be told from none; ACPI    *)
(* timer and UINT32 wrap at powers of two.                                 *)
ASSUME TimersAssumption ==
  /\ Quarter \in Nat \ {0} /\ MaxGap \in 1 .. 2 * Quarter
  /\ Word \in Nat \ {0} /\ Word % AcpiSize = 0
  /\ HPET_1US \in Nat /\ ACPI_TIMER_FREQUENCY \in Nat \ {0}
  /\ Micro \in Nat \ {0} /\ Nano \in Nat \ {0} /\ Nano % Micro = 0 /\ Delays \subseteq Nat

VARIABLES
  delay,        \* the function that waits, "none", or "done"
  asked,        \* its argument
  unit,         \* "HPET" for Stall, "us" or "ns"
  counter,      \* the counter it reads
  start,        \* Start
  target,       \* Finish, or Ticks modulo the width of the timer
  times,        \* Times
  elapsed       \* counts since its first read, for the properties

timerVars == <<delay, asked, unit, counter, start, target, times, elapsed>>

-----------------------------------------------------------------------------
TimersRest ==
  /\ delay = "none" /\ asked = 0 /\ unit = "us" /\ counter = 0
  /\ start = 0 /\ target = 0 /\ times = 0 /\ elapsed = 0

(* A sum, or a difference, of two numbers below the width of a counter.    *)
(* Mutant: it is not masked to the width.                                  *)
Unmasked(n, width) == n
Wrapped(n, width) ==
  IF n >= width THEN n - width ELSE IF n < 0 THEN n + width ELSE n

InternalAcpiGetTimerTick == counter

GetTimeInNanoSecond(ticks) ==
  (ticks \div ACPI_TIMER_FREQUENCY) * Nano
    + ((ticks % ACPI_TIMER_FREQUENCY) * Nano) \div ACPI_TIMER_FREQUENCY

(* The conversions round down.                                             *)
MicroSecondTicks(us) == ((us * ACPI_TIMER_FREQUENCY) \div Micro) % Word
NanoSecondTicks(ns) == ((ns * ACPI_TIMER_FREQUENCY) \div Nano) % Word

Finish(us) == Wrapped(counter + ((us * HPET_1US) % Word), Word)

Stall ==
  /\ delay = "none"
  /\ \E us \in Delays, c \in 0 .. Word - 1 :
       /\ asked' = us /\ unit' = "HPET"
       /\ counter' = c /\ start' = c
       /\ target' = Finish(us)'
  /\ delay' = "Stall" /\ times' = 0 /\ elapsed' = 0

(* Mutant: a Finish behind the wrap is not waited for.                     *)
StallOverUnwrapped(read) == target > start /\ read >= target

StallOver(read) ==
  IF target > start THEN read >= target ELSE read < start /\ read >= target

InternalAcpiDelay(ticks) ==
  /\ delay' = "InternalAcpiDelay"
  /\ times' = ticks \div Quarter
  /\ target' = Wrapped(counter' + (ticks % Quarter), AcpiSize)

MicroSecondDelay ==
  /\ delay = "none"
  /\ \E us \in Delays, c \in 0 .. AcpiSize - 1 :
       /\ asked' = us /\ unit' = "us" /\ counter' = c
       /\ InternalAcpiDelay(MicroSecondTicks(us))
  /\ start' = 0 /\ elapsed' = 0

NanoSecondDelay ==
  /\ delay = "none"
  /\ \E ns \in Delays, c \in 0 .. AcpiSize - 1 :
       /\ asked' = ns /\ unit' = "ns" /\ counter' = c
       /\ InternalAcpiDelay(NanoSecondTicks(ns))
  /\ start' = 0 /\ elapsed' = 0

(* Bit 23 of Ticks - InternalAcpiGetTimerTick() is set when the counter    *)
(* has passed Ticks.  Mutant: it has reached it.                           *)
Reached(read) == target = read \/ Wrapped(target - read, AcpiSize) >= 2 * Quarter
Passed(read) == Wrapped(target - read, AcpiSize) >= 2 * Quarter

(* The counts are only told apart as far as a delay can last that ends.    *)
MaxElapsed == 3 * Word

(* Time passes until the next read of the counter.                         *)
Read(width) ==
  \E gap \in 1 .. MaxGap :
    /\ counter' = Wrapped(counter + gap, width)
    /\ elapsed' = IF elapsed + gap < MaxElapsed THEN elapsed + gap ELSE MaxElapsed

PollStall ==
  /\ delay = "Stall"
  /\ Read(Word)
  /\ delay' = IF StallOver(counter') THEN "done" ELSE delay
  /\ UNCHANGED <<asked, unit, start, target, times>>

PollAcpi ==
  /\ delay = "InternalAcpiDelay"
  /\ Read(AcpiSize)
  /\ delay' = IF ~Passed(InternalAcpiGetTimerTick') THEN delay
              ELSE IF times > 0 THEN "next" ELSE "done"
  /\ UNCHANGED <<asked, unit, start, target, times>>

(* The next quarter starts at a new read, which the gap precedes.          *)
NextQuarter ==
  /\ delay = "next"
  /\ delay' = "InternalAcpiDelay"
  /\ times' = times - 1
  /\ Read(AcpiSize)
  /\ target' = Wrapped(InternalAcpiGetTimerTick' + Quarter, AcpiSize)
  /\ UNCHANGED <<asked, unit, start>>

(* The delay returns to its caller.                                        *)
DelayReturns ==
  /\ delay = "done"
  /\ delay' = "none" /\ asked' = 0 /\ unit' = "us" /\ counter' = 0
  /\ start' = 0 /\ target' = 0 /\ times' = 0 /\ elapsed' = 0

TimersNext ==
  \/ Stall \/ MicroSecondDelay \/ NanoSecondDelay
  \/ PollStall \/ PollAcpi \/ NextQuarter \/ DelayReturns

(* The loops poll as long as the processor runs.                           *)
TimersFairness == WF_timerVars(PollStall \/ PollAcpi \/ NextQuarter)

TimersSpec == TimersRest /\ [][TimersNext]_timerVars

-----------------------------------------------------------------------------
TimersTypeOK ==
  /\ delay \in {"none", "Stall", "InternalAcpiDelay", "next", "done"}
  /\ asked \in {0} \cup Delays /\ unit \in {"HPET", "us", "ns"}
  /\ counter \in 0 .. Word - 1 /\ start \in 0 .. Word - 1 /\ target \in 0 .. Word - 1
  /\ times \in 0 .. (Word \div Quarter) /\ elapsed \in 0 .. MaxElapsed

(* An argument for which no UINT32 overflows.                              *)
Converts ==
  CASE unit = "HPET" -> asked * HPET_1US < Word
    [] unit = "us" -> (asked * ACPI_TIMER_FREQUENCY) \div Micro < Word
    [] unit = "ns" -> (asked * ACPI_TIMER_FREQUENCY) \div Nano < Word

(* "Stalls the CPU for at least the given number of microseconds": no      *)
(* delay ends early, wherever the counter starts and wraps, however far it *)
(* moves between two reads, and although the conversion to ticks rounds    *)
(* down.                                                                   *)
DelayLasts ==
  delay = "done" /\ Converts =>
    CASE unit = "HPET" -> elapsed >= asked * HPET_1US
      [] unit = "us" -> GetTimeInNanoSecond(elapsed) * Micro >= asked * Nano
      [] unit = "ns" -> GetTimeInNanoSecond(elapsed) >= asked

(* How long StallOver stays true once the counter is at Finish.            *)
Window == IF target > start THEN Word - target ELSE start - target

(* A delay of the ACPI timer always ends; Stall does if no gap between two *)
(* reads jumps over the counts at which it could see that it is over.      *)
(* Where Finish is just below the wrap, or the argument is zero, it may    *)
(* wait for the counter to come round, again and again.                    *)
DelayEnds ==
  (delay = "Stall" /\ Window >= MaxGap) \/ delay \in {"InternalAcpiDelay", "next"}
    ~> delay = "done"
=============================================================================
