------------------------ MODULE PlatformTimers_proofs ------------------------
(***************************************************************************)
(* The delays last: theorems about PlatformTimers for every width of the   *)
(* counters, every frequency, every delay asked for, and gaps between two  *)
(* reads up to half of the ACPI timer.                                     *)
(***************************************************************************)
EXTENDS PlatformTimers, TLAPS

-----------------------------------------------------------------------------
(* Arithmetic.                                                             *)

LEMMA Sizes ==
  /\ Word \in Nat \ {0} /\ Quarter \in Nat \ {0} /\ AcpiSize \in Nat \ {0}
  /\ AcpiSize = 4 * Quarter /\ AcpiSize <= Word
  /\ MaxGap \in Nat \ {0} /\ MaxGap <= 2 * Quarter
  /\ MaxElapsed = 3 * Word
<1>1. Word \in Nat \ {0} /\ Quarter \in Nat \ {0} /\ MaxGap \in 1 .. 2 * Quarter
      /\ Word % (4 * Quarter) = 0
  BY TimersAssumption DEF AcpiSize
<1>2. 4 * Quarter <= Word
  BY <1>1
<1> QED BY <1>1, <1>2 DEF AcpiSize, MaxElapsed

LEMMA Division ==
  ASSUME NEW a \in Nat, NEW b \in Nat \ {0}
  PROVE  /\ a \div b \in Nat /\ a % b \in 0 .. b - 1
         /\ a = b * (a \div b) + (a % b)
  OBVIOUS

LEMMA WrappedType ==
  ASSUME NEW width \in Nat \ {0}, NEW n \in Int, -width < n, n < 2 * width
  PROVE  Wrapped(n, width) \in 0 .. width - 1
  BY DEF Wrapped

(* What was added to a counter is what it is ahead by.                     *)
LEMMA WrappedDifference ==
  ASSUME NEW width \in Nat, NEW n \in 0 .. width - 1, NEW r \in 0 .. width - 1
  PROVE  /\ Wrapped(n + r, width) \in 0 .. width - 1
         /\ Wrapped(Wrapped(n + r, width) - n, width) = r
  BY DEF Wrapped

LEMMA ProductSteps ==
  ASSUME NEW n \in Nat, NEW q \in Nat
  PROVE  n * q \in Nat /\ (n > 0 => (n - 1) * q = n * q - q)
  OBVIOUS

LEMMA QuotientBounded ==
  ASSUME NEW a \in Nat, NEW b \in Nat, NEW q \in Nat \ {0}, a <= b
  PROVE  a \div q \in 0 .. (b \div q)
<1>1. /\ a \div q \in Nat /\ a % q \in 0 .. q - 1 /\ a = q * (a \div q) + (a % q)
      /\ b \div q \in Nat /\ b % q \in 0 .. q - 1 /\ b = q * (b \div q) + (b % q)
  BY Division
<1> DEFINE m == a \div q  n == b \div q
<1>2. SUFFICES ASSUME m > n PROVE FALSE
  BY <1>1
<1>3. q * m >= q * (n + 1)
  BY <1>1, <1>2
<1> QED BY <1>1, <1>2, <1>3

-----------------------------------------------------------------------------
(* The invariant.                                                          *)

Ticks == IF unit = "us" THEN MicroSecondTicks(asked) ELSE NanoSecondTicks(asked)
HpetCounts == (asked * HPET_1US) % Word

(* How far the ACPI timer has to go to its target.                         *)
Distance == Wrapped(target - counter, AcpiSize)

(* Until the HPET has been round once, it is as far from Start as the time *)
(* that has passed; when Stall is over, that was enough.                   *)
StallInv ==
  /\ delay = "Stall" =>
       /\ unit = "HPET" /\ target = Wrapped(start + HpetCounts, Word)
       /\ elapsed < Word => counter = Wrapped(start + elapsed, Word)
  /\ delay = "done" /\ unit = "HPET" => elapsed >= HpetCounts

(* The time that has passed, the way to the target and the quarters still  *)
(* to come make up the ticks; a quarter is only over beyond its target.    *)
AcpiPolling ==
  /\ unit # "HPET" /\ counter \in 0 .. AcpiSize - 1 /\ target \in 0 .. AcpiSize - 1
  /\ Distance < 2 * Quarter
  /\ elapsed + Distance + (times * Quarter) >= Ticks
AcpiBetween ==
  /\ unit # "HPET" /\ counter \in 0 .. AcpiSize - 1
  /\ times > 0 /\ elapsed + (times * Quarter) > Ticks
AcpiInv ==
  /\ delay = "InternalAcpiDelay" => AcpiPolling
  /\ delay = "next" => AcpiBetween
  /\ delay = "done" /\ unit # "HPET" => elapsed > Ticks

Inv == TimersTypeOK /\ StallInv /\ AcpiInv

LEMMA CountsType ==
  /\ \A us \in Delays : (us * HPET_1US) % Word \in 0 .. Word - 1
  /\ \A us \in Delays : MicroSecondTicks(us) \in 0 .. Word - 1
  /\ \A ns \in Delays : NanoSecondTicks(ns) \in 0 .. Word - 1
<1>1. ASSUME NEW d \in Delays
      PROVE  /\ (d * HPET_1US) \in Nat
             /\ (d * ACPI_TIMER_FREQUENCY) \in Nat
  BY TimersAssumption
<1>2. \A d \in Delays : (d * HPET_1US) % Word \in 0 .. Word - 1
  BY <1>1, Sizes, Division
<1>3. ASSUME NEW d \in Delays
      PROVE  /\ (d * ACPI_TIMER_FREQUENCY) \div Micro \in Nat
             /\ (d * ACPI_TIMER_FREQUENCY) \div Nano \in Nat
  BY <1>1, TimersAssumption, Division
<1> QED BY <1>2, <1>3, Sizes, Division DEF MicroSecondTicks, NanoSecondTicks

LEMMA InitInv == TimersRest => Inv
<1> SUFFICES ASSUME TimersRest PROVE Inv
  OBVIOUS
<1>1. 0 \in 0 .. (Word \div Quarter)
  BY Sizes, Division
<1> QED
  BY <1>1, Sizes DEF TimersRest, Inv, TimersTypeOK, StallInv, AcpiInv

(* A read of the counter after a gap.                                      *)
LEMMA ReadType ==
  ASSUME NEW width \in Nat \ {0}, MaxGap <= width, width <= Word,
         counter \in 0 .. width - 1, elapsed \in 0 .. MaxElapsed, Read(width)
  PROVE  /\ counter' \in 0 .. width - 1 /\ counter' \in 0 .. Word - 1
         /\ elapsed' \in 0 .. MaxElapsed
<1>1. PICK gap \in 1 .. MaxGap :
        /\ counter' = Wrapped(counter + gap, width)
        /\ elapsed' = IF elapsed + gap < MaxElapsed THEN elapsed + gap ELSE MaxElapsed
  BY DEF Read
<1>2. gap \in Int /\ 0 < gap /\ gap <= width
  BY <1>1, Sizes
<1>3. counter' \in 0 .. width - 1
  BY <1>1, <1>2, WrappedType
<1> QED BY <1>1, <1>2, <1>3, Sizes

(* A delay of the ACPI timer begins: the first target is what its quarters *)
(* leave of the ticks.                                                     *)
LEMMA AcpiStarts ==
  ASSUME NEW ticks \in 0 .. Word - 1, ticks = Ticks', InternalAcpiDelay(ticks),
         asked' \in Delays, unit' \in {"us", "ns"}, counter' \in 0 .. AcpiSize - 1,
         start' = 0, elapsed' = 0
  PROVE  Inv'
<1> DEFINE r == ticks % Quarter  q == ticks \div Quarter
<1>1. /\ ticks \in Nat /\ ticks <= Word /\ Quarter \in Nat \ {0}
      /\ r \in 0 .. Quarter - 1 /\ q \in Nat /\ ticks = (Quarter * q) + r
      /\ q \in 0 .. (Word \div Quarter)
  <2>1. ticks \in Nat /\ Word \in Nat /\ ticks <= Word /\ Quarter \in Nat \ {0}
    BY Sizes
  <2>2. q \in Nat /\ r \in 0 .. Quarter - 1 /\ ticks = (Quarter * q) + r
    BY <2>1, Division
  <2>3. q \in 0 .. (Word \div Quarter)
    BY <2>1, QuotientBounded
  <2> QED BY <2>1, <2>2, <2>3
<1>2. times' = q
  BY DEF InternalAcpiDelay
<1>4. target' = Wrapped(counter' + r, AcpiSize)
  BY DEF InternalAcpiDelay
<1> HIDE DEF r, q
<1>3. times' * Quarter = ticks - r
  BY <1>1, <1>2
<1>5. target' \in 0 .. AcpiSize - 1 /\ Distance' = r
  <2>1. r \in 0 .. AcpiSize - 1 /\ r < AcpiSize /\ counter' \in 0 .. AcpiSize - 1
    BY <1>1, Sizes
  <2>2. counter' + r - AcpiSize \in Int /\ AcpiSize \in Nat
    BY <2>1, Sizes
  <2> QED BY <1>4, <2>1, <2>2, WrappedDifference DEF Distance
<1>6. delay' = "InternalAcpiDelay"
  BY DEF InternalAcpiDelay
<1>7. elapsed' + Distance' + (times' * Quarter) = Ticks'
  <2> DEFINE p == times' * Quarter
  <2>1. p = ticks - r
    BY <1>3
  <2>2. Distance' = r
    BY <1>5
  <2> HIDE DEF p
  <2>3. elapsed' + Distance' + p = 0 + r + (ticks - r)
    BY <2>1, <2>2
  <2>4. 0 + r + (ticks - r) = ticks
    BY <1>1
  <2>5. elapsed' + Distance' + p = Ticks'
    BY <2>3, <2>4
  <2> QED BY <2>5 DEF p
<1>8. Ticks' \in Nat
  BY <1>1
<1>9. AcpiInv'
  <2>1. Distance' < 2 * Quarter
    BY <1>1, <1>5
  <2>2. elapsed' + Distance' + (times' * Quarter) >= Ticks'
    BY <1>7, <1>8
  <2>3. unit' # "HPET" /\ delay' # "next" /\ delay' # "done"
    BY <1>6
  <2> QED BY <1>5, <1>6, <2>1, <2>2, <2>3 DEF AcpiInv, AcpiPolling
<1>10. StallInv'
  BY <1>6 DEF StallInv
<1>11. counter' \in 0 .. Word - 1 /\ start' \in 0 .. Word - 1
       /\ target' \in 0 .. Word - 1 /\ elapsed' \in 0 .. MaxElapsed
  BY <1>5, Sizes
<1>12. times' \in 0 .. (Word \div Quarter)
  BY <1>1, <1>2
<1>13. TimersTypeOK'
  BY <1>6, <1>11, <1>12 DEF TimersTypeOK
<1> QED BY <1>9, <1>10, <1>13 DEF Inv

LEMMA MicroStep == ASSUME MicroSecondDelay PROVE Inv'
<1>1. PICK us \in Delays, c \in 0 .. AcpiSize - 1 :
        asked' = us /\ unit' = "us" /\ counter' = c
        /\ InternalAcpiDelay(MicroSecondTicks(us))
  BY DEF MicroSecondDelay
<1>2. MicroSecondTicks(us) \in 0 .. Word - 1
  BY CountsType
<1>3. MicroSecondTicks(us) = Ticks'
  BY <1>1 DEF Ticks, MicroSecondTicks
<1>4. start' = 0 /\ elapsed' = 0
  BY DEF MicroSecondDelay
<1> QED BY <1>1, <1>2, <1>3, <1>4, AcpiStarts

LEMMA NanoStep == ASSUME NanoSecondDelay PROVE Inv'
<1>1. PICK ns \in Delays, c \in 0 .. AcpiSize - 1 :
        asked' = ns /\ unit' = "ns" /\ counter' = c
        /\ InternalAcpiDelay(NanoSecondTicks(ns))
  BY DEF NanoSecondDelay
<1>2. NanoSecondTicks(ns) \in 0 .. Word - 1
  BY CountsType
<1>3. NanoSecondTicks(ns) = Ticks'
  BY <1>1 DEF Ticks, NanoSecondTicks
<1>4. start' = 0 /\ elapsed' = 0
  BY DEF NanoSecondDelay
<1> QED BY <1>1, <1>2, <1>3, <1>4, AcpiStarts

LEMMA StallStep == ASSUME Stall PROVE Inv'
<1>1. PICK us \in Delays, c \in 0 .. Word - 1 :
        asked' = us /\ unit' = "HPET" /\ counter' = c /\ start' = c
        /\ target' = Finish(us)'
  BY DEF Stall
<1>2. HpetCounts' \in 0 .. Word - 1
  BY <1>1, CountsType DEF HpetCounts
<1>3. target' = Wrapped(start' + HpetCounts', Word)
  BY <1>1 DEF Finish, HpetCounts, Wrapped
<1>4. target' \in 0 .. Word - 1
  BY <1>1, <1>2, <1>3, Sizes, WrappedType
<1>5. delay' = "Stall" /\ times' = 0 /\ elapsed' = 0
  BY DEF Stall
<1>6. counter' = Wrapped(start' + elapsed', Word)
  BY <1>1, <1>5, Sizes DEF Wrapped
<1>7. 0 \in 0 .. (Word \div Quarter) /\ 0 \in 0 .. MaxElapsed
  BY Sizes, Division
<1>8. TimersTypeOK'
  BY <1>1, <1>4, <1>5, <1>7 DEF TimersTypeOK
<1>9. StallInv'
  BY <1>1, <1>3, <1>5, <1>6 DEF StallInv
<1>10. AcpiInv'
  BY <1>5 DEF AcpiInv
<1> QED BY <1>8, <1>9, <1>10 DEF Inv

(* A read that shows Stall to be over, in the first round of the counter,  *)
(* is as late as was asked for.                                            *)
LEMMA OverIsLate ==
  ASSUME NEW s \in 0 .. Word - 1, NEW n \in 0 .. Word - 1, NEW e \in 0 .. Word - 1,
         LET t == Wrapped(s + n, Word)
             read == Wrapped(s + e, Word)
         IN  IF t > s THEN read >= t ELSE read < s /\ read >= t
  PROVE  e >= n
<1>1. Word \in Nat
  BY Sizes
<1> QED BY <1>1 DEF Wrapped

LEMMA PollStallStep == ASSUME Inv, PollStall PROVE Inv'
<1>1. /\ delay = "Stall" /\ unit = "HPET" /\ target = Wrapped(start + HpetCounts, Word)
      /\ elapsed < Word => counter = Wrapped(start + elapsed, Word)
  BY DEF PollStall, Inv, StallInv
<1>2. /\ asked \in {0} \cup Delays /\ counter \in 0 .. Word - 1 /\ start \in 0 .. Word - 1
      /\ target \in 0 .. Word - 1 /\ times \in 0 .. (Word \div Quarter)
      /\ elapsed \in 0 .. MaxElapsed
  BY DEF Inv, TimersTypeOK
<1>3. Read(Word) /\ UNCHANGED <<asked, unit, start, target, times>>
  BY DEF PollStall
<1>4. /\ delay' = "Stall" \/ delay' = "done"
      /\ delay' = "done" => StallOver(counter')
  BY <1>1 DEF PollStall
<1>5. Word \in Nat \ {0} /\ MaxGap <= Word
  BY Sizes
<1>6. counter' \in 0 .. Word - 1 /\ elapsed' \in 0 .. MaxElapsed
  BY <1>2, <1>3, <1>5, ReadType
<1>7. elapsed' < Word => counter' = Wrapped(start + elapsed', Word)
  <2>1. PICK gap \in 1 .. MaxGap :
          /\ counter' = Wrapped(counter + gap, Word)
          /\ elapsed' = IF elapsed + gap < MaxElapsed THEN elapsed + gap ELSE MaxElapsed
    BY <1>3 DEF Read
  <2> SUFFICES ASSUME elapsed' < Word PROVE counter' = Wrapped(start + elapsed', Word)
    OBVIOUS
  <2>2. gap \in 1 .. Word /\ MaxElapsed = 3 * Word
    BY Sizes
  <2>3. elapsed' = elapsed + gap /\ elapsed < Word
    BY <1>2, <1>5, <2>1, <2>2
  <2>4. counter' = Wrapped(Wrapped(start + elapsed, Word) + gap, Word)
    BY <1>1, <2>1, <2>3
  <2>5. Wrapped(Wrapped(start + elapsed, Word) + gap, Word) = Wrapped(start + (elapsed + gap), Word)
    BY <1>2, <1>5, <2>2, <2>3 DEF Wrapped
  <2> QED BY <2>3, <2>4, <2>5
<1>8. HpetCounts \in 0 .. Word - 1
  <2>1. CASE asked \in Delays
    BY <2>1, CountsType DEF HpetCounts
  <2>2. CASE asked = 0
    <3>1. asked * HPET_1US = 0
      BY <2>2, TimersAssumption
    <3>2. HpetCounts = 0
      BY <3>1, <1>5 DEF HpetCounts
    <3> QED BY <3>2, <1>5
  <2> QED BY <1>2, <2>1, <2>2
<1>9. HpetCounts' = HpetCounts
  BY <1>3 DEF HpetCounts
<1>10. delay' = "done" => elapsed' >= HpetCounts
  <2> SUFFICES ASSUME StallOver(counter'), elapsed' < Word PROVE elapsed' >= HpetCounts
    BY <1>4, <1>5, <1>6, <1>8, Sizes
  <2>1. elapsed' \in 0 .. Word - 1
    BY <1>6, Sizes
  <2>2. IF target > start THEN counter' >= target ELSE counter' < start /\ counter' >= target
    BY DEF StallOver
  <2> QED BY <1>1, <1>2, <1>7, <1>8, <2>1, <2>2, OverIsLate
<1>11. StallInv'
  BY <1>1, <1>3, <1>4, <1>7, <1>9, <1>10 DEF StallInv
<1>12. AcpiInv'
  BY <1>1, <1>3, <1>4 DEF AcpiInv
<1>13. TimersTypeOK'
  BY <1>1, <1>2, <1>3, <1>4, <1>6 DEF TimersTypeOK
<1> QED BY <1>11, <1>12, <1>13 DEF Inv

LEMMA TicksType == ASSUME TimersTypeOK PROVE Ticks \in 0 .. Word - 1
<1>1. asked = 0 \/ asked \in Delays
  BY DEF TimersTypeOK
<1>2. CASE asked \in Delays
  BY <1>2, CountsType DEF Ticks
<1>3. CASE asked = 0
  <2>1. asked * ACPI_TIMER_FREQUENCY = 0
    BY <1>3, TimersAssumption
  <2>2. 0 \div Micro = 0 /\ 0 \div Nano = 0 /\ 0 % Word = 0
    BY TimersAssumption
  <2>3. Ticks = 0
    BY <2>1, <2>2 DEF Ticks, MicroSecondTicks, NanoSecondTicks
  <2> QED BY <2>3, Sizes
<1> QED BY <1>1, <1>2, <1>3

(* The way to the target while the counter moves on.                       *)
LEMMA DistanceStep ==
  ASSUME NEW c \in 0 .. AcpiSize - 1, NEW t \in 0 .. AcpiSize - 1, NEW gap \in 1 .. MaxGap,
         Wrapped(t - c, AcpiSize) < 2 * Quarter
  PROVE  LET d == Wrapped(t - c, AcpiSize)
             e == Wrapped(t - Wrapped(c + gap, AcpiSize), AcpiSize)
         IN  d \in Nat /\ e \in Nat /\ (IF e < 2 * Quarter THEN e = d - gap ELSE gap > d)
<1>1. Quarter \in Nat \ {0} /\ AcpiSize = 4 * Quarter /\ gap \in Nat /\ gap > 0 /\ gap <= 2 * Quarter
  BY Sizes
<1> QED BY <1>1 DEF Wrapped

LEMMA PollAcpiStep == ASSUME Inv, PollAcpi PROVE Inv'
<1> DEFINE p == times * Quarter
<1>1. /\ delay = "InternalAcpiDelay" /\ unit # "HPET"
      /\ counter \in 0 .. AcpiSize - 1 /\ target \in 0 .. AcpiSize - 1
      /\ Distance < 2 * Quarter /\ elapsed + Distance + p >= Ticks
  BY DEF PollAcpi, Inv, AcpiInv, AcpiPolling
<1>2. /\ TimersTypeOK /\ Ticks \in 0 .. Word - 1
      /\ times \in Nat /\ elapsed \in 0 .. MaxElapsed
  <2>1. TimersTypeOK
    BY DEF Inv
  <2>2. times \in 0 .. (Word \div Quarter) /\ elapsed \in 0 .. MaxElapsed
    BY <2>1 DEF TimersTypeOK
  <2> QED BY <2>1, <2>2, TicksType
<1>3. Read(AcpiSize) /\ UNCHANGED <<asked, unit, start, target, times>>
  BY DEF PollAcpi
<1>4. PICK gap \in 1 .. MaxGap :
        /\ counter' = Wrapped(counter + gap, AcpiSize)
        /\ elapsed' = IF elapsed + gap < MaxElapsed THEN elapsed + gap ELSE MaxElapsed
  BY <1>3 DEF Read
<1>5. /\ AcpiSize \in Nat \ {0} /\ MaxGap <= AcpiSize /\ AcpiSize <= Word /\ Quarter \in Nat \ {0}
      /\ Word \in Nat \ {0} /\ MaxElapsed = 3 * Word
  BY Sizes
<1>6. /\ counter' \in 0 .. AcpiSize - 1 /\ counter' \in 0 .. Word - 1
      /\ elapsed' \in 0 .. MaxElapsed
  BY <1>1, <1>2, <1>3, <1>5, ReadType
<1>7. /\ Distance \in Nat /\ Distance' \in Nat
      /\ IF Distance' < 2 * Quarter THEN Distance' = Distance - gap ELSE gap > Distance
  BY <1>1, <1>3, <1>4, DistanceStep DEF Distance
<1>8. p' = p /\ p \in Nat /\ Ticks' = Ticks
  BY <1>2, <1>3, <1>5, ProductSteps DEF Ticks
<1>9. Passed(counter') <=> Distance' >= 2 * Quarter
  BY <1>3 DEF Passed, Distance
<1>10. /\ delay' = IF ~Passed(counter') THEN "InternalAcpiDelay"
                   ELSE IF times > 0 THEN "next" ELSE "done"
  BY <1>1 DEF PollAcpi, InternalAcpiGetTimerTick
<1> HIDE DEF p
<1>11. ASSUME Distance' < 2 * Quarter PROVE AcpiInv'
  <2>1. elapsed' + Distance' + p >= Ticks
    BY <1>1, <1>2, <1>4, <1>5, <1>7, <1>8, <1>11
  <2>2. ~Passed(counter')
    BY <1>5, <1>7, <1>9, <1>11
  <2>3. delay' = "InternalAcpiDelay" /\ unit' # "HPET" /\ target' \in 0 .. AcpiSize - 1
    BY <1>1, <1>3, <1>10, <2>2
  <2>4. elapsed' + Distance' + (times' * Quarter) >= Ticks'
    BY <1>8, <2>1 DEF p
  <2>5. AcpiPolling'
    BY <1>6, <1>11, <2>3, <2>4 DEF AcpiPolling
  <2> QED BY <2>3, <2>5 DEF AcpiInv
<1>12. ASSUME ~(Distance' < 2 * Quarter) PROVE AcpiInv'
  <2>1. elapsed' + p > Ticks
    BY <1>1, <1>2, <1>4, <1>5, <1>7, <1>8, <1>12
  <2>2. Passed(counter')
    BY <1>5, <1>7, <1>9, <1>12
  <2>3. unit' # "HPET" /\ times' = times
    BY <1>1, <1>3
  <2>4. ASSUME times > 0 PROVE AcpiInv'
    <3>1. delay' = "next"
      BY <1>10, <2>2, <2>4
    <3>2. elapsed' + (times' * Quarter) > Ticks'
      BY <1>8, <2>1 DEF p
    <3>3. AcpiBetween'
      BY <1>1, <1>6, <2>3, <2>4, <3>2 DEF AcpiBetween
    <3> QED BY <3>1, <3>3 DEF AcpiInv
  <2>5. ASSUME ~(times > 0) PROVE AcpiInv'
    <3>1. delay' = "done"
      BY <1>10, <2>2, <2>5
    <3>2. times = 0
      BY <1>2, <2>5
    <3>3. p = 0
      BY <1>5, <3>2 DEF p
    <3>4. elapsed' > Ticks'
      BY <1>6, <1>8, <2>1, <3>3, <1>5
    <3> QED BY <3>1, <3>4 DEF AcpiInv
  <2> QED BY <2>4, <2>5
<1>13. delay' \in {"InternalAcpiDelay", "next", "done"} /\ unit' # "HPET"
  BY <1>1, <1>3, <1>10
<1>14. StallInv'
  BY <1>13 DEF StallInv
<1>15. TimersTypeOK'
  BY <1>2, <1>3, <1>6, <1>13 DEF TimersTypeOK
<1> QED BY <1>11, <1>12, <1>14, <1>15 DEF Inv

LEMMA NextQuarterStep == ASSUME Inv, NextQuarter PROVE Inv'
<1> DEFINE p == times * Quarter
<1>1. /\ delay = "next" /\ unit # "HPET" /\ counter \in 0 .. AcpiSize - 1
      /\ times > 0 /\ elapsed + p > Ticks
  BY DEF NextQuarter, Inv, AcpiInv, AcpiBetween
<1>2. /\ TimersTypeOK /\ Ticks \in 0 .. Word - 1
      /\ times \in 0 .. (Word \div Quarter) /\ times \in Nat /\ elapsed \in 0 .. MaxElapsed
  <2>1. TimersTypeOK
    BY DEF Inv
  <2>2. times \in 0 .. (Word \div Quarter) /\ elapsed \in 0 .. MaxElapsed
    BY <2>1 DEF TimersTypeOK
  <2> QED BY <2>1, <2>2, TicksType
<1>3. /\ Read(AcpiSize) /\ UNCHANGED <<asked, unit, start>>
      /\ delay' = "InternalAcpiDelay" /\ times' = times - 1
      /\ target' = Wrapped(counter' + Quarter, AcpiSize)
  BY DEF NextQuarter, InternalAcpiGetTimerTick
<1>4. PICK gap \in 1 .. MaxGap :
        elapsed' = IF elapsed + gap < MaxElapsed THEN elapsed + gap ELSE MaxElapsed
  BY <1>3 DEF Read
<1>5. /\ AcpiSize \in Nat \ {0} /\ MaxGap <= AcpiSize /\ AcpiSize <= Word
      /\ Quarter \in Nat \ {0} /\ Quarter \in 0 .. AcpiSize - 1
      /\ Word \in Nat \ {0} /\ MaxElapsed = 3 * Word
  BY Sizes
<1>6. /\ counter' \in 0 .. AcpiSize - 1 /\ counter' \in 0 .. Word - 1
      /\ elapsed' \in 0 .. MaxElapsed
  BY <1>1, <1>2, <1>3, <1>5, ReadType
<1>7. target' \in 0 .. AcpiSize - 1 /\ Distance' = Quarter
  BY <1>3, <1>5, <1>6, WrappedDifference DEF Distance
<1>8. p' = p - Quarter /\ p \in Nat /\ Ticks' = Ticks
  <2>1. (times - 1) * Quarter = p - Quarter /\ p \in Nat
    BY <1>1, <1>2, <1>5, ProductSteps
  <2> QED BY <1>3, <2>1 DEF Ticks
<1> HIDE DEF p
<1>9. elapsed' + Quarter + (p - Quarter) >= Ticks
  BY <1>1, <1>2, <1>4, <1>5, <1>8
<1>10. elapsed' + Distance' + (times' * Quarter) >= Ticks'
  <2>1. elapsed' + Distance' + p' >= Ticks'
    BY <1>7, <1>8, <1>9
  <2> QED BY <2>1 DEF p
<1>11. Distance' < 2 * Quarter
  BY <1>5, <1>7
<1>12. AcpiInv'
  <2>1. AcpiPolling'
    BY <1>1, <1>3, <1>6, <1>7, <1>10, <1>11 DEF AcpiPolling
  <2> QED BY <1>3, <2>1 DEF AcpiInv
<1>13. StallInv'
  BY <1>3 DEF StallInv
<1>14. times' \in 0 .. (Word \div Quarter) /\ target' \in 0 .. Word - 1
  <2>1. Word \div Quarter \in Nat
    BY <1>5, Division
  <2> QED BY <1>1, <1>2, <1>3, <1>5, <1>7, <2>1
<1>15. TimersTypeOK'
  BY <1>2, <1>3, <1>6, <1>14 DEF TimersTypeOK
<1> QED BY <1>12, <1>13, <1>15 DEF Inv

LEMMA ReturnStep == ASSUME DelayReturns PROVE Inv'
<1>1. TimersRest'
  BY DEF DelayReturns, TimersRest
<1> QED BY <1>1, InitInv, PTL

LEMMA NextInv == Inv /\ [TimersNext]_timerVars => Inv'
<1> SUFFICES ASSUME Inv, [TimersNext]_timerVars PROVE Inv'
  OBVIOUS
<1>1. CASE UNCHANGED timerVars
  BY <1>1 DEF timerVars, Inv, TimersTypeOK, StallInv, AcpiInv, AcpiPolling, AcpiBetween,
              HpetCounts, Ticks, Distance
<1> QED
  BY <1>1, StallStep, MicroStep, NanoStep, PollStallStep, PollAcpiStep, NextQuarterStep,
     ReturnStep DEF TimersNext

LEMMA Invariant == TimersSpec => []Inv
  BY InitInv, NextInv, PTL DEF TimersSpec

-----------------------------------------------------------------------------
(* What the invariant means in units of time.                              *)

(* The conversion back to nanoseconds rounds down by less than one.        *)
LEMMA NanosBound ==
  ASSUME NEW t \in Nat
  PROVE  /\ GetTimeInNanoSecond(t) \in Nat
         /\ t * Nano < (GetTimeInNanoSecond(t) + 1) * ACPI_TIMER_FREQUENCY
<1> DEFINE F == ACPI_TIMER_FREQUENCY  q == t \div F  r == t % F
           s == (r * Nano) \div F  z == (r * Nano) % F
<1>1. F \in Nat \ {0} /\ Nano \in Nat \ {0}
  BY TimersAssumption
<1>2. q \in Nat /\ r \in Nat /\ t = F * q + r
  BY <1>1, Division
<1>3. r * Nano \in Nat
  BY <1>1, <1>2
<1>4. s \in Nat /\ z \in 0 .. F - 1 /\ r * Nano = F * s + z
  BY <1>1, <1>3, Division
<1>5. GetTimeInNanoSecond(t) = q * Nano + s
  BY DEF GetTimeInNanoSecond
<1> HIDE DEF F, q, r, s, z
<1>6. q * Nano \in Nat /\ q * Nano + s \in Nat
  BY <1>1, <1>2, <1>4
<1>7. (q * Nano + s + 1) * F = (F * q) * Nano + F * s + F
  BY <1>1, <1>2, <1>4
<1>8. t * Nano = (F * q) * Nano + r * Nano
  BY <1>1, <1>2
<1>9. t * Nano < (q * Nano + s + 1) * F
  BY <1>1, <1>2, <1>4, <1>6, <1>7, <1>8
<1> QED BY <1>5, <1>6, <1>9 DEF F

(* More counts than the ticks of d units, of which there are u in a        *)
(* second, are no less than d.                                             *)
LEMMA MoreThanTicks ==
  ASSUME NEW d \in Nat, NEW u \in Nat \ {0}, NEW k \in Nat \ {0}, Nano = u * k,
         NEW t \in Nat, t > (d * ACPI_TIMER_FREQUENCY) \div u
  PROVE  GetTimeInNanoSecond(t) >= d * k
<1> DEFINE F == ACPI_TIMER_FREQUENCY  n == (d * F) \div u  v == GetTimeInNanoSecond(t)
<1>1. F \in Nat \ {0} /\ d * F \in Nat
  BY TimersAssumption
<1>2. n \in Nat /\ (d * F) % u \in 0 .. u - 1 /\ d * F = u * n + ((d * F) % u)
  BY <1>1, Division
<1>3. d * F < u * n + u
  BY <1>1, <1>2
<1>4. t > n
  OBVIOUS
<1>5. v \in Nat /\ t * Nano < (v + 1) * F
  BY NanosBound
<1> HIDE DEF F, n, v
<1>6. u * n + u <= u * t
  <2>1. n + 1 <= t
    BY <1>2, <1>4
  <2>2. u * (n + 1) <= u * t
    BY <1>2, <2>1
  <2> QED BY <1>2, <2>2
<1>7. d * F < u * t
  BY <1>1, <1>2, <1>3, <1>6
<1>8. (d * F) * k < (u * t) * k
  BY <1>1, <1>7
<1>9. (u * t) * k = t * Nano
  OBVIOUS
<1>10. (d * F) * k = (d * k) * F
  BY <1>1
<1>11. (d * k) * F < (v + 1) * F
  BY <1>1, <1>5, <1>8, <1>9, <1>10
<1>12. d * k < v + 1
  BY <1>1, <1>5, <1>11
<1> QED BY <1>5, <1>12 DEF v

-----------------------------------------------------------------------------
(* Every variable of the delays keeps its type; the quarters that a delay  *)
(* counts down never go below zero.                                        *)
THEOREM TimersTypeCorrect == TimersSpec => []TimersTypeOK
<1>1. Inv => TimersTypeOK
  BY DEF Inv
<1> QED BY Invariant, <1>1, PTL

LEMMA InvLasts == Inv => DelayLasts
<1> SUFFICES ASSUME Inv, delay = "done", Converts
             PROVE  CASE unit = "HPET" -> elapsed >= asked * HPET_1US
                      [] unit = "us" -> GetTimeInNanoSecond(elapsed) * Micro >= asked * Nano
                      [] unit = "ns" -> GetTimeInNanoSecond(elapsed) >= asked
  BY DEF DelayLasts
<1>1. /\ unit \in {"HPET", "us", "ns"} /\ asked \in Nat /\ elapsed \in Nat
      /\ Word \in Nat \ {0}
  BY Sizes, TimersAssumption DEF Inv, TimersTypeOK
<1>2. /\ Micro \in Nat \ {0} /\ Nano \in Nat \ {0} /\ Nano % Micro = 0
      /\ ACPI_TIMER_FREQUENCY \in Nat \ {0} /\ HPET_1US \in Nat
  BY TimersAssumption
<1>3. ASSUME unit = "HPET" PROVE elapsed >= asked * HPET_1US
  <2> DEFINE n == asked * HPET_1US
  <2>1. n < Word /\ n \in Nat
    BY <1>1, <1>2, <1>3 DEF Converts
  <2>2. elapsed >= n % Word
    BY <1>3 DEF Inv, StallInv, HpetCounts
  <2> HIDE DEF n
  <2>3. n % Word = n
    BY <1>1, <2>1
  <2>4. elapsed >= n
    BY <2>2, <2>3
  <2> QED BY <2>4 DEF n
<1>4. ASSUME unit = "us" PROVE GetTimeInNanoSecond(elapsed) * Micro >= asked * Nano
  <2> DEFINE n == (asked * ACPI_TIMER_FREQUENCY) \div Micro  k == Nano \div Micro
  <2>1. n < Word /\ n \in Nat
    <3>1. asked * ACPI_TIMER_FREQUENCY \in Nat
      BY <1>1, <1>2
    <3>2. n \in Nat
      BY <1>2, <3>1, Division
    <3> QED BY <1>4, <3>2 DEF Converts
  <2>2. elapsed > n % Word
    BY <1>4 DEF Inv, AcpiInv, Ticks, MicroSecondTicks
  <2> HIDE DEF n
  <2>3. elapsed > n
    <3>1. n % Word = n
      BY <1>1, <2>1
    <3> QED BY <2>2, <3>1
  <2>4. k \in Nat /\ Nano = Micro * k
    <3>1. k \in Nat /\ Nano = Micro * k + (Nano % Micro)
      BY <1>2, Division
    <3> HIDE DEF k
    <3> QED BY <1>2, <3>1
  <2> HIDE DEF k
  <2>5. k # 0
    BY <1>2, <2>4
  <2>6. GetTimeInNanoSecond(elapsed) >= asked * k
    BY <1>1, <1>2, <2>3, <2>4, <2>5, MoreThanTicks DEF n
  <2>7. GetTimeInNanoSecond(elapsed) \in Nat
    BY <1>1, NanosBound
  <2> DEFINE v == GetTimeInNanoSecond(elapsed)
  <2> HIDE DEF v
  <2>8. v \in Nat /\ v >= asked * k
    BY <2>6, <2>7 DEF v
  <2>9. asked * k \in Nat /\ (asked * k) * Micro = asked * Nano
    BY <1>1, <1>2, <2>4
  <2>10. v * Micro >= (asked * k) * Micro
    BY <1>2, <2>8, <2>9
  <2> QED BY <2>9, <2>10 DEF v
<1>5. ASSUME unit = "ns" PROVE GetTimeInNanoSecond(elapsed) >= asked
  <2> DEFINE n == (asked * ACPI_TIMER_FREQUENCY) \div Nano
  <2>1. n < Word /\ n \in Nat
    <3>1. asked * ACPI_TIMER_FREQUENCY \in Nat
      BY <1>1, <1>2
    <3>2. n \in Nat
      BY <1>2, <3>1, Division
    <3> QED BY <1>5, <3>2 DEF Converts
  <2>2. elapsed > n % Word
    BY <1>5 DEF Inv, AcpiInv, Ticks, NanoSecondTicks
  <2> HIDE DEF n
  <2>3. elapsed > n
    <3>1. n % Word = n
      BY <1>1, <2>1
    <3> QED BY <2>2, <3>1
  <2>4. Nano = Nano * 1
    BY <1>2
  <2>5. GetTimeInNanoSecond(elapsed) >= asked * 1
    BY <1>1, <1>2, <2>3, <2>4, MoreThanTicks DEF n
  <2>6. asked * 1 = asked
    BY <1>1
  <2> QED BY <2>5, <2>6
<1> QED BY <1>1, <1>3, <1>4, <1>5

(* No delay ends early, whatever the width of the counters, the frequency, *)
(* the start and the gaps between two reads up to half of the ACPI timer.  *)
THEOREM DelayCorrect == TimersSpec => []DelayLasts
  BY Invariant, InvLasts, PTL
=============================================================================
