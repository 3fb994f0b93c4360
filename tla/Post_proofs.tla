------------------------------ MODULE Post_proofs ------------------------------
(***************************************************************************)
(* What is proved of the parts of Post holds of the machine they make up.  *)
(* The MTRRs of PeiPlatform come first, for every size of memory, every    *)
(* number of MTRRs and every list of HOBs.                                 *)
(***************************************************************************)
EXTENDS Post, PlatformTimers_proofs, FiniteSetTheorems, WellFoundedInduction

-----------------------------------------------------------------------------
(* The first and the last of some indices.                                 *)

LEMMA Least ==
  ASSUME NEW S, S \subseteq Nat, S # {}
  PROVE  \E i \in S : \A j \in S : i <= j
<1>1. PICK i \in S : \A j \in S : ~(<<j, i>> \in OpToRel(<, Nat))
  BY NatLessThanWellFounded, WFMin
<1>2. \A j \in S : ~(j < i)
  BY <1>1 DEF OpToRel
<1> QED BY <1>2

LEMMA Greatest ==
  ASSUME NEW n \in Nat, NEW S, S \subseteq 1 .. n, S # {}
  PROVE  \E i \in S : \A j \in S : i >= j
<1> DEFINE T == {n - i : i \in S}
<1>1. T \subseteq Nat /\ T # {}
  <2>1. \A i \in S : n - i \in Nat
    OBVIOUS
  <2> QED BY <2>1
<1>2. PICK t \in T : \A u \in T : t <= u
  BY <1>1, Least
<1>3. PICK i \in S : t = n - i
  BY <1>2
<1>4. ASSUME NEW j \in S PROVE i >= j
  <2>1. n - i <= n - j
    BY <1>2, <1>3
  <2> QED BY <2>1
<1> QED BY <1>4

-----------------------------------------------------------------------------
(* The invariant of the loop over the HOBs.                                *)

Cached == {"WB", "WP", "WC"}

(* An entry only covers addresses whose HOB asks for its type.             *)
Exact ==
  \A i \in DOMAIN VarMtrrs :
    \A a \in VarMtrrs[i].base .. VarMtrrs[i].end - 1 : hobType[a] = VarMtrrs[i].type

(* As long as no range was dropped, each cached address is in an entry.    *)
Complete ==
  dropped \/ \A a \in Addresses : hobType[a] \in Cached => Covering(a) # {}

MtrrTypes ==
  /\ peiPc \in {"start", "services", "ranges", "memory", "hobs", "done", "over"}
  /\ hobType \in [Addresses -> CacheTypes \cup {None}]
  /\ VarMtrrs \in Seq(Entries) /\ dropped \in BOOLEAN

MergeInv ==
  /\ MtrrTypes
  /\ peiPc \in {"start", "services", "ranges", "memory"} =>
       hobType = [a \in Addresses |-> None] /\ dropped = FALSE
  /\ peiPc = "hobs" => Exact /\ Complete
  /\ MtrrsAreHobs

LEMMA MergeInit == PeiInit => MergeInv
<1> SUFFICES ASSUME PeiInit PROVE MergeInv
  OBVIOUS
<1>1. VarMtrrs \in Seq(Entries)
  BY DEF PeiInit, PeiLocals
<1> QED BY <1>1 DEF PeiInit, PeiLocals, MergeInv, MtrrTypes, MtrrsAreHobs

LEMMA CacheTypeType ==
  ASSUME NEW attributes PROVE CacheType(attributes) \in CacheTypes
  BY DEF CacheType, CacheTypes

(* Where the range of a HOB lies, no HOB before it did.                    *)
LEMMA MergeStep ==
  ASSUME MtrrTypes, Exact, Complete,
         NEW base \in Addresses, NEW end \in 1 .. Top, NEW type \in Cached, base < end,
         \A a \in base .. end - 1 : hobType[a] = None,
         hobType' = [a \in Addresses |-> IF a \in base .. end - 1 THEN type ELSE hobType[a]],
         MergeMemoryRange(base, end, type)
  PROVE  VarMtrrs' \in Seq(Entries) /\ dropped' \in BOOLEAN /\ Exact' /\ Complete'
<1> DEFINE meeting == {i \in DOMAIN VarMtrrs : Meets(VarMtrrs[i], base, end, type)}
<1>1. /\ VarMtrrs \in Seq(Entries) /\ dropped \in BOOLEAN
      /\ base \in Nat /\ end \in Nat /\ Top \in Nat /\ end <= Top
      /\ \A i \in DOMAIN VarMtrrs : /\ VarMtrrs[i].base \in Nat /\ VarMtrrs[i].end \in Nat
                                    /\ VarMtrrs[i].end <= Top /\ VarMtrrs[i].type \in Cached
                                    /\ VarMtrrs[i] \in Entries
  <2>1. VarMtrrs \in Seq(Entries) /\ dropped \in BOOLEAN /\ Top \in Nat
    BY PeiAssumption DEF MtrrTypes
  <2>2. base \in Nat /\ end \in Nat /\ end <= Top
    BY <2>1 DEF Addresses
  <2>3. \A i \in DOMAIN VarMtrrs : VarMtrrs[i] \in Entries
    BY <2>1
  <2>4. \A e \in Entries : /\ e.base \in Nat /\ e.end \in Nat
                          /\ e.end <= Top /\ e.type \in Cached
    BY <2>1 DEF Entries, Addresses, Cached
  <2> QED BY <2>1, <2>2, <2>3, <2>4
<1>2. type # None /\ type \in CacheTypes /\ \A i \in DOMAIN VarMtrrs : VarMtrrs[i].type # None
  BY <1>1, NoneAssumption DEF Cached, CacheTypes
(* What an entry covered, and whatever was cached, was not in the range.   *)
<1>3. \A i \in DOMAIN VarMtrrs :
        \A a \in VarMtrrs[i].base .. VarMtrrs[i].end - 1 : hobType'[a] = VarMtrrs[i].type
  <2> SUFFICES ASSUME NEW i \in DOMAIN VarMtrrs,
                      NEW a \in VarMtrrs[i].base .. VarMtrrs[i].end - 1
               PROVE  hobType'[a] = VarMtrrs[i].type
    OBVIOUS
  <2>1. hobType[a] = VarMtrrs[i].type
    BY DEF Exact
  <2>2. a \notin base .. end - 1
    BY <1>2, <2>1
  <2>3. a \in Addresses
    BY <1>1 DEF Addresses
  <2> QED BY <2>1, <2>2, <2>3
<1>4. \A a \in base .. end - 1 : a \in Addresses /\ hobType'[a] = type
  BY <1>1 DEF Addresses
<1>5. CASE meeting # {}
  <2> DEFINE m == CHOOSE i \in meeting : \A j \in meeting : i <= j
             e == VarMtrrs[m]
  <2>1. meeting \subseteq Nat
    BY <1>1
  <2>2. m \in meeting
    BY <1>5, <2>1, Least
  <2>3. /\ VarMtrrs' = [VarMtrrs EXCEPT ![m] = Extended(@, base, end)]
        /\ dropped' = dropped
    BY <1>5 DEF MergeMemoryRange
  <2>4. /\ m \in DOMAIN VarMtrrs /\ ~(base > e.end \/ end < e.base) /\ e.type = type
        /\ e \in Entries
    BY <1>1, <2>2 DEF Meets
  <2> HIDE DEF m
  <2>5. DOMAIN VarMtrrs' = DOMAIN VarMtrrs
    BY <2>3
  <2>6. \A i \in DOMAIN VarMtrrs : i # m => VarMtrrs'[i] = VarMtrrs[i]
    BY <2>3
  <2>7. /\ VarMtrrs'[m].base = Lower(e.base, base) /\ VarMtrrs'[m].end = Higher(e.end, end)
        /\ VarMtrrs'[m].type = type /\ VarMtrrs'[m] \in Entries
    <3>1. VarMtrrs'[m] = [e EXCEPT !.base = Lower(@, base), !.end = Higher(@, end)]
      BY <1>1, <2>3, <2>4 DEF Extended
    <3>2. Lower(e.base, base) \in Addresses /\ Higher(e.end, end) \in 1 .. Top
      BY <2>4 DEF Lower, Higher, Entries
    <3> QED BY <2>4, <3>1, <3>2 DEF Entries
  <2>8. VarMtrrs' \in Seq(Entries)
    <3>1. VarMtrrs' = [VarMtrrs EXCEPT ![m] = VarMtrrs'[m]]
      BY <1>1, <2>3, <2>4
    <3> DEFINE x == VarMtrrs'[m]
    <3>2. x \in Entries /\ m \in 1 .. Len(VarMtrrs)
      BY <1>1, <2>4, <2>7
    <3> HIDE DEF x
    <3>3. [VarMtrrs EXCEPT ![m] = x] \in Seq(Entries)
      BY <1>1, <3>2
    <3> QED BY <3>1, <3>3 DEF x
  (* The two ranges meet, so that the entry covers one or the other.       *)
  <2>9. \A a \in Nat :
          a \in VarMtrrs'[m].base .. VarMtrrs'[m].end - 1
            <=> a \in e.base .. e.end - 1 \/ a \in base .. end - 1
    <3>1. e.base \in Nat /\ e.end \in Nat /\ ~(base > e.end) /\ ~(end < e.base)
      BY <1>1, <2>4
    <3> QED BY <1>1, <2>7, <3>1 DEF Lower, Higher
  <2>10. Exact'
    <3> SUFFICES ASSUME NEW i \in DOMAIN VarMtrrs',
                        NEW a \in VarMtrrs'[i].base .. VarMtrrs'[i].end - 1
                 PROVE  hobType'[a] = VarMtrrs'[i].type
      BY DEF Exact
    <3>1. CASE i = m
      <4>1. VarMtrrs'[m].base \in Nat /\ VarMtrrs'[m].end \in Nat
        BY <2>7, PeiAssumption DEF Entries, Addresses
      <4>2. a \in Nat
        BY <3>1, <4>1
      <4> QED BY <1>3, <1>4, <2>4, <2>7, <2>9, <3>1, <4>2
    <3>2. CASE i # m
      BY <1>3, <2>5, <2>6, <3>2
    <3> QED BY <3>1, <3>2
  <2>11. Complete'
    <3> SUFFICES ASSUME ~dropped, NEW a \in Addresses, hobType'[a] \in Cached
                 PROVE  \E i \in DOMAIN VarMtrrs' : a \in VarMtrrs'[i].base .. VarMtrrs'[i].end - 1
      BY <2>3 DEF Complete, Covering
    <3>1. a \in Nat
      BY DEF Addresses
    <3>2. CASE a \in base .. end - 1
      BY <2>4, <2>5, <2>9, <3>1, <3>2
    <3>3. CASE a \notin base .. end - 1
      <4>1. hobType[a] \in Cached
        BY <3>3
      <4>2. PICK i \in DOMAIN VarMtrrs : a \in VarMtrrs[i].base .. VarMtrrs[i].end - 1
        BY <4>1 DEF Complete, Covering
      <4> QED BY <2>5, <2>6, <2>9, <3>1, <4>2
    <3> QED BY <3>2, <3>3
  <2> QED BY <1>1, <2>3, <2>8, <2>10, <2>11
<1>6. CASE meeting = {} /\ Len(VarMtrrs) < MAX_MTRR_NUMBER
  <2> DEFINE e == [base |-> base, end |-> end, type |-> type]
  <2>1. VarMtrrs' = Append(VarMtrrs, e) /\ dropped' = dropped
    BY <1>1, <1>6, PeiAssumption DEF MergeMemoryRange
  <2>2. e \in Entries
    BY DEF Entries, Cached
  <2>3. /\ VarMtrrs' \in Seq(Entries) /\ DOMAIN VarMtrrs' = DOMAIN VarMtrrs \cup {Len(VarMtrrs) + 1}
        /\ \A i \in DOMAIN VarMtrrs : VarMtrrs'[i] = VarMtrrs[i]
        /\ VarMtrrs'[Len(VarMtrrs) + 1] = e
    BY <1>1, <2>1, <2>2
  <2>4. Exact'
    <3> SUFFICES ASSUME NEW i \in DOMAIN VarMtrrs',
                        NEW a \in VarMtrrs'[i].base .. VarMtrrs'[i].end - 1
                 PROVE  hobType'[a] = VarMtrrs'[i].type
      BY DEF Exact
    <3>1. CASE i \in DOMAIN VarMtrrs
      BY <1>3, <2>3, <3>1
    <3>2. CASE i = Len(VarMtrrs) + 1
      BY <1>4, <2>3, <3>2
    <3> QED BY <2>3, <3>1, <3>2
  <2>5. Complete'
    <3> SUFFICES ASSUME ~dropped, NEW a \in Addresses, hobType'[a] \in Cached
                 PROVE  \E i \in DOMAIN VarMtrrs' : a \in VarMtrrs'[i].base .. VarMtrrs'[i].end - 1
      BY <2>1 DEF Complete, Covering
    <3>1. CASE a \in base .. end - 1
      BY <2>3, <3>1
    <3>2. CASE a \notin base .. end - 1
      <4>1. hobType[a] \in Cached
        BY <3>2
      <4>2. PICK i \in DOMAIN VarMtrrs : a \in VarMtrrs[i].base .. VarMtrrs[i].end - 1
        BY <4>1 DEF Complete, Covering
      <4> QED BY <2>3, <4>2
    <3> QED BY <3>1, <3>2
  <2> QED BY <1>1, <2>1, <2>3, <2>4, <2>5
<1>7. CASE meeting = {} /\ ~(Len(VarMtrrs) < MAX_MTRR_NUMBER)
  <2>1. VarMtrrs' = VarMtrrs /\ dropped' = TRUE
    BY <1>7 DEF MergeMemoryRange
  <2> QED BY <1>1, <1>3, <2>1 DEF Exact, Complete
<1> QED BY <1>5, <1>6, <1>7

(* An uncached range needs no entry.                                       *)
LEMMA UncachedStep ==
  ASSUME MtrrTypes, Exact, Complete,
         NEW base \in Addresses, NEW end \in 1 .. Top,
         \A a \in base .. end - 1 : hobType[a] = None,
         hobType' = [a \in Addresses |-> IF a \in base .. end - 1 THEN "UC" ELSE hobType[a]],
         UNCHANGED <<VarMtrrs, dropped>>
  PROVE  Exact' /\ Complete'
<1>1. /\ VarMtrrs \in Seq(Entries) /\ Top \in Nat
      /\ \A i \in DOMAIN VarMtrrs : VarMtrrs[i] \in Entries
  BY PeiAssumption DEF MtrrTypes
<1>2. ASSUME NEW i \in DOMAIN VarMtrrs, NEW a \in VarMtrrs[i].base .. VarMtrrs[i].end - 1
      PROVE  hobType'[a] = VarMtrrs[i].type
  <2>1. hobType[a] = VarMtrrs[i].type /\ VarMtrrs[i].type # None
    BY <1>1, NoneAssumption DEF Exact, Entries, CacheTypes
  <2>2. a \in Addresses /\ a \notin base .. end - 1
    <3>1. VarMtrrs[i].base \in Nat /\ VarMtrrs[i].end \in Nat /\ VarMtrrs[i].end <= Top
      BY <1>1 DEF Entries, Addresses
    <3> QED BY <1>1, <2>1, <3>1 DEF Addresses
  <2> QED BY <2>1, <2>2
<1>3. Exact'
  BY <1>2 DEF Exact
<1>4. \A a \in Addresses : hobType'[a] \in Cached => hobType[a] \in Cached
  BY DEF Cached
<1> QED BY <1>3, <1>4 DEF Complete, Covering

LEMMA HobStep == ASSUME MergeInv, NextHob PROVE MergeInv'
<1>1. PICK base \in Addresses, end \in 1 .. Top, attributes \in Attributes :
        LET type == CacheType(attributes) IN
        /\ base < end
        /\ \A a \in base .. end - 1 : hobType[a] = None
        /\ hobType' = [a \in Addresses |-> IF a \in base .. end - 1 THEN type ELSE hobType[a]]
        /\ IF type \in {"WP", "WB", "WC"} THEN MergeMemoryRange(base, end, type)
           ELSE UNCHANGED <<VarMtrrs, dropped>>
  BY DEF NextHob
<1> DEFINE type == CacheType(attributes)
<1>2. type \in CacheTypes
  BY CacheTypeType
<1> HIDE DEF type
<1>3. /\ base < end
      /\ \A a \in base .. end - 1 : hobType[a] = None
      /\ hobType' = [a \in Addresses |-> IF a \in base .. end - 1 THEN type ELSE hobType[a]]
  BY <1>1 DEF type
<1>4. IF type \in Cached THEN MergeMemoryRange(base, end, type) ELSE UNCHANGED <<VarMtrrs, dropped>>
  BY <1>1 DEF type, Cached
<1>5. /\ peiPc = "hobs" /\ peiPc' = "hobs" /\ MtrrTypes /\ Exact /\ Complete
  BY DEF NextHob, MergeInv
<1>6. VarMtrrs' \in Seq(Entries) /\ dropped' \in BOOLEAN /\ Exact' /\ Complete'
  <2>1. CASE type \in Cached
    BY <1>3, <1>4, <1>5, <2>1, MergeStep
  <2>2. CASE type \notin Cached
    <3>1. type = "UC" /\ UNCHANGED <<VarMtrrs, dropped>>
      BY <1>2, <1>4, <2>2 DEF Cached, CacheTypes
    <3>2. VarMtrrs \in Seq(Entries) /\ dropped \in BOOLEAN
      BY <1>5 DEF MtrrTypes
    <3> QED BY <1>3, <1>5, <3>1, <3>2, UncachedStep
  <2> QED BY <2>1, <2>2
<1>7. hobType' \in [Addresses -> CacheTypes \cup {None}]
  BY <1>2, <1>3, <1>5 DEF MtrrTypes
<1> QED BY <1>5, <1>6, <1>7 DEF MergeInv, MtrrTypes, MtrrsAreHobs

LEMMA SetStep == ASSUME MergeInv, SetMtrrs PROVE MergeInv'
<1>1. /\ peiPc = "hobs" /\ peiPc' = "done" /\ UNCHANGED <<hobType, VarMtrrs, dropped>>
      /\ cacheType' = [a \in Addresses |->
           IF Covering(a) = {} THEN "UC"
           ELSE VarMtrrs[CHOOSE i \in Covering(a) : \A j \in Covering(a) : i >= j].type]
  BY DEF SetMtrrs
<1>2. MtrrTypes /\ Exact /\ Complete
  BY <1>1 DEF MergeInv
<1>3. MtrrTypes'
  BY <1>1, <1>2 DEF MtrrTypes
<1>4. ASSUME NEW a \in Addresses
      PROVE  \/ cacheType'[a] = hobType[a]
             \/ cacheType'[a] = "UC" /\ (hobType[a] = None \/ dropped)
  <2>1. CASE Covering(a) = {}
    <3>1. dropped \/ hobType[a] \notin Cached
      BY <1>2, <2>1 DEF Complete
    <3>2. hobType[a] \in CacheTypes \cup {None}
      BY <1>2 DEF MtrrTypes
    <3> QED BY <1>1, <2>1, <3>1, <3>2 DEF Cached, CacheTypes
  <2>2. CASE Covering(a) # {}
    <3>1. Covering(a) \subseteq 1 .. Len(VarMtrrs) /\ Len(VarMtrrs) \in Nat
      BY <1>2 DEF Covering, MtrrTypes
    <3> DEFINE m == CHOOSE i \in Covering(a) : \A j \in Covering(a) : i >= j
    <3>2. m \in Covering(a)
      BY <2>2, <3>1, Greatest
    <3>3. cacheType'[a] = VarMtrrs[m].type
      BY <1>1, <2>2
    <3> HIDE DEF m
    <3>4. hobType[a] = VarMtrrs[m].type
      BY <1>2, <3>2 DEF Covering, Exact
    <3> QED BY <3>3, <3>4
  <2> QED BY <2>1, <2>2
<1>5. MtrrsAreHobs'
  BY <1>1, <1>4 DEF MtrrsAreHobs
<1> QED BY <1>1, <1>3, <1>5 DEF MergeInv

LEMMA MergeNext == ASSUME MergeInv, PeiNext \/ UNCHANGED <<peiPc, mtrrVars>> PROVE MergeInv'
<1>1. CASE PlatformEntryPoint \/ PeiChooseRanges \/ PeiBaseMemoryTest
  <2>1. /\ peiPc \in {"start", "services", "ranges"} /\ peiPc' \in {"services", "ranges", "memory"}
        /\ UNCHANGED <<hobType, VarMtrrs, dropped, cacheType>>
    BY <1>1 DEF PlatformEntryPoint, PeiChooseRanges, PeiBaseMemoryTest, mtrrVars
  <2> QED BY <2>1 DEF MergeInv, MtrrTypes, MtrrsAreHobs
<1>2. CASE ExitCarMode
  <2>1. /\ peiPc = "memory" /\ peiPc' = "hobs" /\ VarMtrrs' = <<>>
        /\ hobType' = hobType /\ dropped' = dropped
    BY <1>2 DEF ExitCarMode
  <2>2. hobType = [a \in Addresses |-> None] /\ dropped = FALSE /\ MtrrTypes
    BY <2>1 DEF MergeInv
  <2>3. MtrrTypes'
    <3>1. VarMtrrs' \in Seq(Entries)
      BY <2>1
    <3> QED BY <2>1, <2>2, <3>1 DEF MtrrTypes
  <2>4. Exact'
    BY <2>1 DEF Exact
  <2>5. Complete'
    BY <2>1, <2>2, NoneAssumption DEF Complete, Cached, CacheTypes
  <2> QED BY <2>1, <2>3, <2>4, <2>5 DEF MergeInv, MtrrsAreHobs
<1>3. CASE PeiOver
  <2>1. /\ peiPc' = "over" /\ VarMtrrs' = <<>> /\ dropped' = FALSE
        /\ hobType' = [a \in Addresses |-> None]
    BY <1>3 DEF PeiOver
  <2>2. VarMtrrs' \in Seq(Entries)
    BY <2>1
  <2> QED BY <2>1, <2>2 DEF MergeInv, MtrrTypes, MtrrsAreHobs
<1>4. CASE UNCHANGED <<peiPc, mtrrVars>>
  BY <1>4 DEF mtrrVars, MergeInv, MtrrTypes, Exact, Complete, Covering, MtrrsAreHobs
<1> QED BY <1>1, <1>2, <1>3, <1>4, HobStep, SetStep DEF PeiNext

-----------------------------------------------------------------------------
(* For every memory, every number of MTRRs and every list of HOBs an       *)
(* address gets the cache type its HOB asks for, unless the table was full.*)
THEOREM MtrrsCorrect == PeiSpec => []MtrrsAreHobs
<1>1. MergeInv /\ [PeiNext]_peiVars => MergeInv'
  <2>1. UNCHANGED peiVars => UNCHANGED <<peiPc, mtrrVars>>
    BY DEF peiVars, mtrrVars
  <2> QED BY <2>1, MergeNext
<1>2. MergeInv => MtrrsAreHobs
  BY DEF MergeInv
<1> QED BY <1>1, <1>2, MergeInit, PTL DEF PeiSpec

-----------------------------------------------------------------------------
(* The machine.                                                            *)

(* The machine does with the delays what they do alone.                    *)
LEMMA TimersStep == [Next]_vars => [TimersNext]_timerVars
BY DEF Next, Pei, Delay, PeiEnds, Dxe, Bds, LegacyBoot, OperatingSystem, ChangesVariables,
       BootAgain, vars

LEMMA PeiStep == [Next]_vars => PeiNext \/ UNCHANGED <<peiPc, mtrrVars>>
BY DEF Next, Pei, Delay, PeiEnds, Dxe, Bds, LegacyBoot, OperatingSystem, ChangesVariables,
       BootAgain, vars, peiVars, mtrrVars

(* On every boot of the machine no delay of PEI ends early.                *)
THEOREM PostDelayCorrect == Spec => []DelayLasts
<1>1. Spec => TimersSpec
  BY TimersStep, PTL DEF Spec, Init, TimersSpec
<1> QED BY <1>1, DelayCorrect, PTL

(* On every boot of the machine the MTRRs are what the HOBs ask for.       *)
THEOREM PostMtrrsCorrect == Spec => []MtrrsAreHobs
<1>1. Init => MergeInv
  BY MergeInit DEF Init
<1>2. MergeInv /\ [Next]_vars => MergeInv'
  BY PeiStep, MergeNext
<1>3. MergeInv => MtrrsAreHobs
  BY DEF MergeInv
<1> QED BY <1>1, <1>2, <1>3, PTL DEF Spec

-----------------------------------------------------------------------------
(* The phases of a boot, and what each finds of the one before it.         *)

PhaseInv ==
  /\ phase \in {"PEI", "DXE", "BDS", "OS"}
  /\ phase # "PEI" => peiPc = "over"
  /\ delay # "none" => phase = "PEI" /\ peiPc = "services"
  /\ peiPc # "start" =>
       /\ bootMode \in {"S3 resume", "full configuration"}
       /\ irqRoute = IrqRouteTable /\ pirqRout = PirqRoute
  /\ phase \in {"DXE", "BDS"} => bootMode = "full configuration"
  /\ phase = "BDS" => rom # None
  /\ bdsPc # "init" => phase = "BDS"
  /\ bdsPc \in {"init", "policy"} => connected = "none" /\ enabled = {}
  /\ bdsPc # "visit" => visited = 0

(* The last register TestS4 looks at has a bit that reads zero.            *)
LEMMA BootModes ==
  ASSUME NEW s \in PowerStates, SetBootMode(s)
  PROVE  bootMode' \in {"S3 resume", "full configuration"}
<1>1. s.PM1_STS \subseteq {11, 15}
  BY DEF PowerStates
<1>2. 12 \notin s.PM1_STS
  BY <1>1
<1>3. ~TestS4(s)
  BY <1>2 DEF TestS4
<1> QED
  BY <1>3 DEF SetBootMode

LEMMA PhaseInit == Init => PhaseInv
BY DEF Init, PhaseInv, TimersRest, PeiInit, BdsInit, BdsLocals

LEMMA PeiPhase ==
  ASSUME PhaseInv, Pei
  PROVE  PhaseInv'
<1>1. /\ phase = "PEI" /\ delay = "none" /\ phase' = phase /\ delay' = delay
      /\ UNCHANGED <<rom, bdsPc, connected, enabled, visited>>
  BY DEF Pei, timerVars, legacyVars, bdsVars
<1>2. CASE PlatformEntryPoint
  <2>1. bootMode' \in {"S3 resume", "full configuration"}
    BY <1>2, BootModes DEF PlatformEntryPoint
  <2>2. irqRoute' = IrqRouteTable /\ pirqRout' = PirqRoute
    BY <1>2 DEF PlatformEntryPoint, WriteRoutes
  <2> QED  BY <1>1, <2>1, <2>2 DEF PhaseInv
<1>3. CASE PeiChooseRanges \/ PeiBaseMemoryTest \/ ExitCarMode \/ NextHob \/ SetMtrrs \/ PeiOver
  <2>1. peiPc # "start" /\ UNCHANGED <<bootMode, irqRoute, pirqRout>>
    BY <1>3 DEF PeiChooseRanges, PeiBaseMemoryTest, ExitCarMode, NextHob, SetMtrrs, PeiOver
  <2> QED  BY <1>1, <2>1 DEF PhaseInv
<1> QED
  BY <1>2, <1>3 DEF Pei, PeiNext

(* What every action of BDS leaves alone, and how it goes on.              *)
LEMMA BdsPhase ==
  ASSUME PhaseInv, Bds
  PROVE  PhaseInv' /\ bdsPc # "done" /\ bdsPc' # "init" /\ UNCHANGED <<phase, peiVars, rom>>
<1>1. phase = "BDS" /\ phase' = "BDS" /\ UNCHANGED <<timerVars, peiVars>> /\ BdsNext
  BY DEF Bds
<1>2. CASE ConnectRootBridge
  <2>1. /\ bdsPc = "policy" /\ bdsPc' = "VGA" /\ UNCHANGED <<rom, visited>>
    BY <1>2 DEF ConnectRootBridge
  <2> QED  BY <1>1, <2>1 DEF PhaseInv, timerVars, peiVars
<1>3. CASE PlatformBdsInit /\ UNCHANGED <<legacyVars, romVars>>
  <2>1. bdsPc = "init" /\ bdsPc' = "policy" /\ UNCHANGED <<rom, visited, connected, enabled>>
    BY <1>3 DEF PlatformBdsInit, legacyVars
  <2> QED  BY <1>1, <2>1 DEF PhaseInv, timerVars, peiVars
<1>4. CASE /\ ConnectVga \/ PlatformBdsConnectConsole \/ ConnectAllDefaultConsoles
              \/ ConnectAllAndEnumerate
           /\ UNCHANGED <<legacyVars, romVars>>
  <2>1. /\ bdsPc \in {"VGA", "consoles", "visit", "connected"}
        /\ bdsPc' \in {"shadow", "visit", "connected", "done"}
        /\ visited' = 0 \/ (bdsPc # "visit" /\ visited' = visited)
        /\ rom' = rom
    <3>1. rom' = rom
      BY <1>4 DEF legacyVars
    <3>2. CASE ConnectVga
      BY <3>1, <3>2 DEF ConnectVga
    <3>3. CASE PlatformBdsConnectConsole
      BY <3>1, <3>3 DEF PlatformBdsConnectConsole
    <3>4. CASE ConnectAllDefaultConsoles
      BY <3>1, <3>4 DEF ConnectAllDefaultConsoles
    <3>5. CASE ConnectAllAndEnumerate
      BY <3>1, <3>5 DEF ConnectAllAndEnumerate
    <3> QED  BY <1>4, <3>2, <3>3, <3>4, <3>5
  <2> QED  BY <1>1, <2>1 DEF PhaseInv, timerVars, peiVars
<1>5. CASE VisitingAPciInstance /\ UNCHANGED <<legacyVars, romVars>>
  <2>1. bdsPc = "visit" /\ bdsPc' = "visit" /\ rom' = rom
    BY <1>5 DEF VisitingAPciInstance, legacyVars
  <2> QED  BY <1>1, <2>1 DEF PhaseInv, timerVars, peiVars
<1>6. CASE ShadowAllLegacyOproms
  <2>1. bdsPc = "shadow" /\ bdsPc' = "consoles" /\ UNCHANGED <<rom, visited>>
    BY <1>6 DEF ShadowAllLegacyOproms, PlatformHooks
  <2> QED  BY <1>1, <2>1 DEF PhaseInv, timerVars, peiVars
<1> QED
  BY <1>1, <1>2, <1>3, <1>4, <1>5, <1>6 DEF BdsNext

(* The steps between the phases.                                           *)
Between == PeiEnds \/ Dxe \/ LegacyBoot \/ OperatingSystem \/ ChangesVariables \/ BootAgain

LEMMA BetweenPhase ==
  ASSUME PhaseInv, Between
  PROVE  PhaseInv'
<1>1. CASE PeiEnds
  <2>1. /\ phase = "PEI" /\ peiPc = "over" /\ UNCHANGED <<timerVars, peiVars, legacyVars, bdsVars>>
        /\ phase' = IF bootMode = "S3 resume" THEN "OS" ELSE "DXE"
    BY <1>1 DEF PeiEnds
  <2> QED  BY <2>1 DEF PhaseInv, timerVars, peiVars, legacyVars, bdsVars
<1>2. CASE Dxe
  <2>1. /\ phase = "DXE" /\ phase' = "BDS" /\ UNCHANGED <<timerVars, peiVars, bdsVars>>
        /\ rom' # None
    BY <1>2 DEF Dxe, GetPlatformInfo, LoadRom
  <2> QED  BY <2>1 DEF PhaseInv, timerVars, peiVars, bdsVars
<1>3. CASE LegacyBoot
  <2>1. /\ phase = "BDS" /\ phase' = "BDS" /\ UNCHANGED <<timerVars, peiVars, bdsVars, rom>>
    BY <1>3 DEF LegacyBoot, ProgramInterruptLines, GetRoutingTable
  <2> QED  BY <2>1 DEF PhaseInv, timerVars, peiVars, bdsVars
<1>4. CASE OperatingSystem
  <2>1. /\ phase = "BDS" /\ phase' = "OS" /\ UNCHANGED <<timerVars, peiVars>>
        /\ bdsPc' = "init" /\ connected' = "none" /\ enabled' = {} /\ visited' = 0
    BY <1>4 DEF OperatingSystem, BdsOver
  <2> QED  BY <2>1 DEF PhaseInv, timerVars, peiVars
<1>5. CASE ChangesVariables
  <2>1. /\ phase = "OS" /\ UNCHANGED <<phase, timerVars, peiVars, legacyVars>>
        /\ UNCHANGED <<bdsPc, connected, enabled, visited>>
    BY <1>5 DEF ChangesVariables, ChangeVariables
  <2> QED  BY <2>1 DEF PhaseInv, timerVars, peiVars, legacyVars
<1>6. CASE BootAgain
  <2>1. /\ phase = "OS" /\ phase' = "DXE" /\ bootMode' = "full configuration"
        /\ UNCHANGED <<peiPc, irqRoute, pirqRout, timerVars, legacyVars, bdsVars>>
    BY <1>6 DEF BootAgain
  <2> QED  BY <2>1 DEF PhaseInv, timerVars, legacyVars, bdsVars
<1> QED
  BY <1>1, <1>2, <1>3, <1>4, <1>5, <1>6 DEF Between

LEMMA PhaseStep == PhaseInv /\ [Next]_vars => PhaseInv'
<1> SUFFICES ASSUME PhaseInv, [Next]_vars  PROVE PhaseInv'
  OBVIOUS
<1>1. CASE Delay
  <2>1. phase = "PEI" /\ peiPc = "services" /\ UNCHANGED <<phase, peiVars, legacyVars, bdsVars>>
    BY <1>1 DEF Delay
  <2> QED  BY <2>1 DEF PhaseInv, peiVars, legacyVars, bdsVars
<1>2. CASE UNCHANGED vars
  BY <1>2 DEF vars, PhaseInv, timerVars, peiVars, legacyVars, bdsVars
<1> QED
  BY <1>1, <1>2, PeiPhase, BdsPhase, BetweenPhase DEF Next, Between

-----------------------------------------------------------------------------
(* The first of some, and the devices of a sequence of functions.          *)

LEMMA FirstOfIs ==
  ASSUME NEW D, NEW s \in Seq(D), NEW T, \E i \in DOMAIN s : s[i] \in T
  PROVE  FirstOf(s, T) \in T /\ \E i \in DOMAIN s : FirstOf(s, T) = s[i]
<1> DEFINE S == {i \in DOMAIN s : s[i] \in T}
<1>1. S \subseteq Nat /\ S # {}
  OBVIOUS
<1>2. \E i \in S : \A j \in S : i <= j
  BY <1>1, Least
<1>3. \E i \in DOMAIN s : s[i] \in T /\ \A j \in DOMAIN s : s[j] \in T => i <= j
  BY <1>2
<1> DEFINE m == CHOOSE i \in DOMAIN s : s[i] \in T /\ \A j \in DOMAIN s : s[j] \in T => i <= j
<1>4. m \in DOMAIN s /\ s[m] \in T
  BY <1>3
<1>5. FirstOf(s, T) = s[m]
  BY DEF FirstOf
<1> HIDE DEF m
<1> QED
  BY <1>4, <1>5

LEMMA AllNumbers ==
  ASSUME NEW S, 0 \in S, \A n \in Nat : n \in S => n + 1 \in S
  PROVE  Nat \subseteq S
<1> SUFFICES ASSUME Nat \ S # {}  PROVE FALSE
  OBVIOUS
<1>1. PICK n \in Nat \ S : \A m \in Nat \ S : n <= m
  BY Least
<1>2. n - 1 \in Nat /\ (n - 1) + 1 = n /\ n - 1 < n
  OBVIOUS
<1> QED
  BY <1>1, <1>2

(* One step of the loop over the functions, and the loop up to the n-th.   *)
WithDevice(devices, f) ==
  IF \E i \in DOMAIN devices : SameDevice(devices[i], f) THEN devices ELSE Append(devices, f)
IsLoop(f, n, s) ==
  f = [k \in 0 .. n |->
        IF k = 0 THEN << >>
        ELSE IF \E i \in DOMAIN f[k - 1] : SameDevice(f[k - 1][i], s[k])
             THEN f[k - 1] ELSE Append(f[k - 1], s[k])]

LEMMA LoopExists ==
  ASSUME NEW s, NEW n \in Nat
  PROVE  \E f : IsLoop(f, n, s)
<1> DEFINE S == {m \in Nat : \E f : IsLoop(f, m, s)}
<1>1. 0 \in S
  <2> DEFINE f == [k \in 0 .. 0 |-> << >>]
  <2>1. IsLoop(f, 0, s)
    BY DEF IsLoop
  <2> QED  BY <2>1
<1>2. ASSUME NEW m \in Nat, m \in S
      PROVE  m + 1 \in S
  <2>1. PICK f : IsLoop(f, m, s)
    BY <1>2
  <2> DEFINE g == [k \in 0 .. m + 1 |-> IF k <= m THEN f[k] ELSE WithDevice(f[m], s[m + 1])]
  <2>2. ASSUME NEW k \in 0 .. m + 1
        PROVE  g[k] = IF k = 0 THEN << >> ELSE WithDevice(g[k - 1], s[k])
    <3>1. CASE k = 0
      <4>1. g[k] = f[0] /\ 0 \in 0 .. m
        BY <3>1
      <4>2. f[0] = << >>
        BY <2>1, <4>1 DEF IsLoop
      <4> QED  BY <3>1, <4>1, <4>2
    <3>2. CASE k # 0 /\ k <= m
      <4>1. k - 1 \in 0 .. m + 1 /\ k - 1 <= m /\ k \in 0 .. m
        BY <3>2
      <4>2. g[k] = f[k] /\ g[k - 1] = f[k - 1]
        BY <3>2, <4>1
      <4>3. f[k] = WithDevice(f[k - 1], s[k])
        BY <2>1, <3>2, <4>1 DEF IsLoop, WithDevice
      <4> QED  BY <3>2, <4>2, <4>3
    <3>3. CASE k = m + 1
      <4>1. k # 0 /\ k - 1 = m /\ m \in 0 .. m + 1 /\ ~(k <= m)
        BY <3>3
      <4>2. g[k] = WithDevice(f[m], s[m + 1]) /\ g[k - 1] = f[m]
        BY <3>3, <4>1
      <4> QED  BY <3>3, <4>1, <4>2
    <3> QED  BY <3>1, <3>2, <3>3
  <2>3. g = [k \in 0 .. m + 1 |-> g[k]]
    OBVIOUS
  <2> HIDE DEF g
  <2>4. g = [k \in 0 .. m + 1 |-> IF k = 0 THEN << >> ELSE WithDevice(g[k - 1], s[k])]
    BY <2>2, <2>3
  <2>5. IsLoop(g, m + 1, s)
    BY <2>4 DEF IsLoop, WithDevice
  <2> QED  BY <2>5
<1> HIDE DEF S
<1>3. Nat \subseteq S
  BY <1>1, <1>2, AllNumbers
<1> QED
  BY <1>3 DEF S

(* Each device of the first n functions once, by one of its functions.     *)
IsDevices(r, n, s, D) ==
  /\ r \in Seq(D)
  /\ \A i \in DOMAIN r : \E k \in 1 .. n : r[i] = s[k]
  /\ \A k \in 1 .. n : \E i \in DOMAIN r : SameDevice(r[i], s[k])
  /\ \A i, j \in DOMAIN r : SameDevice(r[i], r[j]) => i = j

LEMMA WithDeviceIs ==
  ASSUME NEW D, NEW s \in Seq(D), NEW n \in Nat, n < Len(s), NEW r, IsDevices(r, n, s, D)
  PROVE  IsDevices(WithDevice(r, s[n + 1]), n + 1, s, D)
<1> DEFINE f == s[n + 1]
<1>1. f \in D /\ n + 1 \in 1 .. n + 1 /\ 1 .. n \subseteq 1 .. n + 1
      /\ \A k \in 1 .. n + 1 : k \in 1 .. n \/ k = n + 1
  OBVIOUS
<1>2. r \in Seq(D) /\ Len(r) \in Nat /\ DOMAIN r = 1 .. Len(r)
  BY DEF IsDevices
<1> HIDE DEF f
<1>3. CASE \E i \in DOMAIN r : SameDevice(r[i], f)
  <2>1. WithDevice(r, f) = r
    BY <1>3 DEF WithDevice
  <2>2. \A k \in 1 .. n + 1 : \E i \in DOMAIN r : SameDevice(r[i], s[k])
    BY <1>1, <1>3 DEF IsDevices, f
  <2> QED  BY <1>1, <2>1, <2>2 DEF IsDevices, f
<1>4. CASE ~\E i \in DOMAIN r : SameDevice(r[i], f)
  <2> DEFINE t == Append(r, f)
  <2>1. t \in Seq(D) /\ DOMAIN t = 1 .. Len(r) + 1
        /\ t[Len(r) + 1] = f /\ \A i \in 1 .. Len(r) : t[i] = r[i]
    BY <1>1, <1>2
  <2>2. WithDevice(r, f) = t
    BY <1>4 DEF WithDevice
  <2> HIDE DEF t
  <2>3. \A i \in DOMAIN t : i \in DOMAIN r \/ i = Len(r) + 1
    BY <1>2, <2>1
  <2>4. Len(r) + 1 \in DOMAIN t /\ \A i \in DOMAIN r : i \in DOMAIN t /\ t[i] = r[i]
    BY <1>2, <2>1
  <2>5. ASSUME NEW i \in DOMAIN t  PROVE \E k \in 1 .. n + 1 : t[i] = s[k]
    <3>1. CASE i \in DOMAIN r
      BY <1>1, <2>4, <3>1 DEF IsDevices
    <3>2. CASE i = Len(r) + 1
      BY <1>1, <2>1, <3>2 DEF f
    <3> QED  BY <2>3, <3>1, <3>2
  <2>6. SameDevice(f, f)
    BY DEF SameDevice
  <2>7. \A k \in 1 .. n + 1 : \E i \in DOMAIN t : SameDevice(t[i], s[k])
    BY <1>1, <2>1, <2>4, <2>6 DEF IsDevices, f
  <2>8. \A i \in DOMAIN r : ~SameDevice(r[i], f) /\ ~SameDevice(f, r[i])
    BY <1>4 DEF SameDevice
  <2>9. \A i, j \in DOMAIN t : SameDevice(t[i], t[j]) => i = j
    BY <2>1, <2>3, <2>4, <2>8 DEF IsDevices
  <2> QED  BY <2>1, <2>2, <2>5, <2>7, <2>9 DEF IsDevices, f
<1> QED
  BY <1>3, <1>4 DEF f

LEMMA DevicesAre ==
  ASSUME NEW D, NEW s \in Seq(D)
  PROVE  IsDevices(Devices(s), Len(s), s, D)
<1> DEFINE f == CHOOSE g : IsLoop(g, Len(s), s)
<1>1. Len(s) \in Nat
  OBVIOUS
<1>2. IsLoop(f, Len(s), s)
  BY <1>1, LoopExists
<1>3. Devices(s) = f[Len(s)]
  BY DEF Devices, IsLoop
<1> HIDE DEF f
<1> DEFINE S == {n \in Nat : n <= Len(s) => IsDevices(f[n], n, s, D)}
<1>4. 0 \in S
  <2>1. f[0] = << >>
    BY <1>1, <1>2 DEF IsLoop
  <2>2. f[0] \in Seq(D) /\ DOMAIN f[0] = {} /\ 1 .. 0 = {}
    BY <2>1
  <2>3. IsDevices(f[0], 0, s, D)
    BY <2>2 DEF IsDevices
  <2> QED  BY <2>3
<1>5. ASSUME NEW n \in Nat, n \in S
      PROVE  n + 1 \in S
  <2> SUFFICES ASSUME n + 1 <= Len(s)  PROVE IsDevices(f[n + 1], n + 1, s, D)
    OBVIOUS
  <2>1. n < Len(s) /\ n + 1 \in 0 .. Len(s) /\ n + 1 # 0 /\ (n + 1) - 1 = n
    BY <1>1
  <2>2. f[n + 1] = WithDevice(f[n], s[n + 1])
    BY <1>2, <2>1 DEF IsLoop, WithDevice
  <2>3. IsDevices(f[n], n, s, D)
    BY <1>1, <1>5, <2>1
  <2> QED  BY <2>1, <2>2, <2>3, WithDeviceIs
<1> HIDE DEF S
<1>6. Nat \subseteq S
  BY <1>4, <1>5, AllNumbers
<1> QED
  BY <1>1, <1>3, <1>6 DEF S

-----------------------------------------------------------------------------
(* The interrupt routes.                                                   *)

(* What ProgramInterruptLines writes for f.                                *)
LineOf(f) ==
  IF f.pin # 0 /\ TranslatePirq(f, f.pin - 1).status = "SUCCESS"
  THEN TranslatePirq(f, f.pin - 1).irq ELSE None

RoutesInv ==
  /\ handles \in Seq(PciFunction)
  /\ pir # None \/ interruptLine # None => bdsPc = "done"
  /\ pir # None => pir.entries = RoutingTable
  /\ interruptLine # None => interruptLine = [f \in Functions |-> LineOf(f)]

LEMMA RoutesInit == Init => RoutesInv
<1>1. << >> \in Seq(PciFunction)
  OBVIOUS
<1> QED
  BY <1>1 DEF Init, LegacyReset, RoutesInv

(* A step that leaves the functions and the routing registers alone.       *)
LEMMA RoutesSame ==
  ASSUME RoutesInv, UNCHANGED <<handles, irqRoute, pir, interruptLine, bdsPc>>
  PROVE  RoutesInv'
<1>1. RoutingTable' = RoutingTable
  BY DEF RoutingTable, IrqRoutingEntry
<1>2. [f \in Functions |-> LineOf(f)]' = [f \in Functions |-> LineOf(f)]
  BY DEF Functions, LineOf, TranslatePirq, PirqOf
<1> QED
  BY <1>1, <1>2 DEF RoutesInv

(* Nor do the tables mean anything before there are any.                   *)
LEMMA RoutesNone ==
  ASSUME handles' \in Seq(PciFunction), pir' = None, interruptLine' = None
  PROVE  RoutesInv'
BY DEF RoutesInv

LEMMA TablesMissing ==
  ASSUME RoutesInv, bdsPc # "done"
  PROVE  pir = None /\ interruptLine = None /\ handles \in Seq(PciFunction)
BY DEF RoutesInv

LEMMA BdsRoutes ==
  ASSUME PhaseInv, RoutesInv, Bds
  PROVE  RoutesInv'
<1>1. bdsPc # "done" /\ pir = None /\ interruptLine = None /\ handles \in Seq(PciFunction)
  BY BdsPhase, TablesMissing
<1>2. BdsNext
  BY DEF Bds
<1>3. CASE ConnectRootBridge
  <2>1. pir' = pir /\ interruptLine' = interruptLine /\ handles' \in Machines
    BY <1>3 DEF ConnectRootBridge, EnumeratePciBus
  <2> QED  BY <1>1, <2>1, MachinesAssumption, RoutesNone
<1>4. CASE ShadowAllLegacyOproms \/ UNCHANGED legacyVars
  <2>1. UNCHANGED <<handles, pir, interruptLine>>
    BY <1>4 DEF ShadowAllLegacyOproms, PlatformHooks, legacyVars
  <2> QED  BY <1>1, <2>1, RoutesNone
<1> QED
  BY <1>2, <1>3, <1>4 DEF BdsNext

LEMMA LegacyBootRoutes ==
  ASSUME RoutesInv, LegacyBoot
  PROVE  RoutesInv'
<1>1. bdsPc = "done" /\ bdsPc' = "done" /\ UNCHANGED <<handles, irqRoute>>
  BY DEF LegacyBoot, ProgramInterruptLines, GetRoutingTable, peiVars, bdsVars
<1>2. RoutingTable' = RoutingTable
  BY <1>1 DEF RoutingTable, IrqRoutingEntry
<1>3. [f \in Functions |-> LineOf(f)]' = [f \in Functions |-> LineOf(f)]
  BY <1>1 DEF Functions, LineOf, TranslatePirq, PirqOf
<1>4. CASE ProgramInterruptLines
  <2>1. pir' = pir /\ interruptLine' = [f \in Functions |-> LineOf(f)]
    BY <1>4 DEF ProgramInterruptLines, LineOf
  <2> QED  BY <1>1, <1>2, <1>3, <2>1 DEF RoutesInv
<1>5. CASE GetRoutingTable
  <2>1. interruptLine' = interruptLine /\ pir'.entries = RoutingTable
    BY <1>5 DEF GetRoutingTable
  <2> QED  BY <1>1, <1>2, <1>3, <2>1 DEF RoutesInv
<1> QED
  BY <1>4, <1>5 DEF LegacyBoot

LEMMA RoutesStep == PhaseInv /\ RoutesInv /\ [Next]_vars => RoutesInv'
<1> SUFFICES ASSUME PhaseInv, RoutesInv, [Next]_vars  PROVE RoutesInv'
  OBVIOUS
<1>1. CASE Pei \/ Dxe
  <2>1. bdsPc # "done" /\ UNCHANGED <<handles, pir, interruptLine>>
    BY <1>1 DEF Pei, Dxe, GetPlatformInfo, PhaseInv, legacyVars
  <2> QED  BY <2>1, TablesMissing, RoutesNone
<1>2. CASE Delay \/ PeiEnds \/ UNCHANGED vars
  BY <1>2, RoutesSame DEF Delay, PeiEnds, vars, peiVars, legacyVars, bdsVars
<1>3. CASE ChangesVariables \/ BootAgain
  BY <1>3, RoutesSame DEF ChangesVariables, ChangeVariables, BootAgain, peiVars, legacyVars, bdsVars
<1>4. CASE OperatingSystem
  <2>1. handles' = << >> /\ pir' = None /\ interruptLine' = None
    BY <1>4 DEF OperatingSystem, LegacyEnds
  <2>2. << >> \in Seq(PciFunction)
    OBVIOUS
  <2> QED  BY <2>1, <2>2, RoutesNone
<1> QED
  BY <1>1, <1>2, <1>3, <1>4, BdsRoutes, LegacyBootRoutes DEF Next

(* One pin of one function.                                                *)
LEMMA PinRouted ==
  ASSUME irqRoute = IrqRouteTable, pirqRout = PirqRoute,
         NEW f \in PciFunction, f.pin # 0, NEW g, SameDevice(g, f)
  PROVE  Routed(f, IrqRoutingEntry(g), LineOf(f))
<1> DEFINE e == IrqRoutingEntry(g)  pin == f.pin
<1>0. pin \in 0 .. 4
  BY DEF PciFunction
<1>1. pin \in 1 .. 4 /\ pin - 1 \in 0 .. 3 /\ (pin - 1) + 1 = pin
  BY <1>0
<1>2. g.dev = f.dev /\ (HasRegister(g) <=> HasRegister(f))
  BY DEF SameDevice, HasRegister
<1>3. CASE HasRegister(f)
  <2> DEFINE p == irqRoute[f.dev][pin]
  <2>1. p \in Pirqs
    <3>1. f.dev \in DOMAIN IrqRouteTable
      BY <1>3, RoutesAssumption DEF HasRegister
    <3>2. IrqRouteTable[f.dev] \in [1 .. 4 -> Pirqs]
      BY <3>1, PeiAssumption
    <3> QED  BY <1>1, <3>2
  <2>2. LineOf(f) = PirqTable[p]
    <3>1. PirqOf(f, pin - 1) = p
      BY <1>1, <1>3 DEF PirqOf
    <3>2. TranslatePirq(f, pin - 1) = [status |-> "SUCCESS", irq |-> PirqTable[p]]
      BY <1>1, <1>3, <3>1 DEF TranslatePirq
    <3> QED  BY <3>2 DEF LineOf
  <2>3. PirqTable[p] # None /\ PirqTable[p] = pirqRout[p]
    <3>1. PirqTable[p] \in 0 .. 255 /\ PirqTable[p] = PirqRoute[p]
      BY <2>1, RoutesAssumption
    <3> QED  BY <3>1, NoneAssumption
  <2>4. e.pirq[pin] # 0
    <3>1. e.pirq = <<1, 2, 3, 4>>
      BY <1>2, <1>3 DEF IrqRoutingEntry
    <3> QED  BY <1>1, <3>1
  <2>5. e.mask[pin] = IrqMask(PirqTable[p])
    <3>1. e.mask = [i \in 1 .. 4 |-> IrqMask(PirqTable[irqRoute[f.dev][i]])]
      BY <1>2, <1>3 DEF IrqRoutingEntry
    <3> QED  BY <1>1, <3>1
  <2> QED  BY <2>2, <2>3, <2>4, <2>5 DEF Routed
<1>4. CASE ~HasRegister(f)
  <2>1. e.pirq = <<1, 0, 0, 0>> /\ e.mask = <<{PirqTable[0]}, {}, {}, {}>>
    BY <1>2, <1>4 DEF IrqRoutingEntry
  <2>2. PirqTable[0] \in 0 .. 255 /\ PirqTable[0] < 16
    BY RoutesAssumption
  <2>3. CASE pin = 1
    <3>1. PirqOf(f, 0) = 0
      BY <1>4 DEF PirqOf
    <3>2. TranslatePirq(f, pin - 1) = [status |-> "SUCCESS", irq |-> PirqTable[0]]
      BY <1>4, <2>3, <3>1 DEF TranslatePirq
    <3>3. LineOf(f) = PirqTable[0]
      BY <3>2 DEF LineOf
    <3>4. PirqTable[0] # None
      BY <2>2, NoneAssumption
    <3>5. IrqMask(PirqTable[0]) = {PirqTable[0]}
      BY <2>2 DEF IrqMask, Off
    <3>6. e.pirq[pin] = 1 /\ e.mask[pin] = {PirqTable[0]}
      BY <2>1, <2>3
    <3> QED  BY <1>4, <3>3, <3>4, <3>5, <3>6 DEF Routed
  <2>4. CASE pin # 1
    <3>1. TranslatePirq(f, pin - 1) = [status |-> "UNSUPPORTED", irq |-> None]
      BY <1>1, <1>4, <2>4 DEF TranslatePirq
    <3>2. LineOf(f) = None
      BY <3>1 DEF LineOf
    <3>3. e.pirq[pin] = 0
      BY <1>1, <2>1, <2>4
    <3> QED  BY <3>2, <3>3 DEF Routed
  <2> QED  BY <2>3, <2>4
<1> QED
  BY <1>3, <1>4

(* Every interrupt pin of every function has the same IRQ in the $PIR      *)
(* table, in the Interrupt Line register and in the chipset, and every     *)
(* device one entry (GetRoutingTable, TranslatePirq, PlatformEntryPoint):  *)
(* for all machines, boards whose two PIRQ tables agree, and boots.        *)
THEOREM RoutesCorrect == Spec => []RoutesAgree
<1>1. PhaseInv /\ RoutesInv => RoutesAgree
  <2> SUFFICES ASSUME PhaseInv, RoutesInv, pir # None, interruptLine # None, NEW f \in Functions
               PROVE  LET entries == {i \in DOMAIN pir.entries : SameDevice(pir.entries[i], f)} IN
                      /\ Cardinality(entries) = 1
                      /\ \A i \in entries : f.pin # 0 => Routed(f, pir.entries[i], interruptLine[f])
    BY DEF RoutesAgree
  <2> DEFINE d == Devices(handles)
             entries == {i \in DOMAIN pir.entries : SameDevice(pir.entries[i], f)}
  <2>1. handles \in Seq(PciFunction) /\ pir.entries = [i \in DOMAIN d |-> IrqRoutingEntry(d[i])]
        /\ interruptLine[f] = LineOf(f)
    BY DEF RoutesInv, RoutingTable
  <2>2. irqRoute = IrqRouteTable /\ pirqRout = PirqRoute
    BY DEF PhaseInv, RoutesInv
  <2>3. IsDevices(d, Len(handles), handles, PciFunction)
    BY <2>1, DevicesAre
  <2> HIDE DEF d
  <2>4. PICK k \in DOMAIN handles : f = handles[k]
    BY DEF Functions
  <2>5. f \in PciFunction /\ k \in 1 .. Len(handles)
    BY <2>1, <2>4
  <2>6. PICK m \in DOMAIN d : SameDevice(d[m], f)
    BY <2>3, <2>4, <2>5 DEF IsDevices
  <2>7. \A i \in DOMAIN d : SameDevice(IrqRoutingEntry(d[i]), f) <=> SameDevice(d[i], f)
    BY DEF SameDevice, IrqRoutingEntry
  <2>8. \A i \in DOMAIN d : SameDevice(d[i], f) => i = m
    <3>1. \A i \in DOMAIN d : SameDevice(d[i], f) => SameDevice(d[i], d[m])
      BY <2>6 DEF SameDevice
    <3> QED  BY <2>3, <3>1 DEF IsDevices
  <2>9. entries = {m}
    BY <2>1, <2>6, <2>7, <2>8
  <2>10. f.pin # 0 => Routed(f, pir.entries[m], interruptLine[f])
    <3>1. pir.entries[m] = IrqRoutingEntry(d[m])
      BY <2>1
    <3> QED  BY <2>1, <2>2, <2>5, <2>6, <3>1, PinRouted
  <2> HIDE DEF entries
  <2>11. Cardinality(entries) = 1
    BY <2>9, FS_Singleton
  <2>12. \A i \in entries : f.pin # 0 => Routed(f, pir.entries[i], interruptLine[f])
    BY <2>9, <2>10
  <2> QED  BY <2>11, <2>12 DEF entries
<1> QED
  BY <1>1, PhaseInit, PhaseStep, RoutesInit, RoutesStep, PTL DEF Spec

-----------------------------------------------------------------------------
(* The option ROM.                                                         *)

(* Adding a multiple of the width of a byte changes no byte.               *)
LEMMA SameByte ==
  ASSUME NEW b \in Nat \ {0}, NEW x \in Int, NEW y \in Int
  PROVE  ((x % b) + y) % b = (x + y) % b
<1> DEFINE q == x \div b   r == x % b
           u == (r + y) \div b   s == (r + y) % b
           v == (x + y) \div b   t == (x + y) % b
<1>1. /\ q \in Int /\ r \in 0 .. b - 1 /\ x = (b * q) + r
      /\ u \in Int /\ s \in 0 .. b - 1 /\ r + y = (b * u) + s
      /\ v \in Int /\ t \in 0 .. b - 1 /\ x + y = (b * v) + t
  OBVIOUS
<1> HIDE DEF q, r, u, s, v, t
<1> DEFINE k == (q + u) - v
<1>2. k \in Int /\ b * k = ((b * q) + (b * u)) - (b * v)
  BY <1>1
<1>3. t - s = b * k
  BY <1>1, <1>2
<1> HIDE DEF k
<1>4. -b < b * k /\ b * k < b
  BY <1>1, <1>3
<1>5. k >= 1 => b * k >= b
  BY <1>2
<1>6. k <= -1 => b * k <= -b
  BY <1>2
<1>7. k = 0
  BY <1>2, <1>4, <1>5, <1>6
<1>8. s = t
  BY <1>1, <1>3, <1>7
<1> QED
  BY <1>8 DEF r, s, t

LEMMA PatchedIs ==
  ASSUME NEW image \in RomImages, NEW set
  PROVE  /\ Patched(image, set) \in RomImages /\ Patched(image, set).delay = DelayOf(set)
         /\ RomSum(Patched(image, set)) = RomSum(image)
<1> DEFINE d == DelayOf(set)
<1>1. Byte \in Nat \ {0} /\ d \in Bytes \X Bytes
  BY RomsAssumption DEF DelayOf
<1> HIDE DEF d
<1>2. CASE image.delay = d
  BY <1>2 DEF Patched, d
<1>3. CASE image.delay # d
  <2> DEFINE c == NewChecksum(image, d)
             new == [image EXCEPT !.checksum = c, !.delay = d]
  <2>1. Patched(image, set) = new
    BY <1>3 DEF Patched, d
  <2>2. /\ image.checksum \in Bytes /\ image.rest \in Bytes
        /\ image.delay \in Bytes \X Bytes
    BY DEF RomImages
  <2>3. /\ image.delay[1] \in Int /\ image.delay[2] \in Int /\ d[1] \in Int /\ d[2] \in Int
        /\ image.checksum \in Int /\ image.rest \in Int
    BY <1>1, <2>2 DEF Bytes
  <2> DEFINE x == image.checksum + image.delay[1] + image.delay[2] - d[1] - d[2]
             y == d[1] + d[2] + image.rest
  <2>4. x \in Int /\ y \in Int /\ c = x % Byte
    BY <2>3 DEF NewChecksum
  <2>5. x + y = image.checksum + image.delay[1] + image.delay[2] + image.rest
    BY <2>3
  <2>6. c \in Bytes
    BY <1>1, <2>4 DEF Bytes
  <2> HIDE DEF c
  <2>7. new.checksum = c /\ new.delay = d /\ new.rest = image.rest /\ new \in RomImages
    BY <1>1, <2>6 DEF RomImages
  <2>8. new.checksum + new.delay[1] + new.delay[2] + new.rest = (x % Byte) + y
    BY <2>3, <2>4, <2>6, <2>7 DEF Bytes
  <2> HIDE DEF new, x, y
  <2>9. RomSum(new) = ((x % Byte) + y) % Byte
    BY <2>8 DEF RomSum
  <2>10. RomSum(image) = (x + y) % Byte
    BY <2>5 DEF RomSum
  <2>11. RomSum(new) = RomSum(image)
    BY <1>1, <2>4, <2>9, <2>10, SameByte
  <2> QED  BY <2>1, <2>7, <2>11 DEF d
<1> QED
  BY <1>2, <1>3

(* What EnumeratePciBus gives the SATA controller.                         *)
RomOf(functions, set) ==
  LET sata == {functions[i] : i \in {j \in DOMAIN functions : functions[j].class = "SATA"}}
  IN  IF sata = {} THEN None ELSE PciPlatformGetPciRom(FirstOf(functions, sata), set)

RomInv ==
  /\ volumes \in RomVolumes \cup {<< >>}
  /\ bdsPc \notin {"init", "policy"} => optionRom = RomOf(handles, setup)

LEMMA RomInit == Init => RomInv
BY DEF Init, RomInv, BdsInit, BdsLocals

LEMMA RomSame ==
  ASSUME RomInv, UNCHANGED <<handles, setup, volumes, optionRom>>,
         bdsPc' \in {"init", "policy"} \/ bdsPc \notin {"init", "policy"}
  PROVE  RomInv'
<1>1. RomOf(handles, setup)' = RomOf(handles, setup)
  BY DEF RomOf, PciPlatformGetPciRom
<1> QED
  BY <1>1 DEF RomInv

LEMMA RomStep == PhaseInv /\ RomInv /\ [Next]_vars => RomInv'
<1> SUFFICES ASSUME PhaseInv, RomInv, [Next]_vars  PROVE RomInv'
  OBVIOUS
<1>1. CASE Bds
  <2>1. CASE ConnectRootBridge
    <3>1. /\ optionRom' = RomOf(handles', setup) /\ setup' = setup /\ volumes' = volumes
      BY <2>1 DEF ConnectRootBridge, EnumeratePciBus, RomOf, storedVars
    <3>2. RomOf(handles', setup) = RomOf(handles, setup)'
      BY <3>1 DEF RomOf, PciPlatformGetPciRom
    <3> QED  BY <3>1, <3>2 DEF RomInv
  <2>2. CASE PlatformBdsInit /\ UNCHANGED <<legacyVars, romVars>>
    <3>1. bdsPc' = "policy" /\ volumes' = volumes
      BY <2>2 DEF PlatformBdsInit, romVars
    <3> QED  BY <3>1 DEF RomInv
  <2>3. CASE ShadowAllLegacyOproms /\ UNCHANGED romVars
    <3>1. bdsPc = "shadow" /\ UNCHANGED <<handles, setup, volumes, optionRom>>
      BY <2>3 DEF ShadowAllLegacyOproms, PlatformHooks, romVars, storedVars
    <3> QED  BY <3>1, RomSame
  <2>4. CASE /\ \/ ConnectVga \/ PlatformBdsConnectConsole
                \/ VisitingAPciInstance \/ ConnectAllDefaultConsoles \/ ConnectAllAndEnumerate
             /\ UNCHANGED <<legacyVars, romVars>>
    <3>1. bdsPc \notin {"init", "policy"} /\ setup' = setup
      BY <2>4 DEF ConnectVga, PlatformBdsConnectConsole, VisitingAPciInstance,
                  ConnectAllDefaultConsoles, ConnectAllAndEnumerate, storedVars
    <3>2. UNCHANGED <<handles, volumes, optionRom>>
      BY <2>4 DEF legacyVars, romVars
    <3> QED  BY <3>1, <3>2, RomSame
  <2> QED  BY <1>1, <2>1, <2>2, <2>3, <2>4 DEF Bds, BdsNext
<1>2. CASE Dxe \/ OperatingSystem \/ ChangesVariables
  <2>1. bdsPc' = "init" /\ volumes' \in RomVolumes \cup {<< >>}
    BY <1>2 DEF Dxe, OperatingSystem, BdsOver, ChangesVariables, ChangeVariables, PhaseInv, bdsVars,
                romVars, RomInv
  <2> QED  BY <2>1 DEF RomInv
<1>3. CASE Pei \/ Delay \/ PeiEnds \/ LegacyBoot \/ BootAgain \/ UNCHANGED vars
  <2>1. UNCHANGED <<handles, setup, volumes, optionRom, bdsPc>>
    BY <1>3 DEF Pei, Delay, PeiEnds, LegacyBoot, ProgramInterruptLines, GetRoutingTable, BootAgain,
                vars, legacyVars, romVars, bdsVars, storedVars
  <2> QED  BY <2>1, RomSame DEF RomInv
<1> QED
  BY <1>1, <1>2, <1>3 DEF Next

LEMMA SectionFound ==
  ASSUME NEW D, NEW s \in Seq(D), GetSectionInAnyFv(s) # None
  PROVE  GetSectionInAnyFv(s) \in D \ {None} /\ \E i \in DOMAIN s : GetSectionInAnyFv(s) = s[i]
<1> DEFINE found == {s[i] : i \in DOMAIN s} \ {None}
<1>1. found # {} /\ GetSectionInAnyFv(s) = FirstOf(s, found)
  BY DEF GetSectionInAnyFv
<1>2. \E i \in DOMAIN s : s[i] \in found
  BY <1>1
<1>3. FirstOf(s, found) \in found
  BY <1>2, FirstOfIs
<1>4. \A i \in DOMAIN s : s[i] \in D
  OBVIOUS
<1>5. \A x \in found : x \in D \ {None} /\ \E i \in DOMAIN s : x = s[i]
  BY <1>4
<1> HIDE DEF found
<1> QED
  BY <1>1, <1>3, <1>5

(* The option ROM of the SATA controller is there whenever Setup and an    *)
(* image to patch are, with the delay Setup asks for and the sum of bytes  *)
(* the image had (CheckAndPatchSataAhciRom): for every image, delay and    *)
(* width of a byte.                                                        *)
THEOREM OptionRomCorrect == Spec => []OptionRomFits
<1>1. PhaseInv /\ RoutesInv /\ RomInv => OptionRomFits
  <2> SUFFICES ASSUME PhaseInv, RoutesInv, RomInv, connected # "none"  PROVE OptionRomFits
    BY DEF OptionRomFits
  <2> DEFINE image == GetSectionInAnyFv(volumes)
             sata == {handles[i] : i \in {j \in DOMAIN handles : handles[j].class = "SATA"}}
  <2>1. optionRom = RomOf(handles, setup)
    BY DEF PhaseInv, RomInv
  <2>2. sata # {} <=> \E f \in Functions : f.class = "SATA"
    BY DEF Functions
  <2>3. image # None => image \in RomImages
    <3>1. volumes \in Seq(RomImages \cup {None})
      <4>1. << >> \in Seq(RomImages \cup {None})
        OBVIOUS
      <4> QED  BY <4>1, RomsAssumption DEF RomInv
    <3> QED  BY <3>1, SectionFound
  <2>4. CASE sata = {}
    <3>1. optionRom = None
      BY <2>1, <2>4 DEF RomOf
    <3> QED  BY <2>2, <2>4, <3>1 DEF OptionRomFits
  <2>5. CASE sata # {}
    <3> DEFINE f == FirstOf(handles, sata)
    <3>1. f.class = "SATA"
      <4>1. f \in sata
        <5>1. handles \in Seq(PciFunction) /\ \E i \in DOMAIN handles : handles[i] \in sata
          BY <2>5 DEF RoutesInv
        <5> QED  BY <5>1, FirstOfIs
      <4> QED  BY <4>1
    <3>2. optionRom = PciPlatformGetPciRom(f, setup)
      BY <2>1, <2>5 DEF RomOf
    <3> HIDE DEF f
    <3>3. optionRom = IF image # None /\ Patchable(image, setup) THEN Patched(image, setup) ELSE None
      BY <3>1, <3>2 DEF PciPlatformGetPciRom
    <3> HIDE DEF image, sata
    <3>4. CASE image # None /\ Patchable(image, setup)
      <4>1. optionRom = Patched(image, setup) /\ image \in RomImages
        BY <2>3, <3>3, <3>4
      <4>2. /\ optionRom \in RomImages /\ optionRom.delay = DelayOf(setup)
            /\ RomSum(optionRom) = RomSum(image)
        BY <4>1, PatchedIs
      <4>3. optionRom # None
        BY <4>2, RomsAssumption
      <4> QED  BY <2>2, <2>5, <3>4, <4>2, <4>3 DEF OptionRomFits, Patchable, image
    <3>5. CASE ~(image # None /\ Patchable(image, setup))
      <4>1. optionRom = None
        BY <3>3, <3>5
      <4> QED  BY <3>5, <4>1 DEF OptionRomFits, Patchable, image
    <3> QED  BY <3>4, <3>5
  <2> QED  BY <2>4, <2>5
<1> QED
  BY <1>1, PhaseInit, PhaseStep, RoutesInit, RoutesStep, RomInit, RomStep, PTL DEF Spec
-----------------------------------------------------------------------------
(* The consoles.                                                           *)

(* What VisitAllPciInstances does for a function, if it prepares it.       *)
ConsoleOf(f) ==
  /\ f.class = "VGA" => f \in enabled /\ GopDevicePath(f) \in ConOut
  /\ ~mDetectVgaOnly =>
       /\ SerialPaths(f, gTerminalTypeDeviceNode) \subseteq ConOut \cap ConIn \cap ErrOut
       /\ f.class = "LPC" => Path(f, "keyboard", None) \in ConIn

Visited == {handles[i] : i \in 1 .. visited}

(* The boot needs all consoles.                                            *)
AllNeeded == "ConIn" \in missing \/ ("ConOut" \in missing /\ ~HasVga)

(* Nothing is added to a variable that is missing before mDetectVgaOnly is *)
(* decided, but the path of a VGA device.                                  *)
StillMissing ==
  /\ (bdsPc \in {"policy", "VGA", "shadow", "consoles"} /\ "ConIn" \in missing) => ConIn = {}
  /\ (bdsPc \in {"policy", "VGA"} /\ "ConOut" \in missing) => ConOut = {}
  /\ (bdsPc \in {"shadow", "consoles"} /\ "ConOut" \in missing /\ ~HasVga) => ConOut = {}

ConsoleInv ==
  /\ StillMissing
  /\ (bdsPc \in {"visit", "connected", "done"} /\ AllNeeded) => ~mDetectVgaOnly
  /\ bdsPc = "visit" => visited \in 0 .. Len(handles) /\ \A f \in Visited : ConsoleOf(f)
  /\ bdsPc \in {"connected", "done"} => \A f \in Functions : ConsoleOf(f)

LEMMA ConsoleBegins == bdsPc' = "init" => ConsoleInv'
BY DEF ConsoleInv, StillMissing

LEMMA ConsoleInit == Init => ConsoleInv
BY DEF Init, BdsInit, BdsLocals, ConsoleInv, StillMissing

LEMMA ConsoleSame ==
  ASSUME ConsoleInv, UNCHANGED <<handles, bdsVars>>
  PROVE  ConsoleInv'
BY DEF ConsoleInv, StillMissing, AllNeeded, HasVga, Functions, Visited, ConsoleOf,
       GopDevicePath, HasGop, bdsVars, storedVars

(* More paths and more functions that decode do no harm.                   *)
LEMMA ConsoleKept ==
  ASSUME NEW f, ConsoleOf(f),
         ConOut \subseteq ConOut', ConIn \subseteq ConIn', ErrOut \subseteq ErrOut',
         enabled \subseteq enabled',
         UNCHANGED <<mDetectVgaOnly, gTerminalTypeDeviceNode, shadowed>>
  PROVE  ConsoleOf(f)'
BY DEF ConsoleOf, GopDevicePath, HasGop

LEMMA NoPorts ==
  ASSUME NEW f, NEW t, f.class \notin {"LPC", "serial"}
  PROVE  SerialPaths(f, t) = {}
BY DEF SerialPaths, Ports

LEMMA VisitStep ==
  ASSUME ConsoleInv, handles \in Seq(PciFunction), VisitingAPciInstance, handles' = handles
  PROVE  ConsoleInv'
<1> DEFINE f == handles[visited + 1]
<1>1. /\ bdsPc = "visit" /\ bdsPc' = "visit" /\ visited' = visited + 1 /\ visited < Len(handles)
      /\ enabled' = enabled \cup {f}
      /\ UNCHANGED <<mDetectVgaOnly, gTerminalTypeDeviceNode, shadowed, missing>>
  BY DEF VisitingAPciInstance
<1>2. visited \in 0 .. Len(handles) /\ Len(handles) \in Nat /\ \A g \in Visited : ConsoleOf(g)
  BY <1>1 DEF ConsoleInv
<1> DEFINE ports == SerialPaths(f, gTerminalTypeDeviceNode)
<1>3. \/ /\ f.class = "LPC" /\ ~mDetectVgaOnly
         /\ ConIn' = ConIn \cup {Path(f, "keyboard", None)} \cup ports
         /\ ConOut' = ConOut \cup ports /\ ErrOut' = ErrOut \cup ports
      \/ /\ f.class = "serial" /\ ~mDetectVgaOnly
         /\ ConIn' = ConIn \cup ports /\ ConOut' = ConOut \cup ports /\ ErrOut' = ErrOut \cup ports
      \/ /\ f.class = "VGA" /\ ConIn' = ConIn /\ ErrOut' = ErrOut
         /\ ConOut' = ConOut \cup {GopDevicePath(f)}
      \/ /\ f.class # "VGA" /\ (mDetectVgaOnly \/ f.class \notin {"LPC", "serial"})
         /\ ConIn' = ConIn /\ ErrOut' = ErrOut /\ ConOut' = ConOut
  BY DEF VisitingAPciInstance, IsConsole, PrepareLpcBridgeDevicePath, PreparePciSerialDevicePath,
         PreparePciVgaDevicePath
<1>4. handles'[visited + 1] = f
  OBVIOUS
<1>5. PICK g : g = f
  OBVIOUS
<1>6. GopDevicePath(g)' = GopDevicePath(g)
  BY <1>1 DEF GopDevicePath, HasGop
<1> DEFINE p == SerialPaths(g, gTerminalTypeDeviceNode)
<1>7. /\ ConOut \subseteq ConOut' /\ ConIn \subseteq ConIn' /\ ErrOut \subseteq ErrOut'
      /\ enabled \subseteq enabled'
  BY <1>1, <1>3
<1>8. ConsoleOf(g)'
  <2>1. g.class = "VGA" => g \in enabled' /\ GopDevicePath(g) \in ConOut'
    BY <1>1, <1>3, <1>5
  <2>2. ASSUME ~mDetectVgaOnly
        PROVE  /\ p \subseteq ConOut' \cap ConIn' \cap ErrOut'
               /\ g.class = "LPC" => Path(g, "keyboard", None) \in ConIn'
    BY <1>3, <1>5, <2>2, NoPorts
  <2> QED  BY <1>1, <1>6, <2>1, <2>2 DEF ConsoleOf
<1>9. \A h \in Visited' : h \in Visited \/ h = g
  <2>1. \A i \in 1 .. visited + 1 : i \in 1 .. visited \/ i = visited + 1
    BY <1>2
  <2> QED  BY <1>1, <1>5, <2>1 DEF Visited
<1>10. ASSUME NEW h \in Visited'  PROVE ConsoleOf(h)'
  <2>1. CASE h = g
    BY <1>8, <2>1
  <2>2. CASE h \in Visited
    <3>1. ConsoleOf(h)
      BY <1>2, <2>2
    <3> QED  BY <1>1, <1>7, <3>1, ConsoleKept
  <2> QED  BY <1>9, <2>1, <2>2
<1>11. visited' \in 0 .. Len(handles')
  BY <1>1, <1>2
<1>12. AllNeeded' = AllNeeded
  BY <1>1 DEF AllNeeded, HasVga, Functions
<1> QED
  BY <1>1, <1>10, <1>11, <1>12 DEF ConsoleInv, StillMissing

LEMMA ConsoleBds ==
  ASSUME ConsoleInv, handles \in Seq(PciFunction), BdsNext
  PROVE  ConsoleInv'
<1>1. CASE ConnectRootBridge
  <2>1. /\ bdsPc = "policy" /\ bdsPc' = "VGA" /\ UNCHANGED <<missing, ConIn, ConOut>>
    BY <1>1 DEF ConnectRootBridge, storedVars
  <2> QED  BY <2>1 DEF ConsoleInv, StillMissing
<1>2. CASE ShadowAllLegacyOproms
  <2>1. /\ bdsPc = "shadow" /\ bdsPc' = "consoles" /\ UNCHANGED <<missing, ConIn, ConOut, handles>>
    BY <1>2 DEF ShadowAllLegacyOproms, PlatformHooks, storedVars
  <2>2. HasVga' = HasVga
    BY <2>1 DEF HasVga, Functions
  <2> QED  BY <2>1, <2>2 DEF ConsoleInv, StillMissing
<1>3. CASE PlatformBdsInit
  <2>1. /\ bdsPc' = "policy" /\ UNCHANGED <<ConIn, ConOut>>
        /\ "ConIn" \in missing' => ConIn = {}
        /\ "ConOut" \in missing' => ConOut = {}
    BY <1>3 DEF PlatformBdsInit
  <2> QED  BY <2>1 DEF ConsoleInv, StillMissing
<1>4. CASE ConnectVga /\ UNCHANGED <<legacyVars, romVars>>
  <2>1. bdsPc = "VGA" /\ bdsPc' = "shadow" /\ UNCHANGED <<missing, ConIn, handles>>
    BY <1>4 DEF ConnectVga, legacyVars
  <2>2. HasVga' = HasVga
    BY <2>1 DEF HasVga, Functions
  <2>3. ~HasVga => ConOut' = ConOut
    BY <1>4 DEF ConnectVga, PlatformHandle, PlatformVgaHandle, HasVga
  <2> QED  BY <2>1, <2>2, <2>3 DEF ConsoleInv, StillMissing
<1>5. CASE PlatformBdsConnectConsole /\ UNCHANGED <<legacyVars, romVars>>
  <2>1. /\ bdsPc = "consoles" /\ bdsPc' = "visit" /\ visited' = 0
        /\ UNCHANGED <<missing, ConIn, ConOut, handles>>
        /\ mDetectVgaOnly' = DetectVgaOnly
    BY <1>5 DEF PlatformBdsConnectConsole, storedVars, legacyVars
  <2>2. AllNeeded' = AllNeeded
    BY <2>1 DEF AllNeeded, HasVga, Functions
  <2>3. AllNeeded => ~mDetectVgaOnly'
    BY <2>1 DEF ConsoleInv, StillMissing, AllNeeded, DetectVgaOnly
  <2>4. Visited' = {} /\ visited' \in 0 .. Len(handles')
    BY <2>1 DEF Visited
  <2> QED  BY <2>1, <2>2, <2>3, <2>4 DEF ConsoleInv, StillMissing
<1>6. CASE VisitingAPciInstance /\ UNCHANGED <<legacyVars, romVars>>
  <2>1. handles' = handles
    BY <1>6 DEF legacyVars
  <2> QED  BY <1>6, <2>1, VisitStep
<1>7. CASE (ConnectAllDefaultConsoles \/ ConnectAllAndEnumerate) /\ UNCHANGED <<legacyVars, romVars>>
  <2>1. /\ UNCHANGED <<missing, ConIn, ConOut, ErrOut, enabled, mDetectVgaOnly,
                       gTerminalTypeDeviceNode, shadowed, handles>>
        /\ bdsPc' \in {"connected", "done"}
        /\ \/ bdsPc = "visit" /\ visited = Len(handles)
           \/ bdsPc = "connected"
    BY <1>7 DEF ConnectAllDefaultConsoles, ConnectAllAndEnumerate, storedVars, legacyVars
  <2>2. Functions' = Functions /\ AllNeeded' = AllNeeded
    BY <2>1 DEF Functions, AllNeeded, HasVga
  <2>3. \A f \in Functions : ConsoleOf(f)
    <3>1. visited = Len(handles) => Functions = Visited
      BY DEF Functions, Visited
    <3> QED  BY <2>1, <3>1 DEF ConsoleInv
  <2>4. \A f \in Functions : ConsoleOf(f)'
    BY <2>1, <2>3, ConsoleKept
  <2>5. AllNeeded => ~mDetectVgaOnly'
    BY <2>1 DEF ConsoleInv
  <2> QED  BY <2>1, <2>2, <2>4, <2>5 DEF ConsoleInv, StillMissing
<1> QED
  BY <1>1, <1>2, <1>3, <1>4, <1>5, <1>6, <1>7 DEF BdsNext

LEMMA ConsoleStep == PhaseInv /\ RoutesInv /\ ConsoleInv /\ [Next]_vars => ConsoleInv'
<1> SUFFICES ASSUME PhaseInv, RoutesInv, ConsoleInv, [Next]_vars  PROVE ConsoleInv'
  OBVIOUS
<1>1. CASE Bds
  BY <1>1, ConsoleBds DEF Bds, RoutesInv
<1>2. CASE Dxe \/ Pei \/ Delay \/ PeiEnds \/ LegacyBoot \/ BootAgain \/ UNCHANGED vars
  <2>1. UNCHANGED <<handles, bdsVars>>
    BY <1>2 DEF Dxe, GetPlatformInfo, Pei, Delay, PeiEnds, LegacyBoot, ProgramInterruptLines,
                GetRoutingTable, BootAgain, vars, legacyVars
  <2> QED  BY <2>1, ConsoleSame
<1>3. CASE OperatingSystem
  BY <1>3, ConsoleBegins DEF OperatingSystem, BdsOver
<1>4. CASE ChangesVariables
  <2>1. bdsPc' = bdsPc /\ bdsPc = "init"
    BY <1>4 DEF ChangesVariables, ChangeVariables, PhaseInv
  <2> QED  BY <2>1, ConsoleBegins
<1> QED
  BY <1>1, <1>2, <1>3, <1>4 DEF Next
(* Whatever the variables, the functions of the machine and their order:   *)
(* each VGA device is a console of every boot and decodes its addresses,   *)
(* and every serial port and the keyboard are where ConIn is missing, or   *)
(* ConOut without a VGA device, as BDS begins.                             *)
THEOREM ConsolesCorrect == Spec => []ConsolesComplete
<1>1. ConsoleInv => ConsolesComplete
  BY DEF ConsoleInv, ConsolesComplete, ConsoleOf, AllNeeded
<1> QED
  BY <1>1, PhaseInit, PhaseStep, RoutesInit, RoutesStep, ConsoleInit, ConsoleStep, PTL DEF Spec
-----------------------------------------------------------------------------
(* The types.                                                              *)

PeiTypes ==
  /\ bootMode \in {None, "S3 resume", "S4 resume", "full configuration"}
  /\ irqRoute \in [DOMAIN IrqRouteTable -> [1 .. 4 -> Pirqs]]
  /\ pirqRout \in [Pirqs -> 0 .. 255]
  /\ graphicsMemory \in 0 .. 514
  /\ Len(VarMtrrs) <= MAX_MTRR_NUMBER
  /\ cacheType \in [Addresses -> CacheTypes \cup {"off"}]

LEMMA PeiTypesInit == PeiInit => PeiTypes
<1> SUFFICES ASSUME PeiInit  PROVE PeiTypes
  OBVIOUS
<1>1. \A i \in 1 .. 4 : i - 1 \in 0 .. 3
  OBVIOUS
<1>2. irqRoute \in [DOMAIN IrqRouteTable -> [1 .. 4 -> Pirqs]]
  BY <1>1, PeiAssumption DEF PeiInit
<1>3. pirqRout \in [Pirqs -> 0 .. 255]
  BY DEF PeiInit, Off
<1>4. Len(VarMtrrs) = 0 /\ MAX_MTRR_NUMBER \in Nat
  BY PeiAssumption DEF PeiInit, PeiLocals
<1> QED
  BY <1>2, <1>3, <1>4 DEF PeiInit, PeiLocals, PeiTypes

LEMMA GraphicsMemoryType ==
  ASSUME NEW ivd \in BOOLEAN, NEW gms, NEW ggms
  PROVE  GraphicsMemory(ivd, gms, ggms) \in 0 .. 514
<1> DEFINE m == IF gms \in GraphicsSizes THEN gms ELSE 0
           g == IF ggms \in {1, 2} THEN ggms ELSE 0
<1>1. m \in 0 .. 512 /\ g \in 0 .. 2
  BY DEF GraphicsSizes
<1>2. GraphicsMemory(ivd, gms, ggms) = IF ivd THEN 0 ELSE m + g
  BY DEF GraphicsMemory
<1> HIDE DEF m, g
<1> QED
  BY <1>1, <1>2

LEMMA MergeLength ==
  ASSUME VarMtrrs \in Seq(Entries), VarMtrrs' \in Seq(Entries), Len(VarMtrrs) <= MAX_MTRR_NUMBER,
         NEW base, NEW end, NEW type, MergeMemoryRange(base, end, type)
  PROVE  Len(VarMtrrs') <= MAX_MTRR_NUMBER
<1>1. Len(VarMtrrs) \in Nat /\ MAX_MTRR_NUMBER \in Nat /\ DOMAIN VarMtrrs = 1 .. Len(VarMtrrs)
  BY PeiAssumption
<1>2. ASSUME NEW i, NEW e, VarMtrrs' = [VarMtrrs EXCEPT ![i] = e]
      PROVE  Len(VarMtrrs') = Len(VarMtrrs)
  <2>1. DOMAIN VarMtrrs' = 1 .. Len(VarMtrrs)
    BY <1>1, <1>2
  <2>2. DOMAIN VarMtrrs' = 1 .. Len(VarMtrrs') /\ Len(VarMtrrs') \in Nat
    OBVIOUS
  <2> QED  BY <1>1, <2>1, <2>2
<1>3. ASSUME NEW e, Len(VarMtrrs) < MAX_MTRR_NUMBER, VarMtrrs' = Append(VarMtrrs, e)
      PROVE  Len(VarMtrrs') <= MAX_MTRR_NUMBER
  <2>1. VarMtrrs \in Seq(Entries \cup {e}) /\ e \in Entries \cup {e}
    OBVIOUS
  <2>2. Len(VarMtrrs') = Len(VarMtrrs) + 1
    BY <1>3, <2>1
  <2> QED  BY <1>1, <1>3, <2>2
<1> QED
  BY <1>1, <1>2, <1>3 DEF MergeMemoryRange

LEMMA CacheTypesSet ==
  ASSUME MergeInv, SetMtrrs
  PROVE  cacheType' \in [Addresses -> CacheTypes \cup {"off"}]
<1>1. VarMtrrs \in Seq(Entries)
  BY DEF MergeInv, MtrrTypes
<1>2. ASSUME NEW a \in Addresses, Covering(a) # {}
      PROVE  VarMtrrs[CHOOSE i \in Covering(a) : \A j \in Covering(a) : i >= j].type \in CacheTypes
  <2>1. Covering(a) \subseteq 1 .. Len(VarMtrrs) /\ Len(VarMtrrs) \in Nat
    BY <1>1 DEF Covering
  <2> DEFINE m == CHOOSE i \in Covering(a) : \A j \in Covering(a) : i >= j
  <2>2. m \in Covering(a)
    BY <1>2, <2>1, Greatest
  <2> HIDE DEF m
  <2>3. VarMtrrs[m] \in Entries
    BY <1>1, <2>1, <2>2
  <2>4. VarMtrrs[m].type \in CacheTypes
    BY <2>3 DEF Entries, CacheTypes
  <2> QED  BY <2>4 DEF m
<1> QED
  BY <1>2 DEF SetMtrrs, CacheTypes

LEMMA HobMerges ==
  ASSUME NextHob
  PROVE  VarMtrrs' = VarMtrrs \/ \E base, end, type : MergeMemoryRange(base, end, type)
<1>1. PICK base \in Addresses, end \in 1 .. Top, attributes \in Attributes :
        IF CacheType(attributes) \in {"WP", "WB", "WC"}
        THEN MergeMemoryRange(base, end, CacheType(attributes)) ELSE UNCHANGED <<VarMtrrs, dropped>>
  BY DEF NextHob
<1>2. CASE VarMtrrs' = VarMtrrs
  BY <1>2
<1>3. CASE MergeMemoryRange(base, end, CacheType(attributes))
  BY ONLY <1>3, Zenon
<1> QED
  BY <1>1, <1>2, <1>3

LEMMA PeiTypesStep ==
  ASSUME MergeInv, PeiTypes, PeiNext
  PROVE  PeiTypes'
<1>1. CASE PlatformEntryPoint
  <2>1. bootMode' \in {"S3 resume", "S4 resume", "full configuration"}
    BY <1>1 DEF PlatformEntryPoint, SetBootMode
  <2>2. irqRoute' = IrqRouteTable /\ pirqRout' = PirqRoute
        /\ UNCHANGED <<graphicsMemory, VarMtrrs, cacheType>>
    BY <1>1 DEF PlatformEntryPoint, WriteRoutes, mtrrVars
  <2> QED  BY <2>1, <2>2, PeiAssumption DEF PeiTypes
<1>2. CASE PeiChooseRanges
  <2>1. /\ graphicsMemory' \in 0 .. 514
        /\ UNCHANGED <<bootMode, irqRoute, pirqRout, VarMtrrs, cacheType>>
    BY <1>2, GraphicsMemoryType DEF PeiChooseRanges, mtrrVars
  <2> QED  BY <2>1 DEF PeiTypes
<1>3. CASE PeiBaseMemoryTest
  BY <1>3 DEF PeiBaseMemoryTest, mtrrVars, PeiTypes
<1>4. CASE ExitCarMode \/ PeiOver
  <2>1. /\ graphicsMemory' \in {0, graphicsMemory} /\ VarMtrrs' = << >>
        /\ cacheType' = [a \in Addresses |-> "off"] /\ UNCHANGED <<bootMode, irqRoute, pirqRout>>
    BY <1>4 DEF ExitCarMode, PeiOver
  <2>2. Len(VarMtrrs') <= MAX_MTRR_NUMBER
    BY <2>1, PeiAssumption
  <2>3. graphicsMemory' \in 0 .. 514
    <3>1. graphicsMemory \in 0 .. 514
      BY DEF PeiTypes
    <3>2. graphicsMemory' = 0 \/ graphicsMemory' = graphicsMemory
      BY <2>1
    <3> QED  BY <3>1, <3>2
  <2>4. cacheType' \in [Addresses -> CacheTypes \cup {"off"}]
    BY <2>1
  <2> QED  BY <2>1, <2>2, <2>3, <2>4 DEF PeiTypes
<1>5. CASE NextHob
  <2>1. Len(VarMtrrs') <= MAX_MTRR_NUMBER
    <3>1. /\ VarMtrrs \in Seq(Entries) /\ VarMtrrs' \in Seq(Entries)
          /\ Len(VarMtrrs) <= MAX_MTRR_NUMBER
      <4>1. MergeInv'
        BY MergeNext
      <4> QED  BY <4>1 DEF MergeInv, MtrrTypes, PeiTypes
    <3>2. \/ VarMtrrs' = VarMtrrs
          \/ \E base, end, type : MergeMemoryRange(base, end, type)
      BY <1>5, HobMerges
    <3> QED  BY <3>1, <3>2, MergeLength
  <2>2. UNCHANGED <<bootMode, irqRoute, pirqRout, graphicsMemory, cacheType>>
    BY <1>5 DEF NextHob
  <2> QED  BY <2>1, <2>2 DEF PeiTypes
<1>6. CASE SetMtrrs
  <2>1. UNCHANGED <<bootMode, irqRoute, pirqRout, graphicsMemory, VarMtrrs>>
    BY <1>6 DEF SetMtrrs
  <2> QED  BY <1>6, <2>1, CacheTypesSet DEF PeiTypes
<1> QED
  BY <1>1, <1>2, <1>3, <1>4, <1>5, <1>6 DEF PeiNext

LEMMA PeiTypesPost == MergeInv /\ PeiTypes /\ [Next]_vars => PeiTypes'
<1> SUFFICES ASSUME MergeInv, PeiTypes, [Next]_vars  PROVE PeiTypes'
  OBVIOUS
<1>1. CASE Pei
  BY <1>1, PeiTypesStep DEF Pei
<1>2. CASE BootAgain
  BY <1>2 DEF BootAgain, mtrrVars, PeiTypes
<1>3. CASE UNCHANGED peiVars
  BY <1>3 DEF peiVars, PeiTypes
<1> QED
  BY <1>1, <1>2, <1>3 DEF Next, Delay, PeiEnds, Dxe, Bds, LegacyBoot, OperatingSystem,
                          ChangesVariables, vars
LEMMA LineOfType ==
  ASSUME NEW f \in PciFunction, irqRoute \in [DOMAIN IrqRouteTable -> [1 .. 4 -> Pirqs]]
  PROVE  LineOf(f) \in (0 .. 255) \cup {None}
<1>1. PirqTable \in [Pirqs -> 0 .. 255] /\ 0 \in Pirqs /\ DxxR \subseteq DOMAIN IrqRouteTable
  BY RoutesAssumption
<1>2. f.pin \in 0 .. 4
  BY DEF PciFunction
<1>3. CASE f.pin # 0 /\ TranslatePirq(f, f.pin - 1).status = "SUCCESS"
  <2> DEFINE n == f.pin - 1
  <2>1. n + 1 \in 1 .. 4
    BY <1>2, <1>3
  <2> HIDE DEF n
  <2>2. PirqOf(f, n) \in Pirqs
    BY <1>1, <2>1 DEF PirqOf, HasRegister
  <2>3. TranslatePirq(f, n).irq = PirqTable[PirqOf(f, n)]
    BY <1>3 DEF TranslatePirq, n
  <2>4. LineOf(f) = TranslatePirq(f, n).irq
    BY <1>3 DEF LineOf, n
  <2>5. PirqTable[PirqOf(f, n)] \in 0 .. 255
    BY <1>1, <2>2
  <2> QED  BY <2>3, <2>4, <2>5
<1>4. CASE ~(f.pin # 0 /\ TranslatePirq(f, f.pin - 1).status = "SUCCESS")
  BY <1>4 DEF LineOf
<1> QED
  BY <1>3, <1>4

LegacyTypes ==
  /\ smram \in Seq([low : BOOLEAN, open : BOOLEAN])
  /\ ideDecode \in BOOLEAN /\ rom \in {None} \cup UNION {{v[i] : i \in DOMAIN v} : v \in Volumes}
  /\ optionRom \in RomImages \cup {None}

LEMMA SmramType == Smram \in Seq([low : BOOLEAN, open : BOOLEAN])
BY DEF Smram

LEMMA HooksType ==
  ASSUME smram \in Seq([low : BOOLEAN, open : BOOLEAN]), PlatformHooks
  PROVE  smram' \in Seq([low : BOOLEAN, open : BOOLEAN])
<1> DEFINE low == {i \in DOMAIN smram : smram[i].low}
           first == CHOOSE i \in low : \A j \in low : i <= j
<1>1. smram' = IF low = {} THEN smram ELSE [smram EXCEPT ![first].open = FALSE]
  BY DEF PlatformHooks
<1>2. CASE low # {}
  <2>1. low \subseteq Nat
    OBVIOUS
  <2>2. first \in low
    BY <1>2, <2>1, Least
  <2>3. first \in DOMAIN smram
    BY <2>2
  <2> HIDE DEF low, first
  <2>4. smram' = [smram EXCEPT ![first].open = FALSE]
    BY <1>1, <1>2
  <2>5. [smram[first] EXCEPT !.open = FALSE] \in [low : BOOLEAN, open : BOOLEAN]
    <3> DEFINE D == [low : BOOLEAN, open : BOOLEAN]
    <3>1. smram \in Seq(D)
      OBVIOUS
    <3>2. ASSUME NEW r \in D  PROVE [r EXCEPT !.open = FALSE] \in D
      OBVIOUS
    <3> HIDE DEF D
    <3>3. smram[first] \in D
      BY <2>3, <3>1
    <3>4. [smram[first] EXCEPT !.open = FALSE] \in D
      BY <3>2, <3>3
    <3> QED  BY <3>4 DEF D
  <2> QED  BY <2>3, <2>4, <2>5
<1> QED
  BY <1>1, <1>2

LEMMA RomTypeIs ==
  ASSUME NEW functions \in Seq(PciFunction), RomInv
  PROVE  RomOf(functions, setup) \in RomImages \cup {None}
<1> DEFINE image == GetSectionInAnyFv(volumes)
<1>1. image # None => image \in RomImages
  <2>1. volumes \in Seq(RomImages \cup {None})
    <3>1. << >> \in Seq(RomImages \cup {None})
      OBVIOUS
    <3> QED  BY <3>1, RomsAssumption DEF RomInv
  <2> QED  BY <2>1, SectionFound
<1>2. \A f : PciPlatformGetPciRom(f, setup) \in {Patched(image, setup), None}
             /\ (PciPlatformGetPciRom(f, setup) # None => image # None)
  BY DEF PciPlatformGetPciRom
<1> HIDE DEF image
<1>3. \A f : PciPlatformGetPciRom(f, setup) \in RomImages \cup {None}
  BY <1>1, <1>2, PatchedIs
<1> QED
  BY <1>3 DEF RomOf

LEMMA LegacyTypesInit == Init => LegacyTypes
BY SmramType DEF Init, LegacyReset, LegacyTypes

LEMMA LegacyTypesStep == RomInv /\ LegacyTypes /\ [Next]_vars => LegacyTypes'
<1> SUFFICES ASSUME RomInv, LegacyTypes, [Next]_vars  PROVE LegacyTypes'
  OBVIOUS
<1>1. CASE ConnectRootBridge
  <2>1. PICK functions \in Machines : EnumeratePciBus(functions, setup)
    BY <1>1 DEF ConnectRootBridge
  <2>2. optionRom' = RomOf(functions, setup)
    BY <2>1 DEF EnumeratePciBus, RomOf
  <2>3. optionRom' \in RomImages \cup {None}
    BY <2>2, MachinesAssumption, RomTypeIs
  <2>4. UNCHANGED <<smram, ideDecode, rom>>
    BY <1>1 DEF ConnectRootBridge
  <2> QED  BY <2>3, <2>4 DEF LegacyTypes
<1>2. CASE ShadowAllLegacyOproms /\ UNCHANGED romVars
  <2>1. ideDecode' = TRUE /\ UNCHANGED <<rom, optionRom>>
    BY <1>2 DEF ShadowAllLegacyOproms, PlatformHooks, romVars
  <2>2. smram' \in Seq([low : BOOLEAN, open : BOOLEAN])
    BY <1>2, HooksType DEF ShadowAllLegacyOproms, LegacyTypes
  <2> QED  BY <2>1, <2>2 DEF LegacyTypes
<1>3. CASE Dxe
  <2>1. PICK v \in Volumes : LoadRom(v)
    BY <1>3 DEF Dxe, GetPlatformInfo
  <2>2. rom' # None /\ rom' = GetSectionInAnyFv(v)
    BY <2>1 DEF LoadRom
  <2>3. \E i \in DOMAIN v : rom' = v[i]
    BY <2>2, RoutesAssumption, SectionFound
  <2>4. UNCHANGED <<smram, ideDecode, optionRom>>
    BY <1>3 DEF Dxe, GetPlatformInfo
  <2>5. rom' \in UNION {{w[i] : i \in DOMAIN w} : w \in Volumes}
    BY <2>3
  <2> QED  BY <2>4, <2>5 DEF LegacyTypes
<1>4. CASE OperatingSystem
  BY <1>4, SmramType DEF OperatingSystem, LegacyEnds, LegacyTypes
<1>5. CASE UNCHANGED <<smram, ideDecode, rom, optionRom>>
  BY <1>5 DEF LegacyTypes
<1>6. CASE LegacyBoot
  BY <1>6 DEF LegacyBoot, ProgramInterruptLines, GetRoutingTable, romVars, LegacyTypes
<1> QED
  BY <1>1, <1>2, <1>3, <1>4, <1>5, <1>6
     DEF Next, Pei, Delay, PeiEnds, Bds, BdsNext, ChangesVariables, BootAgain, vars, legacyVars, romVars
(* Those of BDS, in three parts.                                           *)
SettingTypes ==
  /\ setup \in {None, "fast", "slow"}
  /\ ConsoleType \in Terminals \cup {None, "unknown", "wrong size"}
  /\ gTerminalTypeDeviceNode \in Terminals

PathTypes ==
  /\ ConOut \subseteq Paths /\ ConIn \subseteq Paths /\ ErrOut \subseteq Paths
  /\ ConOutDev \subseteq Paths
  /\ enabled \subseteq Functions

LocalTypes ==
  /\ bdsPc \in {"init", "policy", "VGA", "shadow", "consoles", "visit", "connected", "done"}
  /\ missing \subseteq {"ConOut", "ConIn"}
  /\ mDetectVgaOnly \in BOOLEAN /\ shadowed \in BOOLEAN
  /\ connected \in {"none", "root bridge", "all"} /\ status \in {"SUCCESS", "NOT_FOUND"}
  /\ enumerations \in {0, 1, 2}

LEMMA BdsTypesInit == Init => SettingTypes /\ PathTypes /\ LocalTypes
<1> SUFFICES ASSUME Init  PROVE SettingTypes /\ PathTypes /\ LocalTypes
  OBVIOUS
<1>1. SettingTypes
  BY TerminalsAssumption DEF Init, BdsInit, BdsLocals, SettingTypes
<1>2. PathTypes
  BY DEF Init, BdsInit, BdsLocals, PathTypes
<1>3. LocalTypes
  BY DEF Init, BdsInit, BdsLocals, LocalTypes
<1> QED
  BY <1>1, <1>2, <1>3

LEMMA SettingStep == SettingTypes /\ [Next]_vars => SettingTypes'
<1> SUFFICES ASSUME SettingTypes, [Next]_vars  PROVE SettingTypes'
  OBVIOUS
<1>1. CASE PlatformBdsInit
  <2>1. setup' \in {None, "fast", "slow"}
    BY <1>1 DEF PlatformBdsInit, DefaultSetup, SettingTypes
  <2>2. ConsoleType' \in Terminals \cup {None, "unknown", "wrong size"}
    BY <1>1, TerminalsAssumption DEF PlatformBdsInit, SettingTypes
  <2>3. gTerminalTypeDeviceNode' \in Terminals
    BY <1>1, TerminalsAssumption DEF PlatformBdsInit, TerminalOf, SettingTypes
  <2> QED  BY <2>1, <2>2, <2>3 DEF SettingTypes
<1>2. CASE ChangeVariables
  <2>1. /\ setup' \in {setup, "fast", "slow"}
        /\ ConsoleType' \in Terminals \cup {ConsoleType, "unknown", "wrong size"}
        /\ gTerminalTypeDeviceNode' = gTerminalTypeDeviceNode
    BY <1>2 DEF ChangeVariables
  <2> QED  BY <2>1 DEF SettingTypes
<1>3. CASE BdsOver
  BY <1>3, TerminalsAssumption DEF BdsOver, storedVars, SettingTypes
<1>4. CASE UNCHANGED <<setup, ConsoleType, gTerminalTypeDeviceNode>>
  BY <1>4 DEF SettingTypes
<1>5. ASSUME BdsNext  PROVE PlatformBdsInit \/ UNCHANGED <<setup, ConsoleType, gTerminalTypeDeviceNode>>
  BY <1>5 DEF BdsNext, ConnectRootBridge, ShadowAllLegacyOproms, ConnectVga,
              PlatformBdsConnectConsole, VisitingAPciInstance, ConnectAllDefaultConsoles,
              ConnectAllAndEnumerate, storedVars
<1> QED
  BY <1>1, <1>2, <1>3, <1>4, <1>5
     DEF Next, Pei, Delay, PeiEnds, Dxe, Bds, LegacyBoot, OperatingSystem, ChangesVariables,
         BootAgain, vars, bdsVars, storedVars

LEMMA LocalStep == LocalTypes /\ [Next]_vars => LocalTypes'
<1> SUFFICES ASSUME LocalTypes, [Next]_vars  PROVE LocalTypes'
  OBVIOUS
<1>1. CASE BdsNext
  <2>1. CASE ConnectRootBridge
    BY <2>1 DEF ConnectRootBridge, LocalTypes
  <2>2. CASE ShadowAllLegacyOproms
    BY <2>2 DEF ShadowAllLegacyOproms, LocalTypes
  <2>3. CASE PlatformBdsInit
    <3>1. missing' \subseteq {"ConOut", "ConIn"}
      BY <2>3 DEF PlatformBdsInit
    <3> QED  BY <2>3, <3>1 DEF PlatformBdsInit, LocalTypes
  <2>4. CASE ConnectVga
    BY <2>4 DEF ConnectVga, LocalTypes
  <2>5. CASE PlatformBdsConnectConsole
    BY <2>5 DEF PlatformBdsConnectConsole, DetectVgaOnly, LocalTypes
  <2>6. CASE VisitingAPciInstance
    BY <2>6 DEF VisitingAPciInstance, LocalTypes
  <2>7. CASE ConnectAllDefaultConsoles
    BY <2>7 DEF ConnectAllDefaultConsoles, LocalTypes
  <2>8. CASE ConnectAllAndEnumerate
    BY <2>8 DEF ConnectAllAndEnumerate, LocalTypes
  <2> QED  BY <1>1, <2>1, <2>2, <2>3, <2>4, <2>5, <2>6, <2>7, <2>8 DEF BdsNext
<1>2. CASE ChangeVariables
  BY <1>2 DEF ChangeVariables, LocalTypes
<1>3. CASE BdsOver
  BY <1>3 DEF BdsOver, LocalTypes
<1>4. CASE UNCHANGED bdsVars
  BY <1>4 DEF bdsVars, LocalTypes
<1> QED
  BY <1>1, <1>2, <1>3, <1>4
     DEF Next, Pei, Delay, PeiEnds, Dxe, Bds, LegacyBoot, OperatingSystem, ChangesVariables,
         BootAgain, vars

(* Paths of a function.                                                    *)
LEMMA PathType ==
  ASSUME NEW f \in PciFunction,
         NEW node \in {"PCI", "GOP", "COM1", "COM2", "UART", "keyboard"},
         NEW terminal \in Terminals \cup {None}
  PROVE  Path(f, node, terminal) \in Paths
<1>1. f.bus \in Nat /\ f.dev \in Nat /\ f.fn \in Nat
  <2>1. f.bus \in Nat /\ f.dev \in 0 .. 31 /\ f.fn \in 0 .. 7
    BY DEF PciFunction
  <2> QED  BY <2>1
<1>2. <<f.bus, f.dev, f.fn>> \in Seq(Nat)
  BY <1>1
<1> QED
  BY <1>2 DEF Path, Paths

LEMMA DevicePathType ==
  ASSUME NEW f \in PciFunction, gTerminalTypeDeviceNode \in Terminals
  PROVE  /\ GopPath(f) \in Paths /\ GopDevicePath(f) \in Paths
         /\ Path(f, "keyboard", None) \in Paths
         /\ SerialPaths(f, gTerminalTypeDeviceNode) \subseteq Paths
<1>1. GopPath(f) \in Paths /\ PciPath(f) \in Paths /\ Path(f, "keyboard", None) \in Paths
  BY PathType DEF GopPath, PciPath
<1>2. Ports(f) \subseteq {"COM1", "COM2", "UART"}
  BY DEF Ports
<1>3. SerialPaths(f, gTerminalTypeDeviceNode) \subseteq Paths
  BY <1>2, PathType DEF SerialPaths
<1> QED
  BY <1>1, <1>3 DEF GopDevicePath

LEMMA VgaPathStep ==
  ASSUME NEW f \in PciFunction, gTerminalTypeDeviceNode \in Terminals, PathTypes,
         PreparePciVgaDevicePath(f)
  PROVE  ConOut' \subseteq Paths /\ ConOutDev' \subseteq Paths
BY DevicePathType DEF PreparePciVgaDevicePath, PathTypes

LEMMA PathStep == PhaseInv /\ RoutesInv /\ ConsoleInv /\ SettingTypes /\ PathTypes /\ [Next]_vars => PathTypes'
<1> SUFFICES ASSUME PhaseInv, RoutesInv, ConsoleInv, SettingTypes, PathTypes, [Next]_vars
             PROVE  PathTypes'
  OBVIOUS
<1>1. /\ handles \in Seq(PciFunction) /\ Functions \subseteq PciFunction
      /\ gTerminalTypeDeviceNode \in Terminals
  <2>1. handles \in Seq(PciFunction)
    BY DEF RoutesInv
  <2>2. Functions \subseteq PciFunction
    BY <2>1 DEF Functions
  <2> QED  BY <2>1, <2>2 DEF SettingTypes
<1>2. CASE Bds
  <2>1. CASE ConnectRootBridge
    <3>1. /\ enabled = {} /\ enabled' = enabled
          /\ UNCHANGED <<ConOut, ConIn, ErrOut, ConOutDev>>
      BY <2>1 DEF ConnectRootBridge, storedVars, PhaseInv
    <3> QED  BY <3>1 DEF PathTypes
  <2>2. CASE ConnectVga /\ UNCHANGED <<legacyVars, romVars>>
    <3>1. handles' = handles /\ Functions' = Functions /\ UNCHANGED <<ConIn, ErrOut>>
      BY <2>2 DEF ConnectVga, legacyVars, Functions
    <3>2. CASE PlatformHandle("Vga").status = "SUCCESS"
      <4> DEFINE f == PlatformHandle("Vga").handle
      <4>1. \E g \in Functions : IsVga(g)
        BY <3>2 DEF PlatformHandle, PlatformVgaHandle
      <4>2. f = FirstOf(handles, {g \in Functions : IsVga(g)})
        BY <4>1 DEF PlatformHandle, PlatformVgaHandle
      <4>3. \E i \in DOMAIN handles : handles[i] \in {g \in Functions : IsVga(g)}
        BY <4>1 DEF Functions
      <4>4. f \in Functions
        BY <1>1, <4>2, <4>3, FirstOfIs
      <4>5. enabled' = enabled \cup {f} /\ PreparePciVgaDevicePath(f)
        BY <2>2, <3>2 DEF ConnectVga
      <4> HIDE DEF f
      <4>6. ConOut' \subseteq Paths /\ ConOutDev' \subseteq Paths
        BY <1>1, <4>4, <4>5, VgaPathStep
      <4> QED  BY <3>1, <4>4, <4>5, <4>6 DEF PathTypes
    <3>3. CASE PlatformHandle("Vga").status # "SUCCESS"
      <4>1. UNCHANGED <<enabled, ConOut, ConOutDev>>
        BY <2>2, <3>3 DEF ConnectVga
      <4> QED  BY <3>1, <4>1 DEF PathTypes
    <3> QED  BY <3>2, <3>3
  <2>3. CASE VisitingAPciInstance /\ UNCHANGED <<legacyVars, romVars>>
    <3> DEFINE f == handles[visited + 1]
    <3>1. handles' = handles /\ Functions' = Functions
      BY <2>3 DEF legacyVars, Functions
    <3>2. visited \in 0 .. Len(handles) /\ visited < Len(handles)
      BY <2>3 DEF VisitingAPciInstance, ConsoleInv
    <3>3. visited + 1 \in DOMAIN handles
      BY <1>1, <3>2
    <3>4. f \in Functions
      BY <3>3 DEF Functions
    <3>5. enabled' = enabled \cup {f}
      BY <2>3 DEF VisitingAPciInstance
    <3>6. /\ ConOut' \subseteq Paths /\ ConIn' \subseteq Paths /\ ErrOut' \subseteq Paths
          /\ ConOutDev' \subseteq Paths
      <4>1. \/ PrepareLpcBridgeDevicePath(f) /\ UNCHANGED ConOutDev
            \/ PreparePciSerialDevicePath(f) /\ UNCHANGED ConOutDev
            \/ PreparePciVgaDevicePath(f) /\ UNCHANGED <<ConIn, ErrOut>>
            \/ UNCHANGED <<ConOut, ConIn, ErrOut, ConOutDev>>
        BY <2>3 DEF VisitingAPciInstance
      <4>2. f \in PciFunction
        BY <1>1, <3>4
      <4> HIDE DEF f
      <4>3. Path(f, "keyboard", None) \in Paths
            /\ SerialPaths(f, gTerminalTypeDeviceNode) \subseteq Paths
        BY <1>1, <4>2, DevicePathType
      <4>4. PreparePciVgaDevicePath(f) => ConOut' \subseteq Paths /\ ConOutDev' \subseteq Paths
        BY <1>1, <4>2, VgaPathStep
      <4> QED  BY <4>1, <4>3, <4>4
               DEF PrepareLpcBridgeDevicePath, PreparePciSerialDevicePath, PathTypes
    <3> HIDE DEF f
    <3> QED  BY <3>1, <3>4, <3>5, <3>6 DEF PathTypes
  <2>4. CASE \/ ShadowAllLegacyOproms
             \/ /\ \/ PlatformBdsInit \/ PlatformBdsConnectConsole \/ ConnectAllDefaultConsoles
                   \/ ConnectAllAndEnumerate
                /\ UNCHANGED <<legacyVars, romVars>>
    <3>1. UNCHANGED <<ConOut, ConIn, ErrOut, ConOutDev, enabled, handles>>
      BY <2>4 DEF ShadowAllLegacyOproms, PlatformHooks, PlatformBdsInit, PlatformBdsConnectConsole,
                  ConnectAllDefaultConsoles, ConnectAllAndEnumerate, storedVars, legacyVars
    <3> QED  BY <3>1 DEF PathTypes, Functions
  <2> QED  BY <1>2, <2>1, <2>2, <2>3, <2>4 DEF Bds, BdsNext
<1>3. CASE ChangesVariables
  <2>1. /\ ConOut' \subseteq ConOut /\ ConIn' \subseteq ConIn
        /\ UNCHANGED <<ErrOut, ConOutDev, enabled, handles>>
    BY <1>3 DEF ChangesVariables, ChangeVariables, legacyVars
  <2> QED  BY <2>1 DEF PathTypes, Functions
<1>4. CASE OperatingSystem
  BY <1>4 DEF OperatingSystem, BdsOver, storedVars, PathTypes
<1>5. CASE UNCHANGED <<handles, bdsVars>>
  BY <1>5 DEF bdsVars, storedVars, PathTypes, Functions
<1> QED
  BY <1>2, <1>3, <1>4, <1>5
     DEF Next, Pei, Delay, PeiEnds, Dxe, GetPlatformInfo, LegacyBoot, ProgramInterruptLines,
         GetRoutingTable, BootAgain, vars, legacyVars
LEMMA InterruptLineType ==
  ASSUME RoutesInv, PeiTypes
  PROVE  interruptLine = None \/ interruptLine \in [Functions -> (0 .. 255) \cup {None}]
<1>1. irqRoute \in [DOMAIN IrqRouteTable -> [1 .. 4 -> Pirqs]]
  BY DEF PeiTypes
<1>2. handles \in Seq(PciFunction)
  BY DEF RoutesInv
<1>3. Functions \subseteq PciFunction
  BY <1>2 DEF Functions
<1>4. \A f \in Functions : LineOf(f) \in (0 .. 255) \cup {None}
  BY <1>1, <1>3, LineOfType
<1> QED
  BY <1>4 DEF RoutesInv

(* All the invariants of the machine imply its types.                      *)
LEMMA TypesHold ==
  ASSUME TimersTypeOK, MergeInv, PhaseInv, RoutesInv, RomInv, ConsoleInv, PeiTypes, LegacyTypes,
         SettingTypes, PathTypes, LocalTypes
  PROVE  TypeOK
<1>1. PeiTypeOK
  BY DEF PeiTypes, PeiTypeOK, MergeInv, MtrrTypes
<1>2. LegacyTypeOK
  BY InterruptLineType DEF LegacyTypeOK, RoutesInv, LegacyTypes
<1>3. PciTypeOK
  BY DEF PciTypeOK, RomInv, LegacyTypes
<1>4. visited \in 0 .. Len(handles)
  <2>1. CASE bdsPc = "visit"
    BY <2>1 DEF ConsoleInv
  <2>2. CASE bdsPc # "visit"
    <3>1. visited = 0 /\ handles \in Seq(PciFunction)
      BY <2>2 DEF PhaseInv, RoutesInv
    <3>2. Len(handles) \in Nat
      BY <3>1
    <3> QED  BY <3>1, <3>2
  <2> QED  BY <2>1, <2>2
<1>5. enumerations \in 0 .. 2
  <2>1. enumerations \in {0, 1, 2}
    BY DEF LocalTypes
  <2> QED  BY <2>1
<1>6. \A paths \in {ConOut, ConIn, ErrOut, ConOutDev} : \A p \in paths : p \in Paths
  BY DEF PathTypes
<1>7. BdsTypeOK
  BY <1>4, <1>5, <1>6 DEF BdsTypeOK, SettingTypes, PathTypes, LocalTypes
<1> QED
  BY <1>1, <1>2, <1>3, <1>7 DEF TypeOK, PhaseInv

(* Every variable of the machine has its type on every boot, one phase     *)
(* runs at a time, and BDS has the boot mode that it ASSERTs: TestS4 reads *)
(* a bit that is never set.                                                *)
THEOREM TypeCorrect == Spec => []TypeOK
<1>1. Spec => []TimersTypeOK
  <2>1. Spec => TimersSpec
    BY TimersStep, PTL DEF Spec, Init, TimersSpec
  <2> QED  BY <2>1, TimersTypeCorrect, PTL
<1>2. Spec => []MergeInv
  <2>1. Init => MergeInv
    BY MergeInit DEF Init
  <2>2. MergeInv /\ [Next]_vars => MergeInv'
    BY PeiStep, MergeNext
  <2> QED  BY <2>1, <2>2, PTL DEF Spec
<1>3. Spec => [](PhaseInv /\ RoutesInv /\ RomInv /\ ConsoleInv)
  BY PhaseInit, PhaseStep, RoutesInit, RoutesStep, RomInit, RomStep, ConsoleInit, ConsoleStep, PTL
     DEF Spec
<1>4. Spec => []PeiTypes
  <2>1. Init => PeiTypes
    BY PeiTypesInit DEF Init
  <2> QED  BY <1>2, <2>1, PeiTypesPost, PTL DEF Spec
<1>5. Spec => []LegacyTypes
  BY <1>3, LegacyTypesInit, LegacyTypesStep, PTL DEF Spec
<1>6. Spec => [](SettingTypes /\ PathTypes /\ LocalTypes)
  BY <1>3, BdsTypesInit, SettingStep, PathStep, LocalStep, PTL DEF Spec
<1> QED
  BY <1>1, <1>2, <1>3, <1>4, <1>5, <1>6, TypesHold, PTL
=============================================================================
