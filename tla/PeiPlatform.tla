------------------------------ MODULE PeiPlatform ------------------------------
(***************************************************************************)
(* The platform in the PEI phase: PlatformEntryPoint of                    *)
(* PlatformInit/Pei/Platform.c decides the boot mode, writes the interrupt *)
(* routes and offers the memory initialisation (which is not in this       *)
(* package) the ranges to reserve and a memory test; when memory is there, *)
(* PlatformMtrr of PlatformInit/PeiMtrr/Platform2.c leaves cache-as-RAM    *)
(* and gives every range the resource descriptor HOBs name its cache type, *)
(* with at most MAX_MTRR_NUMBER variable MTRRs.                            *)
(***************************************************************************)
EXTENDS Integers, Sequences

CONSTANTS
  Pirqs,                  \* the PIRQs of the chipset, from 0
  IrqRouteTable,          \* device of bus 0 |-> PIRQ of each of INTA to INTD
  PirqRoute,              \* PIRQ |-> IRQ, or 0x80 and more if it is off
  MAX_MTRR_NUMBER,
  Top,                    \* physical addresses are 0 .. Top - 1
  TestSpan                \* MEMORY_TEST_COVER_SPAN

(* After a reset INTA to INTD go to PIRQA to PIRQD.                        *)
ASSUME PeiAssumption ==
  /\ 0 .. 3 \subseteq Pirqs
  /\ MAX_MTRR_NUMBER \in Nat /\ Top \in Nat /\ TestSpan \in Nat \ {0}
  /\ IrqRouteTable \in [DOMAIN IrqRouteTable -> [1 .. 4 -> Pirqs]]
  /\ PirqRoute \in [Pirqs -> 0 .. 255]

CONSTANT None

VARIABLES
  peiPc,
  bootMode,               \* the boot mode that is set, or None
  irqRoute, pirqRout,     \* the registers RCBA + 3140.., and PIRQ[n]_ROUT
  graphicsMemory,         \* *GraphicsMemoryMask, in megabytes
  tested,                 \* the last memory test and its result, or None
  hobType,                \* address |-> type its HOB asks for, of the HOBs read
  VarMtrrs,               \* the used entries
  dropped,                \* MergeMemoryRange has found no entry
  cacheType               \* address |-> type the MTRRs give it, or "off"

peiVars == <<peiPc, bootMode, irqRoute, pirqRout, graphicsMemory, tested, hobType,
             VarMtrrs, dropped, cacheType>>
mtrrVars == <<hobType, VarMtrrs, dropped, cacheType>>

Addresses == 0 .. Top - 1
CacheTypes == {"WB", "WP", "WC", "UC"}
ASSUME NoneAssumption == None \notin CacheTypes /\ None \notin 0 .. 255
Off == 128

-----------------------------------------------------------------------------
(* The boot mode.  A sleep state leaves SLP_TYP in PM1_CNT, and waking     *)
(* from it WAK_STS in PM1_STS, whose bit 12 is reserved and reads zero.    *)
PowerStates ==
  [powerFailure : BOOLEAN, PM1_STS : SUBSET {11, 15},
   SLP_TYP : {"S0", "S3", "S4", "S5"}]

TestS3(s) ==
  /\ ~s.powerFailure
  /\ 11 \notin s.PM1_STS
  /\ 15 \in s.PM1_STS
  /\ s.SLP_TYP = "S3"

(* It compares the bits of PM1_CNT's SLP_TYP, but reads PM1_STS.           *)
TestS4(s) == {11, 12} \subseteq s.PM1_STS /\ 10 \notin s.PM1_STS

SetBootMode(s) ==
  bootMode' = CASE TestS3(s) -> "S3 resume"
                [] ~TestS3(s) /\ TestS4(s) -> "S4 resume"
                [] OTHER -> "full configuration"

(* PIRQA to PIRQD are written by one register, PIRQE to PIRQH by another.  *)
WriteRoutes ==
  /\ irqRoute' = IrqRouteTable
  /\ pirqRout' = PirqRoute

(* The registers of SMBus and HECI, the HOBs of flash and memory-mapped    *)
(* I/O, which are not cacheable, and the PPIs are not told apart.          *)
PlatformEntryPoint ==
  /\ peiPc = "start"
  /\ \E s \in PowerStates : SetBootMode(s)
  /\ WriteRoutes
  /\ peiPc' = "services"
  /\ UNCHANGED <<graphicsMemory, tested, mtrrVars>>

-----------------------------------------------------------------------------
(* The services the memory initialisation calls.                           *)

GraphicsSizes == {32, 64, 96, 128, 160, 192, 224, 256, 288, 320, 352, 384, 416, 448, 480, 512}

(* GGC: no graphics memory if VGA is disabled, else the known size of GMS  *)
(* and that of the GTT.                                                    *)
GraphicsMemory(ivd, gms, ggms) ==
  IF ivd THEN 0
  ELSE (IF gms \in GraphicsSizes THEN gms ELSE 0) + (IF ggms \in {1, 2} THEN ggms ELSE 0)

(* No option ROM and no PCI range, 8 MB of cacheable TSEG.                 *)
PeiChooseRanges ==
  /\ peiPc = "services"
  /\ \E ivd \in BOOLEAN, gms \in {0, 32, 1024}, ggms \in {0, 2, 3} :
       graphicsMemory' = GraphicsMemory(ivd, gms, ggms)
  /\ peiPc' = "ranges"
  /\ UNCHANGED <<bootMode, irqRoute, pirqRout, tested, mtrrVars>>

Span(op) == IF op = "Extensive" THEN 1 ELSE TestSpan

(* The words the test writes and reads back.                               *)
TestedWords(begin, length, op) ==
  IF op = "Ignore" THEN {}
  ELSE {a \in begin .. begin + length - 1 : (a - begin) % Span(op) = 0}

(* The first word that does not hold the pattern is reported.              *)
PeiBaseMemoryTest ==
  /\ peiPc = "ranges"
  /\ \E begin \in Addresses, op \in {"Extensive", "Sparse", "Quick", "Ignore"},
        bad \in {{}} \cup {{a} : a \in Addresses} :
       LET failed == bad \cap TestedWords(begin, Top - begin, op) IN
       tested' = IF failed = {} THEN [status |-> "SUCCESS", at |-> 0]
                 ELSE [status |-> "DEVICE_ERROR", at |-> CHOOSE a \in failed : \A b \in failed : a <= b]
  /\ peiPc' = "memory"
  /\ UNCHANGED <<bootMode, irqRoute, pirqRout, graphicsMemory, mtrrVars>>

-----------------------------------------------------------------------------
(* PlatformMtrr.                                                           *)

(* The memory initialisation is over; the MTRRs are disabled and cleared.  *)
ExitCarMode ==
  /\ peiPc = "memory"
  /\ graphicsMemory' = 0 /\ tested' = None
  /\ cacheType' = [a \in Addresses |-> "off"]
  /\ VarMtrrs' = <<>>
  /\ peiPc' = "hobs"
  /\ UNCHANGED <<bootMode, irqRoute, pirqRout, hobType, dropped>>

(* The attributes of a resource are the types it can be given.             *)
CacheType(attributes) ==
  CASE "WB" \in attributes -> "WB"
    [] "WB" \notin attributes /\ "WP" \in attributes -> "WP"
    [] attributes \cap {"WB", "WP", "UC"} = {} /\ "WC" \in attributes -> "WC"
    [] OTHER -> "UC"

Lower(a, b) == IF a < b THEN a ELSE b
Higher(a, b) == IF a > b THEN a ELSE b

(* Mutant: the type is not compared.                                       *)
MeetsAnyType(e, base, end, type) == ~(base > e.end \/ end < e.base)
Meets(e, base, end, type) == ~(base > e.end \/ end < e.base) /\ e.type = type

Extended(e, base, end) == [e EXCEPT !.base = Lower(@, base), !.end = Higher(@, end)]

(* The first entry that overlaps or touches the range is extended; with    *)
(* none, the next entry is used, if there is one.                          *)
MergeMemoryRange(base, end, type) ==
  LET meeting == {i \in DOMAIN VarMtrrs : Meets(VarMtrrs[i], base, end, type)} IN
  \/ /\ meeting # {}
     /\ LET i == CHOOSE i \in meeting : \A j \in meeting : i <= j IN
        VarMtrrs' = [VarMtrrs EXCEPT ![i] = Extended(@, base, end)]
     /\ UNCHANGED dropped
  \/ /\ meeting = {} /\ Len(VarMtrrs) < MAX_MTRR_NUMBER
     /\ VarMtrrs' = Append(VarMtrrs, [base |-> base, end |-> end, type |-> type])
     /\ UNCHANGED dropped
  \/ /\ meeting = {} /\ Len(VarMtrrs) = MAX_MTRR_NUMBER
     /\ dropped' = TRUE
     /\ UNCHANGED VarMtrrs

(* The memory initialisation has built a HOB for each range it found, none *)
(* of which overlap; the list is chosen as the loop comes to it.           *)
Attributes == {{"UC", "WC", "WP", "WB"}, {"WP"}, {"WC"}, {"UC", "WC"}}

NextHob ==
  /\ peiPc = "hobs"
  /\ \E base \in Addresses, end \in 1 .. Top, attributes \in Attributes :
       LET type == CacheType(attributes) IN
       /\ base < end
       /\ \A a \in base .. end - 1 : hobType[a] = None
       /\ hobType' = [a \in Addresses |-> IF a \in base .. end - 1 THEN type ELSE hobType[a]]
       /\ IF type \in {"WP", "WB", "WC"} THEN MergeMemoryRange(base, end, type)
          ELSE UNCHANGED <<VarMtrrs, dropped>>
  /\ UNCHANGED <<peiPc, bootMode, irqRoute, pirqRout, graphicsMemory, tested, cacheType>>

(* MtrrSetMemoryAttribute is called for each entry in turn.                *)
Covering(a) == {i \in DOMAIN VarMtrrs : a \in VarMtrrs[i].base .. VarMtrrs[i].end - 1}

SetMtrrs ==
  /\ peiPc = "hobs"
  /\ cacheType' = [a \in Addresses |->
       IF Covering(a) = {} THEN "UC"
       ELSE VarMtrrs[CHOOSE i \in Covering(a) : \A j \in Covering(a) : i >= j].type]
  /\ peiPc' = "done"
  /\ UNCHANGED <<bootMode, irqRoute, pirqRout, graphicsMemory, tested, hobType, VarMtrrs, dropped>>

(* PEI is over; the MTRRs stay as they are, and nothing looks at them.     *)
PeiOver ==
  /\ peiPc = "done" /\ peiPc' = "over"
  /\ hobType' = [a \in Addresses |-> None] /\ VarMtrrs' = <<>> /\ dropped' = FALSE
  /\ cacheType' = [a \in Addresses |-> "off"]
  /\ UNCHANGED <<bootMode, irqRoute, pirqRout, graphicsMemory, tested>>

-----------------------------------------------------------------------------
PeiLocals ==
  /\ graphicsMemory = 0 /\ tested = None
  /\ hobType = [a \in Addresses |-> None] /\ VarMtrrs = <<>> /\ dropped = FALSE
  /\ cacheType = [a \in Addresses |-> "off"]

(* The reset state of the chipset.                                         *)
PeiInit ==
  /\ peiPc = "start" /\ bootMode = None
  /\ irqRoute = [d \in DOMAIN IrqRouteTable |-> [i \in 1 .. 4 |-> i - 1]]
  /\ pirqRout = [p \in Pirqs |-> Off]
  /\ PeiLocals

PeiNext ==
  \/ PlatformEntryPoint \/ PeiChooseRanges \/ PeiBaseMemoryTest
  \/ ExitCarMode \/ NextHob \/ SetMtrrs \/ PeiOver

PeiSpec == PeiInit /\ [][PeiNext]_peiVars

-----------------------------------------------------------------------------
Entries == [base : Addresses, end : 1 .. Top, type : {"WB", "WP", "WC"}]

PeiTypeOK ==
  /\ peiPc \in {"start", "services", "ranges", "memory", "hobs", "done", "over"}
  /\ bootMode \in {None, "S3 resume", "S4 resume", "full configuration"}
  /\ irqRoute \in [DOMAIN IrqRouteTable -> [1 .. 4 -> Pirqs]]
  /\ pirqRout \in [Pirqs -> 0 .. 255]
  /\ graphicsMemory \in 0 .. 514
  /\ hobType \in [Addresses -> CacheTypes \cup {None}]
  /\ VarMtrrs \in Seq(Entries) /\ Len(VarMtrrs) <= MAX_MTRR_NUMBER
  /\ dropped \in BOOLEAN
  /\ cacheType \in [Addresses -> CacheTypes \cup {"off"}]

(* "Merge continious ranges": in whatever order the HOBs come, touch and   *)
(* fill the table, an address gets the type its HOB asks for and no        *)
(* address another one; only when the table was full may a range stay      *)
(* uncached.                                                               *)
MtrrsAreHobs ==
  peiPc = "done" =>
    \A a \in Addresses :
      \/ cacheType[a] = hobType[a]
      \/ cacheType[a] = "UC" /\ (hobType[a] = None \/ dropped)
=============================================================================
