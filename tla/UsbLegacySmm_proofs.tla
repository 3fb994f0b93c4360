------------------------- MODULE UsbLegacySmm_proofs -------------------------
(***************************************************************************)
(* Theorems about UsbLegacySmm, for any number of handler calls per SMI.   *)
(***************************************************************************)
EXTENDS UsbLegacySmm, TLAPS

(* What SmmInit and the OS leave behind: the flag is set last, and the OS  *)
(* asks for a controller only afterwards.                                  *)
Booted == init \in {"ready", "aborted"}
Order ==
  /\ Flags => init = "ready" /\ \A c \in Controllers : ~stopped[c]
  /\ \A c \in Controllers : osOwned[c] => Booted
  /\ \A c \in Controllers : change[c] => osOwned[c]

(* A controller given up stays the OS's and shows no further request.      *)
GivenUp == \A c \in Controllers : stopped[c] => osOwned[c] /\ ~change[c]

(* What the handler has seen is still there when it acts on it, and the    *)
(* flag it tested is still set when it calls the EHCI driver.              *)
Fresh ==
  /\ pc = "ownership" => \A c \in Controllers : seen[c] # {} => change[c]
  /\ pc = "monitor" => Flags

Inv == TypeOK /\ Order /\ GivenUp /\ Fresh

LEMMA FirstOfType == ASSUME NEW S PROVE FirstOf(S) \in Controllers
BY DEF FirstOf, Controllers

(* Of the controllers something was seen on, the handler picks one.        *)
LEMMA FirstOfSeen ==
  ASSUME \E c \in Controllers : seen[c] # {}
  PROVE  Seen \in Controllers /\ seen[Seen] # {}
BY DEF Seen, FirstOf, Controllers

LEMMA InitInv == Init => Inv
<1> SUFFICES ASSUME Init PROVE Inv
  OBVIOUS
<1>1. TypeOK
  <2>1. again \in 0 .. MaxCallbacks - 1
    BY ControllersAssumption DEF Init
  <2> QED
    BY <2>1 DEF Init, TypeOK, Controllers, NothingSeen, StatusBits, SmiSources
<1>2. Order /\ GivenUp /\ Fresh
  BY DEF Init, Order, GivenUp, Fresh, Booted
<1> QED
  BY <1>1, <1>2 DEF Inv

LEMMA ReturnType ==
  ASSUME TypeOK, Return
  PROVE  /\ pc' \in {"off", "entry"} /\ again' \in 0 .. MaxCallbacks - 1
         /\ seen' = [c \in Controllers |-> {}]
<1>1. again' \in 0 .. MaxCallbacks - 1
  BY ControllersAssumption DEF TypeOK, Return
<1> QED
  BY <1>1 DEF Return, NothingSeen

LEMMA TypeStep == ASSUME Inv, [Next]_vars PROVE TypeOK'
<1> USE DEF Inv, TypeOK
<1>1. ASSUME SmmInit PROVE TypeOK'
  <2>1. CASE StartDrivers
    BY <2>1 DEF StartDrivers
  <2>2. ASSUME NEW from, NEW c \in Controllers, NEW source \in SmiSources,
               NEW to \in {"complete1", "owner0", "owner1", "flag"},
               EnableSmi(from, c, source, to)
        PROVE  TypeOK'
    <3>1. enable' \in [Controllers -> SUBSET SmiSources]
      BY <2>2 DEF EnableSmi
    <3>2. change' \in [Controllers -> BOOLEAN]
      BY <2>2 DEF EnableSmi
    <3> QED  BY <2>2, <3>1, <3>2 DEF EnableSmi
  <2>3. CASE SetFlag
    BY <2>3 DEF SetFlag, hardware
  <2> QED  BY <1>1, <2>1, <2>2, <2>3 DEF SmmInit, Controllers, SmiSources
<1>2. ASSUME NEW c \in Controllers, Complete(c) \/ PortChange(c) \/ OsTakes(c) \/ OsComplete(c)
      PROVE  TypeOK'
  <2>1. CASE Complete(c)
    BY <2>1 DEF Complete, StatusBits
  <2>2. CASE PortChange(c)
    BY <2>2 DEF PortChange, StatusBits
  <2>3. CASE OsTakes(c)
    BY <2>3 DEF OsTakes
  <2>4. CASE OsComplete(c)
    BY <2>4 DEF OsComplete, StatusBits
  <2> QED  BY <1>2, <2>1, <2>2, <2>3, <2>4
<1>3. CASE Smi
  BY <1>3 DEF Smi, hardware
<1>4. CASE Entry
  BY <1>4 DEF Entry, hardware
<1>5. CASE OwnershipChange
  <2>1. PICK c \in Controllers : c = Seen
    BY FirstOfType DEF Seen
  <2>2. /\ stopped' \in [Controllers -> BOOLEAN]
        /\ transfer' \in [Controllers -> {"none", "queued", "done"}]
        /\ change' \in [Controllers -> BOOLEAN]
        /\ enable' \in [Controllers -> SUBSET SmiSources]
    <3>1. CASE osOwned[c]
      BY <1>5, <2>1, <3>1 DEF OwnershipChange, ChangeCleared
    <3>2. CASE ~osOwned[c]
      BY <1>5, <2>1, <3>2 DEF OwnershipChange
    <3> QED  BY <3>1, <3>2
  <2>3. Return /\ Flags' = FALSE /\ UNCHANGED <<init, sts, osOwned, mEhc>>
    BY <1>5 DEF OwnershipChange, FlagsAfterOwnershipChange
  <2> QED  BY <2>2, <2>3, ReturnType
<1>6. CASE ReadStatus
  BY <1>6 DEF ReadStatus, hardware
<1>7. CASE Acknowledge
  <2>1. mEhc' \in Controllers
    BY <1>7, FirstOfType DEF Acknowledge
  <2>2. sts' \in [Controllers -> SUBSET StatusBits]
    BY <1>7 DEF Acknowledge, Acknowledged
  <2>3. CASE Flags
    BY <1>7, <2>1, <2>2, <2>3 DEF Acknowledge
  <2>4. CASE ~Flags
    BY <1>7, <2>1, <2>2, <2>4, ReturnType DEF Acknowledge
  <2> QED  BY <2>3, <2>4
<1>8. CASE Monitor
  <2>1. transfer' \in [Controllers -> {"none", "queued", "done"}]
    BY <1>8 DEF Monitor
  <2> QED  BY <1>8, <2>1, ReturnType DEF Monitor
<1>9. CASE ReadShadow
  BY <1>9 DEF ReadShadow, hardware
<1>10. ASSUME NEW c \in Controllers, ClearRequests(c)
       PROVE  /\ sts' \in [Controllers -> SUBSET StatusBits]
              /\ change' \in [Controllers -> BOOLEAN]
  BY <1>10 DEF ClearRequests
<1>11. CASE Clear0
  BY <1>10, <1>11 DEF Clear0, Controllers
<1>12. CASE Clear1
  <2>1. /\ sts' \in [Controllers -> SUBSET StatusBits]
        /\ change' \in [Controllers -> BOOLEAN]
    BY <1>10, <1>12 DEF Clear1, Controllers
  <2> QED  BY <1>12, <2>1, ReturnType DEF Clear1
<1>13. CASE UNCHANGED vars
  BY <1>13 DEF vars
<1> QED
  BY <1>1, <1>2, <1>3, <1>4, <1>5, <1>6, <1>7, <1>8, <1>9, <1>11, <1>12, <1>13
     DEF Next, Handler

LEMMA OrderStep == ASSUME Inv, [Next]_vars PROVE Order' /\ GivenUp' /\ Fresh'
<1> USE DEF Inv, Order, GivenUp, Fresh, Booted
<1>1. ASSUME SmmInit PROVE Order' /\ GivenUp' /\ Fresh'
  <2>1. CASE StartDrivers
    BY <2>1 DEF StartDrivers
  <2>2. ASSUME NEW from \in {"complete0", "complete1", "owner0", "owner1"},
               NEW c \in Controllers, NEW source \in SmiSources,
               NEW to \in {"complete1", "owner0", "owner1", "flag"},
               EnableSmi(from, c, source, to)
        PROVE  Order' /\ GivenUp' /\ Fresh'
    BY <2>2 DEF EnableSmi, TypeOK
  <2>3. CASE SetFlag
    BY <2>3 DEF SetFlag, hardware
  <2> QED  BY <1>1, <2>1, <2>2, <2>3 DEF SmmInit, Controllers, SmiSources
<1>2. ASSUME NEW c \in Controllers, Complete(c) \/ PortChange(c) \/ OsComplete(c)
      PROVE  Order' /\ GivenUp' /\ Fresh'
  BY <1>2 DEF Complete, PortChange, OsComplete
<1>3. ASSUME NEW c \in Controllers, OsTakes(c)
      PROVE  Order' /\ GivenUp' /\ Fresh'
  BY <1>3 DEF OsTakes, TypeOK
<1>4. CASE Smi \/ ReadStatus \/ ReadShadow
  BY <1>4 DEF Smi, ReadStatus, ReadShadow, hardware
<1>5. CASE Entry
  BY <1>5 DEF Entry, hardware
<1>6. CASE OwnershipChange
  <2> DEFINE c == Seen
  <2>1. c \in Controllers /\ seen[c] # {}
    BY <1>6, FirstOfSeen DEF OwnershipChange, TypeOK
  <2>2. change[c] /\ Booted
    BY <1>6, <2>1 DEF OwnershipChange
  <2>3. Flags' = FALSE /\ osOwned' = osOwned /\ init' = init /\ pc' \in {"off", "entry"}
    BY <1>6 DEF OwnershipChange, FlagsAfterOwnershipChange, Return
  <2>4. CASE osOwned[c]
    <3>1. /\ stopped' = [stopped EXCEPT ![c] = TRUE]
          /\ change' = [change EXCEPT ![c] = FALSE]
      BY <1>6, <2>4 DEF OwnershipChange, ChangeCleared
    <3> HIDE DEF c
    <3> QED  BY <2>1, <2>2, <2>3, <2>4, <3>1 DEF TypeOK
  <2>5. CASE ~osOwned[c]
    BY <2>1, <2>2, <2>5
  <2> QED  BY <2>4, <2>5
<1>7. CASE Acknowledge
  <2>1. CASE Flags
    BY <1>7, <2>1 DEF Acknowledge
  <2>2. CASE ~Flags
    BY <1>7, <2>2 DEF Acknowledge, Return
  <2> QED  BY <2>1, <2>2
<1>8. CASE Monitor
  BY <1>8 DEF Monitor, Return
<1>9. ASSUME NEW c \in Controllers, ClearRequests(c)
      PROVE  \A x \in Controllers : change'[x] => change[x]
  BY <1>9 DEF ClearRequests, TypeOK
<1>10. CASE Clear0
  <2>1. ClearRequests(Ehc0)
    BY <1>10 DEF Clear0
  <2>2. \A x \in Controllers : change'[x] => change[x]
    BY <1>9, <2>1 DEF Controllers
  <2> QED  BY <1>10, <2>2 DEF Clear0
<1>11. CASE Clear1
  <2>1. ClearRequests(Ehc1)
    BY <1>11 DEF Clear1
  <2>2. \A x \in Controllers : change'[x] => change[x]
    BY <1>9, <2>1 DEF Controllers
  <2> QED  BY <1>11, <2>2 DEF Clear1, Return
<1>12. CASE UNCHANGED vars
  BY <1>12 DEF vars
<1> QED
  BY <1>1, <1>2, <1>3, <1>4, <1>5, <1>6, <1>7, <1>8, <1>10, <1>11, <1>12
     DEF Next, Handler

LEMMA Invariant == Spec => []Inv
<1>1. Inv /\ [Next]_vars => Inv'
  BY TypeStep, OrderStep DEF Inv
<1> QED
  BY InitInv, <1>1, PTL DEF Spec

(* Every variable keeps its type, and a call of the handler leaves none of *)
(* its locals behind.                                                      *)
THEOREM TypeCorrect == Spec => []TypeOK
<1>1. Inv => TypeOK
  BY DEF Inv
<1> QED
  BY Invariant, <1>1, PTL

(* In no interleaving of SmmInit, the controllers, the OS and the handler  *)
(* does the handler look for transfers on a controller given up to the OS: *)
(* the flag goes with the first controller and is never set again.         *)
THEOREM MonitorCorrect == Spec => []MonitorOnlyRunning
<1>1. Inv => MonitorOnlyRunning
  BY DEF Inv, Fresh, Order, MonitorOnlyRunning
<1> QED
  BY Invariant, <1>1, PTL

(* A controller's driver is stopped for the OS once.                       *)
THEOREM StopCorrect == Spec => StoppedOnce
<1>1. ASSUME Inv, OwnershipChange PROVE ~stopped[Seen]
  <2>1. Seen \in Controllers /\ seen[Seen] # {}
    BY <1>1, FirstOfSeen DEF OwnershipChange, Inv, TypeOK
  <2>2. change[Seen]
    BY <1>1, <2>1 DEF OwnershipChange, Inv, Fresh
  <2> QED  BY <1>1, <2>1, <2>2 DEF Inv, GivenUp
<1>2. Inv => [OwnershipChange => ~stopped[Seen]]_vars
  BY <1>1
<1> QED
  BY Invariant, <1>2, PTL DEF StoppedOnce

=============================================================================
