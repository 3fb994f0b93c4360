-------------------------- MODULE LegacyBoot_proofs --------------------------
(***************************************************************************)
(* Theorems about LegacyBoot, for every set of inventories, every boot     *)
(* table of option ROMs and every number of tries and drives.              *)
(***************************************************************************)
EXTENDS LegacyBoot, SequenceTheorems, FiniteSetTheorems, WellFoundedInduction, TLAPS

-----------------------------------------------------------------------------
(* Selecting from a sequence.                                              *)

(* A set with 0 and every successor of its numbers holds all of them.      *)
LEMMA AllNumbers ==
  ASSUME NEW S, 0 \in S, \A n \in Nat : n \in S => n + 1 \in S
  PROVE  Nat \subseteq S
<1> SUFFICES ASSUME Nat \ S # {}  PROVE FALSE
  OBVIOUS
<1>1. PICK n \in Nat \ S : \A m \in Nat \ S : ~(<<m, n>> \in OpToRel(<, Nat))
  BY NatLessThanWellFounded, WFMin
<1>2. \A m \in Nat \ S : ~(m < n)
  BY <1>1 DEF OpToRel
<1>3. n # 0
  OBVIOUS
<1>4. n - 1 \in Nat /\ (n - 1) + 1 = n /\ n - 1 < n
  BY <1>3
<1> QED
  BY <1>2, <1>4

(* One step of the walk, and the walk over the first n elements.           *)
Taken(before, d, T) == IF d \in T THEN Append(before, d) ELSE before
IsWalk(f, n, s, T) ==
  f = [k \in 0 .. n |-> IF k = 0 THEN << >>
                        ELSE IF s[k] \in T THEN Append(f[k - 1], s[k]) ELSE f[k - 1]]

LEMMA WalkExists ==
  ASSUME NEW s, NEW T, NEW n \in Nat
  PROVE  \E f : IsWalk(f, n, s, T)
<1> DEFINE S == {m \in Nat : \E f : IsWalk(f, m, s, T)}
<1>1. 0 \in S
  <2> DEFINE f == [k \in 0 .. 0 |-> << >>]
  <2>1. IsWalk(f, 0, s, T)
    BY DEF IsWalk
  <2> QED  BY <2>1
<1>2. ASSUME NEW m \in Nat, m \in S
      PROVE  m + 1 \in S
  <2>1. PICK f : IsWalk(f, m, s, T)
    BY <1>2
  <2> DEFINE g == [k \in 0 .. m + 1 |-> IF k <= m THEN f[k] ELSE Taken(f[m], s[m + 1], T)]
  <2>2. ASSUME NEW k \in 0 .. m + 1
        PROVE  g[k] = IF k = 0 THEN << >>
                      ELSE IF s[k] \in T THEN Append(g[k - 1], s[k]) ELSE g[k - 1]
    <3>1. CASE k = 0
      BY <2>1, <3>1 DEF IsWalk
    <3>2. CASE k # 0 /\ k <= m
      <4>1. k - 1 \in 0 .. m + 1 /\ k - 1 <= m /\ k \in 0 .. m
        BY <3>2
      <4>2. g[k] = f[k] /\ g[k - 1] = f[k - 1]
        BY <3>2, <4>1
      <4>3. f[k] = IF s[k] \in T THEN Append(f[k - 1], s[k]) ELSE f[k - 1]
        BY <2>1, <3>2, <4>1 DEF IsWalk
      <4> QED  BY <3>2, <4>2, <4>3
    <3>3. CASE k = m + 1
      <4>1. k # 0 /\ k - 1 = m /\ m \in 0 .. m + 1 /\ ~(k <= m)
        BY <3>3
      <4>2. g[k] = Taken(f[m], s[m + 1], T) /\ g[k - 1] = f[m]
        BY <3>3, <4>1
      <4> QED  BY <3>3, <4>1, <4>2 DEF Taken
    <3> QED  BY <3>1, <3>2, <3>3
  <2>3. IsWalk(g, m + 1, s, T)
    <3>1. g = [k \in 0 .. m + 1 |-> g[k]]
      OBVIOUS
    <3> HIDE DEF g
    <3> QED  BY <2>2, <3>1 DEF IsWalk
  <2> QED  BY <2>3
<1> HIDE DEF S
<1>3. Nat \subseteq S
  BY <1>1, <1>2, AllNumbers
<1> QED
  BY <1>3 DEF S

LEMMA SelectWalks ==
  ASSUME NEW s, NEW T, Len(s) \in Nat
  PROVE  \E f : IsWalk(f, Len(s), s, T) /\ Select(s, T) = f[Len(s)]
<1> DEFINE f == CHOOSE g : IsWalk(g, Len(s), s, T)
<1>1. \E g : IsWalk(g, Len(s), s, T)
  BY WalkExists
<1>2. IsWalk(f, Len(s), s, T)
  BY <1>1
<1>3. Select(s, T) = f[Len(s)]
  BY DEF Select, IsWalk
<1> HIDE DEF f
<1> QED
  BY <1>2, <1>3

(* What is selected: elements of s that are in T, each of them, and none   *)
(* twice that s does not hold twice.                                       *)
IsSelection(r, n, s, T, D) ==
  /\ r \in Seq(D) /\ Len(r) <= n
  /\ \A i \in DOMAIN r : \E k \in 1 .. n : r[i] = s[k] /\ s[k] \in T
  /\ \A k \in 1 .. n : s[k] \in T => \E i \in DOMAIN r : r[i] = s[k]
  /\ (\A j, k \in DOMAIN s : s[j] = s[k] => j = k) =>
       \A i, j \in DOMAIN r : r[i] = r[j] => i = j

LEMMA TakenSelects ==
  ASSUME NEW D, NEW s \in Seq(D), NEW T, NEW n \in Nat, n < Len(s), NEW r,
         IsSelection(r, n, s, T, D)
  PROVE  IsSelection(Taken(r, s[n + 1], T), n + 1, s, T, D)
<1> DEFINE d == s[n + 1]
<1>1. Len(s) \in Nat /\ DOMAIN s = 1 .. Len(s) /\ n + 1 \in DOMAIN s /\ d \in D
  BY LenProperties
<1>2. r \in Seq(D) /\ Len(r) \in Nat /\ DOMAIN r = 1 .. Len(r) /\ Len(r) <= n
  BY LenProperties DEF IsSelection
<1>3. \A k \in 1 .. n + 1 : k \in 1 .. n \/ k = n + 1
  OBVIOUS
<1>4. 1 .. n \subseteq 1 .. n + 1
  OBVIOUS
<1>5. CASE d \notin T
  <2>1. Taken(r, d, T) = r /\ Len(r) <= n + 1
    BY <1>2, <1>5 DEF Taken
  <2>2. \A k \in 1 .. n + 1 : s[k] \in T => k \in 1 .. n
    BY <1>3, <1>5
  <2> QED  BY <2>1, <2>2, <1>4 DEF IsSelection
<1>6. CASE d \in T
  <2> DEFINE t == Append(r, d)
  <2>1. t \in Seq(D) /\ Len(t) = Len(r) + 1 /\ DOMAIN t = 1 .. Len(r) + 1
        /\ t[Len(r) + 1] = d /\ \A i \in 1 .. Len(r) : t[i] = r[i]
    BY <1>1, <1>2
  <2>2. Taken(r, d, T) = t
    BY <1>6 DEF Taken
  <2> HIDE DEF t
  <2>3. \A i \in DOMAIN t : i \in DOMAIN r \/ i = Len(r) + 1
    BY <1>2, <2>1
  <2>4. \A i \in DOMAIN r : i \in DOMAIN t /\ t[i] = r[i]
    BY <1>2, <2>1
  <2>5. Len(r) + 1 \in DOMAIN t /\ n + 1 \in 1 .. n + 1
    BY <1>2, <2>1
  <2>6. ASSUME NEW i \in DOMAIN t
        PROVE  \E k \in 1 .. n + 1 : t[i] = s[k] /\ s[k] \in T
    <3>1. CASE i \in DOMAIN r
      BY <3>1, <2>4, <1>4 DEF IsSelection
    <3>2. CASE i = Len(r) + 1
      BY <3>2, <1>6, <2>1, <2>5
    <3> QED  BY <2>3, <3>1, <3>2
  <2>7. ASSUME NEW k \in 1 .. n + 1, s[k] \in T
        PROVE  \E i \in DOMAIN t : t[i] = s[k]
    <3>1. CASE k \in 1 .. n
      BY <3>1, <2>4, <2>7 DEF IsSelection
    <3>2. CASE k = n + 1
      BY <3>2, <2>1, <2>5
    <3> QED  BY <1>3, <3>1, <3>2
  <2>8. ASSUME \A j, k \in DOMAIN s : s[j] = s[k] => j = k,
               NEW i \in DOMAIN t, NEW j \in DOMAIN t, t[i] = t[j]
        PROVE  i = j
    <3>1. \A i2, j2 \in DOMAIN r : r[i2] = r[j2] => i2 = j2
      BY <2>8 DEF IsSelection
    <3>2. ASSUME NEW m \in DOMAIN r  PROVE r[m] # d
      <4>1. PICK k \in 1 .. n : r[m] = s[k]
        BY DEF IsSelection
      <4>2. k \in DOMAIN s /\ k # n + 1
        BY <1>1
      <4> QED  BY <1>1, <2>8, <4>1, <4>2
    <3> QED  BY <2>1, <2>3, <2>4, <2>8, <3>1, <3>2
  <2>9. Len(t) <= n + 1
    BY <1>2, <2>1
  <2> QED  BY <2>1, <2>2, <2>6, <2>7, <2>8, <2>9 DEF IsSelection
<1> QED
  BY <1>5, <1>6

LEMMA Selection ==
  ASSUME NEW D, NEW s \in Seq(D), NEW T
  PROVE  IsSelection(Select(s, T), Len(s), s, T, D)
<1>1. Len(s) \in Nat
  OBVIOUS
<1>2. PICK f : IsWalk(f, Len(s), s, T) /\ Select(s, T) = f[Len(s)]
  BY <1>1, SelectWalks
<1> DEFINE S == {n \in Nat : n <= Len(s) => IsSelection(f[n], n, s, T, D)}
<1>3. 0 \in S
  <2>1. f[0] = << >>
    BY <1>1, <1>2 DEF IsWalk
  <2>2. f[0] \in Seq(D) /\ Len(f[0]) = 0 /\ DOMAIN f[0] = {} /\ 1 .. 0 = {}
    BY <2>1
  <2>3. IsSelection(f[0], 0, s, T, D)
    BY <2>2 DEF IsSelection
  <2> QED  BY <2>3
<1>4. ASSUME NEW n \in Nat, n \in S
      PROVE  n + 1 \in S
  <2> SUFFICES ASSUME n + 1 <= Len(s)  PROVE IsSelection(f[n + 1], n + 1, s, T, D)
    OBVIOUS
  <2>1. n < Len(s) /\ n + 1 \in 0 .. Len(s) /\ n + 1 # 0 /\ (n + 1) - 1 = n
    BY <1>1
  <2>2. f[n + 1] = Taken(f[n], s[n + 1], T)
    BY <1>2, <2>1 DEF IsWalk, Taken
  <2>3. IsSelection(f[n], n, s, T, D)
    BY <1>1, <1>4, <2>1
  <2> QED  BY <2>1, <2>2, <2>3, TakenSelects
<1> HIDE DEF S
<1>5. Nat \subseteq S
  BY <1>3, <1>4, AllNumbers
<1> QED
  BY <1>1, <1>2, <1>5 DEF S

-----------------------------------------------------------------------------
(* The drives the handler finds.                                           *)

SeqOK(r, kinds) ==
  /\ r \in Seq(Device)
  /\ \A i \in DOMAIN r : r[i] \in Found /\ r[i].kind \in kinds
  /\ \A i, j \in DOMAIN r : r[i] = r[j] => i = j

LEMMA HandlesType ==
  ASSUME handles \in Inventories
  PROVE  /\ handles \in Seq(Device) /\ Len(handles) \in Nat
         /\ DOMAIN handles = 1 .. Len(handles)
         /\ \A i, j \in DOMAIN handles : handles[i] = handles[j] => i = j
         /\ Found \subseteq Device
<1>1. handles \in Seq(Device)
  BY InventoriesAssumption
<1>2. Found \subseteq Device
  BY <1>1, LenProperties DEF Found
<1>3. \A i, j \in DOMAIN handles : handles[i] = handles[j] => i = j
  BY InventoriesAssumption
<1>4. Len(handles) \in Nat /\ DOMAIN handles = 1 .. Len(handles)
  BY <1>1, LenProperties
<1> QED
  BY <1>1, <1>2, <1>3, <1>4

LEMMA SelectedDrives ==
  ASSUME handles \in Inventories, NEW T, NEW kinds, T \subseteq Found,
         \A d \in T : d.kind \in kinds
  PROVE  /\ SeqOK(Select(handles, T), kinds)
         /\ \A d \in T : \E i \in DOMAIN Select(handles, T) : Select(handles, T)[i] = d
         /\ \A i \in DOMAIN Select(handles, T) : Select(handles, T)[i] \in T
<1> DEFINE r == Select(handles, T)
<1>1. IsSelection(r, Len(handles), handles, T, Device)
  BY HandlesType, Selection
<1> HIDE DEF r
<1>2. \A i \in DOMAIN r : r[i] \in T
  BY <1>1 DEF IsSelection
<1>3. \A i, j \in DOMAIN r : r[i] = r[j] => i = j
  BY <1>1, HandlesType DEF IsSelection
<1>4. SeqOK(r, kinds)
  BY <1>1, <1>2, <1>3 DEF IsSelection, SeqOK
<1>5. ASSUME NEW d \in T
      PROVE  \E i \in DOMAIN r : r[i] = d
  <2>1. PICK k \in DOMAIN handles : handles[k] = d
    BY DEF Found
  <2> QED  BY <1>1, <2>1, HandlesType DEF IsSelection
<1> QED
  BY <1>2, <1>4, <1>5 DEF r

LEMMA CutIs ==
  ASSUME NEW D, NEW s \in Seq(D), NEW n \in Nat
  PROVE  /\ Cut(s, n) \in Seq(D) /\ Len(Cut(s, n)) <= n /\ Len(Cut(s, n)) \in Nat
         /\ DOMAIN Cut(s, n) \subseteq DOMAIN s
         /\ \A i \in DOMAIN Cut(s, n) : Cut(s, n)[i] = s[i]
<1> DEFINE m == IF Len(s) < n THEN Len(s) ELSE n
<1>1. Len(s) \in Nat /\ DOMAIN s = 1 .. Len(s) /\ m \in 0 .. Len(s) /\ m <= n
  OBVIOUS
<1> HIDE DEF m
<1>2. /\ SubSeq(s, 1, m) \in Seq(D) /\ Len(SubSeq(s, 1, m)) = m
      /\ \A i \in 1 .. m : SubSeq(s, 1, m)[i] = s[i]
  BY <1>1, SubSeqProperties
<1>3. DOMAIN SubSeq(s, 1, m) = 1 .. m
  BY <1>1, <1>2
<1> QED
  BY <1>1, <1>2, <1>3 DEF Cut, m

LEMMA DisksFound ==
  ASSUME handles \in Inventories
  PROVE  SeqOK(Disks, {"disk"}) /\ Len(Disks) < MAX_HDD_SUPPORTED /\ Len(Disks) \in Nat
<1> DEFINE r == Drives({"disk"})
<1>1. SeqOK(r, {"disk"})
  BY SelectedDrives DEF Drives
<1>2. MAX_HDD_SUPPORTED \in Nat /\ MAX_HDD_SUPPORTED - 1 \in Nat
  BY BoundsAssumption
<1>3. r \in Seq(Device)
  BY <1>1 DEF SeqOK
<1> HIDE DEF r
<1> DEFINE c == Cut(r, MAX_HDD_SUPPORTED - 1)
<1>4. /\ c \in Seq(Device) /\ Len(c) <= MAX_HDD_SUPPORTED - 1 /\ Len(c) \in Nat
      /\ DOMAIN c \subseteq DOMAIN r /\ \A i \in DOMAIN c : c[i] = r[i]
  BY <1>2, <1>3, CutIs
<1>5. c = Disks
  BY DEF Disks, r
<1> HIDE DEF c
<1>6. SeqOK(c, {"disk"})
  BY <1>1, <1>4 DEF SeqOK
<1> QED
  BY <1>2, <1>4, <1>5, <1>6

LEMMA CdsFound ==
  ASSUME handles \in Inventories
  PROVE  /\ SeqOK(Cds, {"cd"})
         /\ \A d \in Found : d.kind = "cd" => \E i \in DOMAIN Cds : Cds[i] = d
BY SelectedDrives DEF Cds, Drives

LEMMA LastIs ==
  ASSUME NEW s \in Seq(Device)
  PROVE  LastOr(s, None) = None \/ \E i \in DOMAIN s : LastOr(s, None) = s[i]
BY DEF LastOr

(* The device taken for the boot device is one of the table's place, and a *)
(* disk only if there is room for it.                                      *)
LEMMA MatchFound ==
  ASSUME handles \in Inventories, NEW e, LastOr(Matching(e), None) # None
  PROVE  LET d == LastOr(Matching(e), None) IN
         /\ d \in Found /\ d.loc = e.loc
         /\ d.kind = "cd" \/ \E i \in DOMAIN Disks : Disks[i] = d
<1> DEFINE T == {d \in Found : /\ d.loc = e.loc
                               /\ d.kind = "cd" \/ \E i \in DOMAIN Disks : Disks[i] = d}
           r == Matching(e)
<1>1. r = Select(handles, T)
  BY DEF Matching
<1>2. T \subseteq Found /\ \A d \in T : d.kind \in {f.kind : f \in Found}
  OBVIOUS
<1>3. \A d \in T : d.loc = e.loc /\ (d.kind = "cd" \/ \E i \in DOMAIN Disks : Disks[i] = d)
  OBVIOUS
<1> HIDE DEF T, r
<1>4. r \in Seq(Device) /\ \A i \in DOMAIN r : r[i] \in T
  BY <1>1, <1>2, SelectedDrives DEF SeqOK
<1>5. LastOr(r, None) \in T
  BY <1>4, LastIs DEF r
<1> QED
  BY <1>2, <1>3, <1>5 DEF r

(* Changing places puts b first, if it is there, and loses nothing.        *)
IsSwap(r, s, b) ==
  /\ r \in Seq(Device) /\ Len(r) = Len(s)
  /\ (\E j \in DOMAIN s : s[j] = b) => 1 \in DOMAIN r /\ r[1] = b
  /\ \A i \in DOMAIN r : \E j \in DOMAIN s : r[i] = s[j]
  /\ \A k \in DOMAIN s : \E j \in DOMAIN r : {i \in DOMAIN r : r[i] = s[k]} = {j}

LEMMA SwapIs ==
  ASSUME NEW s \in Seq(Device), \A i, j \in DOMAIN s : s[i] = s[j] => i = j, NEW b
  PROVE  IsSwap(SwappedFirst(s, b), s, b)
<1> DEFINE r == SwappedFirst(s, b)
           known == \E j \in DOMAIN s : s[j] = b
<1>1. Len(s) \in Nat /\ DOMAIN s = 1 .. Len(s) /\ \A i \in DOMAIN s : s[i] \in Device
  BY LenProperties
<1>2. r = [i \in DOMAIN s |-> IF i = 1 /\ known THEN b ELSE IF s[i] = b THEN s[1] ELSE s[i]]
  BY DEF SwappedFirst
<1>3. known => 1 \in DOMAIN s
  BY <1>1
<1>4. ASSUME NEW i \in DOMAIN s
      PROVE  \E j \in DOMAIN s : r[i] = s[j]
  <2>1. r[i] = IF i = 1 /\ known THEN b ELSE IF s[i] = b THEN s[1] ELSE s[i]
    BY <1>2
  <2>2. CASE i = 1 /\ known
    BY <2>1, <2>2
  <2>3. CASE ~(i = 1 /\ known) /\ s[i] = b
    BY <1>3, <2>1, <2>3
  <2>4. CASE ~(i = 1 /\ known) /\ s[i] # b
    BY <2>1, <2>4
  <2> QED  BY <2>2, <2>3, <2>4
<1>5. DOMAIN r = 1 .. Len(s) /\ \A i \in 1 .. Len(s) : r[i] \in Device
  BY <1>1, <1>2, <1>4
<1>6. r \in Seq(Device) /\ Len(r) = Len(s)
  <2>1. r = [i \in 1 .. Len(s) |-> r[i]]
    BY <1>1, <1>2
  <2> HIDE DEF r
  <2> QED  BY <1>1, <1>5, <2>1
<1>7. known => r[1] = b
  BY <1>2, <1>3
<1>8. ASSUME NEW k \in DOMAIN s
      PROVE  \E j \in DOMAIN r : {i \in DOMAIN r : r[i] = s[k]} = {j}
  <2>0. \A i \in DOMAIN s :
          r[i] = IF i = 1 /\ known THEN b ELSE IF s[i] = b THEN s[1] ELSE s[i]
    BY <1>2
  <2>00. DOMAIN r = DOMAIN s
    BY <1>1, <1>5
  <2> HIDE DEF r
  <2>1. CASE ~known
    <3>1. \A i \in DOMAIN s : r[i] = s[i]
      BY <2>0, <2>1
    <3> QED  BY <2>00, <3>1
  <2>2. CASE known
    <3>1. PICK m \in DOMAIN s : s[m] = b
      BY <2>2
    <3>2. 1 \in DOMAIN s
      BY <1>3, <2>2
    <3>3. r[1] = b /\ \A i \in DOMAIN s \ {1} : r[i] = IF i = m THEN s[1] ELSE s[i]
      BY <2>0, <2>2, <3>1, <3>2
    <3> DEFINE j == IF k = 1 THEN m ELSE IF k = m THEN 1 ELSE k
    <3>4. j \in DOMAIN s /\ r[j] = s[k]
      BY <3>1, <3>2, <3>3
    <3>5. ASSUME NEW i \in DOMAIN s, r[i] = s[k]  PROVE i = j
      BY <3>1, <3>2, <3>3, <3>5
    <3> HIDE DEF j
    <3> QED  BY <2>00, <3>4, <3>5
  <2> QED  BY <2>1, <2>2
<1>9. DOMAIN r = DOMAIN s
  BY <1>1, <1>5
<1> HIDE DEF r
<1>10. IsSwap(r, s, b)
  BY <1>3, <1>4, <1>6, <1>7, <1>8, <1>9 DEF IsSwap
<1> QED
  BY <1>10 DEF r

-----------------------------------------------------------------------------
(* The invariant: types, and what the handler knows after the first call.  *)

TypeInv ==
  /\ handles \in Inventories /\ BbsTable \in Seq(Entry) /\ BbsEntry \in Entry
  /\ pc \in {"start", "table", "prepare", "rom", "int19", "int18", "os"}
  /\ Regs \in BOOLEAN
  /\ HardDriveBlockIo \in Seq(Device) /\ Len(HardDriveBlockIo) < MAX_HDD_SUPPORTED
  /\ CdBlockIo \in Device \cup {None} /\ BootDevice \in Device \cup {None}
  /\ mem7C00 \in [loc : Origins, signed : BOOLEAN]
  /\ tpl \in {"APPLICATION", "CALLBACK"}
  /\ cx \in 0 .. Tries
  /\ pc = "int19" => cx > 0

(* A drive at the place of the entry e is of e's kind.                     *)
PlaceOK(e) ==
  \A inv \in Inventories : \A i \in DOMAIN inv :
    inv[i].kind # "other" /\ inv[i].loc = e.loc /\ e.type # "bev" => inv[i].kind = e.type

HandlerInv ==
  /\ Regs <=> pc \in {"int19", "int18", "os"}
  /\ ~Regs \/ BbsEntry.type = "bev" => BootDevice = None
  /\ Regs /\ BbsEntry.type # "bev" =>
       /\ CdBlockIo = LastOr(Cds, None) /\ BootDevice = LastOr(Matching(BbsEntry), None)
       /\ HardDriveBlockIo = IF BbsEntry.type = "disk" THEN SwappedFirst(Disks, BootDevice)
                             ELSE Disks
  /\ PlaceOK(BbsEntry) /\ \A i \in DOMAIN BbsTable : PlaceOK(BbsTable[i])

Known == TypeInv /\ HandlerInv

LEMMA NoneIsNoDevice == None \notin Device /\ None.kind = "none"
BY DEF None, Device

(* The boot device is the drive at the place of the entry.                 *)
LEMMA BootDeviceIs ==
  ASSUME Known, BootDevice # None
  PROVE  /\ Regs /\ BbsEntry.type \in {"disk", "cd"} /\ BootDevice \in Found
         /\ BootDevice.kind = BbsEntry.type /\ BootDevice.loc = BbsEntry.loc
         /\ BbsEntry.type = "disk" => \E i \in DOMAIN Disks : Disks[i] = BootDevice
<1>1. Regs /\ BbsEntry.type # "bev" /\ BbsEntry \in Entry /\ handles \in Inventories
  BY DEF Known, TypeInv, HandlerInv
<1>2. BootDevice = LastOr(Matching(BbsEntry), None)
  BY <1>1 DEF Known, HandlerInv
<1>3. /\ BootDevice \in Found /\ BootDevice.loc = BbsEntry.loc
      /\ BootDevice.kind = "cd" \/ \E i \in DOMAIN Disks : Disks[i] = BootDevice
  BY <1>1, <1>2, MatchFound
<1>4. \A i \in DOMAIN Disks : Disks[i].kind = "disk"
  BY <1>1, DisksFound DEF SeqOK
<1>5. BootDevice.kind # "other"
  BY <1>3, <1>4
<1>6. PICK i \in DOMAIN handles : BootDevice = handles[i]
  BY <1>3 DEF Found
<1>7. BootDevice.kind = BbsEntry.type
  BY <1>1, <1>3, <1>5, <1>6 DEF Known, HandlerInv, PlaceOK
<1> QED
  BY <1>1, <1>3, <1>7 DEF Entry

LEMMA HandlerDrives ==
  ASSUME Known, Regs, BbsEntry.type # "bev"
  PROVE  /\ \A i \in DOMAIN HardDriveBlockIo :
              HardDriveBlockIo[i] \in Device /\ HardDriveBlockIo[i].kind = "disk"
         /\ CdBlockIo # None => CdBlockIo \in Device /\ CdBlockIo.kind = "cd"
         /\ \A k \in DOMAIN Disks : \E j \in DOMAIN HardDriveBlockIo :
              {i \in DOMAIN HardDriveBlockIo : HardDriveBlockIo[i] = Disks[k]} = {j}
         /\ BootDevice # None /\ BbsEntry.type = "disk" =>
              1 \in DOMAIN HardDriveBlockIo /\ HardDriveBlockIo[1] = BootDevice
         /\ BootDevice # None /\ BbsEntry.type = "cd" =>
              CdBlockIo # None /\ (Len(Cds) <= 1 => CdBlockIo = BootDevice)
<1>0. handles \in Inventories
  BY DEF Known, TypeInv
<1>1. /\ Disks \in Seq(Device) /\ \A i \in DOMAIN Disks : Disks[i].kind = "disk"
      /\ \A i, j \in DOMAIN Disks : Disks[i] = Disks[j] => i = j
  BY <1>0, DisksFound DEF SeqOK
<1>2. /\ Cds \in Seq(Device) /\ \A i \in DOMAIN Cds : Cds[i].kind = "cd"
      /\ \A d \in Found : d.kind = "cd" => \E i \in DOMAIN Cds : Cds[i] = d
  BY <1>0, CdsFound DEF SeqOK
<1>3. CdBlockIo = LastOr(Cds, None)
  BY DEF Known, HandlerInv
<1>4. CdBlockIo # None => \E i \in DOMAIN Cds : CdBlockIo = Cds[i]
  BY <1>2, <1>3, LastIs
<1>5. CdBlockIo # None => CdBlockIo \in Device /\ CdBlockIo.kind = "cd"
  BY <1>2, <1>4, LenProperties
<1>6. CASE BbsEntry.type = "disk"
  <2> DEFINE r == SwappedFirst(Disks, BootDevice)
  <2>1. HardDriveBlockIo = r
    BY <1>6 DEF Known, HandlerInv
  <2>2. IsSwap(r, Disks, BootDevice)
    BY <1>1, SwapIs
  <2> HIDE DEF r
  <2>3. BootDevice # None => 1 \in DOMAIN r /\ r[1] = BootDevice
    BY <1>6, <2>2, BootDeviceIs DEF IsSwap
  <2>4. \A i \in DOMAIN r : r[i] \in Device /\ r[i].kind = "disk"
    BY <1>1, <2>2, LenProperties DEF IsSwap
  <2> QED  BY <1>5, <1>6, <2>1, <2>2, <2>3, <2>4 DEF IsSwap
<1>7. CASE BbsEntry.type # "disk"
  <2>1. HardDriveBlockIo = Disks
    BY <1>7 DEF Known, HandlerInv
  <2>2. \A i \in DOMAIN Disks : Disks[i] \in Device
    BY <1>1, LenProperties
  <2>3. ASSUME NEW k \in DOMAIN Disks
        PROVE  \E j \in DOMAIN Disks : {i \in DOMAIN Disks : Disks[i] = Disks[k]} = {j}
    <3>1. {i \in DOMAIN Disks : Disks[i] = Disks[k]} = {k}
      BY <1>1
    <3> QED  BY <3>1
  <2>4. ASSUME BootDevice # None
        PROVE  CdBlockIo # None /\ (Len(Cds) <= 1 => CdBlockIo = BootDevice)
    <3>1. BootDevice \in Found /\ BootDevice.kind = "cd"
      BY <1>7, <2>4, BootDeviceIs
    <3>2. PICK i \in DOMAIN Cds : Cds[i] = BootDevice
      BY <1>2, <3>1
    <3>3. Len(Cds) \in Nat /\ DOMAIN Cds = 1 .. Len(Cds) /\ Cds # << >>
      BY <1>2, <3>2
    <3>4. CdBlockIo = Cds[Len(Cds)] /\ Cds[Len(Cds)] \in Device
      BY <1>2, <1>3, <3>3, LenProperties DEF LastOr
    <3> QED  BY <3>2, <3>3, <3>4, NoneIsNoDevice
  <2>5. \A i \in DOMAIN HardDriveBlockIo :
          HardDriveBlockIo[i] \in Device /\ HardDriveBlockIo[i].kind = "disk"
    BY <1>1, <2>1, <2>2
  <2>6. \A k \in DOMAIN Disks : \E j \in DOMAIN HardDriveBlockIo :
          {i \in DOMAIN HardDriveBlockIo : HardDriveBlockIo[i] = Disks[k]} = {j}
    BY <2>1, <2>3
  <2> QED  BY <1>5, <1>7, <2>4, <2>5, <2>6
<1> QED
  BY <1>6, <1>7

-----------------------------------------------------------------------------
(* The handler's answers.                                                  *)

Levels == {"APPLICATION", "CALLBACK"}
Sectors == [loc : Origins, signed : BOOLEAN]

(* An answer without the carry flag was served, by the drive it names.     *)
Served(a, request, dl) ==
  /\ a.from # None /\ a.tpl = tpl /\ request # "invalid"
  /\ request = "boot" => /\ BbsEntry.type = "cd" /\ a.from = CdBlockIo
                         /\ CdBlockIo.boot # "elsewhere" => a.mem = Sector(CdBlockIo)
  /\ request # "boot" => /\ a.from.kind = "cd" <=> dl = PRIMARY_CDROM_IDENT
                         /\ dl = FirstDisk /\ BbsEntry.type = "disk" => a.from = BootDevice

AnswerOK(a, request, dl) ==
  /\ a.cf \in BOOLEAN /\ a.tpl \in Levels /\ a.mem \in Sectors /\ a.from \in Device \cup {None}
  /\ BootDevice # None /\ ~a.cf => Served(a, request, dl)
  /\ BootDevice = None => a.tpl = tpl /\ a.mem = mem7C00 /\ a.from = None

LEMMA SectorType ==
  ASSUME NEW d \in Device
  PROVE  Sector(d) \in Sectors
BY DEF Sector, Sectors, Device, Origins

(* A request that fails leaves memory alone, but for a CD's catalog.       *)
LEMMA FailedAnswer ==
  ASSUME Known, BootDevice # None, NEW a, NEW request, NEW dl, a.cf = TRUE,
         a.from = None, a.tpl \in Levels, a.mem \in Sectors
  PROVE  AnswerOK(a, request, dl)
BY DEF AnswerOK

LEMMA Answers ==
  ASSUME Known, NEW request \in Requests, NEW dl \in Int, NEW cf \in BOOLEAN,
         NEW a \in Int13(request, dl, cf)
  PROVE  AnswerOK(a, request, dl)
<1>1. tpl \in Levels /\ mem7C00 \in Sectors
  BY DEF Known, TypeInv, Levels, Sectors
<1>2. Catalog \in Sectors
  <2>1. "catalog" \in Origins /\ FALSE \in BOOLEAN
    BY DEF Origins
  <2>2. \A l \in Origins, b \in BOOLEAN : [loc |-> l, signed |-> b] \in Sectors
    BY DEF Sectors
  <2> QED  BY <2>1, <2>2, Zenon DEF Catalog
<1>3. CASE BootDevice = None
  <2>1. a = Ignored(cf)
    BY <1>3 DEF Int13
  <2> QED  BY <1>1, <1>3, <2>1 DEF AnswerOK, Ignored, Answer
<1>4. CASE BootDevice # None
  <2>1. Regs /\ BbsEntry.type \in {"disk", "cd"}
    BY <1>4, BootDeviceIs
  <2>2. EParam.cf = TRUE /\ EParam.from = None /\ EParam.tpl \in Levels /\ EParam.mem \in Sectors
    BY <1>1 DEF EParam, Answer
  <2>3. a = EParam => AnswerOK(a, request, dl)
    BY <1>4, <2>2, FailedAnswer
  <2>4. CASE BbsEntry.type = "cd" /\ request = "boot"
    <3>1. a \in PerformCdBoot(CdBlockIo)
      BY <1>4, <2>4 DEF Int13
    <3>2. CdBlockIo \in Device /\ CdBlockIo # None
      BY <1>4, <2>1, <2>4, HandlerDrives
    <3>3. CASE a = Answer(TRUE, None, "CALLBACK", Catalog)
      <4>1. a.cf = TRUE /\ a.from = None /\ a.tpl \in Levels /\ a.mem \in Sectors
        BY <1>2, <3>3 DEF Answer, Levels
      <4> QED  BY <1>4, <4>1, FailedAnswer
    <3>4. CASE a = Answer(FALSE, CdBlockIo, tpl,
                          IF CdBlockIo.boot = "elsewhere" THEN Catalog ELSE Sector(CdBlockIo))
      <4>1. /\ a.cf = FALSE /\ a.from = CdBlockIo /\ a.tpl = tpl
            /\ a.mem = IF CdBlockIo.boot = "elsewhere" THEN Catalog ELSE Sector(CdBlockIo)
        BY <3>4 DEF Answer
      <4>2. a.mem \in Sectors
        BY <1>2, <3>2, <4>1, SectorType
      <4>3. Served(a, request, dl)
        BY <2>4, <3>2, <4>1 DEF Served
      <4> QED  BY <1>1, <1>4, <3>2, <4>1, <4>2, <4>3 DEF AnswerOK
    <3> QED  BY <2>3, <3>1, <3>3, <3>4 DEF PerformCdBoot
  <2>5. CASE ~(BbsEntry.type = "cd" /\ request = "boot")
    <3> DEFINE d == getPreferredBlockIo(dl)
    <3>1. CASE d = None
      BY <1>4, <2>3, <2>5, <3>1 DEF Int13
    <3>2. CASE d # None
      <4>1. /\ d \in Device /\ (d.kind = "cd" <=> dl = PRIMARY_CDROM_IDENT)
            /\ dl = FirstDisk /\ BbsEntry.type = "disk" => d = BootDevice
        <5>1. CASE dl = PRIMARY_CDROM_IDENT
          <6>1. d = CdBlockIo /\ dl # FirstDisk
            BY <5>1 DEF getPreferredBlockIo, PRIMARY_CDROM_IDENT, FirstDisk
          <6> QED  BY <2>1, <3>2, <5>1, <6>1, HandlerDrives
        <5>2. CASE dl # PRIMARY_CDROM_IDENT
          <6> DEFINE i == (dl - FirstDisk) + 1
          <6>1. i \in DOMAIN HardDriveBlockIo /\ d = HardDriveBlockIo[i]
            BY <3>2, <5>2 DEF getPreferredBlockIo
          <6>2. dl = FirstDisk => i = 1
            BY DEF FirstDisk
          <6> HIDE DEF i
          <6>3. d \in Device /\ d.kind = "disk"
            BY <2>1, <6>1, HandlerDrives
          <6>4. dl = FirstDisk /\ BbsEntry.type = "disk" => d = BootDevice
            BY <1>4, <2>1, <6>1, <6>2, HandlerDrives
          <6> QED  BY <5>2, <6>3, <6>4
        <5> QED  BY <5>1, <5>2
      <4>2. (request # "boot" /\ request # "invalid") \/ a = EParam
        BY <1>4, <2>5, <3>2 DEF Int13
      <4>3. a = EParam \/ a = Success(d)
        BY <1>4, <2>5, <3>2 DEF Int13, Transfer, Requests
      <4> HIDE DEF d
      <4>4. CASE a = Success(d) /\ request # "boot" /\ request # "invalid"
        <5>1. a.cf = FALSE /\ a.from = d /\ a.tpl = tpl /\ a.mem = mem7C00
          BY <4>4 DEF Success, Answer
        <5>2. Served(a, request, dl)
          BY <3>2, <4>1, <4>4, <5>1 DEF Served
        <5> QED  BY <1>1, <1>4, <4>1, <5>1, <5>2 DEF AnswerOK
      <4> QED  BY <2>3, <4>2, <4>3, <4>4
    <3> QED  BY <3>1, <3>2
  <2> QED  BY <2>4, <2>5
<1> QED
  BY <1>3, <1>4

-----------------------------------------------------------------------------
(* The invariant holds.                                                    *)

LEMMA KnownInit == Init => Known
<1> SUFFICES ASSUME Init  PROVE Known
  OBVIOUS
<1>1. TypeInv
  <2>1. NoEntry \in Entry
    BY DEF NoEntry, Entry, Priorities
  <2>2. << >> \in Seq(Entry) /\ << >> \in Seq(Device) /\ Len(<< >>) = 0
    OBVIOUS
  <2>3. 0 < MAX_HDD_SUPPORTED /\ 0 \in 0 .. Tries
    BY BoundsAssumption
  <2>4. mem7C00 \in [loc : Origins, signed : BOOLEAN]
    BY DEF Init, Origins
  <2> QED  BY <2>1, <2>2, <2>3, <2>4 DEF Init, TypeInv
<1>2. Regs = FALSE /\ pc = "start" /\ BootDevice = None /\ BbsTable = << >>
  BY DEF Init
<1>3. PlaceOK(BbsEntry)
  <2>1. BbsEntry.type = "bev"
    BY DEF Init, NoEntry
  <2> QED  BY <2>1 DEF PlaceOK
<1>4. DOMAIN BbsTable = {}
  BY <1>2
<1>5. HandlerInv
  BY <1>2, <1>3, <1>4 DEF HandlerInv
<1> QED
  BY <1>1, <1>5 DEF Known

(* A step that changes no more than the control, the level, what is at     *)
(* 7C00 and the tries keeps it.                                            *)
LEMMA SameDrives ==
  ASSUME Known, UNCHANGED <<handles, BbsEntry, handler>>, TypeInv',
         pc' \in {"int19", "int18", "os"} <=> pc \in {"int19", "int18", "os"},
         \A i \in DOMAIN BbsTable' : PlaceOK(BbsTable'[i])
  PROVE  Known'
<1>1. Cds' = Cds /\ Matching(BbsEntry)' = Matching(BbsEntry) /\ Disks' = Disks
  BY DEF Cds, Matching, Disks, Drives, Found
<1>2. SwappedFirst(Disks, BootDevice)' = SwappedFirst(Disks, BootDevice)
  BY <1>1 DEF SwappedFirst, handler
<1> QED
  BY <1>1, <1>2 DEF Known, HandlerInv, handler, PlaceOK

LEMMA UpdateKnown ==
  ASSUME Known, PlatformUpdateBbsTable
  PROVE  Known'
<1> DEFINE found == Cut(Drives({"disk", "cd"}), BBS_ENTRIES_NUMBER)
           entries == [i \in 1 .. Len(found) |-> SataEntry(found[i])]
<1>0. handles \in Inventories
  BY DEF Known, TypeInv
<1>1. /\ found \in Seq(Device) /\ Len(found) \in Nat /\ DOMAIN found = 1 .. Len(found)
      /\ \A i \in DOMAIN found : found[i] \in Found /\ found[i].kind \in {"disk", "cd"}
  <2> DEFINE r == Drives({"disk", "cd"})
  <2>1. SeqOK(r, {"disk", "cd"})
    BY <1>0, SelectedDrives DEF Drives
  <2> HIDE DEF r
  <2>2. r \in Seq(Device) /\ \A i \in DOMAIN r : r[i] \in Found /\ r[i].kind \in {"disk", "cd"}
    BY <2>1 DEF SeqOK
  <2> DEFINE c == Cut(r, BBS_ENTRIES_NUMBER)
  <2>3. /\ c \in Seq(Device) /\ Len(c) \in Nat
        /\ DOMAIN c \subseteq DOMAIN r /\ \A i \in DOMAIN c : c[i] = r[i]
    BY <2>2, BoundsAssumption, CutIs
  <2> HIDE DEF c
  <2>4. DOMAIN c = 1 .. Len(c)
    BY <2>3
  <2> QED  BY <2>2, <2>3, <2>4 DEF c, r
<1> HIDE DEF found
<1>2. ASSUME NEW i \in 1 .. Len(found)
      PROVE  SataEntry(found[i]) \in Entry /\ PlaceOK(SataEntry(found[i]))
  <2>1. found[i] \in Device /\ found[i].kind \in {"disk", "cd"}
    BY <1>0, <1>1, HandlesType
  <2>2. PICK k \in DOMAIN handles : found[i] = handles[k]
    BY <1>1 DEF Found
  <2>3. SataEntry(found[i]).loc = handles[k].loc /\ SataEntry(found[i]).type = handles[k].kind
    BY <2>2 DEF SataEntry
  <2>4. PlaceOK(SataEntry(found[i]))
    BY <1>0, <2>1, <2>2, <2>3, PlacesAssumption DEF PlaceOK
  <2>5. SataEntry(found[i]) \in Entry
    BY <2>1 DEF SataEntry, Entry, Device, Priorities
  <2> QED  BY <2>4, <2>5
<1>3. entries \in Seq(Entry) /\ Len(entries) = Len(found)
  BY <1>1, <1>2
<1>4. BbsTable' = RomEntries \o entries
  BY DEF PlatformUpdateBbsTable, found
<1>5. RomEntries \in Seq(Entry)
  BY InventoriesAssumption
<1>6. \A i \in DOMAIN RomEntries : PlaceOK(RomEntries[i])
  BY PlacesAssumption DEF PlaceOK
<1>7. \A i \in DOMAIN entries : PlaceOK(entries[i])
  BY <1>2
<1> HIDE DEF entries
<1>8. BbsTable' \in Seq(Entry)
  BY <1>3, <1>4, <1>5
<1>9. ASSUME NEW i \in DOMAIN BbsTable'
      PROVE  PlaceOK(BbsTable'[i])
  <2>1. Len(RomEntries) \in Nat /\ DOMAIN RomEntries = 1 .. Len(RomEntries)
        /\ Len(entries) \in Nat /\ DOMAIN entries = 1 .. Len(entries)
    BY <1>1, <1>3, <1>5
  <2>2. CASE i \in DOMAIN RomEntries
    BY <1>3, <1>4, <1>5, <1>6, <2>1, <2>2
  <2>3. CASE i \notin DOMAIN RomEntries
    <3>1. i - Len(RomEntries) \in DOMAIN entries /\ BbsTable'[i] = entries[i - Len(RomEntries)]
      BY <1>3, <1>4, <1>5, <2>1, <2>3
    <3> QED  BY <1>7, <3>1
  <2> QED  BY <2>2, <2>3
<1>10. pc = "start" /\ pc' = "table" /\ UNCHANGED <<handles, BbsEntry, handler, tpl, cx, mem7C00>>
  BY DEF PlatformUpdateBbsTable
<1>11. TypeInv'
  BY <1>8, <1>10 DEF Known, TypeInv, handler
<1> QED
  BY <1>9, <1>10, <1>11, SameDrives

(* So does a step before the first call of the handler.                    *)
LEMMA BeforeFirstCall ==
  ASSUME Known, ~Regs, UNCHANGED <<BbsEntry, handler>>, TypeInv',
         pc' \in {"table", "prepare", "rom"},
         \A i \in DOMAIN BbsTable' : PlaceOK(BbsTable'[i])
  PROVE  Known'
<1>1. Regs' = FALSE /\ BootDevice' = None /\ PlaceOK(BbsEntry')
  BY DEF Known, HandlerInv, TypeInv, handler, PlaceOK
<1>2. pc' \notin {"int19", "int18", "os"}
  OBVIOUS
<1> QED
  BY <1>1, <1>2 DEF Known, HandlerInv, PlaceOK

(* New priorities leave the rest of the boot table as it is.               *)
Prioritized(t, s, p) ==
  /\ t \in Seq(Entry) /\ DOMAIN t = DOMAIN s
  /\ \A j \in DOMAIN s : /\ t[j].type = s[j].type /\ t[j].loc = s[j].loc
                         /\ t[j].name = s[j].name /\ t[j].prio = p[j]

LEMMA NewPriorities ==
  ASSUME NEW s \in Seq(Entry), NEW p, \A j \in DOMAIN s : p[j] \in Priorities,
         NEW t, t = [j \in DOMAIN s |-> [s[j] EXCEPT !.prio = p[j]]]
  PROVE  Prioritized(t, s, p)
<1>1. Len(s) \in Nat /\ DOMAIN s = 1 .. Len(s) /\ \A j \in 1 .. Len(s) : s[j] \in Entry
  BY LenProperties
<1>2. ASSUME NEW j \in DOMAIN s
      PROVE  /\ t[j] \in Entry /\ t[j].type = s[j].type /\ t[j].loc = s[j].loc
             /\ t[j].name = s[j].name /\ t[j].prio = p[j]
  <2>1. s[j] \in Entry /\ p[j] \in Priorities /\ t[j] = [s[j] EXCEPT !.prio = p[j]]
    BY <1>1
  <2> QED  BY <2>1 DEF Entry
<1>3. t \in Seq(Entry)
  <2>1. t \in [1 .. Len(s) -> Entry]
    BY <1>1, <1>2
  <2> QED  BY <1>1, <2>1
<1> QED
  BY <1>2, <1>3 DEF Prioritized

LEMMA PrioritizedPlaces ==
  ASSUME Known, NEW t, NEW p, Prioritized(t, BbsTable, p)
  PROVE  \A i \in DOMAIN t : PlaceOK(t[i])
BY DEF Known, HandlerInv, Prioritized, PlaceOK

LEMMA ChooseKnown ==
  ASSUME Known, Choose
  PROVE  Known'
<1>1. /\ pc = "table" /\ pc' = "prepare"
      /\ UNCHANGED <<handles, BbsEntry, handler, tpl, cx, mem7C00>>
  BY DEF Choose
<1>2. BbsTable' \in Seq(Entry) /\ \A i \in DOMAIN BbsTable' : PlaceOK(BbsTable'[i])
  <2>0. BbsTable \in Seq(Entry)
    BY DEF Known, TypeInv
  <2>1. CASE UNCHANGED BbsTable
    BY <2>0, <2>1 DEF Known, HandlerInv
  <2>2. CASE \E first \in DOMAIN BbsTable :
               BbsTable' = [i \in DOMAIN BbsTable |->
                 [BbsTable[i] EXCEPT !.prio = IF i = first THEN "0" ELSE "LATER"]]
    <3>1. PICK first \in DOMAIN BbsTable :
            BbsTable' = [i \in DOMAIN BbsTable |->
              [BbsTable[i] EXCEPT !.prio = IF i = first THEN "0" ELSE "LATER"]]
      BY <2>2
    <3> DEFINE p == [i \in DOMAIN BbsTable |-> IF i = first THEN "0" ELSE "LATER"]
    <3>2. BbsTable' = [i \in DOMAIN BbsTable |-> [BbsTable[i] EXCEPT !.prio = p[i]]]
      BY <3>1
    <3>3. \A i \in DOMAIN BbsTable : p[i] \in Priorities
      BY DEF Priorities
    <3> HIDE DEF p
    <3>4. Prioritized(BbsTable', BbsTable, p)
      BY <2>0, <3>2, <3>3, NewPriorities
    <3> QED  BY <3>4, PrioritizedPlaces DEF Prioritized
  <2> QED  BY <2>1, <2>2 DEF Choose
<1>3. TypeInv'
  BY <1>1, <1>2 DEF Known, TypeInv, handler
<1>4. ~Regs
  BY <1>1 DEF Known, HandlerInv
<1> QED
  BY <1>1, <1>2, <1>3, <1>4, BeforeFirstCall

(* PrepareToBoot leaves the priority 0 to the entry it has chosen.         *)
LEMMA PrepareTable ==
  ASSUME Known, PrepareToBoot
  PROVE  \E i \in DOMAIN BbsTable : \E p :
           /\ BbsTable[i].name = chosen /\ Prioritized(BbsTable', BbsTable, p)
           /\ \A j \in DOMAIN BbsTable : p[j] = "0" => j = i
<1>0. BbsTable \in Seq(Entry)
  BY DEF Known, TypeInv
<1>1. PICK i \in DOMAIN BbsTable :
        /\ IsFirst(i, Matches)
        /\ BbsTable' = [j \in DOMAIN BbsTable |->
             [BbsTable[j] EXCEPT !.prio = IF j = i THEN "0" ELSE Demoted(@)]]
  BY DEF PrepareToBoot
<1> DEFINE p == [j \in DOMAIN BbsTable |-> IF j = i THEN "0" ELSE Demoted(BbsTable[j].prio)]
<1>2. BbsTable' = [j \in DOMAIN BbsTable |-> [BbsTable[j] EXCEPT !.prio = p[j]]]
  BY <1>1
<1>3. \A j \in DOMAIN BbsTable : p[j] \in Priorities
  <2>0. \A j \in DOMAIN BbsTable : BbsTable[j] \in Entry
    BY <1>0
  <2>1. \A j \in DOMAIN BbsTable : BbsTable[j].prio \in Priorities
    BY <2>0 DEF Entry
  <2> QED  BY <2>1 DEF Demoted, Priorities
<1>4. \A j \in DOMAIN BbsTable : p[j] = "0" => j = i
  BY DEF Demoted
<1> HIDE DEF p
<1>5. Prioritized(BbsTable', BbsTable, p)
  BY <1>0, <1>2, <1>3, NewPriorities
<1>6. BbsTable[i].name = chosen
  BY <1>1 DEF IsFirst, Matches
<1> QED
  BY <1>4, <1>5, <1>6

LEMMA PrepareKnown ==
  ASSUME Known, PrepareToBoot
  PROVE  Known'
<1>1. /\ pc = "prepare" /\ pc' = "rom" /\ handles' \in Inventories
      /\ UNCHANGED <<BbsEntry, handler, tpl, cx, mem7C00>>
  BY DEF PrepareToBoot
<1>2. PICK p : Prioritized(BbsTable', BbsTable, p)
  BY PrepareTable
<1>3. BbsTable' \in Seq(Entry) /\ \A i \in DOMAIN BbsTable' : PlaceOK(BbsTable'[i])
  BY <1>2, PrioritizedPlaces DEF Prioritized
<1>4. TypeInv'
  BY <1>1, <1>3 DEF Known, TypeInv, handler
<1>5. ~Regs
  BY <1>1 DEF Known, HandlerInv
<1> QED
  BY <1>1, <1>3, <1>4, <1>5, BeforeFirstCall

LEMMA UnsupportedKnown ==
  ASSUME Known, Unsupported
  PROVE  Known'
<1>1. /\ pc = "prepare" /\ pc' = "table" /\ handles' \in Inventories
      /\ UNCHANGED <<BbsTable, BbsEntry, handler, tpl, cx, mem7C00>>
  BY DEF Unsupported, table
<1>2. TypeInv'
  BY <1>1 DEF Known, TypeInv, handler
<1>3. ~Regs /\ \A i \in DOMAIN BbsTable' : PlaceOK(BbsTable'[i])
  BY <1>1 DEF Known, HandlerInv
<1> QED
  BY <1>1, <1>2, <1>3, BeforeFirstCall

LEMMA FirstCallKnown ==
  ASSUME Known, Legacy16PrepareToBoot
  PROVE  Known'
<1>0. /\ pc = "rom" /\ pc' = "int19" /\ cx' = Tries /\ Regs' = TRUE
      /\ UNCHANGED <<handles, BbsTable, tpl, mem7C00>>
  BY DEF Legacy16PrepareToBoot, table
<1>1. PICK i \in DOMAIN BbsTable : BbsEntry' = BbsTable[i] /\ FindSataBlockIo(BbsTable[i])
  BY DEF Legacy16PrepareToBoot
<1> DEFINE e == BbsTable[i]
<1>2. handles \in Inventories /\ e \in Entry /\ PlaceOK(e) /\ e.type \in {"disk", "cd", "bev"}
  <2>1. handles \in Inventories /\ BbsTable \in Seq(Entry) /\ PlaceOK(e)
    BY DEF Known, TypeInv, HandlerInv
  <2>2. e \in Entry
    BY <2>1
  <2> QED  BY <2>1, <2>2 DEF Entry
<1>3. BbsEntry' = e
  BY <1>1
<1>4. /\ Regs = FALSE /\ BootDevice = None
      /\ HardDriveBlockIo \in Seq(Device) /\ Len(HardDriveBlockIo) < MAX_HDD_SUPPORTED
      /\ CdBlockIo \in Device \cup {None}
  BY <1>0 DEF Known, TypeInv, HandlerInv
<1>5. e.type # "bev" =>
        /\ CdBlockIo' = LastOr(Cds, None) /\ BootDevice' = LastOr(Matching(e), None)
        /\ HardDriveBlockIo' = IF e.type = "disk" THEN SwappedFirst(Disks, BootDevice') ELSE Disks
  BY <1>1, <1>2 DEF FindSataBlockIo
<1>6. e.type = "bev" => UNCHANGED <<BootDevice, CdBlockIo, HardDriveBlockIo>>
  BY <1>1 DEF FindSataBlockIo
<1> HIDE DEF e
<1>7. Cds' = Cds /\ Disks' = Disks /\ Found' = Found
  BY <1>0 DEF Cds, Disks, Drives, Found
<1>8. Matching(BbsEntry)' = Matching(e)
  BY <1>0, <1>3, <1>7 DEF Matching
<1>9. e.type # "bev" =>
        /\ CdBlockIo' \in Device \cup {None} /\ BootDevice' \in Device \cup {None}
        /\ HardDriveBlockIo' \in Seq(Device) /\ Len(HardDriveBlockIo') < MAX_HDD_SUPPORTED
  <2> SUFFICES ASSUME e.type # "bev"
               PROVE  /\ CdBlockIo' \in Device \cup {None} /\ BootDevice' \in Device \cup {None}
                      /\ HardDriveBlockIo' \in Seq(Device)
                      /\ Len(HardDriveBlockIo') < MAX_HDD_SUPPORTED
    OBVIOUS
  <2>1. Cds \in Seq(Device)
    BY <1>2, CdsFound DEF SeqOK
  <2>2. CdBlockIo' \in Device \cup {None}
    <3>1. \A i2 \in DOMAIN Cds : Cds[i2] \in Device
      BY <2>1
    <3> QED  BY <1>5, <2>1, <3>1, LastIs
  <2>3. BootDevice' \in Device \cup {None}
    <3>1. LastOr(Matching(e), None) # None => LastOr(Matching(e), None) \in Found
      BY <1>2, MatchFound
    <3> QED  BY <1>2, <1>5, <3>1, HandlesType
  <2>4. /\ Disks \in Seq(Device) /\ Len(Disks) < MAX_HDD_SUPPORTED
        /\ \A i2, j2 \in DOMAIN Disks : Disks[i2] = Disks[j2] => i2 = j2
    BY <1>2, DisksFound DEF SeqOK
  <2>5. IsSwap(SwappedFirst(Disks, BootDevice'), Disks, BootDevice')
    BY <2>4, SwapIs
  <2> QED  BY <1>5, <2>2, <2>3, <2>4, <2>5 DEF IsSwap
<1>10. /\ CdBlockIo' \in Device \cup {None} /\ BootDevice' \in Device \cup {None}
       /\ HardDriveBlockIo' \in Seq(Device) /\ Len(HardDriveBlockIo') < MAX_HDD_SUPPORTED
  BY <1>4, <1>6, <1>9
<1>11. TypeInv'
  <2>1. cx' \in 0 .. Tries /\ cx' > 0
    BY <1>0, BoundsAssumption
  <2> QED  BY <1>0, <1>2, <1>3, <1>10, <2>1 DEF Known, TypeInv
<1>12. PlaceOK(BbsEntry') /\ \A k \in DOMAIN BbsTable' : PlaceOK(BbsTable'[k])
  BY <1>0, <1>2, <1>3 DEF Known, HandlerInv
<1>13. (Regs' /\ BbsEntry'.type # "bev") =>
         /\ CdBlockIo' = LastOr(Cds', None) /\ BootDevice' = LastOr(Matching(BbsEntry)', None)
         /\ HardDriveBlockIo' = IF BbsEntry'.type = "disk" THEN SwappedFirst(Disks', BootDevice')
                                ELSE Disks'
  BY <1>3, <1>5, <1>7, <1>8
<1>14. BbsEntry'.type = "bev" => BootDevice' = None
  BY <1>3, <1>4, <1>6
<1>15. HandlerInv'
  BY <1>0, <1>12, <1>13, <1>14 DEF HandlerInv, PlaceOK
<1> QED
  BY <1>11, <1>15 DEF Known

-----------------------------------------------------------------------------
(* Int 19 and the requests of the OS.                                      *)

(* What the two disk services of Int 19 get.                               *)
LEMMA BootFromCdIs ==
  ASSUME Known, BootFromCd
  PROVE  \E a : /\ AnswerOK(a, "boot", PRIMARY_CDROM_IDENT)
                /\ mem7C00' = a.mem /\ tpl' = a.tpl
                /\ pc' = IF a.cf THEN "int18" ELSE "os"
<1>1. "boot" \in Requests /\ PRIMARY_CDROM_IDENT \in Int
  BY DEF Requests, PRIMARY_CDROM_IDENT
<1>2. PICK a \in Int13("boot", PRIMARY_CDROM_IDENT, FALSE) :
        /\ mem7C00' = a.mem /\ tpl' = a.tpl
        /\ pc' = IF a.cf THEN "int18" ELSE "os"
  BY DEF BootFromCd
<1>3. AnswerOK(a, "boot", PRIMARY_CDROM_IDENT)
  BY <1>1, Answers
<1> QED
  BY <1>2, <1>3

LEMMA BootFromDiskIs ==
  ASSUME Known, BootFromDisk
  PROVE  \E a : /\ AnswerOK(a, "read", FirstDisk) /\ tpl' = a.tpl
                /\ mem7C00' = IF a.from = None THEN mem7C00 ELSE Sector(a.from)
                /\ pc' = "os" => ~a.cf
<1>1. "read" \in Requests /\ FirstDisk \in Int
  BY DEF Requests, FirstDisk
<1>2. PICK a \in Int13("read", FirstDisk, FALSE) :
        /\ tpl' = a.tpl
        /\ mem7C00' = IF a.from = None THEN mem7C00 ELSE Sector(a.from)
        /\ \/ ~a.cf
           \/ a.cf /\ pc' = IF cx' = 0 THEN "int18" ELSE "int19"
  BY DEF BootFromDisk
<1>3. AnswerOK(a, "read", FirstDisk)
  BY <1>1, Answers
<1>4. pc' = "os" => ~a.cf
  BY <1>2
<1> QED
  BY <1>2, <1>3, <1>4

LEMMA OsInt13Is ==
  ASSUME Known, OsInt13
  PROVE  \E a : \E request \in Requests, dl \in DriveNumbers :
           /\ AnswerOK(a, request, dl) /\ tpl' = a.tpl
           /\ reply' = [request |-> request, dl |-> dl, cf |-> a.cf, from |-> a.from]
<1>1. PICK request \in Requests, dl \in DriveNumbers, cf \in BOOLEAN :
        \E a \in Int13(request, dl, cf) :
          /\ reply' = [request |-> request, dl |-> dl, cf |-> a.cf, from |-> a.from]
          /\ tpl' = a.tpl
  BY DEF OsInt13
<1>2. PICK a \in Int13(request, dl, cf) :
          /\ reply' = [request |-> request, dl |-> dl, cf |-> a.cf, from |-> a.from]
          /\ tpl' = a.tpl
  BY <1>1
<1>3. dl \in Int
  BY BoundsAssumption
<1>4. AnswerOK(a, request, dl)
  BY <1>3, Answers
<1> QED
  BY <1>2, <1>4

LEMMA BootKnown ==
  ASSUME Known, BootFromCd \/ BootFromDisk \/ BootFromOther \/ Int18 \/ OsInt13
  PROVE  Known'
<1>1. /\ UNCHANGED <<handles, BbsTable, BbsEntry, handler>>
      /\ pc \in {"int19", "int18", "os"} /\ pc' \in {"int19", "int18", "os"}
  <2>1. CASE BootFromCd
    BY <2>1 DEF BootFromCd, table
  <2>2. CASE BootFromDisk
    BY <2>2 DEF BootFromDisk, table
  <2>3. CASE BootFromOther \/ Int18 \/ OsInt13
    BY <2>3 DEF BootFromOther, Int18, OsInt13, table
  <2> QED  BY <2>1, <2>2, <2>3
<1>2. tpl \in Levels /\ mem7C00 \in Sectors
  BY DEF Known, TypeInv, Levels, Sectors
<1>3. tpl' \in Levels /\ mem7C00' \in Sectors
  <2>1. CASE BootFromCd
    BY <2>1, BootFromCdIs DEF AnswerOK
  <2>2. CASE BootFromDisk
    <3>1. PICK a : /\ AnswerOK(a, "read", FirstDisk) /\ tpl' = a.tpl
                   /\ mem7C00' = IF a.from = None THEN mem7C00 ELSE Sector(a.from)
      BY <2>2, BootFromDiskIs
    <3>2. a.tpl \in Levels /\ a.from \in Device \cup {None}
      BY <3>1 DEF AnswerOK
    <3>3. a.from # None => Sector(a.from) \in Sectors
      BY <3>2, SectorType
    <3> QED  BY <1>2, <3>1, <3>2, <3>3
  <2>3. CASE OsInt13
    <3>1. mem7C00' = mem7C00
      BY <2>3 DEF OsInt13
    <3> QED  BY <1>2, <2>3, <3>1, OsInt13Is DEF AnswerOK
  <2>4. CASE BootFromOther \/ Int18
    BY <1>2, <2>4 DEF BootFromOther, Int18
  <2> QED  BY <2>1, <2>2, <2>3, <2>4
<1>4. cx' \in 0 .. Tries /\ (pc' = "int19" => cx' > 0)
  <2>1. cx \in 0 .. Tries /\ (pc = "int19" => cx > 0) /\ Tries \in Nat /\ Tries > 0
    BY BoundsAssumption DEF Known, TypeInv
  <2>2. CASE BootFromDisk
    <3>1. pc = "int19"
      BY <2>2 DEF BootFromDisk
    <3>2. \/ cx' = cx /\ pc' = IF mem7C00'.signed THEN "os" ELSE "int18"
          \/ cx' = TriesLeft /\ pc' = IF cx' = 0 THEN "int18" ELSE "int19"
      BY <2>2, Zenon DEF BootFromDisk
    <3>3. CASE cx' = cx /\ pc' = IF mem7C00'.signed THEN "os" ELSE "int18"
      BY <2>1, <3>3
    <3>4. CASE cx' = TriesLeft /\ pc' = IF cx' = 0 THEN "int18" ELSE "int19"
      BY <2>1, <3>1, <3>4 DEF TriesLeft
    <3> QED  BY <3>2, <3>3, <3>4
  <2>3. CASE Int18
    BY <2>1, <2>3 DEF Int18
  <2>4. CASE BootFromCd \/ BootFromOther \/ OsInt13
    <3>1. cx' = cx /\ pc' # "int19"
      BY <2>4 DEF BootFromCd, BootFromOther, OsInt13
    <3> QED  BY <2>1, <3>1
  <2> QED  BY <2>2, <2>3, <2>4
<1>5. TypeInv'
  BY <1>1, <1>3, <1>4 DEF Known, TypeInv, Levels, Sectors, handler
<1>6. \A i \in DOMAIN BbsTable' : PlaceOK(BbsTable'[i])
  BY <1>1 DEF Known, HandlerInv
<1> QED
  BY <1>1, <1>5, <1>6, SameDrives

LEMMA KnownStep == Known /\ [Next]_vars => Known'
<1> SUFFICES ASSUME Known, [Next]_vars  PROVE Known'
  OBVIOUS
<1>1. CASE UNCHANGED vars
  <2>1. UNCHANGED <<handles, BbsTable, pc, BbsEntry, handler, tpl, cx, mem7C00>>
    BY <1>1 DEF vars, table
  <2>2. TypeInv'
    BY <2>1 DEF Known, TypeInv, handler
  <2>3. \A i \in DOMAIN BbsTable' : PlaceOK(BbsTable'[i])
    BY <2>1 DEF Known, HandlerInv
  <2> QED  BY <2>1, <2>2, <2>3, SameDrives
<1>2. CASE Next
  BY <1>2, UpdateKnown, ChooseKnown, PrepareKnown, UnsupportedKnown, FirstCallKnown, BootKnown
     DEF Next, Int19
<1> QED
  BY <1>1, <1>2

LEMMA KnownAlways == Spec => []Known
BY KnownInit, KnownStep, PTL DEF Spec

-----------------------------------------------------------------------------
(* The theorems.                                                           *)

(* Every variable of the boot, the boot table and the handler keeps its    *)
(* type, and a slot of HardDriveBlockIo stays free (FindSataBlockIo).      *)
THEOREM TypeCorrect == Spec => []TypeOK
<1>1. Known => TypeOK
  BY DEF Known, TypeInv, TypeOK
<1> QED
  BY <1>1, KnownAlways, PTL

(* The selected disk is drive 80h, and every disk that was found has one   *)
(* drive number (FindSataBlockIo).                                         *)
THEOREM BootDiskCorrect == Spec => []BootDiskIsFirst
<1>1. Known => BootDiskIsFirst
  <2> SUFFICES ASSUME Known  PROVE BootDiskIsFirst
    OBVIOUS
  <2>1. ASSUME Regs, BbsEntry.type = "disk", BootDevice # None
        PROVE  HardDriveBlockIo[1] = BootDevice
    BY <2>1, HandlerDrives
  <2>2. ASSUME Regs, BbsEntry.type # "bev", NEW k \in DOMAIN Disks
        PROVE  Cardinality({i \in DOMAIN HardDriveBlockIo : HardDriveBlockIo[i] = Disks[k]}) = 1
    <3>1. PICK j \in DOMAIN HardDriveBlockIo :
            {i \in DOMAIN HardDriveBlockIo : HardDriveBlockIo[i] = Disks[k]} = {j}
      BY <2>2, HandlerDrives
    <3> QED  BY <3>1, FS_Singleton
  <2> QED  BY <2>1, <2>2 DEF BootDiskIsFirst
<1> QED
  BY <1>1, KnownAlways, PTL

(* From PrepareToBoot on, the entry with priority 0 is the chosen one.     *)
ChosenInv == pc = "rom" =>
  /\ \A i \in DOMAIN BbsTable : BbsTable[i].prio = "0" => BbsTable[i].name = chosen
  /\ \A i, j \in DOMAIN BbsTable : BbsTable[i].prio = "0" /\ BbsTable[j].prio = "0" => i = j

LEMMA ChosenStep == Known /\ ChosenInv /\ [Next]_vars => ChosenInv'
<1> SUFFICES ASSUME Known, ChosenInv, [Next]_vars, pc' = "rom"  PROVE ChosenInv'
  BY DEF ChosenInv
<1>1. CASE PrepareToBoot
  <2>0. PICK i \in DOMAIN BbsTable : \E p :
          /\ BbsTable[i].name = chosen /\ Prioritized(BbsTable', BbsTable, p)
          /\ \A j \in DOMAIN BbsTable : p[j] = "0" => j = i
    BY <1>1, PrepareTable
  <2>1. PICK p :
          /\ BbsTable[i].name = chosen /\ Prioritized(BbsTable', BbsTable, p)
          /\ \A j \in DOMAIN BbsTable : p[j] = "0" => j = i
    BY <2>0
  <2>2. chosen' = chosen
    BY <1>1 DEF PrepareToBoot
  <2>3. \A j \in DOMAIN BbsTable' : BbsTable'[j].prio = "0" => j = i
    BY <2>1 DEF Prioritized
  <2>4. BbsTable'[i].name = chosen'
    BY <2>1, <2>2 DEF Prioritized
  <2> QED  BY <2>3, <2>4 DEF ChosenInv
<1>2. CASE UNCHANGED vars
  BY <1>2 DEF ChosenInv, vars, table
<1>3. CASE Next /\ ~PrepareToBoot
  <2>1. CASE PlatformUpdateBbsTable \/ Choose \/ Unsupported \/ Legacy16PrepareToBoot
    BY <2>1 DEF PlatformUpdateBbsTable, Choose, Unsupported, Legacy16PrepareToBoot
  <2>2. CASE BootFromCd \/ BootFromDisk \/ BootFromOther \/ Int18 \/ OsInt13
    BY <2>2 DEF BootFromCd, BootFromDisk, BootFromOther, Int18, OsInt13
  <2> QED  BY <1>3, <2>1, <2>2 DEF Next, Int19
<1> QED
  BY <1>1, <1>2, <1>3

(* No entry but the user's has the priority 0 when the ROM looks for the   *)
(* entry to boot (PrepareToBoot of PlatformBdsLib).                        *)
THEOREM ChosenCorrect == Spec => []ChosenIsFirst
<1>1. Init => ChosenInv
  BY DEF Init, ChosenInv
<1>2. ChosenInv => ChosenIsFirst
  BY DEF ChosenInv, ChosenIsFirst
<1> QED
  BY <1>1, <1>2, KnownAlways, ChosenStep, PTL DEF Spec

(* What runs at 7C00 was read from the drive the handler serves: the boot  *)
(* disk, or the CD drive it has kept.                                      *)
LoadedInv ==
  pc = "os" /\ BootDevice # None =>
    /\ BbsEntry.type = "disk" => mem7C00.loc = BootDevice.loc
    /\ BbsEntry.type = "cd" /\ CdBlockIo.boot # "elsewhere" => mem7C00.loc = CdBlockIo.loc

LEMMA LoadedStep == Known /\ LoadedInv /\ [Next]_vars => LoadedInv'
<1> SUFFICES ASSUME Known, LoadedInv, [Next]_vars, pc' = "os", BootDevice' # None
             PROVE  LoadedInv'
  BY DEF LoadedInv
<1>1. CASE BootFromCd
  <2>1. UNCHANGED <<BbsEntry, handler>> /\ BbsEntry.type = "cd"
    BY <1>1 DEF BootFromCd
  <2>2. PICK a : /\ AnswerOK(a, "boot", PRIMARY_CDROM_IDENT) /\ mem7C00' = a.mem
                 /\ pc' = IF a.cf THEN "int18" ELSE "os"
    BY <1>1, BootFromCdIs
  <2>3. Served(a, "boot", PRIMARY_CDROM_IDENT)
    BY <2>1, <2>2 DEF AnswerOK, handler
  <2>4. CdBlockIo.boot # "elsewhere" => mem7C00' = Sector(CdBlockIo)
    BY <2>2, <2>3 DEF Served
  <2> QED  BY <2>1, <2>4 DEF LoadedInv, Sector, handler
<1>2. CASE BootFromDisk
  <2>1. UNCHANGED <<BbsEntry, handler>> /\ BbsEntry.type = "disk"
    BY <1>2 DEF BootFromDisk
  <2>2. PICK a : /\ AnswerOK(a, "read", FirstDisk) /\ (pc' = "os" => ~a.cf)
                 /\ mem7C00' = IF a.from = None THEN mem7C00 ELSE Sector(a.from)
    BY <1>2, BootFromDiskIs
  <2>3. Served(a, "read", FirstDisk)
    BY <2>1, <2>2 DEF AnswerOK, handler
  <2>4. mem7C00' = Sector(BootDevice)
    BY <2>1, <2>2, <2>3 DEF Served
  <2> QED  BY <2>1, <2>4 DEF LoadedInv, Sector, handler
<1>3. CASE OsInt13 \/ UNCHANGED vars
  BY <1>3 DEF OsInt13, vars, LoadedInv, handler
<1>4. CASE BootFromOther \/ Int18
  BY <1>4 DEF BootFromOther, Int18
<1>5. CASE PlatformUpdateBbsTable \/ Choose \/ PrepareToBoot \/ Unsupported
           \/ Legacy16PrepareToBoot
  BY <1>5 DEF PlatformUpdateBbsTable, Choose, PrepareToBoot, Unsupported, Legacy16PrepareToBoot
<1> QED
  BY <1>1, <1>2, <1>3, <1>4, <1>5 DEF Next, Int19

(* The boot sector at 7C00 is of the device of the entry that is booted,   *)
(* whichever device that is and however often Int 19 has tried.            *)
THEOREM BootsCorrect == Spec => []BootsTheEntry
<1>1. Init => LoadedInv
  BY DEF Init, LoadedInv
<1>2. Known /\ LoadedInv => BootsTheEntry
  <2> SUFFICES ASSUME Known, LoadedInv, BootDevice # None, Len(Cds) <= 1,
                      BootDevice.boot # "elsewhere", pc = "os"
               PROVE  mem7C00.loc = BbsEntry.loc
    BY DEF BootsTheEntry, JumpMeansLoaded
  <2>1. Regs /\ BbsEntry.type \in {"disk", "cd"} /\ BootDevice.loc = BbsEntry.loc
    BY BootDeviceIs
  <2>2. BbsEntry.type = "cd" => CdBlockIo = BootDevice
    BY <2>1, HandlerDrives
  <2> QED  BY <2>1, <2>2 DEF LoadedInv
<1> QED
  BY <1>1, <1>2, KnownAlways, LoadedStep, PTL DEF Spec

(* The last answer the OS got, when the handler served it.                 *)
ReplyInv ==
  /\ pc # "os" => reply.cf = TRUE
  /\ BootDevice # None /\ ~reply.cf =>
       /\ reply.from # None /\ reply.request # "invalid"
       /\ reply.request # "boot" => (reply.from.kind = "cd" <=> reply.dl = PRIMARY_CDROM_IDENT)
       /\ (reply.request # "boot" /\ reply.dl = FirstDisk /\ BbsEntry.type = "disk") =>
            reply.from = BootDevice
       /\ reply.request = "boot" => BbsEntry.type = "cd"

LEMMA ReplyStep == Known /\ ReplyInv /\ [Next]_vars => ReplyInv'
<1> SUFFICES ASSUME Known, ReplyInv, [Next]_vars  PROVE ReplyInv'
  OBVIOUS
<1>1. CASE OsInt13
  <2>1. UNCHANGED <<pc, BbsEntry, handler>> /\ pc = "os"
    BY <1>1 DEF OsInt13
  <2>2. PICK a : \E request \in Requests, dl \in DriveNumbers :
           /\ AnswerOK(a, request, dl)
           /\ reply' = [request |-> request, dl |-> dl, cf |-> a.cf, from |-> a.from]
    BY <1>1, OsInt13Is
  <2>3. PICK request \in Requests, dl \in DriveNumbers :
           /\ AnswerOK(a, request, dl)
           /\ reply' = [request |-> request, dl |-> dl, cf |-> a.cf, from |-> a.from]
    BY <2>2
  <2>4. reply'.request = request /\ reply'.dl = dl /\ reply'.cf = a.cf /\ reply'.from = a.from
    BY <2>3
  <2>5. BootDevice # None /\ ~a.cf => Served(a, request, dl)
    BY <2>3 DEF AnswerOK
  <2> QED  BY <2>1, <2>4, <2>5 DEF ReplyInv, Served, handler
<1>2. CASE UNCHANGED vars
  BY <1>2 DEF vars, ReplyInv, handler
<1>3. CASE Next /\ ~OsInt13
  <2>1. pc # "os" /\ reply' = reply
    <3>1. CASE PlatformUpdateBbsTable \/ Choose \/ PrepareToBoot \/ Unsupported
               \/ Legacy16PrepareToBoot
      BY <3>1 DEF PlatformUpdateBbsTable, Choose, PrepareToBoot, Unsupported,
                  Legacy16PrepareToBoot
    <3>2. CASE BootFromCd \/ BootFromDisk \/ BootFromOther \/ Int18
      BY <3>2 DEF BootFromCd, BootFromDisk, BootFromOther, Int18
    <3> QED  BY <1>3, <3>1, <3>2 DEF Next, Int19
  <2> QED  BY <2>1 DEF ReplyInv
<1> QED
  BY <1>1, <1>2, <1>3

(* A request that succeeds was served by the drive it names, never by an   *)
(* absent drive or an unknown function (SwDispatchInt13Hahdler).           *)
THEOREM ServedCorrect == Spec => []SuccessIsServed
<1>1. Init => ReplyInv
  <2>1. NoReply.cf = TRUE
    BY DEF NoReply
  <2>2. Init => reply = NoReply
    BY DEF Init
  <2> QED  BY <2>1, <2>2 DEF ReplyInv
<1>2. ReplyInv => SuccessIsServed
  BY DEF ReplyInv, SuccessIsServed
<1> QED
  BY <1>1, <1>2, KnownAlways, ReplyStep, PTL DEF Spec

(* The boot loader starts at the level of the boot, and a request that     *)
(* succeeds returns at the level it came (SwDispatchInt13Hahdler).         *)
THEOREM TplCorrect == Spec => TplRestored
<1>1. Known /\ [Next]_vars =>
        [(pc = "int19" /\ pc' = "os") \/ (pc = "os" /\ ~reply'.cf) => tpl' = tpl]_vars
  <2> SUFFICES ASSUME Known, Next,
                      (pc = "int19" /\ pc' = "os") \/ (pc = "os" /\ ~reply'.cf)
               PROVE  tpl' = tpl
    OBVIOUS
  <2>1. CASE BootFromCd
    <3>1. PICK a : /\ AnswerOK(a, "boot", PRIMARY_CDROM_IDENT) /\ tpl' = a.tpl
                   /\ pc' = IF a.cf THEN "int18" ELSE "os"
      BY <2>1, BootFromCdIs
    <3>2. pc = "int19"
      BY <2>1 DEF BootFromCd
    <3>3. ~a.cf
      BY <3>1, <3>2
    <3> QED  BY <3>1, <3>3 DEF AnswerOK, Served
  <2>2. CASE BootFromDisk
    <3>1. PICK a : AnswerOK(a, "read", FirstDisk) /\ tpl' = a.tpl /\ (pc' = "os" => ~a.cf)
      BY <2>2, BootFromDiskIs
    <3>2. pc = "int19"
      BY <2>2 DEF BootFromDisk
    <3>3. ~a.cf
      BY <3>1, <3>2
    <3> QED  BY <3>1, <3>3 DEF AnswerOK, Served
  <2>3. CASE OsInt13
    <3>1. PICK a : \E request \in Requests, dl \in DriveNumbers :
             /\ AnswerOK(a, request, dl) /\ tpl' = a.tpl
             /\ reply' = [request |-> request, dl |-> dl, cf |-> a.cf, from |-> a.from]
      BY <2>3, OsInt13Is
    <3>2. pc = "os" /\ reply'.cf = a.cf
      BY <2>3, <3>1 DEF OsInt13
    <3>3. ~a.cf
      BY <3>2
    <3> QED  BY <3>1, <3>3 DEF AnswerOK, Served
  <2>4. CASE PlatformUpdateBbsTable \/ Choose \/ PrepareToBoot \/ Unsupported
             \/ Legacy16PrepareToBoot \/ BootFromOther \/ Int18
    BY <2>4 DEF PlatformUpdateBbsTable, Choose, PrepareToBoot, Unsupported,
                Legacy16PrepareToBoot, BootFromOther, Int18
  <2> QED  BY <2>1, <2>2, <2>3, <2>4 DEF Next, Int19
<1> QED
  BY <1>1, KnownAlways, PTL DEF Spec, TplRestored
=============================================================================
