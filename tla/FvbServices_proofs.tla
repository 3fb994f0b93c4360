-------------------------- MODULE FvbServices_proofs --------------------------
(***************************************************************************)
(* Theorems about FvbServices, for any chip, block map, set of headers and *)
(* requests that satisfy the assumptions of that module.                   *)
(***************************************************************************)
EXTENDS FvbServices, SequenceTheorems, WellFoundedInduction, TLAPS

(* The part of TypeOK about calls, with what makes it inductive: only an   *)
(* erase or a repair erases, and an erase has a block left to erase, or    *)
(* SectorErased could take the tail of an empty list.                      *)
CallOK ==
  /\ pc \in [Drivers -> {"off", "absent", "idle", "erase", "eraseWait",
                         "program", "programWait", "hung"}]
  /\ call \in [Drivers -> CallRecord]
  /\ reply \in [by : Drivers, op : {"none", "set", "read", "write", "erase"},
                status : Status, asked : Nat, num : Nat]
  /\ \A d \in Drivers : pc[d] # "hung" => (Active(d) <=> call[d].op # "none")
  /\ \A d \in Drivers : /\ call[d].op = "erase" => call[d].list # <<>>
                        /\ call[d].op = "write" => pc[d] \notin {"erase", "eraseWait"}

(* The other variables.                                                    *)
DataOK ==
  /\ flash \in [Cells -> Cell]
  /\ chip \in [cells : SUBSET Cells, before : [Cells -> Cell]]
  /\ attrs \in [Drivers -> SUBSET Flags]
  /\ fvBase \in [Drivers -> [physical : Int, virtual : Int]]
  /\ devBase \in [Drivers -> Int]
  /\ goneVirtual \in BOOLEAN /\ calls \in Nat /\ losses \in Nat

TypeInv == DataOK /\ CallOK

-----------------------------------------------------------------------------
(* The operators the actions are built from keep calls typed.              *)

LEMMA NoCallType == NoCall \in CallRecord
BY DEF NoCall, CallRecord

(* The block map gives an existing LBA an offset and a length.             *)
LEMMA GeometryType ==
  ASSUME NEW lba \in Nat, LbaExists(lba)
  PROVE  BlockOffset(lba) \in Int /\ BlockLength(lba) \in Nat
<1> DEFINE i == CHOOSE j \in EntryOf(lba) : TRUE
           e == BlockMap[i]
<1>1. i \in EntryOf(lba)
  BY DEF LbaExists
<1>2. i \in DOMAIN BlockMap
  BY <1>1 DEF EntryOf
<1> HIDE DEF i
<1>3. e \in MapEntry
  BY <1>2, BlockMapAssumption, LenProperties
<1> HIDE DEF e
<1>4. e.first \in Nat /\ e.offset \in Nat /\ e.len \in Nat
  BY <1>3 DEF MapEntry
<1>5. (lba - e.first) * e.len \in Int
  BY <1>4
<1> QED
  BY <1>4, <1>5 DEF BlockOffset, BlockLength, e, i

LEMMA AddressType ==
  ASSUME DataOK, NEW d \in Drivers, NEW lba \in Nat, LbaExists(lba)
  PROVE  FvbGetLbaAddress(d, lba) \in Int
<1>1. FvbGetPhysicalAddress(d) \in Int
  <2>1. fvBase[d] \in [physical : Int, virtual : Int]
    BY DEF DataOK
  <2> QED  BY <2>1 DEF FvbGetPhysicalAddress, SmmGetPhysicalAddress
<1> QED
  BY <1>1, GeometryType DEF FvbGetLbaAddress

LEMMA ReturnOK ==
  ASSUME CallOK, NEW d \in Drivers, NEW cl \in CallRecord, NEW status \in Status,
         cl.op \in {"write", "erase"}, Return(d, cl, status)
  PROVE  CallOK'
<1>1. cl.asked \in Nat /\ cl.len \in Nat
  BY DEF CallRecord
<1>2. reply' \in [by : Drivers, op : {"none", "set", "read", "write", "erase"},
                  status : Status, asked : Nat, num : Nat]
  BY <1>1 DEF Return
<1>3. call' \in [Drivers -> CallRecord]
  BY NoCallType DEF Return, CallOK
<1>4. \A e \in Drivers : pc'[e] # "hung" => (Active(e)' <=> call'[e].op # "none")
  BY DEF Return, CallOK, Active, Waiting, NoCall
<1>5. \A e \in Drivers : /\ call'[e].op = "erase" => call'[e].list # <<>>
                         /\ call'[e].op = "write" => pc'[e] \notin {"erase", "eraseWait"}
  BY DEF Return, CallOK, NoCall
<1>6. pc' \in [Drivers -> {"off", "absent", "idle", "erase", "eraseWait",
                           "program", "programWait", "hung"}]
  BY DEF Return, CallOK
<1> QED
  BY <1>2, <1>3, <1>4, <1>5, <1>6 DEF CallOK

LEMMA RefuseOK ==
  ASSUME CallOK, NEW d \in Drivers, NEW op \in {"set", "write", "erase"},
         NEW status \in Status, Refuse(d, op, status)
  PROVE  CallOK'
BY DEF CallOK, Refuse, Active, Waiting

(* A driver takes up the call `cl'.                                        *)
LEMMA CallStepOK ==
  ASSUME CallOK, NEW d \in Drivers, NEW cl \in CallRecord,
         NEW next \in {"erase", "eraseWait", "program", "programWait", "hung"},
         pc' = [pc EXCEPT ![d] = next], call' = [call EXCEPT ![d] = cl],
         reply' = reply, cl.op # "none", cl.op = "erase" => cl.list # <<>>,
         cl.op = "write" => next \notin {"erase", "eraseWait"}
  PROVE  CallOK'
<1>1. call' \in [Drivers -> CallRecord] /\ reply' \in [by : Drivers, op : {"none", "set", "read", "write", "erase"},
                  status : Status, asked : Nat, num : Nat]
  BY DEF CallOK
<1>2. pc' \in [Drivers -> {"off", "absent", "idle", "erase", "eraseWait",
                           "program", "programWait", "hung"}]
  BY DEF CallOK
<1>3. \A e \in Drivers : pc'[e] # "hung" => (Active(e)' <=> call'[e].op # "none")
  BY DEF CallOK, Active, Waiting
<1>4. \A e \in Drivers : /\ call'[e].op = "erase" => call'[e].list # <<>>
                         /\ call'[e].op = "write" => pc'[e] \notin {"erase", "eraseWait"}
  BY DEF CallOK
<1> QED
  BY <1>1, <1>2, <1>3, <1>4 DEF CallOK

LEMMA EraseFromOK ==
  ASSUME DataOK, CallOK, NEW d \in Drivers, NEW cl \in CallRecord, cl.op = "erase",
         NEW list \in Seq(Nat \X Nat), EraseFrom(d, cl, list)
  PROVE  CallOK'
<1> DEFINE lba == list[1][1]
           st == EraseBlockStatus(d, lba)
<1>1. CASE list = <<>>
  BY <1>1, ReturnOK DEF EraseFrom, Status
<1>2. CASE list # <<>> /\ st # "SUCCESS"
  <2>1. st \in Status
    BY DEF EraseBlockStatus, Status
  <2> QED  BY <1>2, <2>1, ReturnOK DEF EraseFrom
<1>3. CASE list # <<>> /\ st = "SUCCESS"
  <2> DEFINE new == [cl EXCEPT !.list = list, !.addr = FvbGetLbaAddress(d, lba),
                               !.len = BlockLength(lba), !.index = 0]
  <2>1. list[1] \in Nat \X Nat
    BY <1>3
  <2>2. lba \in Nat /\ LbaExists(lba)
    BY <1>3, <2>1 DEF EraseBlockStatus
  <2>3. FvbGetLbaAddress(d, lba) \in Int /\ BlockLength(lba) \in Nat
    BY <2>2, AddressType, GeometryType
  <2>4. new \in CallRecord /\ new.op = "erase" /\ new.list = list
    BY <2>3 DEF CallRecord
  <2>5. /\ pc' = [pc EXCEPT ![d] = "erase"]
        /\ call' = [call EXCEPT ![d] = new] /\ reply' = reply
    BY <1>3 DEF EraseFrom
  <2> HIDE DEF new
  <2> QED  BY <1>3, <2>4, <2>5, CallStepOK
<1> QED
  BY <1>1, <1>2, <1>3

LEMMA AdvanceType ==
  ASSUME NEW list \in Seq(Nat \X Nat), list # <<>>
  PROVE  Advance(list) \in Seq(Nat \X Nat)
<1>1. list[1] \in Nat \X Nat
  OBVIOUS
<1>2. CASE list[1][2] > 1
  <2>1. <<list[1][1] + 1, list[1][2] - 1>> \in Nat \X Nat
    BY <1>1, <1>2
  <2>2. 1 \in 1 .. Len(list)
    OBVIOUS
  <2> QED  BY <1>2, <2>1, <2>2, ExceptSeq DEF Advance
<1>3. CASE ~(list[1][2] > 1)
  BY <1>3 DEF Advance
<1> QED
  BY <1>2, <1>3

LEMMA RepairImageType == RepairImage \in Seq(Cell) /\ Len(RepairImage) \in Nat
<1>1. DefaultHeader \in Seq(Cell) /\ VarStoreImage \in Seq(Cell)
  BY HeaderAssumption
<1>2. RepairImage \in Seq(Cell)
  BY <1>1 DEF RepairImage
<1> QED
  BY <1>2

LEMMA RepairProgramOK ==
  ASSUME DataOK, CallOK, NEW d \in Drivers, call[d].op = "repair",
         NEW condition \in BOOLEAN, NEW clean \in BOOLEAN,
         RepairProgram(d, condition, clean)
  PROVE  CallOK'
<1> DEFINE new == [call[d] EXCEPT !.data = RepairImage, !.len = Len(RepairImage),
                                  !.addr = fvBase[d].physical, !.clean = clean]
<1>1. call[d] \in CallRecord
  BY DEF CallOK
<1>2. fvBase[d].physical \in Int
  BY DEF DataOK
<1>3. new \in CallRecord /\ new.op = "repair"
  BY <1>1, <1>2, RepairImageType DEF CallRecord
<1>4. call' = [call EXCEPT ![d] = new] /\ reply' = reply
  BY DEF RepairProgram, AssertAndGoTo, CallOK
<1>5. \E next \in {"program", "hung"} : pc' = [pc EXCEPT ![d] = next]
  BY DEF RepairProgram, AssertAndGoTo
<1> HIDE DEF new
<1> QED
  BY <1>3, <1>4, <1>5, CallStepOK

(* A command of driver d to the chip.                                      *)
LEMMA ExecuteOK ==
  ASSUME DataOK, CallOK, NEW d \in Drivers, NEW cells \in SUBSET Cells,
         NEW new \in [Cells -> Cell], NEW next \in Waiting, Active(d),
         call[d].op = "write" => next = "programWait",
         Execute(d, cells, new, next)
  PROVE  /\ CallOK'
         /\ flash' \in [Cells -> Cell]
         /\ chip' \in [cells : SUBSET Cells, before : [Cells -> Cell]]
<1>1. flash' \in [Cells -> Cell]
  BY DEF DataOK, Execute
<1>2. chip' \in [cells : SUBSET Cells, before : [Cells -> Cell]]
  BY DEF DataOK, Execute
<1>3. ASSUME NEW e \in Drivers
      PROVE  /\ call'[e] \in CallRecord
             /\ call'[e].op = call[e].op /\ call'[e].list = call[e].list
  <2>1. call[e] \in CallRecord
    BY DEF CallOK
  <2>2. CASE e = d
    BY <2>1, <2>2 DEF Execute, CallRecord
  <2>3. CASE e # d
    BY <2>1, <2>3 DEF Execute, CallRecord
  <2> QED  BY <2>2, <2>3
<1>4. call' \in [Drivers -> CallRecord]
  BY <1>3 DEF Execute
<1>5. \A e \in Drivers : pc'[e] # "hung" => (Active(e)' <=> call'[e].op # "none")
  BY <1>3 DEF Execute, CallOK, Active, Waiting
<1>6. pc' \in [Drivers -> {"off", "absent", "idle", "erase", "eraseWait",
                           "program", "programWait", "hung"}]
  BY DEF Execute, CallOK, Waiting
<1>7. reply' = reply
  BY DEF Execute
<1>8. CallOK'
  <2>1. \A e \in Drivers : /\ call'[e].op = "erase" => call'[e].list # <<>>
                           /\ call'[e].op = "write" => pc'[e] \notin {"erase", "eraseWait"}
    BY <1>3 DEF CallOK, Execute, Waiting
  <2> QED  BY <1>4, <1>5, <1>6, <1>7, <2>1 DEF CallOK
<1> QED
  BY <1>1, <1>2, <1>8

LEMMA IgnoredOK ==
  ASSUME DataOK, CallOK, NEW d \in Drivers, NEW next \in Waiting, Active(d),
         call[d].op = "write" => next = "programWait",
         Ignored(d, next)
  PROVE  CallOK' /\ flash' = flash /\ chip' = chip
<1> DEFINE new == [call[d] EXCEPT !.clean = FALSE]
<1>1. call[d] \in CallRecord /\ call[d].op # "none"
  BY DEF CallOK, Active, Waiting
<1>2. /\ new \in CallRecord /\ new.op # "none"
      /\ new.op = call[d].op /\ new.list = call[d].list
  BY <1>1 DEF CallRecord
<1>3. /\ pc' = [pc EXCEPT ![d] = next]
      /\ call' = [call EXCEPT ![d] = new] /\ reply' = reply
  BY DEF Ignored, CallOK
<1>4. new.op = "erase" => new.list # <<>>
  BY <1>2 DEF CallOK
<1> HIDE DEF new
<1>5. CallOK'
  BY <1>2, <1>3, <1>4, CallStepOK DEF Waiting
<1> QED
  BY <1>5 DEF Ignored

LEMMA RepairDoneOK ==
  ASSUME DataOK, CallOK, NEW d \in Drivers, RepairDone(d)
  PROVE  CallOK' /\ attrs' \in [Drivers -> SUBSET Flags]
<1>1. HeaderAttributes[DefaultHeader] \in SUBSET Flags
  BY HeaderAssumption
<1>2. attrs' \in [Drivers -> SUBSET Flags]
  BY <1>1 DEF RepairDone, DataOK
<1>3. \E next \in {"idle", "hung"} : pc' = [pc EXCEPT ![d] = next]
  BY DEF RepairDone, AssertAndGoTo
<1>4. call' = [call EXCEPT ![d] = NoCall] /\ reply' = reply
  BY DEF RepairDone, AssertAndGoTo
<1>5. NoCall.op = "none"
  BY DEF NoCall
<1>6. CallOK'
  <2>1. call' \in [Drivers -> CallRecord]
    BY <1>4, NoCallType DEF CallOK
  <2>2. \A e \in Drivers : pc'[e] # "hung" => (Active(e)' <=> call'[e].op # "none")
    BY <1>3, <1>4, <1>5 DEF CallOK, Active, Waiting
  <2>3. \A e \in Drivers : /\ call'[e].op = "erase" => call'[e].list # <<>>
                           /\ call'[e].op = "write" => pc'[e] \notin {"erase", "eraseWait"}
    BY <1>3, <1>4, <1>5 DEF CallOK
  <2>4. pc' \in [Drivers -> {"off", "absent", "idle", "erase", "eraseWait",
                             "program", "programWait", "hung"}]
    BY <1>3 DEF CallOK
  <2> QED  BY <1>4, <2>1, <2>2, <2>3, <2>4 DEF CallOK
<1> QED
  BY <1>2, <1>6

-----------------------------------------------------------------------------
(* Each action preserves TypeInv.                                          *)

LEMMA SetAttributesType ==
  ASSUME TypeInv, NEW d \in Drivers, NEW req \in AttributeRequests,
         SetAttributes(d, req)
  PROVE  TypeInv'
<1>1. SetAttributesStatus(attrs[d], req) \in Status
  BY DEF SetAttributesStatus, Status
<1>2. CallOK'
  BY <1>1, RefuseOK DEF SetAttributes, TypeInv
<1>3. req \subseteq Flags
  BY RequestAssumption
<1>4. attrs' \in [Drivers -> SUBSET Flags]
  BY <1>3 DEF SetAttributes, TypeInv, DataOK, CallOK
<1> QED
  BY <1>2, <1>4 DEF SetAttributes, TypeInv, DataOK

LEMMA WriteType ==
  ASSUME TypeInv, NEW d \in Drivers, NEW w \in WriteRequests, Write(d, w)
  PROVE  TypeInv'
<1> DEFINE st == WriteStatus(d, w)
           new == [NoCall EXCEPT !.op = "write",
                                 !.addr = FvbGetLbaAddress(d, w.lba) + w.offset,
                                 !.len = NumBytes(w), !.asked = Len(w.data),
                                 !.data = w.data, !.grant = WriteCells(w)]
<1>1. w.lba \in Nat /\ w.offset \in Nat /\ w.data \in Seq(Cell) /\ Len(w.data) \in Nat
  <2>1. w \in [lba : 0 .. LbaModulus - 1, offset : Nat, data : Seq(Cell)]
    BY RequestAssumption
  <2>2. w.data \in Seq(Cell)
    BY <2>1
  <2> QED  BY <2>1, <2>2
<1>2. CASE st # "SUCCESS" \/ NumBytes(w) = 0
  <2>1. st \in Status /\ "INVALID_PARAMETER" \in Status
    BY DEF WriteStatus, Status
  <2>2. CallOK'
    BY <1>2, <2>1, RefuseOK DEF Write, TypeInv
  <2> QED  BY <2>2 DEF Write, CountCall, TypeInv, DataOK
<1>3. CASE st = "SUCCESS" /\ NumBytes(w) # 0
  <2>1. LbaExists(w.lba) /\ w.offset <= BlockLength(w.lba)
    BY <1>1, <1>3, GeometryType DEF WriteStatus
  <2>2. BlockLength(w.lba) \in Nat /\ FvbGetLbaAddress(d, w.lba) \in Int
    BY <1>1, <2>1, GeometryType, AddressType DEF TypeInv
  <2>3. NumBytes(w) \in Nat
    BY <1>1, <2>1, <2>2 DEF NumBytes
  <2>4. WriteCells(w) \in SUBSET Cells
    BY DEF WriteCells, BlockCells
  <2>5. new \in CallRecord /\ new.op = "write"
    <3>1. FvbGetLbaAddress(d, w.lba) + w.offset \in Int
      BY <1>1, <2>2
    <3>2. \A addr \in Int, len \in Nat, asked \in Nat, data \in Seq(Cell),
            grant \in SUBSET Cells :
            [NoCall EXCEPT !.op = "write", !.addr = addr, !.len = len,
               !.asked = asked, !.data = data, !.grant = grant] \in CallRecord
      BY NoCallType DEF CallRecord
    <3>3. new.op = "write"
      BY DEF NoCall
    <3> QED  BY <1>1, <2>3, <2>4, <3>1, <3>2, <3>3
  <2>6. /\ pc' = [pc EXCEPT ![d] = "program"]
        /\ call' = [call EXCEPT ![d] = new] /\ reply' = reply
    BY <1>3 DEF Write
  <2> HIDE DEF new
  <2>7. CallOK'
    BY <2>5, <2>6, CallStepOK DEF TypeInv
  <2> QED  BY <2>7 DEF Write, CountCall, TypeInv, DataOK
<1> QED
  BY <1>2, <1>3

LEMMA EraseBlocksType ==
  ASSUME TypeInv, NEW d \in Drivers, NEW list \in EraseRequests, EraseBlocks(d, list)
  PROVE  TypeInv'
<1> DEFINE cl == [NoCall EXCEPT !.op = "erase", !.grant = EraseCells(list)]
<1>1. EraseCells(list) \in SUBSET Cells
  BY DEF EraseCells
<1>2. cl \in CallRecord /\ cl.op = "erase"
  BY <1>1, NoCallType DEF CallRecord
<1>3. list \in Seq(Nat \X Nat)
  <2>1. list \in Seq((0 .. LbaModulus - 1) \X Nat)
    BY RequestAssumption
  <2>2. (0 .. LbaModulus - 1) \X Nat \subseteq Nat \X Nat
    BY ChipAssumption
  <2> HIDE DEF cl
  <2> QED  BY <2>1, <2>2, SeqMonotonic
<1>4. CallOK'
  <2> HIDE DEF cl
  <2>1. CASE ListRefused(list)
    BY <2>1, RefuseOK DEF EraseBlocks, TypeInv, Status
  <2>2. CASE ~ListRefused(list)
    <3>1. EraseFrom(d, cl, list)
      BY <2>2 DEF EraseBlocks, cl
    <3> QED  BY <1>2, <1>3, <3>1, EraseFromOK DEF TypeInv
  <2> QED  BY <2>1, <2>2
<1> QED
  BY <1>4 DEF EraseBlocks, CountCall, TypeInv, DataOK

LEMMA EraseSectorType ==
  ASSUME TypeInv, NEW d \in Drivers, EraseSector(d)
  PROVE  TypeInv'
<1> DEFINE cells == SpiCells(d, call[d].addr + call[d].index * SectorSize, SectorSize)
           new == [c \in Cells |-> Bits]
<1>1. cells \in SUBSET Cells /\ new \in [Cells -> Cell]
  BY DEF SpiCells, Cell
<1>2. Active(d)
  BY DEF EraseSector, Active
<1>0. call[d].op # "write"
  BY DEF EraseSector, TypeInv, CallOK
<1>3. Execute(d, cells, new, "eraseWait") \/ Ignored(d, "eraseWait")
  BY DEF EraseSector
<1> HIDE DEF cells, new
<1>4. /\ CallOK' /\ flash' \in [Cells -> Cell]
      /\ chip' \in [cells : SUBSET Cells, before : [Cells -> Cell]]
  BY <1>0, <1>1, <1>2, <1>3, ExecuteOK, IgnoredOK DEF TypeInv, DataOK, CallOK, Waiting
<1> QED
  BY <1>4 DEF EraseSector, TypeInv, DataOK

LEMMA ProgramType ==
  ASSUME TypeInv, NEW d \in Drivers, Program(d)
  PROVE  TypeInv'
<1> DEFINE cells == SpiCells(d, call[d].addr, call[d].len)
           first == call[d].addr - devBase[d]
           new == [c \in Cells |-> IF c - first + 1 \in DOMAIN call[d].data
                                   THEN flash[c] \cap call[d].data[c - first + 1]
                                   ELSE flash[c]]
<1>1. cells \in SUBSET Cells
  BY DEF SpiCells
<1>2. new \in [Cells -> Cell]
  <2>1. \A c \in Cells : flash[c] \in SUBSET Bits
    BY DEF TypeInv, DataOK, CallOK, Cell
  <2>2. \A c \in Cells : new[c] \in SUBSET Bits
    BY <2>1
  <2> QED  BY <2>2 DEF Cell
<1>3. Active(d)
  BY DEF Program, Active
<1>4. Execute(d, cells, new, "programWait") \/ Ignored(d, "programWait")
  BY DEF Program
<1> HIDE DEF cells, new
<1>5. /\ CallOK' /\ flash' \in [Cells -> Cell]
      /\ chip' \in [cells : SUBSET Cells, before : [Cells -> Cell]]
  BY <1>1, <1>2, <1>3, <1>4, ExecuteOK, IgnoredOK DEF TypeInv, DataOK, CallOK, Waiting
<1> QED
  BY <1>5 DEF Program, TypeInv, DataOK

LEMMA SectorErasedType ==
  ASSUME TypeInv, NEW d \in Drivers, SectorErased(d)
  PROVE  TypeInv'
<1> DEFINE cl == NextSector(call[d])
<1>1. call[d] \in CallRecord /\ call[d].op # "none"
  BY DEF SectorErased, TypeInv, CallOK, Active, Waiting
<1>2. /\ cl \in CallRecord /\ cl.op = call[d].op /\ cl.list = call[d].list
      /\ cl.clean \in BOOLEAN
  <2>1. ASSUME NEW r \in CallRecord
        PROVE  /\ NextSector(r) \in CallRecord /\ NextSector(r).op = r.op
               /\ NextSector(r).list = r.list
    <3>1. r.index + 1 \in Nat
      BY DEF CallRecord
    <3>2. \A i \in Nat : [r EXCEPT !.index = i] \in CallRecord
      BY DEF CallRecord
    <3>3. NextSector(r) = [r EXCEPT !.index = r.index + 1]
      BY DEF NextSector
    <3>4. NextSector(r).op = r.op /\ NextSector(r).list = r.list
      BY <3>3 DEF CallRecord
    <3> QED  BY <3>1, <3>2, <3>3, <3>4
  <2>2. cl.clean \in BOOLEAN
    <3>1. cl \in CallRecord
      BY <1>1, <2>1
    <3> HIDE DEF cl
    <3> QED  BY <3>1 DEF CallRecord
  <2> QED  BY <1>1, <2>1, <2>2
<1>3. (cl.op = "erase" => cl.list # <<>>) /\ cl.op # "write"
  BY <1>2 DEF SectorErased, TypeInv, CallOK
<1> HIDE DEF cl
<1>4. CASE cl.index < cl.len \div SectorSize
  <2>1. /\ pc' = [pc EXCEPT ![d] = "erase"]
        /\ call' = [call EXCEPT ![d] = cl] /\ reply' = reply
    BY <1>4 DEF SectorErased, cl
  <2>2. CallOK'
    BY <1>1, <1>2, <1>3, <2>1, CallStepOK DEF TypeInv
  <2> QED  BY <2>2 DEF SectorErased, TypeInv, DataOK
<1>5. CASE ~(cl.index < cl.len \div SectorSize) /\ cl.op = "repair"
  <2>1. RepairProgram(d, TRUE, cl.clean)
    BY <1>5 DEF SectorErased, cl
  <2>2. CallOK'
    BY <1>2, <1>5, <2>1, RepairProgramOK DEF TypeInv
  <2> QED  BY <2>2 DEF SectorErased, TypeInv, DataOK
<1>6. CASE ~(cl.index < cl.len \div SectorSize) /\ cl.op # "repair"
  <2>1. EraseFrom(d, cl, Advance(cl.list))
    BY <1>6 DEF SectorErased, cl
  <2>2. CASE cl.op = "erase"
    <3>1. cl.list \in Seq(Nat \X Nat)
      BY <1>2 DEF CallRecord
    <3>2. CallOK'
      BY <1>2, <1>3, <2>1, <2>2, <3>1, AdvanceType, EraseFromOK DEF TypeInv
    <3> QED  BY <3>2 DEF SectorErased, TypeInv, DataOK
  <2> QED  BY <1>1, <1>2, <1>3, <1>6, <2>2 DEF CallRecord
<1> QED
  BY <1>4, <1>5, <1>6

LEMMA ProgrammedType ==
  ASSUME TypeInv, NEW d \in Drivers, Programmed(d)
  PROVE  TypeInv'
<1>1. CASE call[d].op = "repair"
  <2>1. CallOK' /\ attrs' \in [Drivers -> SUBSET Flags]
    BY <1>1, RepairDoneOK DEF Programmed, TypeInv
  <2> QED  BY <2>1 DEF Programmed, TypeInv, DataOK
<1>2. CASE call[d].op # "repair"
  <2>1. call[d] \in CallRecord /\ call[d].op \in {"write", "erase"}
    BY <1>2 DEF Programmed, TypeInv, CallOK, CallRecord, Active, Waiting
  <2>2. CallOK'
    BY <1>2, <2>1, ReturnOK DEF Programmed, TypeInv, Status
  <2> QED  BY <1>2, <2>2 DEF Programmed, TypeInv, DataOK
<1> QED
  BY <1>1, <1>2

LEMMA SpiErrorType ==
  ASSUME TypeInv, NEW d \in Drivers, SpiError(d)
  PROVE  TypeInv'
<1>1. CASE call[d].op # "repair"
  <2>1. call[d] \in CallRecord /\ call[d].op \in {"write", "erase"}
    BY <1>1 DEF SpiError, TypeInv, CallOK, CallRecord, Active, Waiting
  <2>2. CallOK'
    BY <1>1, <2>1, ReturnOK DEF SpiError, TypeInv, Status
  <2> QED  BY <1>1, <2>2 DEF SpiError, TypeInv, DataOK
<1>2. CASE call[d].op = "repair" /\ pc[d] \in {"erase", "eraseWait"}
  <2>1. CallOK'
    BY <1>2, RepairProgramOK DEF SpiError, TypeInv
  <2> QED  BY <1>2, <2>1 DEF SpiError, TypeInv, DataOK
<1>3. CASE call[d].op = "repair" /\ pc[d] \notin {"erase", "eraseWait"}
  <2>1. CallOK' /\ attrs' \in [Drivers -> SUBSET Flags]
    BY <1>3, RepairDoneOK DEF SpiError, TypeInv
  <2> QED  BY <1>3, <2>1 DEF SpiError, TypeInv, DataOK
<1> QED
  BY <1>1, <1>2, <1>3

LEMMA FlashReadyType == ASSUME TypeInv, FlashReady PROVE TypeInv'
<1>1. chip' \in [cells : SUBSET Cells, before : [Cells -> Cell]]
  BY DEF FlashReady, Idle, Cell
<1>2. CallOK'
  BY DEF FlashReady, TypeInv, CallOK, Active
<1> QED
  BY <1>1, <1>2 DEF FlashReady, TypeInv, DataOK

LEMMA InitializeType ==
  ASSUME TypeInv, NEW d \in Drivers, FvbInitialize(d)
  PROVE  TypeInv'
<1> DEFINE img == CHOOSE h \in HeaderImages : Holds(flash, h)
<1>1. img \in HeaderImages
  BY DEF FvbInitialize, HeaderValid
<1>2. attrs' \in [Drivers -> SUBSET Flags]
  <2> HIDE DEF img
  <2>1. attrs' = [attrs EXCEPT ![d] = HeaderAttributes[img]]
    BY DEF FvbInitialize, img
  <2> QED  BY <1>1, <2>1, HeaderAssumption DEF TypeInv, DataOK, CallOK
<1>3. CallOK'
  BY DEF FvbInitialize, Loading, TypeInv, CallOK, Active, Waiting
<1> QED
  BY <1>2, <1>3 DEF FvbInitialize, TypeInv, DataOK

LEMMA RepairType ==
  ASSUME TypeInv, NEW d \in Drivers, FvbInitializeRepair(d)
  PROVE  TypeInv'
<1>1. CASE HasFvbInfo
  <2> DEFINE cl == [NoCall EXCEPT !.op = "repair", !.addr = fvBase[d].physical,
                                  !.len = FwBlockSize, !.grant = RepairCells]
  <2>1. fvBase[d].physical \in Int /\ FwBlockSize \in Nat /\ RepairCells \in SUBSET Cells
    BY ChipAssumption DEF TypeInv, DataOK, CallOK, RepairCells
  <2>2. cl \in CallRecord /\ cl.op = "repair"
    BY <2>1, NoCallType DEF CallRecord
  <2>3. /\ pc' = [pc EXCEPT ![d] = "erase"]
        /\ call' = [call EXCEPT ![d] = cl] /\ reply' = reply
    BY <1>1 DEF FvbInitializeRepair
  <2> HIDE DEF cl
  <2>4. CallOK'
    BY <2>2, <2>3, CallStepOK DEF TypeInv
  <2> QED  BY <2>4 DEF FvbInitializeRepair, TypeInv, DataOK
<1>2. CASE ~HasFvbInfo
  <2>1. CallOK'
    BY <1>2 DEF FvbInitializeRepair, Loading, TypeInv, CallOK, Active, Waiting
  <2> QED  BY <1>2, <2>1 DEF FvbInitializeRepair, TypeInv, DataOK
<1> QED
  BY <1>1, <1>2

LEMMA VirtualAddressType ==
  ASSUME TypeInv, FvbVirtualddressChangeEvent
  PROVE  TypeInv'
<1>1. fvBase' \in [Drivers -> [physical : Int, virtual : Int]]
  <2>1. fvBase[Runtime] \in [physical : Int, virtual : Int]
    BY DriversAssumption DEF TypeInv, DataOK, CallOK
  <2>2. [fvBase[Runtime] EXCEPT !.virtual = ConvertPointer(@)]
          \in [physical : Int, virtual : Int]
    BY <2>1, ChipAssumption DEF ConvertPointer
  <2> QED  BY <2>2 DEF FvbVirtualddressChangeEvent, TypeInv, DataOK, CallOK
<1>2. devBase' \in [Drivers -> Int]
  <2>1. devBase \in [Drivers -> Int] /\ VirtualDelta \in Int
    BY ChipAssumption DEF TypeInv, DataOK
  <2>2. devBase' = [devBase EXCEPT ![Runtime] = devBase[Runtime] + VirtualDelta]
    BY DEF FvbVirtualddressChangeEvent, ConvertedDeviceBase, ConvertPointer
  <2>3. devBase[Runtime] + VirtualDelta \in Int
    BY <2>1, DriversAssumption
  <2> QED  BY <2>1, <2>2, <2>3
<1>3. CallOK'
  BY DEF FvbVirtualddressChangeEvent, TypeInv, CallOK, Active
<1> QED
  BY <1>1, <1>2, <1>3 DEF FvbVirtualddressChangeEvent, TypeInv, DataOK

LEMMA RestartType ==
  ASSUME pc' = [d \in Drivers |-> "off"], call' = [d \in Drivers |-> NoCall],
         reply' = NoReply
  PROVE  CallOK'
<1>1. NoReply \in [by : Drivers, op : {"none", "set", "read", "write", "erase"},
                   status : Status, asked : Nat, num : Nat]
  BY DriversAssumption DEF NoReply, Status
<1>2. NoCall.op = "none"
  BY DEF NoCall
<1> QED
  BY <1>1, <1>2, NoCallType DEF CallOK, Active, Waiting

LEMMA PowerLossType == ASSUME TypeInv, PowerLoss PROVE TypeInv'
<1>1. CallOK'
  BY RestartType DEF PowerLoss
<1>2. flash' \in [Cells -> Cell]
  BY DEF PowerLoss, TypeInv, DataOK, CallOK
<1>3. chip' \in [cells : SUBSET Cells, before : [Cells -> Cell]]
  BY DEF PowerLoss, Idle, Cell
<1>4. DeviceBase \in Int /\ DeviceBase + FvOffset \in Int
  BY ChipAssumption
<1>5. /\ attrs' \in [Drivers -> SUBSET Flags]
      /\ fvBase' \in [Drivers -> [physical : Int, virtual : Int]]
      /\ devBase' \in [Drivers -> Int]
  BY <1>4 DEF PowerLoss
<1> QED
  <2>1. goneVirtual' \in BOOLEAN /\ calls' \in Nat /\ losses' \in Nat
    <3>1. calls \in Nat /\ losses \in Nat
      BY DEF TypeInv, DataOK, CallOK
    <3>2. goneVirtual' \in BOOLEAN
      BY DEF PowerLoss
    <3>3. calls' = calls /\ losses' = losses + 1
      BY DEF PowerLoss
    <3>4. losses' \in Nat
      BY <3>1, <3>3
    <3> QED  BY <3>1, <3>2, <3>3, <3>4
  <2>2. DataOK'
    BY <1>1, <1>2, <1>3, <1>5, <2>1 DEF DataOK
  <2> QED  BY <1>1, <2>2 DEF TypeInv

LEMMA InitType == Init => TypeInv
<1> SUFFICES ASSUME Init PROVE TypeInv
  OBVIOUS
<1>1. flash \in [Cells -> Cell]
  <2>1. PICK img \in HeaderImages \cup {<<{}>>}, rest \in Contents :
          flash = [c \in Cells |-> IF c \in HeaderCells(img)
                                   THEN img[c - FvOffset + 1] ELSE rest[c]]
    BY DEF Init
  <2>2. img \in Seq(Cell)
    <3>1. {} \in Cell
      BY DEF Cell
    <3>2. <<{}>> \in Seq(Cell)
      BY <3>1
    <3> QED  BY <3>2, HeaderAssumption
  <2>3. ASSUME NEW c \in HeaderCells(img)
        PROVE  img[c - FvOffset + 1] \in Cell
    <3>1. c - FvOffset + 1 \in 1 .. Len(img)
      BY <2>2, <2>3, ChipAssumption DEF HeaderCells, Cells
    <3> QED  BY <2>2, <3>1, ElementOfSeq
  <2>4. rest \in [Cells -> Cell]
    BY HeaderAssumption
  <2> QED  BY <2>1, <2>3, <2>4
<1>2. NoReply \in [by : Drivers, op : {"none", "set", "read", "write", "erase"},
                   status : Status, asked : Nat, num : Nat]
  BY DriversAssumption DEF NoReply, Status
<1>3. NoCall.op = "none"
  BY DEF NoCall
<1>4. CallOK
  BY <1>2, <1>3, NoCallType DEF Init, CallOK, Active, Waiting
<1>5. chip \in [cells : SUBSET Cells, before : [Cells -> Cell]]
  BY DEF Init, Idle, Cell
<1>6. DeviceBase \in Int /\ DeviceBase + FvOffset \in Int
  BY ChipAssumption
<1>7. /\ attrs \in [Drivers -> SUBSET Flags]
      /\ fvBase \in [Drivers -> [physical : Int, virtual : Int]]
      /\ devBase \in [Drivers -> Int]
  BY <1>6 DEF Init
<1> QED
  BY <1>1, <1>4, <1>5, <1>7 DEF Init, TypeInv, DataOK

LEMMA ReadType ==
  ASSUME TypeInv, NEW d \in Drivers, NEW w \in ReadRequests, Read(d, w)
  PROVE  TypeInv'
<1> DEFINE st == ReadStatus(d, w)
<1>1. w \in [lba : 0 .. LbaModulus - 1, offset : Nat, data : Seq(Cell)]
  BY RequestAssumption
<1>2. w.lba \in Nat /\ w.offset \in Nat /\ Len(w.data) \in Nat
  <2>1. w.data \in Seq(Cell)
    BY <1>1
  <2> QED  BY <1>1, <2>1
<1>3. st \in Status
  BY DEF ReadStatus, Status
<1>4. BytesRead(d, w) \in Nat
  <2>1. CASE st \in {"SUCCESS", "BAD_BUFFER_SIZE"}
    <3>1. LbaExists(w.lba) /\ ~(w.offset > BlockLength(w.lba))
      BY <2>1 DEF ReadStatus
    <3>2. BlockLength(w.lba) \in Nat
      BY <1>2, <3>1, GeometryType
    <3>3. NumBytes(w) \in Nat
      BY <1>2, <3>1, <3>2 DEF NumBytes
    <3> QED  BY <2>1, <3>3 DEF BytesRead
  <2>2. CASE st \notin {"SUCCESS", "BAD_BUFFER_SIZE"}
    BY <1>2, <2>2 DEF BytesRead
  <2> QED  BY <2>1, <2>2
<1>5. reply' \in [by : Drivers, op : {"none", "set", "read", "write", "erase"},
                  status : Status, asked : Nat, num : Nat]
  BY <1>2, <1>3, <1>4 DEF Read
<1>6. CallOK'
  BY <1>5 DEF Read, TypeInv, CallOK, Active
<1> QED
  BY <1>6 DEF Read, TypeInv, DataOK

(* The steps of the SMM driver are those of a driver.                      *)
LEMMA NextByDriver ==
  ASSUME Next
  PROVE  (\E d \in Drivers : DriverNext(d)) \/ FlashReady
           \/ FvbVirtualddressChangeEvent \/ PowerLoss
<1>1. SmmNext => DriverNext(Smm)
  BY DEF SmmNext, DriverNext, SmmProtocol, Protocol, SmmWork, Work, SmmSetAttributes,
       SmmWrite, SmmRead, SmmEraseBlocks, SmmEraseSector, SmmSectorErased, SmmProgram,
       SmmProgrammed, SmmSpiError, SmmFvbInitialize, SmmFvbInitializeRepair
<1> QED
  BY <1>1, DriversAssumption DEF Next

LEMMA TypeInvariant == Spec => []TypeInv
<1>1. TypeInv /\ [Next]_vars => TypeInv'
  <2> SUFFICES ASSUME TypeInv, [Next]_vars PROVE TypeInv'
    OBVIOUS
  <2>1. ASSUME NEW d \in Drivers, Protocol(d) PROVE TypeInv'
    BY <2>1, SetAttributesType, WriteType, ReadType, EraseBlocksType DEF Protocol
  <2>2. ASSUME NEW d \in Drivers, Work(d) PROVE TypeInv'
    BY <2>2, EraseSectorType, SectorErasedType, ProgramType, ProgrammedType DEF Work
  <2>3. ASSUME NEW d \in Drivers, SpiError(d) \/ FvbInitialize(d) \/ FvbInitializeRepair(d)
        PROVE  TypeInv'
    BY <2>3, SpiErrorType, InitializeType, RepairType
  <2>4. CASE FlashReady \/ FvbVirtualddressChangeEvent \/ PowerLoss
    BY <2>4, FlashReadyType, VirtualAddressType, PowerLossType
  <2>5. CASE UNCHANGED vars
    BY <2>5 DEF vars, TypeInv, DataOK, CallOK, Active
  <2> QED  BY <2>1, <2>2, <2>3, <2>4, <2>5, NextByDriver DEF DriverNext
<1> QED
  BY InitType, <1>1, PTL DEF Spec

(* Every behaviour is typed (TypeOK): in particular a driver is at work    *)
(* exactly while a call or the repair is open, so no return path of        *)
(* FWBlockService.c leaves a call behind.                                  *)
THEOREM TypeCorrect == Spec => []TypeOK
<1>1. TypeInv => TypeOK
  BY DEF TypeInv, DataOK, CallOK, TypeOK
<1> QED
  BY TypeInvariant, <1>1, PTL

-----------------------------------------------------------------------------
(* The status of a volume that serves calls is one its capabilities allow. *)
(* The attributes of a driver that has not taken over a header do not      *)
(* count, so the invariant must say who serves calls, idle or not.         *)

Serving(d) == pc[d] = "idle" \/ (Active(d) /\ call[d].op # "repair")
StatusInv == \A d \in Drivers : Serving(d) => StatusAllowed(attrs[d])

(* FvbSetVolumeAttributes accepts only a status the capabilities allow,    *)
(* and leaves the capabilities alone.                                      *)
LEMMA AcceptedStatus ==
  ASSUME NEW old \in SUBSET Flags, NEW req \in SUBSET Flags, StatusAllowed(old),
         SetAttributesStatus(old, req) = "SUCCESS"
  PROVE  StatusAllowed((old \ StatusFlags) \cup (req \cap StatusFlags))
BY DEF SetAttributesStatus, StatusAllowed, StatusFlags

(* A step that leaves the attributes alone and takes no driver into        *)
(* service.                                                                *)
LEMMA SameService ==
  ASSUME StatusInv, attrs' = attrs, \A d \in Drivers : Serving(d)' => Serving(d)
  PROVE  StatusInv'
BY DEF StatusInv

LEMMA RepairDoneStatus ==
  ASSUME TypeInv, StatusInv, NEW d \in Drivers, RepairDone(d)
  PROVE  StatusInv'
<1>1. StatusAllowed(HeaderAttributes[DefaultHeader])
  BY HeaderAssumption, HeaderStatusAssumption
<1>2. attrs'[d] = HeaderAttributes[DefaultHeader]
  BY DEF RepairDone, TypeInv, DataOK, CallOK
<1>3. ASSUME NEW e \in Drivers, e # d
      PROVE  attrs'[e] = attrs[e] /\ (Serving(e)' => Serving(e))
  BY <1>3 DEF RepairDone, AssertAndGoTo, Serving, Active, TypeInv, DataOK, CallOK
<1> QED
  BY <1>1, <1>2, <1>3 DEF StatusInv

LEMMA EraseFromService ==
  ASSUME TypeInv, NEW d \in Drivers, NEW cl, NEW list, Serving(d), cl.op # "repair",
         EraseFrom(d, cl, list)
  PROVE  \A e \in Drivers : Serving(e)' => Serving(e)
BY DEF EraseFrom, Return, Serving, Active, TypeInv, DataOK, CallOK

LEMMA StatusInvariant == Spec => []StatusInv
<1>1. Init => StatusInv
  BY DEF Init, StatusInv, Serving, Active, Waiting
<1>2. TypeInv /\ StatusInv /\ [Next]_vars => StatusInv'
  <2> SUFFICES ASSUME TypeInv, StatusInv, [Next]_vars PROVE StatusInv'
    OBVIOUS
  <2>1. ASSUME NEW d \in Drivers, NEW req \in AttributeRequests, SetAttributes(d, req)
        PROVE  StatusInv'
    <3>1. attrs[d] \in SUBSET Flags /\ req \in SUBSET Flags
      BY RequestAssumption DEF TypeInv, DataOK, CallOK
    <3>2. Serving(d) /\ StatusAllowed(attrs[d])
      BY <2>1 DEF SetAttributes, Serving, StatusInv
    <3>3. StatusAllowed(attrs'[d])
      <4>1. CASE SetAttributesStatus(attrs[d], req) = "SUCCESS"
        <5>1. attrs'[d] = (attrs[d] \ StatusFlags) \cup (req \cap StatusFlags)
          BY <2>1, <4>1 DEF SetAttributes, TypeInv, DataOK, CallOK
        <5> QED  BY <3>1, <3>2, <4>1, <5>1, AcceptedStatus
      <4>2. CASE SetAttributesStatus(attrs[d], req) # "SUCCESS"
        BY <2>1, <3>2, <4>2 DEF SetAttributes
      <4> QED  BY <4>1, <4>2
    <3>4. ASSUME NEW e \in Drivers, e # d
          PROVE  attrs'[e] = attrs[e] /\ (Serving(e)' => Serving(e))
      BY <2>1, <3>4 DEF SetAttributes, Refuse, Serving, Active, TypeInv, DataOK, CallOK
    <3> QED  BY <3>3, <3>4 DEF StatusInv
  <2>2. ASSUME NEW d \in Drivers, NEW w \in WriteRequests, Write(d, w)
        PROVE  StatusInv'
    <3>1. attrs' = attrs
      BY <2>2 DEF Write
    <3>2. \A e \in Drivers : Serving(e)' => Serving(e)
      BY <2>2 DEF Write, Refuse, Serving, Active, TypeInv, DataOK, CallOK
    <3> QED  BY <3>1, <3>2, SameService
  <2>3. ASSUME NEW d \in Drivers, NEW list \in EraseRequests, EraseBlocks(d, list)
        PROVE  StatusInv'
    <3> DEFINE cl == [NoCall EXCEPT !.op = "erase", !.grant = EraseCells(list)]
    <3>1. attrs' = attrs /\ Serving(d) /\ cl.op # "repair"
      BY <2>3 DEF EraseBlocks, Serving, NoCall
    <3>2. CASE ListRefused(list)
      BY <2>3, <3>1, <3>2, SameService DEF EraseBlocks, Refuse, Serving, Active
    <3>3. CASE ~ListRefused(list)
      <4>1. EraseFrom(d, cl, list)
        BY <2>3, <3>3 DEF EraseBlocks
      <4> HIDE DEF cl
      <4>2. \A e \in Drivers : Serving(e)' => Serving(e)
        BY <3>1, <4>1, EraseFromService
      <4> QED  BY <3>1, <4>2, SameService
    <3> QED  BY <3>2, <3>3
  <2>4. ASSUME NEW d \in Drivers, EraseSector(d) \/ Program(d)
        PROVE  StatusInv'
    <3>1. attrs' = attrs /\ Active(d)
      BY <2>4 DEF EraseSector, Program, Active
    <3>2. \A e \in Drivers : call'[e].op = call[e].op
      <4>1. ASSUME NEW e \in Drivers PROVE call'[e].op = call[e].op
        <5>1. call[e] \in CallRecord
          BY DEF TypeInv, CallOK
        <5>2. \/ call'[e] = [call[e] EXCEPT !.touched = TRUE]
              \/ call'[e] = [call[e] EXCEPT !.clean = FALSE]
              \/ call'[e] = call[e]
              \/ \E b : call'[e] = [call[e] EXCEPT !.clean = b]
          BY <2>4 DEF EraseSector, Program, Execute, Ignored, TypeInv, CallOK
        <5> QED  BY <5>1, <5>2 DEF CallRecord
      <4> QED  BY <4>1
    <3>3. /\ \A e \in Drivers \ {d} : pc'[e] = pc[e]
          /\ pc'[d] \in Waiting
      BY <2>4 DEF EraseSector, Program, Execute, Ignored, TypeInv, DataOK, CallOK, Waiting
    <3>4. \A e \in Drivers : Serving(e)' => Serving(e)
      BY <3>1, <3>2, <3>3 DEF Serving, Active, Waiting
    <3> QED  BY <3>1, <3>4, SameService
  <2>5. ASSUME NEW d \in Drivers, SectorErased(d)
        PROVE  StatusInv'
    <3> DEFINE cl == NextSector(call[d])
    <3>1. attrs' = attrs /\ Active(d) /\ cl.op = call[d].op
      BY <2>5 DEF SectorErased, Active, Waiting, NextSector, TypeInv, CallOK, CallRecord
    <3> HIDE DEF cl
    <3>2. CASE cl.index < cl.len \div SectorSize
      BY <2>5, <3>1, <3>2, SameService
         DEF SectorErased, Serving, Active, TypeInv, DataOK, CallOK, cl
    <3>3. CASE ~(cl.index < cl.len \div SectorSize) /\ cl.op = "repair"
      <4>1. RepairProgram(d, TRUE, cl.clean)
        BY <2>5, <3>3 DEF SectorErased, cl
      <4>2. /\ \A e \in Drivers \ {d} : pc'[e] = pc[e] /\ call'[e] = call[e]
            /\ call'[d].op = "repair" /\ pc'[d] # "idle"
        BY <3>1, <3>3, <4>1
           DEF RepairProgram, AssertAndGoTo, TypeInv, CallOK, CallRecord
      <4> QED  BY <3>1, <4>2, SameService DEF Serving, Active
    <3>4. CASE ~(cl.index < cl.len \div SectorSize) /\ cl.op # "repair"
      <4>1. EraseFrom(d, cl, Advance(cl.list))
        BY <2>5, <3>4 DEF SectorErased, cl
      <4>2. \A e \in Drivers : Serving(e)' => Serving(e)
        BY <3>1, <3>4, <4>1, EraseFromService DEF Serving
      <4> QED  BY <3>1, <4>2, SameService
    <3> QED  BY <3>2, <3>3, <3>4
  <2>6. ASSUME NEW d \in Drivers, Programmed(d) \/ SpiError(d)
        PROVE  StatusInv'
    <3>1. CASE RepairDone(d)
      BY <3>1, RepairDoneStatus
    <3>2. CASE /\ call[d].op # "repair" /\ attrs' = attrs
               /\ \E st \in Status : Return(d, call[d], st)
      <4>1. Serving(d)
        BY <2>6, <3>2 DEF Programmed, SpiError, Serving, Active, Waiting
      <4> QED  BY <3>2, <4>1, SameService DEF Return, Serving, Active, TypeInv, DataOK, CallOK
    <3>3. CASE call[d].op = "repair" /\ RepairProgram(d, FALSE, FALSE) /\ attrs' = attrs
      <4>1. /\ \A e \in Drivers \ {d} : pc'[e] = pc[e] /\ call'[e] = call[e]
            /\ call'[d].op = "repair" /\ pc'[d] # "idle"
        BY <3>3 DEF RepairProgram, AssertAndGoTo, TypeInv, CallOK, CallRecord
      <4> QED  BY <3>3, <4>1, SameService DEF Serving, Active
    <3>4. "SUCCESS" \in Status /\ "DEVICE_ERROR" \in Status
      BY DEF Status
    <3>5. CASE Programmed(d)
      BY <3>1, <3>2, <3>4, <3>5 DEF Programmed
    <3>6. CASE SpiError(d)
      BY <3>1, <3>2, <3>3, <3>4, <3>6 DEF SpiError
    <3> QED  BY <2>6, <3>5, <3>6
  <2>7. ASSUME NEW d \in Drivers, FvbInitialize(d)
        PROVE  StatusInv'
    <3> DEFINE img == CHOOSE h \in HeaderImages : Holds(flash, h)
    <3>1. img \in HeaderImages
      BY <2>7 DEF FvbInitialize, HeaderValid
    <3>2. attrs' = [attrs EXCEPT ![d] = HeaderAttributes[img]]
      BY <2>7 DEF FvbInitialize
    <3> HIDE DEF img
    <3>3. StatusAllowed(attrs'[d])
      BY <3>1, <3>2, HeaderStatusAssumption DEF TypeInv, DataOK, CallOK
    <3>4. ASSUME NEW e \in Drivers, e # d
          PROVE  attrs'[e] = attrs[e] /\ (Serving(e)' => Serving(e))
      BY <2>7, <3>2, <3>4 DEF FvbInitialize, Serving, Active, TypeInv, DataOK, CallOK
    <3> QED  BY <3>3, <3>4 DEF StatusInv
  <2>8. ASSUME NEW d \in Drivers, FvbInitializeRepair(d)
        PROVE  StatusInv'
    <3>1. attrs' = attrs /\ \A e \in Drivers \ {d} : pc'[e] = pc[e] /\ call'[e] = call[e]
      <4>1. CASE HasFvbInfo
        BY <2>8, <4>1 DEF FvbInitializeRepair, TypeInv, DataOK, CallOK
      <4>2. CASE ~HasFvbInfo
        BY <2>8, <4>2 DEF FvbInitializeRepair, TypeInv, DataOK, CallOK
      <4> QED  BY <4>1, <4>2
    <3>2. pc'[d] = "absent" \/ (pc'[d] = "erase" /\ call'[d].op = "repair")
      <4>1. CASE HasFvbInfo
        <5> DEFINE cl == [NoCall EXCEPT !.op = "repair", !.addr = fvBase[d].physical,
                                        !.len = FwBlockSize, !.grant = RepairCells]
        <5>1. cl.op = "repair"
          BY DEF NoCall
        <5>2. call' = [call EXCEPT ![d] = cl] /\ pc' = [pc EXCEPT ![d] = "erase"]
          BY <2>8, <4>1 DEF FvbInitializeRepair
        <5> HIDE DEF cl
        <5> QED  BY <5>1, <5>2 DEF TypeInv, DataOK, CallOK
      <4>2. CASE ~HasFvbInfo
        BY <2>8, <4>2 DEF FvbInitializeRepair, TypeInv, DataOK, CallOK
      <4> QED  BY <4>1, <4>2
    <3> QED  BY <3>1, <3>2, SameService DEF Serving, Active, Waiting
  <2>9. CASE FlashReady \/ FvbVirtualddressChangeEvent \/ UNCHANGED vars
    BY <2>9, SameService DEF FlashReady, FvbVirtualddressChangeEvent, vars, Serving, Active
  <2>10. CASE PowerLoss
    BY <2>10 DEF PowerLoss, StatusInv, Serving, Active, Waiting
  <2>11. ASSUME NEW d \in Drivers, NEW w \in ReadRequests, Read(d, w)
         PROVE  StatusInv'
    BY <2>11, SameService DEF Read, Serving, Active
  <2> QED
    BY <2>1, <2>2, <2>3, <2>4, <2>5, <2>6, <2>7, <2>8, <2>9, <2>10, <2>11, NextByDriver
       DEF DriverNext, Protocol, Work
<1> QED
  BY TypeInvariant, <1>1, <1>2, PTL DEF Spec

(* No sequence of SetAttributes calls, repairs and restarts gives a volume *)
(* that serves calls a status its capabilities exclude.                    *)
THEOREM StatusCorrect == Spec => []StatusWithinCapabilities
<1>1. StatusInv => StatusWithinCapabilities
  BY DEF StatusInv, StatusWithinCapabilities, Serving
<1> QED
  BY StatusInvariant, <1>1, PTL

-----------------------------------------------------------------------------
(* Locked with writing disabled.                                           *)

LEMMA LockedStatus ==
  ASSUME NEW old \in SUBSET Flags, NEW req \in SUBSET Flags, "LOCK_STATUS" \in old,
         SetAttributesStatus(old, req) = "SUCCESS"
  PROVE  (old \ StatusFlags) \cup (req \cap StatusFlags) = old
BY DEF SetAttributesStatus

(* Nothing a frozen driver answers to a write or an erase starts anything. *)
LEMMA FrozenWrite ==
  ASSUME TypeInv, Frozen, NEW d \in Drivers, NEW w \in WriteRequests, Write(d, w)
  PROVE  pc' = pc /\ attrs' = attrs
BY DEF Frozen, Write, WriteStatus, Refuse

LEMMA FrozenErase ==
  ASSUME TypeInv, Frozen, NEW d \in Drivers, NEW list \in EraseRequests,
         EraseBlocks(d, list)
  PROVE  pc' = pc /\ attrs' = attrs
<1>1. attrs' = attrs /\ pc[d] = "idle"
  BY DEF EraseBlocks
<1>2. CASE ListRefused(list)
  BY <1>1, <1>2 DEF EraseBlocks, Refuse
<1>3. CASE ~ListRefused(list)
  <2> DEFINE cl == [NoCall EXCEPT !.op = "erase", !.grant = EraseCells(list)]
  <2>1. EraseFrom(d, cl, list)
    BY <1>3 DEF EraseBlocks
  <2> HIDE DEF cl
  <2>2. EraseBlockStatus(d, list[1][1]) = "ACCESS_DENIED"
    BY DEF Frozen, EraseBlockStatus
  <2>3. pc' = [pc EXCEPT ![d] = "idle"]
    BY <2>1, <2>2 DEF EraseFrom, Return
  <2> QED  BY <1>1, <2>3 DEF TypeInv, DataOK, CallOK
<1> QED
  BY <1>2, <1>3

(* A volume locked with writing disabled in every driver's copy stays as   *)
(* it is, attributes and contents, until the power goes: no request, in    *)
(* whatever order, gets through FvbSetVolumeAttributes or to the chip.     *)
THEOREM FrozenCorrect == Spec => FrozenUntilPowerLoss
<1>1. ASSUME TypeInv, Frozen, [Next]_vars
      PROVE  flash' = flash /\ (Frozen' \/ losses' # losses)
  <2>1. ASSUME NEW d \in Drivers, NEW req \in AttributeRequests, SetAttributes(d, req)
        PROVE  flash' = flash /\ Frozen'
    <3>1. attrs[d] \in SUBSET Flags /\ req \in SUBSET Flags /\ "LOCK_STATUS" \in attrs[d]
      BY <1>1, RequestAssumption DEF TypeInv, DataOK, CallOK, Frozen
    <3>2. CASE SetAttributesStatus(attrs[d], req) = "SUCCESS"
      <4>1. attrs' = [attrs EXCEPT ![d] = attrs[d]]
        BY <2>1, <3>1, <3>2, LockedStatus DEF SetAttributes
      <4>2. attrs' = attrs
        BY <1>1, <4>1 DEF TypeInv, DataOK, CallOK
      <4> QED  BY <1>1, <2>1, <4>2 DEF SetAttributes, Refuse, Frozen, Busy
    <3>3. CASE SetAttributesStatus(attrs[d], req) # "SUCCESS"
      BY <1>1, <2>1, <3>3 DEF SetAttributes, Refuse, Frozen, Busy
    <3> QED  BY <3>2, <3>3
  <2>2. ASSUME NEW d \in Drivers, NEW w \in WriteRequests, Write(d, w)
        PROVE  flash' = flash /\ Frozen'
    <3>1. flash' = flash /\ chip' = chip
      BY <2>2 DEF Write
    <3> QED  BY <1>1, <2>2, <3>1, FrozenWrite DEF Frozen, Busy
  <2>3. ASSUME NEW d \in Drivers, NEW list \in EraseRequests, EraseBlocks(d, list)
        PROVE  flash' = flash /\ Frozen'
    <3>1. flash' = flash /\ chip' = chip
      BY <2>3 DEF EraseBlocks
    <3> QED  BY <1>1, <2>3, <3>1, FrozenErase DEF Frozen, Busy
  <2>4. ASSUME NEW d \in Drivers,
               \/ Work(d) \/ SpiError(d)
               \/ FvbInitialize(d) \/ FvbInitializeRepair(d)
        PROVE  FALSE
    BY <1>1, <2>4 DEF Work, EraseSector, SectorErased, Program, Programmed, SpiError,
         FvbInitialize, FvbInitializeRepair, Loading, Frozen, Active, Waiting
  <2>5. CASE FlashReady
    BY <1>1, <2>5 DEF FlashReady, Frozen
  <2>6. CASE FvbVirtualddressChangeEvent \/ UNCHANGED vars
    BY <1>1, <2>6 DEF FvbVirtualddressChangeEvent, vars, Frozen, Busy
  <2>7. CASE PowerLoss
    <3>1. chip.cells = {} /\ flash \in [Cells -> Cell] /\ losses \in Nat
      BY <1>1 DEF Frozen, Busy, TypeInv, DataOK, CallOK
    <3>2. flash' = [c \in Cells |-> flash[c]]
      BY <2>7, <3>1 DEF PowerLoss
    <3>3. losses' = losses + 1
      BY <2>7 DEF PowerLoss
    <3> QED  BY <3>1, <3>2, <3>3
  <2>8. ASSUME NEW d \in Drivers, NEW w \in ReadRequests, Read(d, w)
        PROVE  flash' = flash /\ Frozen'
    BY <1>1, <2>8 DEF Read, Frozen, Busy
  <2> QED
    BY <1>1, <2>1, <2>2, <2>3, <2>4, <2>5, <2>6, <2>7, <2>8, NextByDriver
       DEF DriverNext, Protocol
<1>2. TypeInv /\ [Next]_vars
        => [Frozen => flash' = flash /\ (Frozen' \/ losses' # losses)]_vars
  BY <1>1
<1> QED
  BY TypeInvariant, <1>2, PTL DEF Spec, FrozenUntilPowerLoss

-----------------------------------------------------------------------------
(* What a call is about to do.                                             *)
(*                                                                         *)
(* The invariant behind the remaining theorems says, for each driver,      *)
(* where the call it is in stands: which cells it may still touch and what *)
(* the flash already holds if every command so far took effect (clean).    *)
(* It is stated over values (p, cl, base, at, mem for pc[d], call[d],      *)
(* devBase[d], attrs[d], flash) so that its lemmas speak of no step.       *)

Span(first, n) == {c \in Cells : first <= c /\ c < first + n}

(* The turns of the loop of SpiSectorsErase whose command is out.          *)
Turns(p, cl) == IF p = "eraseWait" THEN cl.index + 1 ELSE cl.index

WritePlan(p, cl, base, mem) ==
  /\ cl.addr - base \in Nat
  /\ cl.len <= Len(cl.data)
  /\ cl.grant = Span(cl.addr - base, cl.len)
  /\ p = "programWait" /\ cl.clean =>
       \A c \in cl.grant : mem[c] \subseteq cl.data[c - (cl.addr - base) + 1]

(* Of an erase: the cells it has yet to erase.                             *)
CellsLeft(p, cl, c) ==
  \/ c \in EraseCells(Advance(cl.list))
  \/ /\ c \in BlockCells(cl.list[1][1])
     /\ c >= FvOffset + BlockOffset(cl.list[1][1]) + Turns(p, cl) * SectorSize

ErasePlan(p, cl, base, at, mem) ==
  /\ p \in {"erase", "eraseWait"}
  /\ \A i \in DOMAIN cl.list : cl.list[i][2] > 0
  /\ LbaExists(cl.list[1][1])
  /\ cl.addr = base + FvOffset + BlockOffset(cl.list[1][1])
  /\ cl.len = BlockLength(cl.list[1][1])
  /\ cl.index < cl.len \div SectorSize
  /\ "WRITE_STATUS" \in at
  /\ EraseCells(cl.list) \subseteq cl.grant
  /\ cl.clean => \A c \in cl.grant : mem[c] = Bits \/ CellsLeft(p, cl, c)

RepairPlan(p, cl, base, mem) ==
  /\ cl.grant = RepairCells
  /\ p # "hung" => cl.addr = base + FvOffset
  /\ p \in {"erase", "eraseWait"} =>
       /\ cl.len = FwBlockSize
       /\ cl.index < cl.len \div SectorSize
       /\ cl.clean => \A c \in RepairCells :
            mem[c] = Bits \/ c >= FvOffset + Turns(p, cl) * SectorSize
  /\ p \in {"program", "programWait"} =>
       cl.data = RepairImage /\ cl.len = Len(RepairImage)
  /\ p = "program" /\ cl.clean => \A c \in RepairCells : mem[c] = Bits
  /\ p = "programWait" /\ cl.clean => Holds(mem, RepairImage)

Plan(p, cl, base, at, mem) ==
  /\ p \in {"off", "absent", "idle"} => cl = NoCall
  /\ cl.op = "write" => WritePlan(p, cl, base, mem)
  /\ cl.op = "erase" => ErasePlan(p, cl, base, at, mem)
  /\ cl.op = "repair" => RepairPlan(p, cl, base, mem)

(* Where the drivers believe the volume and the chip to be.                *)
BaseInv ==
  /\ \A d \in Drivers : fvBase[d].physical = DeviceBase + FvOffset
  /\ \A d \in Drivers \ {Runtime} :
       fvBase[d].virtual = DeviceBase + FvOffset /\ devBase[d] = DeviceBase
  /\ fvBase[Runtime].virtual = devBase[Runtime] + FvOffset
  /\ devBase[Runtime] = IF goneVirtual THEN DeviceBase + VirtualDelta ELSE DeviceBase
  /\ goneVirtual => pc[Runtime] # "off" /\ call[Runtime].op # "repair"

CallInv == \A d \in Drivers : Plan(pc[d], call[d], devBase[d], attrs[d], flash)

PlanInv == TypeInv /\ BaseInv /\ CallInv

-----------------------------------------------------------------------------
(* Arithmetic of whole sectors.                                            *)

LEMMA ProductGrows ==
  ASSUME NEW a \in Nat, NEW b \in Nat, NEW s \in Nat, a <= b
  PROVE  a * s \in Nat /\ b * s \in Nat /\ a * s <= b * s
<1>1. b - a \in Nat /\ b = a + (b - a)
  OBVIOUS
<1>2. \A x \in Nat, y \in Nat : x * y \in Nat
  OBVIOUS
<1>3. \A x \in Nat, y \in Nat, z \in Nat : (x + y) * z = x * z + y * z
  OBVIOUS
<1>4. b * s = a * s + (b - a) * s
  BY <1>1, <1>3
<1> QED
  BY <1>1, <1>2, <1>4

LEMMA WholeSectors ==
  ASSUME NEW n \in Nat, n % SectorSize = 0
  PROVE  /\ n \div SectorSize \in Nat
         /\ n = (n \div SectorSize) * SectorSize
         /\ n > 0 => 0 < n \div SectorSize
<1> DEFINE q == n \div SectorSize  r == n % SectorSize
<1>1. SectorSize \in Nat \ {0}
  BY ChipAssumption
<1>2. q \in Nat /\ r \in 0 .. SectorSize - 1 /\ n = SectorSize * q + r
  BY <1>1
<1>3. r = 0
  OBVIOUS
<1> HIDE DEF q, r
<1>4. n = SectorSize * q
  BY <1>1, <1>2, <1>3
<1>5. n = q * SectorSize
  BY <1>1, <1>2, <1>4
<1>6. n > 0 => 0 < q
  BY <1>1, <1>2, <1>5
<1> QED
  BY <1>2, <1>5, <1>6 DEF q

(* A sector the loop has yet to erase lies in the block ...                *)
LEMMA SectorInside ==
  ASSUME NEW n \in Nat, n % SectorSize = 0, NEW i \in Nat, i < n \div SectorSize
  PROVE  /\ i * SectorSize \in Nat /\ (i + 1) * SectorSize \in Nat
         /\ (i + 1) * SectorSize = i * SectorSize + SectorSize
         /\ i * SectorSize + SectorSize <= n
<1>1. SectorSize \in Nat
  BY ChipAssumption
<1>2. n \div SectorSize \in Nat /\ n = (n \div SectorSize) * SectorSize
  BY WholeSectors
<1>3. i + 1 \in Nat /\ i + 1 <= n \div SectorSize
  BY <1>2
<1>4. (i + 1) * SectorSize \in Nat /\ (i + 1) * SectorSize <= n
  BY <1>1, <1>2, <1>3, ProductGrows
<1>5. i * SectorSize \in Nat
  BY <1>1, ProductGrows
<1>6. (i + 1) * SectorSize = i * SectorSize + SectorSize
  BY <1>1
<1> QED
  BY <1>4, <1>5, <1>6

(* ... and the loop ends behind the block's last cell.                     *)
LEMMA SectorsCover ==
  ASSUME NEW n \in Nat, n % SectorSize = 0, NEW i \in Nat, ~(i < n \div SectorSize)
  PROVE  n <= i * SectorSize
<1>1. SectorSize \in Nat
  BY ChipAssumption
<1>2. n \div SectorSize \in Nat /\ n = (n \div SectorSize) * SectorSize
  BY WholeSectors
<1> QED
  BY <1>1, <1>2, ProductGrows

-----------------------------------------------------------------------------
(* The block map and argument lists.                                       *)

LEMMA BlockGeometry ==
  ASSUME NEW lba \in Nat, LbaExists(lba)
  PROVE  /\ BlockOffset(lba) \in Nat
         /\ BlockLength(lba) \in Nat \ {0} /\ BlockLength(lba) % SectorSize = 0
<1> DEFINE i == CHOOSE j \in EntryOf(lba) : TRUE
           e == BlockMap[i]
<1>1. i \in EntryOf(lba)
  BY DEF LbaExists
<1>2. i \in DOMAIN BlockMap /\ lba >= e.first
  BY <1>1 DEF EntryOf
<1> HIDE DEF i
<1>3. e \in MapEntry /\ e.len % SectorSize = 0
  BY <1>2, BlockMapAssumption, LayoutAssumption, LenProperties
<1> HIDE DEF e
<1>4. e.first \in Nat /\ e.offset \in Nat /\ e.len \in Nat \ {0}
  BY <1>3 DEF MapEntry
<1>5. lba - e.first \in Nat
  BY <1>2, <1>4
<1>6. (lba - e.first) * e.len \in Nat
  BY <1>4, <1>5, ProductGrows
<1> QED
  BY <1>3, <1>4, <1>6 DEF BlockOffset, BlockLength, e, i

LEMMA ListEntries ==
  ASSUME NEW list \in Seq(Nat \X Nat), NEW i \in DOMAIN list
  PROVE  list[i][1] \in Nat /\ list[i][2] \in Nat
<1>1. list[i] \in Nat \X Nat
  BY LenProperties
<1> QED
  BY <1>1

(* What Advance leaves of a list.                                          *)
LEMMA AdvancedEntries ==
  ASSUME NEW list \in Seq(Nat \X Nat), list # <<>>
  PROVE  /\ list[1][2] > 1 =>
              /\ DOMAIN Advance(list) = DOMAIN list
              /\ Advance(list)[1] = <<list[1][1] + 1, list[1][2] - 1>>
              /\ \A i \in DOMAIN list \ {1} : Advance(list)[i] = list[i]
         /\ ~(list[1][2] > 1) =>
              /\ Len(list) \in Nat \ {0}
              /\ DOMAIN Advance(list) = 1 .. Len(list) - 1
              /\ \A i \in 1 .. Len(list) - 1 : Advance(list)[i] = list[i + 1]
<1>1. Len(list) \in Nat \ {0} /\ DOMAIN list = 1 .. Len(list)
  OBVIOUS
<1>2. CASE list[1][2] > 1
  BY <1>1, <1>2 DEF Advance
<1>3. CASE ~(list[1][2] > 1)
  <2>1. Advance(list) = Tail(list)
    BY <1>3 DEF Advance
  <2>2. DOMAIN Tail(list) = 1 .. Len(list) - 1
    BY <1>1, HeadTailProperties
  <2>3. \A i \in 1 .. Len(list) - 1 : Tail(list)[i] = list[i + 1]
    BY <1>1, HeadTailProperties
  <2> QED  BY <1>1, <1>3, <2>1, <2>2, <2>3
<1> QED
  BY <1>2, <1>3

(* An argument list names a block.                                         *)
Lists(l, lba) == \E i \in DOMAIN l : \E k \in 0 .. l[i][2] - 1 : lba = l[i][1] + k

(* A block of the list is its first one or still in the advanced list, and *)
(* advancing adds no block.                                                *)
LEMMA AdvancedBlocks ==
  ASSUME NEW list \in Seq(Nat \X Nat), list # <<>>, NEW lba,
         \A i \in DOMAIN list : list[i][2] > 0
  PROVE  Lists(list, lba) <=> lba = list[1][1] \/ Lists(Advance(list), lba)
<1> USE DEF Lists
<1>0. list[1][1] \in Nat /\ list[1][2] \in Nat /\ 1 \in DOMAIN list
  BY ListEntries
<1>1. ASSUME Lists(list, lba)  PROVE lba = list[1][1] \/ Lists(Advance(list), lba)
  <2>1. PICK i \in DOMAIN list : \E k \in 0 .. list[i][2] - 1 : lba = list[i][1] + k
    BY <1>1
  <2>2. PICK k \in 0 .. list[i][2] - 1 : lba = list[i][1] + k
    BY <2>1
  <2>3. CASE i = 1 /\ k = 0
    BY <1>0, <2>2, <2>3
  <2>4. CASE i = 1 /\ k # 0
    <3>1. list[1][2] > 1 /\ k - 1 \in 0 .. (list[1][2] - 1) - 1
      BY <1>0, <2>2, <2>4
    <3>2. 1 \in DOMAIN Advance(list) /\ Advance(list)[1] = <<list[1][1] + 1, list[1][2] - 1>>
      BY <1>0, <3>1, AdvancedEntries
    <3>3. lba = Advance(list)[1][1] + (k - 1)
      BY <1>0, <2>2, <2>4, <3>1, <3>2
    <3> QED  BY <3>1, <3>2, <3>3
  <2>5. CASE i # 1 /\ list[1][2] > 1
    <3>1. i \in DOMAIN Advance(list) /\ Advance(list)[i] = list[i]
      BY <2>5, AdvancedEntries
    <3> QED  BY <2>2, <3>1
  <2>6. CASE i # 1 /\ ~(list[1][2] > 1)
    <3>1. i - 1 \in DOMAIN Advance(list) /\ Advance(list)[i - 1] = list[i]
      <4>1. i \in 1 .. Len(list) /\ Len(list) \in Nat
        OBVIOUS
      <4>2. i - 1 \in 1 .. Len(list) - 1 /\ (i - 1) + 1 = i
        BY <2>6, <4>1
      <4> QED  BY <2>6, <4>2, AdvancedEntries
    <3> QED  BY <2>2, <3>1
  <2> QED  BY <2>3, <2>4, <2>5, <2>6
<1>2. lba = list[1][1] => Lists(list, lba)
  <2>1. 0 \in 0 .. list[1][2] - 1 /\ list[1][1] = list[1][1] + 0
    BY <1>0
  <2> QED  BY <1>0, <2>1
<1>3. ASSUME Lists(Advance(list), lba)  PROVE Lists(list, lba)
  <2>1. PICK i \in DOMAIN Advance(list) :
          \E k \in 0 .. Advance(list)[i][2] - 1 : lba = Advance(list)[i][1] + k
    BY <1>3
  <2>2. PICK k \in 0 .. Advance(list)[i][2] - 1 : lba = Advance(list)[i][1] + k
    BY <2>1
  <2>3. CASE list[1][2] > 1 /\ i = 1
    <3>1. Advance(list)[1] = <<list[1][1] + 1, list[1][2] - 1>>
      BY <2>3, AdvancedEntries
    <3>2. k + 1 \in 0 .. list[1][2] - 1 /\ lba = list[1][1] + (k + 1)
      BY <1>0, <2>2, <2>3, <3>1
    <3> QED  BY <1>0, <3>2
  <2>4. CASE list[1][2] > 1 /\ i # 1
    <3>1. i \in DOMAIN list /\ Advance(list)[i] = list[i]
      BY <2>4, AdvancedEntries
    <3> QED  BY <2>2, <3>1
  <2>5. CASE ~(list[1][2] > 1)
    <3>1. Len(list) \in Nat /\ i \in 1 .. Len(list) - 1 /\ Advance(list)[i] = list[i + 1]
      BY <2>5, AdvancedEntries
    <3>2. i + 1 \in DOMAIN list
      BY <3>1
    <3> QED  BY <2>2, <3>1, <3>2
  <2> QED  BY <2>3, <2>4, <2>5
<1> QED
  BY <1>1, <1>2, <1>3

LEMMA AdvancedCounts ==
  ASSUME NEW list \in Seq(Nat \X Nat), list # <<>>, \A i \in DOMAIN list : list[i][2] > 0
  PROVE  \A i \in DOMAIN Advance(list) : Advance(list)[i][2] > 0
<1> SUFFICES ASSUME NEW i \in DOMAIN Advance(list) PROVE Advance(list)[i][2] > 0
  OBVIOUS
<1>0. list[1][1] \in Nat /\ list[1][2] \in Nat /\ 1 \in DOMAIN list
  BY ListEntries
<1>1. CASE list[1][2] > 1 /\ i = 1
  BY <1>0, <1>1, AdvancedEntries
<1>2. CASE list[1][2] > 1 /\ i # 1
  BY <1>2, AdvancedEntries
<1>3. CASE ~(list[1][2] > 1)
  <2>1. Len(list) \in Nat /\ i \in 1 .. Len(list) - 1 /\ Advance(list)[i] = list[i + 1]
    BY <1>3, AdvancedEntries
  <2>2. i + 1 \in DOMAIN list
    BY <2>1
  <2> QED  BY <2>1, <2>2
<1> QED
  BY <1>1, <1>2, <1>3

LEMMA AdvancedCells ==
  ASSUME NEW list \in Seq(Nat \X Nat), list # <<>>, \A i \in DOMAIN list : list[i][2] > 0,
         LbaExists(list[1][1])
  PROVE  EraseCells(list) = BlockCells(list[1][1]) \cup EraseCells(Advance(list))
<1>1. \A l : EraseCells(l) =
               {c \in Cells : \E lba : Lists(l, lba) /\ LbaExists(lba) /\ c \in BlockCells(lba)}
  BY DEF EraseCells, Lists
<1>2. \A lba : Lists(list, lba) <=> lba = list[1][1] \/ Lists(Advance(list), lba)
  BY AdvancedBlocks
<1>3. BlockCells(list[1][1]) \subseteq Cells
  BY DEF BlockCells
<1> QED
  BY <1>1, <1>2, <1>3

-----------------------------------------------------------------------------
(* Plans.                                                                  *)

(* The two headers lie in the block the repair erases.                     *)
LEMMA ImageInside ==
  /\ Len(RepairImage) \in Nat /\ Len(RepairImage) <= FwBlockSize
  /\ \A i \in DOMAIN RepairImage : FvOffset + i - 1 \in RepairCells
<1>1. Len(RepairImage) \in Nat /\ DOMAIN RepairImage = 1 .. Len(RepairImage)
  BY RepairImageType
<1>2. Len(RepairImage) <= FwBlockSize
  BY LayoutAssumption DEF RepairImage
<1>3. FvOffset \in Nat /\ FwBlockSize \in Nat /\ FvOffset + FwBlockSize <= ChipSize
      /\ ChipSize \in Nat
  BY ChipAssumption, LayoutAssumption
<1> QED
  BY <1>1, <1>2, <1>3 DEF RepairCells, Cells

(* A step that leaves a driver where it is leaves its plan as it was, if   *)
(* the call is no longer clean once its cells have changed.                *)
LEMMA PlanKept ==
  ASSUME NEW p, NEW cl \in CallRecord, NEW new \in CallRecord, NEW base, NEW at,
         NEW mem, NEW after, Plan(p, cl, base, at, mem),
         new.op = cl.op, new.list = cl.list, new.addr = cl.addr, new.len = cl.len,
         new.index = cl.index, new.data = cl.data, new.grant = cl.grant,
         new.clean => cl.clean /\ \A c \in cl.grant : after[c] = mem[c],
         p \in {"off", "absent", "idle"} => new = cl
  PROVE  Plan(p, new, base, at, after)
<1>1. new.op = "write" => WritePlan(p, new, base, after)
  BY DEF Plan, WritePlan
<1>2. new.op = "erase" => ErasePlan(p, new, base, at, after)
  BY DEF Plan, ErasePlan, CellsLeft, Turns
<1>3. ASSUME new.op = "repair"  PROVE RepairPlan(p, new, base, after)
  <2>1. RepairPlan(p, cl, base, mem)
    BY <1>3 DEF Plan
  <2>2. p = "programWait" /\ new.clean => Holds(after, RepairImage)
    BY <2>1, ImageInside DEF RepairPlan, Holds
  <2> QED  BY <2>1, <2>2 DEF RepairPlan, Turns
<1> QED
  BY <1>1, <1>2, <1>3 DEF Plan

(* The second pass takes up a list whose blocks the call may touch.        *)
LEMMA EraseStarts ==
  ASSUME NEW cl \in CallRecord, cl.op = "erase", NEW base \in Nat, NEW at, NEW mem,
         cl.list # <<>>, \A i \in DOMAIN cl.list : cl.list[i][2] > 0,
         LbaExists(cl.list[1][1]), "WRITE_STATUS" \in at,
         cl.addr = base + FvOffset + BlockOffset(cl.list[1][1]),
         cl.len = BlockLength(cl.list[1][1]), cl.index = 0,
         EraseCells(cl.list) \subseteq cl.grant,
         cl.clean => \A c \in cl.grant : mem[c] = Bits \/ c \in EraseCells(cl.list)
  PROVE  Plan("erase", cl, base, at, mem)
<1> DEFINE lba == cl.list[1][1]
<1>1. cl.list \in Seq(Nat \X Nat)
  BY DEF CallRecord
<1>2. lba \in Nat
  BY <1>1, ListEntries
<1>3. cl.index < cl.len \div SectorSize
  BY <1>2, BlockGeometry, WholeSectors
<1>4. EraseCells(cl.list) = BlockCells(lba) \cup EraseCells(Advance(cl.list))
  BY <1>1, AdvancedCells
<1>5. 0 * SectorSize = 0 /\ FvOffset \in Nat /\ BlockOffset(lba) \in Nat
  BY <1>2, ChipAssumption, BlockGeometry
<1>6. \A c \in BlockCells(lba) : c >= FvOffset + BlockOffset(lba) + 0 * SectorSize
  BY <1>5 DEF BlockCells, Cells
<1>7. \A c \in EraseCells(cl.list) : CellsLeft("erase", cl, c)
  BY <1>4, <1>6 DEF CellsLeft, Turns
<1>8. ErasePlan("erase", cl, base, at, mem)
  BY <1>3, <1>7 DEF ErasePlan
<1> QED
  BY <1>8 DEF Plan

(* The next turn of the loop.                                              *)
LEMMA NextTurn ==
  ASSUME NEW cl \in CallRecord, cl.op # "none", cl.op # "write", NEW new \in CallRecord, NEW base,
         NEW at, NEW mem, Plan("eraseWait", cl, base, at, mem),
         new.op = cl.op, new.list = cl.list, new.addr = cl.addr, new.len = cl.len,
         new.index = cl.index + 1, new.grant = cl.grant, new.clean = cl.clean,
         new.index < new.len \div SectorSize
  PROVE  Plan("erase", new, base, at, mem)
<1>1. Turns("erase", new) = Turns("eraseWait", cl)
  BY DEF Turns
<1>2. new.op = "erase" => ErasePlan("erase", new, base, at, mem)
  BY <1>1 DEF Plan, ErasePlan, CellsLeft
<1>3. new.op = "repair" => RepairPlan("erase", new, base, mem)
  BY <1>1 DEF Plan, RepairPlan
<1> QED
  BY <1>2, <1>3 DEF Plan

(* The last turn: nothing of the first block is left.                      *)
LEMMA BlockDone ==
  ASSUME NEW cl \in CallRecord, cl.op = "erase", cl.list # <<>>,
         NEW base, NEW at, NEW mem, Plan("eraseWait", cl, base, at, mem),
         ~(cl.index + 1 < cl.len \div SectorSize)
  PROVE  /\ \A i \in DOMAIN Advance(cl.list) : Advance(cl.list)[i][2] > 0
         /\ EraseCells(Advance(cl.list)) \subseteq cl.grant
         /\ cl.clean => \A c \in cl.grant :
              mem[c] = Bits \/ c \in EraseCells(Advance(cl.list))
<1> DEFINE lba == cl.list[1][1]
<1>1. cl.list \in Seq(Nat \X Nat) /\ cl.index + 1 \in Nat
  BY DEF CallRecord
<1>2. ErasePlan("eraseWait", cl, base, at, mem)
  BY DEF Plan
<1>3. lba \in Nat /\ LbaExists(lba) /\ \A i \in DOMAIN cl.list : cl.list[i][2] > 0
  BY <1>1, <1>2, ListEntries DEF ErasePlan
<1>4. EraseCells(cl.list) = BlockCells(lba) \cup EraseCells(Advance(cl.list))
  BY <1>1, <1>3, AdvancedCells
<1>5. BlockLength(lba) \in Nat /\ BlockLength(lba) % SectorSize = 0
      /\ BlockOffset(lba) \in Nat /\ FvOffset \in Nat
  BY <1>3, BlockGeometry, ChipAssumption
<1>6. BlockLength(lba) <= (cl.index + 1) * SectorSize
  BY <1>1, <1>2, <1>5, SectorsCover DEF ErasePlan
<1>7. (cl.index + 1) * SectorSize \in Nat
  BY <1>1, ChipAssumption, ProductGrows
<1>8. \A c \in BlockCells(lba) :
        ~(c >= FvOffset + BlockOffset(lba) + Turns("eraseWait", cl) * SectorSize)
  BY <1>5, <1>6, <1>7 DEF BlockCells, Cells, Turns
<1>9. \A c : CellsLeft("eraseWait", cl, c) => c \in EraseCells(Advance(cl.list))
  BY <1>8 DEF CellsLeft
<1>10. \A i \in DOMAIN Advance(cl.list) : Advance(cl.list)[i][2] > 0
  BY <1>1, <1>3, AdvancedCounts
<1> QED
  BY <1>2, <1>4, <1>9, <1>10 DEF ErasePlan

(* Of the repair: the block is erased, and the headers go into it.         *)
LEMMA RepairGoesOn ==
  ASSUME NEW cl \in CallRecord, cl.op = "repair", NEW new \in CallRecord,
         NEW base \in Nat, NEW at, NEW mem, NEW p \in {"erase", "eraseWait"},
         NEW next \in {"program", "hung"}, Plan(p, cl, base, at, mem),
         new.op = "repair", new.addr = base + FvOffset, new.grant = cl.grant,
         new.data = RepairImage, new.len = Len(RepairImage),
         new.clean => /\ p = "eraseWait" /\ ~(cl.index + 1 < cl.len \div SectorSize)
                      /\ cl.clean
  PROVE  Plan(next, new, base, at, mem)
<1>1. RepairPlan(p, cl, base, mem)
  BY DEF Plan
<1>2. ASSUME new.clean  PROVE \A c \in RepairCells : mem[c] = Bits
  <2>1. cl.len = FwBlockSize /\ cl.index + 1 \in Nat
    BY <1>1 DEF RepairPlan, CallRecord
  <2>2. FwBlockSize <= (cl.index + 1) * SectorSize
    BY <1>2, <2>1, ChipAssumption, SectorsCover
  <2>3. (cl.index + 1) * SectorSize \in Nat /\ FvOffset \in Nat /\ FwBlockSize \in Nat
    BY <2>1, ChipAssumption, ProductGrows
  <2>4. \A c \in RepairCells : ~(c >= FvOffset + Turns("eraseWait", cl) * SectorSize)
    BY <2>2, <2>3 DEF RepairCells, Cells, Turns
  <2> QED  BY <1>1, <1>2, <2>4 DEF RepairPlan
<1>3. RepairPlan(next, new, base, mem)
  BY <1>1, <1>2 DEF RepairPlan
<1> QED
  BY <1>3 DEF Plan

(* The commands stay within the cells the call is about, and do there what *)
(* the plan says.                                                          *)
LEMMA SectorCommand ==
  ASSUME NEW cl \in CallRecord, cl.op \in {"erase", "repair"}, NEW new \in CallRecord,
         NEW base \in Nat, NEW at, NEW mem, NEW after, Plan("erase", cl, base, at, mem),
         cl.op = "erase" => cl.list # <<>>,
         new.op = cl.op, new.list = cl.list, new.addr = cl.addr, new.len = cl.len,
         new.index = cl.index, new.data = cl.data, new.grant = cl.grant,
         new.clean = cl.clean, NEW cells,
         cells = Span((cl.addr + cl.index * SectorSize) - base, SectorSize),
         \A c \in Cells : after[c] = IF c \in cells THEN Bits ELSE mem[c]
  PROVE  Plan("eraseWait", new, base, at, after) /\ cells \subseteq cl.grant
<1> DEFINE i == cl.index  lba == cl.list[1][1]
<1>1. i \in Nat /\ cl.list \in Seq(Nat \X Nat) /\ cl.grant \subseteq Cells
  BY DEF CallRecord
<1>2. SectorSize \in Nat /\ FvOffset \in Nat /\ FwBlockSize \in Nat
      /\ FwBlockSize % SectorSize = 0
  BY ChipAssumption
<1>3. Turns("erase", cl) = i /\ Turns("eraseWait", new) = i + 1
  BY DEF Turns
<1>4. CASE cl.op = "erase"
  <2>1. ErasePlan("erase", cl, base, at, mem)
    BY <1>4 DEF Plan
  <2>2. lba \in Nat /\ LbaExists(lba)
    BY <1>1, <1>4, <2>1, ListEntries DEF ErasePlan
  <2>3. BlockLength(lba) \in Nat /\ BlockLength(lba) % SectorSize = 0
        /\ BlockOffset(lba) \in Nat
    BY <2>2, BlockGeometry
  <2>4. /\ i * SectorSize \in Nat /\ (i + 1) * SectorSize \in Nat
        /\ (i + 1) * SectorSize = i * SectorSize + SectorSize
        /\ i * SectorSize + SectorSize <= BlockLength(lba)
    BY <1>1, <2>1, <2>3, SectorInside DEF ErasePlan
  <2>5. (cl.addr + i * SectorSize) - base = FvOffset + BlockOffset(lba) + i * SectorSize
    BY <1>2, <2>1, <2>3, <2>4 DEF ErasePlan
  <2>6. cells \subseteq BlockCells(lba)
    BY <1>2, <2>3, <2>4, <2>5 DEF Span, BlockCells, Cells
  <2>7. EraseCells(cl.list) = BlockCells(lba) \cup EraseCells(Advance(cl.list))
    BY <1>1, <1>4, <2>1, <2>2, AdvancedCells DEF ErasePlan
  <2>8. cells \subseteq cl.grant
    BY <2>1, <2>6, <2>7 DEF ErasePlan
  <2>9. \A c \in cl.grant : CellsLeft("erase", cl, c) /\ c \notin cells
                              => CellsLeft("eraseWait", new, c)
    <3>1. ASSUME NEW c \in Cells, c \notin cells,
                 c >= FvOffset + BlockOffset(lba) + i * SectorSize
          PROVE  c >= FvOffset + BlockOffset(lba) + (i + 1) * SectorSize
      BY <1>2, <2>3, <2>4, <2>5, <3>1 DEF Span, Cells
    <3> QED  BY <1>1, <1>3, <3>1 DEF CellsLeft
  <2>10. new.clean => \A c \in cl.grant : after[c] = Bits \/ CellsLeft("eraseWait", new, c)
    BY <1>1, <2>1, <2>9 DEF ErasePlan
  <2>11. ErasePlan("eraseWait", new, base, at, after)
    BY <2>1, <2>10 DEF ErasePlan
  <2> QED  BY <1>4, <2>8, <2>11 DEF Plan
<1>5. CASE cl.op = "repair"
  <2>1. RepairPlan("erase", cl, base, mem)
    BY <1>5 DEF Plan
  <2>2. /\ i * SectorSize \in Nat /\ (i + 1) * SectorSize \in Nat
        /\ (i + 1) * SectorSize = i * SectorSize + SectorSize
        /\ i * SectorSize + SectorSize <= FwBlockSize
    BY <1>1, <1>2, <2>1, SectorInside DEF RepairPlan
  <2>3. (cl.addr + i * SectorSize) - base = FvOffset + i * SectorSize
    BY <1>2, <2>1, <2>2 DEF RepairPlan
  <2>4. cells \subseteq cl.grant
    BY <1>2, <2>1, <2>2, <2>3 DEF Span, RepairPlan, RepairCells, Cells
  <2>5. new.clean => \A c \in RepairCells :
          after[c] = Bits \/ c >= FvOffset + Turns("eraseWait", new) * SectorSize
    <3>1. ASSUME NEW c \in Cells, c \notin cells, c >= FvOffset + i * SectorSize
          PROVE  c >= FvOffset + (i + 1) * SectorSize
      BY <1>2, <2>2, <2>3, <3>1 DEF Span, Cells
    <3> QED  BY <1>1, <1>3, <2>1, <3>1 DEF RepairPlan
  <2>6. RepairPlan("eraseWait", new, base, after)
    BY <2>1, <2>5 DEF RepairPlan
  <2> QED  BY <1>5, <2>4, <2>6 DEF Plan
<1> QED
  BY <1>4, <1>5

(* What programming leaves in a cell when the data starts at `first'.      *)
Programs(mem, data, first, c) ==
  IF c - first + 1 \in DOMAIN data THEN mem[c] \cap data[c - first + 1] ELSE mem[c]

LEMMA ProgramCommand ==
  ASSUME NEW cl \in CallRecord, cl.op \in {"write", "repair"}, NEW new \in CallRecord,
         NEW base \in Nat, NEW at, NEW mem \in [Cells -> Cell], NEW after,
         Plan("program", cl, base, at, mem),
         new.op = cl.op, new.list = cl.list, new.addr = cl.addr, new.len = cl.len,
         new.index = cl.index, new.data = cl.data, new.grant = cl.grant,
         new.clean = cl.clean, NEW cells, cells = Span(cl.addr - base, cl.len),
         \A c \in cells : after[c] = Programs(mem, cl.data, cl.addr - base, c)
  PROVE  Plan("programWait", new, base, at, after) /\ cells \subseteq cl.grant
<1> DEFINE first == cl.addr - base
<1>1. cl.data \in Seq(Cell) /\ DOMAIN cl.data = 1 .. Len(cl.data) /\ Len(cl.data) \in Nat
  BY DEF CallRecord
<1>2. cl.len \in Nat
  BY DEF CallRecord
<1>3. CASE cl.op = "write"
  <2>1. WritePlan("program", cl, base, mem)
    BY <1>3 DEF Plan
  <2>2. first \in Nat /\ cl.len <= Len(cl.data) /\ cl.grant = cells
    BY <2>1 DEF WritePlan
  <2>3. \A c \in cells : c - first + 1 \in DOMAIN cl.data
    BY <1>1, <1>2, <2>2 DEF Span, Cells
  <2>4. WritePlan("programWait", new, base, after)
    BY <2>1, <2>2, <2>3 DEF WritePlan, Programs
  <2> QED  BY <1>3, <2>2, <2>4 DEF Plan
<1>4. CASE cl.op = "repair"
  <2>1. RepairPlan("program", cl, base, mem)
    BY <1>4 DEF Plan
  <2>2. first = FvOffset /\ FvOffset \in Nat /\ FwBlockSize \in Nat /\ cl.grant = RepairCells
        /\ cl.data = RepairImage /\ cl.len = Len(RepairImage)
    BY <2>1, ChipAssumption DEF RepairPlan
  <2>3. cells \subseteq cl.grant
    BY <2>2, ImageInside DEF Span, RepairCells, Cells
  <2>4. ASSUME new.clean  PROVE Holds(after, RepairImage)
    <3>1. SUFFICES ASSUME NEW i \in DOMAIN RepairImage
                   PROVE  /\ FvOffset + i - 1 \in Cells
                          /\ after[FvOffset + i - 1] = RepairImage[i]
      BY DEF Holds
    <3>2. FvOffset + i - 1 \in RepairCells /\ i \in Nat /\ i >= 1 /\ i <= Len(RepairImage)
      BY <1>1, <2>2, ImageInside
    <3>3. FvOffset + i - 1 \in Cells
      BY <3>2 DEF RepairCells
    <3>4. FvOffset + i - 1 \in cells
      BY <2>2, <3>2, <3>3, ImageInside DEF Span, Cells
    <3>5. (FvOffset + i - 1) - first + 1 = i
      BY <2>2, <3>2
    <3>6. after[FvOffset + i - 1] = mem[FvOffset + i - 1] \cap RepairImage[i]
      BY <2>2, <3>4, <3>5 DEF Programs
    <3>7. mem[FvOffset + i - 1] = Bits
      BY <2>1, <2>4, <3>2 DEF RepairPlan
    <3>8. RepairImage[i] \subseteq Bits
      BY RepairImageType, LenProperties DEF Cell
    <3> QED  BY <3>3, <3>6, <3>7, <3>8
  <2>5. RepairPlan("programWait", new, base, after)
    BY <2>1, <2>4 DEF RepairPlan
  <2> QED  BY <1>4, <2>3, <2>5 DEF Plan
<1> QED
  BY <1>3, <1>4

-----------------------------------------------------------------------------
(* The bases.                                                              *)

LEMMA Bases ==
  ASSUME BaseInv, NEW d \in Drivers
  PROVE  /\ devBase[d] \in Nat \ {0}
         /\ FvbGetPhysicalAddress(d) = devBase[d] + FvOffset
         /\ call[d].op = "repair" \/ pc[d] = "off" =>
              fvBase[d].physical = devBase[d] + FvOffset
<1>1. DeviceBase \in Nat \ {0} /\ FvOffset \in Nat /\ VirtualDelta \in Nat
  BY ChipAssumption
<1>2. Smm # Runtime /\ Smm \in Drivers /\ Runtime \in Drivers
  BY DriversAssumption
<1>3. CASE d = Runtime
  BY <1>1, <1>2, <1>3 DEF BaseInv, FvbGetPhysicalAddress
<1>4. CASE d # Runtime
  BY <1>1, <1>2, <1>4 DEF BaseInv, FvbGetPhysicalAddress, SmmGetPhysicalAddress
<1> QED
  BY <1>3, <1>4

(* Only a driver that is being loaded starts a repair, and only the power  *)
(* unloads one.                                                            *)
NoNewRepair ==
  \A e \in Drivers : /\ pc'[e] = "off" => pc[e] = "off"
                     /\ call'[e].op = "repair" => call[e].op = "repair" \/ pc[e] = "off"

LEMMA BaseKept ==
  ASSUME BaseInv, UNCHANGED <<fvBase, devBase, goneVirtual>>, NoNewRepair
  PROVE  BaseInv'
BY DriversAssumption DEF BaseInv, NoNewRepair

LEMMA EraseFromNoRepair ==
  ASSUME TypeInv, NEW d \in Drivers, NEW cl \in CallRecord, NEW list, cl.op # "repair",
         EraseFrom(d, cl, list)
  PROVE  NoNewRepair
<1> DEFINE new == [cl EXCEPT !.list = list, !.addr = FvbGetLbaAddress(d, list[1][1]),
                             !.len = BlockLength(list[1][1]), !.index = 0]
<1>1. new.op = cl.op
  BY DEF CallRecord
<1>2. \/ pc' = [pc EXCEPT ![d] = "idle"] /\ call' = [call EXCEPT ![d] = NoCall]
      \/ pc' = [pc EXCEPT ![d] = "erase"] /\ call' = [call EXCEPT ![d] = new]
  BY DEF EraseFrom, Return
<1>3. NoCall.op = "none"
  BY DEF NoCall
<1> HIDE DEF new
<1> QED
  BY <1>1, <1>2, <1>3 DEF NoNewRepair, TypeInv, CallOK

LEMMA BaseStep ==
  ASSUME TypeInv, BaseInv, [Next]_vars
  PROVE  BaseInv'
<1>1. ASSUME NEW d \in Drivers, NEW req \in AttributeRequests, SetAttributes(d, req)
      PROVE  BaseInv'
  BY <1>1, BaseKept DEF SetAttributes, Refuse, NoNewRepair
<1>2. ASSUME NEW d \in Drivers, NEW w \in WriteRequests, Write(d, w)
      PROVE  BaseInv'
  <2> DEFINE new == [NoCall EXCEPT !.op = "write",
                                   !.addr = FvbGetLbaAddress(d, w.lba) + w.offset,
                                   !.len = NumBytes(w), !.asked = Len(w.data),
                                   !.data = w.data, !.grant = WriteCells(w)]
  <2>1. new.op = "write"
    BY DEF NoCall
  <2>2. \/ UNCHANGED <<pc, call>>
        \/ pc' = [pc EXCEPT ![d] = "program"] /\ call' = [call EXCEPT ![d] = new]
    BY <1>2 DEF Write, Refuse
  <2> HIDE DEF new
  <2>3. NoNewRepair
    BY <2>1, <2>2 DEF NoNewRepair, TypeInv, CallOK
  <2> QED  BY <1>2, <2>3, BaseKept DEF Write
<1>3. ASSUME NEW d \in Drivers, NEW list \in EraseRequests, EraseBlocks(d, list)
      PROVE  BaseInv'
  <2> DEFINE cl == [NoCall EXCEPT !.op = "erase", !.grant = EraseCells(list)]
  <2>1. cl \in CallRecord /\ cl.op # "repair"
    <3>1. EraseCells(list) \in SUBSET Cells
      BY DEF EraseCells
    <3> QED  BY <3>1, NoCallType DEF CallRecord
  <2>2. UNCHANGED <<pc, call>> \/ EraseFrom(d, cl, list)
    BY <1>3 DEF EraseBlocks, Refuse
  <2> HIDE DEF cl
  <2>3. NoNewRepair
    BY <2>1, <2>2, EraseFromNoRepair DEF NoNewRepair
  <2> QED  BY <1>3, <2>3, BaseKept DEF EraseBlocks
<1>4. ASSUME NEW d \in Drivers, EraseSector(d) \/ Program(d)
      PROVE  BaseInv'
  <2>1. ASSUME NEW e \in Drivers PROVE call'[e].op = call[e].op
    <3>1. call[e] \in CallRecord
      BY DEF TypeInv, CallOK
    <3>2. \/ call'[e] = [call[e] EXCEPT !.touched = TRUE]
          \/ call'[e] = [call[e] EXCEPT !.clean = FALSE]
          \/ call'[e] = call[e]
          \/ \E b : call'[e] = [call[e] EXCEPT !.clean = b]
      BY <1>4 DEF EraseSector, Program, Execute, Ignored, TypeInv, CallOK
    <3> QED  BY <3>1, <3>2 DEF CallRecord
  <2>2. \A e \in Drivers : pc'[e] = "off" => pc[e] = "off"
    BY <1>4 DEF EraseSector, Program, Execute, Ignored, TypeInv, CallOK
  <2>3. NoNewRepair
    BY <2>1, <2>2 DEF NoNewRepair
  <2> QED  BY <1>4, <2>3, BaseKept DEF EraseSector, Program
<1>5. ASSUME NEW d \in Drivers, SectorErased(d)
      PROVE  BaseInv'
  <2> DEFINE cl == NextSector(call[d])
  <2>1. cl \in CallRecord /\ cl.op = call[d].op
    <3>1. call[d] \in CallRecord /\ call[d].index + 1 \in Nat
      BY DEF TypeInv, CallOK, CallRecord
    <3> QED  BY <3>1 DEF NextSector, CallRecord
  <2> HIDE DEF cl
  <2>2. \/ pc' = [pc EXCEPT ![d] = "erase"] /\ call' = [call EXCEPT ![d] = cl]
        \/ cl.op = "repair" /\ RepairProgram(d, TRUE, cl.clean)
        \/ cl.op # "repair" /\ EraseFrom(d, cl, Advance(cl.list))
    BY <1>5 DEF SectorErased, cl
  <2>3. NoNewRepair
    <3>1. CASE pc' = [pc EXCEPT ![d] = "erase"] /\ call' = [call EXCEPT ![d] = cl]
      BY <2>1, <3>1 DEF NoNewRepair, TypeInv, CallOK
    <3>2. CASE cl.op = "repair" /\ RepairProgram(d, TRUE, cl.clean)
      BY <2>1, <3>2 DEF RepairProgram, AssertAndGoTo, NoNewRepair, TypeInv, CallOK
    <3>3. CASE cl.op # "repair" /\ EraseFrom(d, cl, Advance(cl.list))
      BY <2>1, <3>3, EraseFromNoRepair
    <3> QED  BY <2>2, <3>1, <3>2, <3>3
  <2> QED  BY <1>5, <2>3, BaseKept DEF SectorErased
<1>6. ASSUME NEW d \in Drivers, Programmed(d) \/ SpiError(d)
      PROVE  BaseInv'
  <2>1. \/ RepairDone(d)
        \/ \E st \in Status : Return(d, call[d], st)
        \/ call[d].op = "repair" /\ RepairProgram(d, FALSE, FALSE)
    BY <1>6 DEF Programmed, SpiError, Status
  <2>2. NoCall.op = "none"
    BY DEF NoCall
  <2>3. CASE RepairDone(d) \/ \E st \in Status : Return(d, call[d], st)
    <3>1. /\ \E q \in {"idle", "hung"} : pc' = [pc EXCEPT ![d] = q]
          /\ call' = [call EXCEPT ![d] = NoCall]
      BY <2>3 DEF RepairDone, AssertAndGoTo, Return
    <3>2. NoNewRepair
      BY <2>2, <3>1 DEF NoNewRepair, TypeInv, CallOK
    <3> QED  BY <1>6, <3>2, BaseKept DEF Programmed, SpiError
  <2>4. CASE call[d].op = "repair" /\ RepairProgram(d, FALSE, FALSE)
    <3>1. NoNewRepair
      BY <2>4 DEF RepairProgram, AssertAndGoTo, NoNewRepair, TypeInv, CallOK
    <3> QED  BY <1>6, <3>1, BaseKept DEF Programmed, SpiError
  <2> QED  BY <2>1, <2>3, <2>4
<1>7. ASSUME NEW d \in Drivers, FvbInitialize(d) \/ FvbInitializeRepair(d)
      PROVE  BaseInv'
  <2>1. pc[d] = "off" /\ \A e \in Drivers \ {d} : pc'[e] = pc[e] /\ call'[e] = call[e]
    BY <1>7 DEF FvbInitialize, FvbInitializeRepair, Loading, TypeInv, CallOK
  <2>2. pc'[d] # "off"
    BY <1>7 DEF FvbInitialize, FvbInitializeRepair, TypeInv, CallOK
  <2>3. NoNewRepair
    BY <2>1, <2>2 DEF NoNewRepair
  <2> QED  BY <1>7, <2>3, BaseKept DEF FvbInitialize, FvbInitializeRepair
<1>8. CASE FlashReady \/ UNCHANGED vars
  BY <1>8, BaseKept DEF FlashReady, vars, NoNewRepair
<1>9. CASE FvbVirtualddressChangeEvent
  <2>1. DeviceBase \in Nat /\ FvOffset \in Nat /\ VirtualDelta \in Nat
        /\ Runtime \in Drivers
    BY ChipAssumption, DriversAssumption
  <2>2. /\ pc[Runtime] = "idle" /\ ~goneVirtual /\ goneVirtual' = TRUE
        /\ pc' = pc /\ call' = call
        /\ fvBase' = [fvBase EXCEPT ![Runtime].virtual = @ + VirtualDelta]
        /\ devBase' = [devBase EXCEPT ![Runtime] = @ + VirtualDelta]
    BY <1>9 DEF FvbVirtualddressChangeEvent, ConvertedDeviceBase, ConvertPointer
  <2>3. fvBase \in [Drivers -> [physical : Int, virtual : Int]]
        /\ devBase \in [Drivers -> Int]
    BY DEF TypeInv, DataOK
  <2>4. call[Runtime].op = "none"
    BY <2>1, <2>2 DEF TypeInv, CallOK, Active, Waiting
  <2>5. /\ \A d \in Drivers \ {Runtime} : fvBase'[d] = fvBase[d] /\ devBase'[d] = devBase[d]
        /\ fvBase'[Runtime].physical = fvBase[Runtime].physical
        /\ fvBase'[Runtime].virtual = fvBase[Runtime].virtual + VirtualDelta
        /\ devBase'[Runtime] = devBase[Runtime] + VirtualDelta
    BY <2>1, <2>2, <2>3
  <2>6. devBase[Runtime] = DeviceBase /\ fvBase[Runtime].virtual = DeviceBase + FvOffset
    BY <2>2 DEF BaseInv
  <2>7. /\ fvBase'[Runtime].virtual = devBase'[Runtime] + FvOffset
        /\ devBase'[Runtime] = DeviceBase + VirtualDelta
    BY <2>1, <2>5, <2>6
  <2>8. pc'[Runtime] # "off" /\ call'[Runtime].op # "repair"
    BY <2>2, <2>4
  <2>9. /\ \A d \in Drivers : fvBase'[d].physical = DeviceBase + FvOffset
        /\ \A d \in Drivers \ {Runtime} :
             fvBase'[d].virtual = DeviceBase + FvOffset /\ devBase'[d] = DeviceBase
    BY <2>5 DEF BaseInv
  <2> QED  BY <2>2, <2>7, <2>8, <2>9 DEF BaseInv
<1>10. CASE PowerLoss
  BY <1>10, DriversAssumption DEF PowerLoss, BaseInv
<1>11. ASSUME NEW d \in Drivers, NEW w \in ReadRequests, Read(d, w)
       PROVE  BaseInv'
  BY <1>11, BaseKept DEF Read, NoNewRepair
<1> QED
  BY <1>1, <1>2, <1>3, <1>4, <1>5, <1>6, <1>7, <1>8, <1>9, <1>10, <1>11, NextByDriver
     DEF DriverNext, Protocol, Work

-----------------------------------------------------------------------------
(* Each action keeps the drivers to their plans.                           *)

(* A step of driver d that leaves the chip and the other drivers alone.    *)
LEMMA OwnStep ==
  ASSUME CallInv, CallOK, NEW d \in Drivers, NEW next, NEW new,
         pc' = [pc EXCEPT ![d] = next], call' = [call EXCEPT ![d] = new],
         flash' = flash, devBase' = devBase,
         \A e \in Drivers \ {d} : attrs'[e] = attrs[e],
         Plan(next, new, devBase[d], attrs'[d], flash)
  PROVE  CallInv'
<1> SUFFICES ASSUME NEW e \in Drivers
             PROVE  Plan(pc'[e], call'[e], devBase'[e], attrs'[e], flash')
  BY DEF CallInv
<1>1. CASE e = d
  BY <1>1 DEF CallOK
<1>2. CASE e # d
  BY <1>2 DEF CallInv, CallOK
<1> QED
  BY <1>1, <1>2

LEMMA SameCalls ==
  ASSUME CallInv, UNCHANGED <<pc, call, flash, attrs>>,
         \A e \in Drivers : devBase'[e] = devBase[e] \/ pc[e] = "idle"
  PROVE  CallInv'
<1> SUFFICES ASSUME NEW e \in Drivers
             PROVE  Plan(pc'[e], call'[e], devBase'[e], attrs'[e], flash')
  BY DEF CallInv
<1>1. Plan(pc[e], call[e], devBase[e], attrs[e], flash)
  BY DEF CallInv
<1>2. CASE devBase'[e] = devBase[e]
  BY <1>1, <1>2
<1>3. CASE pc[e] = "idle"
  BY <1>1, <1>3 DEF Plan, NoCall
<1> QED
  BY <1>2, <1>3

(* A driver at rest is in no call.                                         *)
LEMMA AtRest ==
  ASSUME NEW p \in {"off", "absent", "idle", "hung"}, NEW base, NEW at, NEW mem
  PROVE  Plan(p, NoCall, base, at, mem)
BY DEF Plan, NoCall

LEMMA SetAttributesPlan ==
  ASSUME PlanInv, NEW d \in Drivers, NEW req \in AttributeRequests, SetAttributes(d, req)
  PROVE  CallInv'
<1> SUFFICES ASSUME NEW e \in Drivers
             PROVE  Plan(pc'[e], call'[e], devBase'[e], attrs'[e], flash')
  BY DEF CallInv
<1>1. Plan(pc[e], call[e], devBase[e], attrs[e], flash)
  BY DEF CallInv, PlanInv
<1>2. /\ UNCHANGED <<pc, call, flash, devBase>> /\ pc[d] = "idle"
      /\ \A f \in Drivers \ {d} : attrs'[f] = attrs[f]
  BY DEF SetAttributes, Refuse, PlanInv, TypeInv, DataOK
<1>3. CASE e = d
  <2>1. call[e] = NoCall
    BY <1>1, <1>2, <1>3 DEF Plan
  <2> QED  BY <1>2, <1>3, <2>1, AtRest
<1>4. CASE e # d
  BY <1>1, <1>2, <1>4
<1> QED
  BY <1>3, <1>4

(* The cells a write is about are those its command will program.          *)
LEMMA WriteSpan ==
  ASSUME NEW w \in WriteRequests, LbaExists(w.lba), w.offset <= BlockLength(w.lba)
  PROVE  /\ w.lba \in Nat /\ w.offset \in Nat /\ w.data \in Seq(Cell)
         /\ FvOffset + BlockOffset(w.lba) + w.offset \in Nat
         /\ NumBytes(w) \in Nat /\ NumBytes(w) <= Len(w.data)
         /\ WriteCells(w) = Span(FvOffset + BlockOffset(w.lba) + w.offset, NumBytes(w))
<1>1. w \in [lba : 0 .. LbaModulus - 1, offset : Nat, data : Seq(Cell)]
  BY RequestAssumption
<1>2. w.lba \in Nat /\ w.offset \in Nat /\ w.data \in Seq(Cell)
  BY <1>1
<1>3. Len(w.data) \in Nat
  BY <1>2
<1>4. BlockOffset(w.lba) \in Nat /\ BlockLength(w.lba) \in Nat /\ FvOffset \in Nat
  BY <1>2, BlockGeometry, ChipAssumption
<1>5. NumBytes(w) \in Nat /\ NumBytes(w) <= Len(w.data)
  BY <1>2, <1>3, <1>4 DEF NumBytes
<1>6. WriteCells(w) = Span(FvOffset + BlockOffset(w.lba) + w.offset, NumBytes(w))
  BY <1>2, <1>3, <1>4 DEF NumBytes, WriteCells, BlockCells, Span, Cells
<1> QED
  BY <1>2, <1>4, <1>5, <1>6

LEMMA WritePlanned ==
  ASSUME PlanInv, NEW d \in Drivers, NEW w \in WriteRequests, Write(d, w)
  PROVE  CallInv'
<1> DEFINE new == [NoCall EXCEPT !.op = "write",
                                 !.addr = FvbGetLbaAddress(d, w.lba) + w.offset,
                                 !.len = NumBytes(w), !.asked = Len(w.data),
                                 !.data = w.data, !.grant = WriteCells(w)]
<1>1. UNCHANGED <<flash, devBase, attrs>>
  BY DEF Write
<1>2. CASE WriteStatus(d, w) # "SUCCESS" \/ NumBytes(w) = 0
  <2>1. UNCHANGED <<pc, call>>
    BY <1>2 DEF Write, Refuse
  <2> QED  BY <1>1, <2>1, SameCalls DEF PlanInv
<1>3. CASE WriteStatus(d, w) = "SUCCESS" /\ NumBytes(w) # 0
  <2>1. pc' = [pc EXCEPT ![d] = "program"] /\ call' = [call EXCEPT ![d] = new]
    BY <1>3 DEF Write
  <2>2. LbaExists(w.lba)
    BY <1>3 DEF WriteStatus
  <2>3. w.lba \in Nat /\ w.offset \in Nat
    <3>1. w \in [lba : 0 .. LbaModulus - 1, offset : Nat, data : Seq(Cell)]
      BY RequestAssumption
    <3> QED  BY <3>1
  <2>4. BlockLength(w.lba) \in Nat /\ BlockOffset(w.lba) \in Nat /\ FvOffset \in Nat
    BY <2>2, <2>3, BlockGeometry, ChipAssumption
  <2>5. w.offset <= BlockLength(w.lba)
    BY <1>3, <2>3, <2>4 DEF WriteStatus
  <2>6. devBase[d] \in Nat /\ FvbGetPhysicalAddress(d) = devBase[d] + FvOffset
    BY Bases DEF PlanInv
  <2>7. FvbGetLbaAddress(d, w.lba) + w.offset
          = devBase[d] + (FvOffset + BlockOffset(w.lba) + w.offset)
    BY <2>3, <2>4, <2>6 DEF FvbGetLbaAddress
  <2>8. /\ new.op = "write" /\ new.data = w.data /\ new.len = NumBytes(w)
        /\ new.grant = WriteCells(w)
        /\ new.addr = devBase[d] + (FvOffset + BlockOffset(w.lba) + w.offset)
    BY <2>7 DEF NoCall
  <2> HIDE DEF new
  <2>9. new.addr - devBase[d] = FvOffset + BlockOffset(w.lba) + w.offset
    BY <2>3, <2>4, <2>6, <2>8
  <2>10. WritePlan("program", new, devBase[d], flash)
    BY <2>2, <2>5, <2>8, <2>9, WriteSpan DEF WritePlan
  <2>11. Plan("program", new, devBase[d], attrs'[d], flash)
    BY <2>8, <2>10 DEF Plan
  <2> QED  BY <1>1, <2>1, <2>11, OwnStep DEF PlanInv, TypeInv
<1> QED
  BY <1>2, <1>3

LEMMA EraseFromPlan ==
  ASSUME PlanInv, NEW d \in Drivers, NEW cl \in CallRecord, cl.op = "erase",
         NEW list \in Seq(Nat \X Nat), EraseFrom(d, cl, list),
         UNCHANGED <<flash, devBase, attrs>>,
         \A i \in DOMAIN list : list[i][2] > 0, EraseCells(list) \subseteq cl.grant,
         cl.clean => \A c \in cl.grant : flash[c] = Bits \/ c \in EraseCells(list)
  PROVE  CallInv'
<1> DEFINE lba == list[1][1]
           new == [cl EXCEPT !.list = list, !.addr = FvbGetLbaAddress(d, lba),
                             !.len = BlockLength(lba), !.index = 0]
<1>1. CASE list = <<>> \/ EraseBlockStatus(d, lba) # "SUCCESS"
  <2>1. pc' = [pc EXCEPT ![d] = "idle"] /\ call' = [call EXCEPT ![d] = NoCall]
    BY <1>1 DEF EraseFrom, Return
  <2> QED  BY <2>1, AtRest, OwnStep DEF PlanInv, TypeInv
<1>2. CASE list # <<>> /\ EraseBlockStatus(d, lba) = "SUCCESS"
  <2>1. pc' = [pc EXCEPT ![d] = "erase"] /\ call' = [call EXCEPT ![d] = new]
    BY <1>2 DEF EraseFrom
  <2>2. LbaExists(lba) /\ "WRITE_STATUS" \in attrs[d]
    BY <1>2 DEF EraseBlockStatus
  <2>3. 1 \in DOMAIN list
    BY <1>2
  <2>4. lba \in Nat
    BY <2>3, ListEntries
  <2>5. BlockLength(lba) \in Nat /\ BlockOffset(lba) \in Nat /\ FvOffset \in Nat
    BY <2>2, <2>4, BlockGeometry, ChipAssumption
  <2>6. devBase[d] \in Nat /\ FvbGetPhysicalAddress(d) = devBase[d] + FvOffset
    BY Bases DEF PlanInv
  <2>7. FvbGetLbaAddress(d, lba) = devBase[d] + FvOffset + BlockOffset(lba)
        /\ FvbGetLbaAddress(d, lba) \in Int
    BY <2>5, <2>6 DEF FvbGetLbaAddress
  <2>8. new \in CallRecord
    BY <2>5, <2>7 DEF CallRecord
  <2>9. /\ new.op = "erase" /\ new.list = list /\ new.index = 0
        /\ new.addr = devBase[d] + FvOffset + BlockOffset(lba)
        /\ new.len = BlockLength(lba) /\ new.grant = cl.grant /\ new.clean = cl.clean
    BY <2>7 DEF CallRecord
  <2> HIDE DEF new
  <2>10. Plan("erase", new, devBase[d], attrs'[d], flash)
    BY <1>2, <2>2, <2>6, <2>8, <2>9, EraseStarts
  <2> QED  BY <2>1, <2>10, OwnStep DEF PlanInv, TypeInv
<1> QED
  BY <1>1, <1>2

LEMMA EraseBlocksPlan ==
  ASSUME PlanInv, NEW d \in Drivers, NEW list \in EraseRequests, EraseBlocks(d, list)
  PROVE  CallInv'
<1> DEFINE cl == [NoCall EXCEPT !.op = "erase", !.grant = EraseCells(list)]
<1>1. EraseCells(list) \in SUBSET Cells
  BY DEF EraseCells
<1>2. cl \in CallRecord /\ cl.op = "erase" /\ cl.grant = EraseCells(list)
  BY <1>1, NoCallType DEF CallRecord
<1>3. list \in Seq(Nat \X Nat)
  <2>1. list \in Seq((0 .. LbaModulus - 1) \X Nat)
    BY RequestAssumption
  <2>2. (0 .. LbaModulus - 1) \X Nat \subseteq Nat \X Nat
    BY ChipAssumption
  <2> HIDE DEF cl
  <2> QED  BY <2>1, <2>2, SeqMonotonic
<1>4. UNCHANGED <<flash, devBase, attrs>>
  BY DEF EraseBlocks
<1>5. CASE ListRefused(list)
  BY <1>4, <1>5, SameCalls DEF EraseBlocks, Refuse, PlanInv
<1>6. CASE ~ListRefused(list)
  <2>1. EraseFrom(d, cl, list)
    BY <1>6 DEF EraseBlocks
  <2> HIDE DEF cl
  <2>2. \A i \in DOMAIN list : list[i][2] > 0
    BY <1>3, <1>6, ListEntries DEF ListRefused
  <2> QED  BY <1>2, <1>3, <1>4, <2>1, <2>2, EraseFromPlan
<1> QED
  BY <1>5, <1>6

(* A command reaches the chip: the plan of driver d moves on, and the      *)
(* others' plans bear it.                                                  *)
LEMMA ExecutePlan ==
  ASSUME CallInv, CallOK, NEW d \in Drivers, NEW cells, NEW new, NEW next,
         Execute(d, cells, new, next), UNCHANGED <<devBase, attrs>>,
         flash \in [Cells -> Cell],
         \A after \in CallRecord :
           /\ after.op = call[d].op /\ after.list = call[d].list
           /\ after.addr = call[d].addr /\ after.len = call[d].len
           /\ after.index = call[d].index /\ after.data = call[d].data
           /\ after.grant = call[d].grant /\ after.clean = call[d].clean
           => Plan(next, after, devBase[d], attrs[d],
                   [c \in Cells |-> IF c \in cells THEN new[c] ELSE flash[c]]),
         pc[d] \notin {"off", "absent", "idle"}
  PROVE  CallInv'
<1> SUFFICES ASSUME NEW e \in Drivers
             PROVE  Plan(pc'[e], call'[e], devBase'[e], attrs'[e], flash')
  BY DEF CallInv
<1>1. call[e] \in CallRecord
  BY DEF CallOK
<1>2. flash' = [c \in Cells |-> IF c \in cells THEN new[c] ELSE flash[c]]
  BY DEF Execute
<1>3. CASE e = d
  <2> DEFINE r == call[d]
             after == [r EXCEPT !.touched = TRUE]
  <2>1. call'[d] = after /\ pc'[d] = next
    BY DEF Execute, CallOK
  <2>2. /\ after \in CallRecord
        /\ after.op = r.op /\ after.list = r.list
        /\ after.addr = r.addr /\ after.len = r.len
        /\ after.index = r.index /\ after.data = r.data
        /\ after.grant = r.grant /\ after.clean = r.clean
    BY <1>1, <1>3 DEF CallRecord
  <2> HIDE DEF after
  <2> QED  BY <1>2, <1>3, <2>1, <2>2
<1>4. CASE e # d
  <2> DEFINE r == call[e]
             b == r.clean /\ (cells \cap r.grant = {})
             after == [r EXCEPT !.clean = b]
  <2>1. call'[e] = after /\ pc'[e] = pc[e]
    BY <1>4 DEF Execute, CallOK
  <2>2. /\ after \in CallRecord
        /\ after.op = r.op /\ after.list = r.list
        /\ after.addr = r.addr /\ after.len = r.len
        /\ after.index = r.index /\ after.data = r.data
        /\ after.grant = r.grant /\ after.clean = b
    BY <1>1 DEF CallRecord
  <2>3. r.grant \subseteq Cells
    BY <1>1 DEF CallRecord
  <2>4. after.clean => r.clean /\ \A c \in r.grant : flash'[c] = flash[c]
    BY <1>2, <2>2, <2>3
  <2>5. Plan(pc[e], r, devBase[e], attrs[e], flash)
    BY DEF CallInv
  <2>6. ASSUME pc[e] \in {"off", "absent", "idle"} PROVE after = r
    <3>1. r = NoCall
      BY <2>5, <2>6 DEF Plan
    <3>2. b = TRUE /\ r.clean = TRUE
      BY <3>1 DEF NoCall
    <3>3. after = [r EXCEPT !.clean = TRUE]
      BY <3>2
    <3> QED  BY <3>1, <3>3 DEF NoCall
  <2> HIDE DEF after, b, r
  <2>7. r \in CallRecord
    BY <1>1 DEF r
  <2>8. Plan(pc[e], after, devBase[e], attrs[e], flash')
    BY <2>2, <2>4, <2>5, <2>6, <2>7, PlanKept
  <2> QED  BY <2>1, <2>8
<1> QED
  BY <1>3, <1>4

LEMMA IgnoredPlan ==
  ASSUME CallInv, CallOK, NEW d \in Drivers, NEW next, Ignored(d, next),
         \/ pc[d] = "erase" /\ next = "eraseWait" /\ call[d].op # "write"
         \/ pc[d] = "program" /\ next = "programWait",
         UNCHANGED <<devBase, attrs>>
  PROVE  CallInv'
<1> DEFINE r == call[d]
           after == [r EXCEPT !.clean = FALSE]
<1>1. r \in CallRecord
  BY DEF CallOK
<1>2. pc' = [pc EXCEPT ![d] = next] /\ call' = [call EXCEPT ![d] = after] /\ flash' = flash
  BY DEF Ignored, CallOK
<1>3. /\ after.op = r.op /\ after.list = r.list
      /\ after.addr = r.addr /\ after.len = r.len
      /\ after.index = r.index /\ after.data = r.data
      /\ after.grant = r.grant /\ after.clean = FALSE
  BY <1>1 DEF CallRecord
<1>4. Plan(pc[d], r, devBase[d], attrs[d], flash)
  BY DEF CallInv
<1>5. r.op = "erase" => pc[d] = "erase"
  BY <1>4 DEF Plan, ErasePlan
<1> HIDE DEF after, r
<1>6. Plan(next, after, devBase[d], attrs'[d], flash)
  BY <1>3, <1>4, <1>5 DEF Plan, WritePlan, ErasePlan, RepairPlan
<1> QED
  BY <1>2, <1>6, OwnStep

LEMMA SpiSpan ==
  ASSUME NEW d \in Drivers, NEW addr, NEW n
  PROVE  SpiCells(d, addr, n) = Span(addr - devBase[d], n)
BY DEF SpiCells, Span

(* What a driver sends to the chip: the command lies within the cells of   *)
(* its call.                                                               *)
LEMMA EraseSectorPlan ==
  ASSUME PlanInv, NEW d \in Drivers, EraseSector(d)
  PROVE  /\ CallInv'
         /\ SpiCells(d, call[d].addr + call[d].index * SectorSize, SectorSize)
              \subseteq call[d].grant
<1> DEFINE r == call[d]
           cells == SpiCells(d, r.addr + r.index * SectorSize, SectorSize)
           new == [c \in Cells |-> Bits]
           mem == [x \in Cells |-> IF x \in cells THEN new[x] ELSE flash[x]]
<1>1. Execute(d, cells, new, "eraseWait") \/ Ignored(d, "eraseWait")
  BY DEF EraseSector
<1>2. UNCHANGED <<devBase, attrs>> /\ pc[d] = "erase" /\ devBase[d] \in Nat
  BY Bases DEF EraseSector, PlanInv
<1>3. r \in CallRecord /\ r.op \in {"erase", "repair"} /\ (r.op = "erase" => r.list # <<>>)
  BY <1>2 DEF PlanInv, TypeInv, CallOK, CallRecord, Active
<1>4. cells = Span((r.addr + r.index * SectorSize) - devBase[d], SectorSize)
  BY SpiSpan
<1>5. Plan("erase", r, devBase[d], attrs[d], flash)
  BY <1>2 DEF PlanInv, CallInv
<1>6. \A c \in Cells : mem[c] = IF c \in cells THEN Bits ELSE flash[c]
  OBVIOUS
<1> HIDE DEF cells, new, r, mem
<1>7. ASSUME NEW after \in CallRecord,
             after.op = r.op, after.list = r.list, after.addr = r.addr, after.len = r.len,
             after.index = r.index, after.data = r.data, after.grant = r.grant,
             after.clean = r.clean
      PROVE  Plan("eraseWait", after, devBase[d], attrs[d], mem) /\ cells \subseteq r.grant
  BY <1>2, <1>3, <1>4, <1>5, <1>6, <1>7, SectorCommand
<1>8. cells \subseteq r.grant
  BY <1>3, <1>7
<1>9. CASE Execute(d, cells, new, "eraseWait")
  <2>1. CallInv'
    BY <1>2, <1>7, <1>9, ExecutePlan DEF PlanInv, TypeInv, DataOK, mem, r
  <2> QED  BY <1>8, <2>1 DEF cells, r
<1>10. CASE Ignored(d, "eraseWait")
  <2>1. pc[d] = "erase" /\ call[d].op # "write"
    BY <1>2, <1>3 DEF r
  <2>2. CallInv /\ CallOK
    BY DEF PlanInv, TypeInv
  <2>3. CallInv'
    BY <1>2, <1>10, <2>1, <2>2, IgnoredPlan
  <2> QED  BY <1>8, <2>3 DEF cells, r
<1> QED
  BY <1>1, <1>9, <1>10

LEMMA ProgramPlan ==
  ASSUME PlanInv, NEW d \in Drivers, Program(d)
  PROVE  CallInv' /\ SpiCells(d, call[d].addr, call[d].len) \subseteq call[d].grant
<1> DEFINE r == call[d]
           first == r.addr - devBase[d]
           cells == SpiCells(d, r.addr, r.len)
           new == [c \in Cells |-> IF c - first + 1 \in DOMAIN r.data
                                   THEN flash[c] \cap r.data[c - first + 1]
                                   ELSE flash[c]]
           mem == [x \in Cells |-> IF x \in cells THEN new[x] ELSE flash[x]]
<1>1. Execute(d, cells, new, "programWait") \/ Ignored(d, "programWait")
  BY DEF Program
<1>2. UNCHANGED <<devBase, attrs>> /\ pc[d] = "program" /\ devBase[d] \in Nat
  BY Bases DEF Program, PlanInv
<1>3. Plan("program", r, devBase[d], attrs[d], flash)
  BY <1>2 DEF PlanInv, CallInv
<1>4. r \in CallRecord /\ r.op \in {"write", "repair"}
  <2>1. r \in CallRecord /\ r.op # "none"
    BY <1>2 DEF PlanInv, TypeInv, CallOK, Active
  <2>2. r.op # "erase"
    BY <1>3 DEF Plan, ErasePlan
  <2> QED  BY <2>1, <2>2 DEF CallRecord
<1>5. cells = Span(r.addr - devBase[d], r.len) /\ cells \subseteq Cells
  BY SpiSpan DEF SpiCells
<1>6. \A c \in cells : mem[c] = Programs(flash, r.data, r.addr - devBase[d], c)
  BY <1>5 DEF Programs
<1>7. flash \in [Cells -> Cell]
  BY DEF PlanInv, TypeInv, DataOK
<1> HIDE DEF cells, new, r, mem, first
<1>8. ASSUME NEW after \in CallRecord,
             after.op = r.op, after.list = r.list, after.addr = r.addr, after.len = r.len,
             after.index = r.index, after.data = r.data, after.grant = r.grant,
             after.clean = r.clean
      PROVE  Plan("programWait", after, devBase[d], attrs[d], mem) /\ cells \subseteq r.grant
  BY <1>2, <1>3, <1>4, <1>5, <1>6, <1>7, <1>8, ProgramCommand
<1>9. cells \subseteq r.grant
  BY <1>4, <1>8
<1>10. CASE Execute(d, cells, new, "programWait")
  <2>1. CallInv'
    BY <1>2, <1>7, <1>8, <1>10, ExecutePlan DEF PlanInv, TypeInv, mem, r
  <2> QED  BY <1>9, <2>1 DEF cells, r
<1>11. CASE Ignored(d, "programWait")
  <2>1. CallInv'
    BY <1>2, <1>11, IgnoredPlan DEF PlanInv, TypeInv
  <2> QED  BY <1>9, <2>1 DEF cells, r
<1> QED
  BY <1>1, <1>10, <1>11

LEMMA RepairProgramPlan ==
  ASSUME PlanInv, NEW d \in Drivers, call[d].op = "repair",
         pc[d] \in {"erase", "eraseWait"}, UNCHANGED <<flash, devBase, attrs>>,
         NEW condition \in BOOLEAN, NEW clean \in BOOLEAN,
         RepairProgram(d, condition, clean),
         clean => /\ pc[d] = "eraseWait" /\ call[d].clean
                  /\ ~(call[d].index + 1 < call[d].len \div SectorSize)
  PROVE  CallInv'
<1> DEFINE r == call[d]
           new == [r EXCEPT !.data = RepairImage, !.len = Len(RepairImage),
                            !.addr = fvBase[d].physical, !.clean = clean]
<1>1. r \in CallRecord
  BY DEF PlanInv, TypeInv, CallOK
<1>2. fvBase[d].physical = devBase[d] + FvOffset /\ devBase[d] \in Nat
  BY Bases DEF PlanInv
<1>3. fvBase[d].physical \in Int
  BY <1>2, ChipAssumption
<1>4. /\ new \in CallRecord /\ new.op = "repair" /\ new.addr = devBase[d] + FvOffset
      /\ new.grant = r.grant /\ new.data = RepairImage /\ new.len = Len(RepairImage)
      /\ new.clean = clean
  BY <1>1, <1>2, <1>3, RepairImageType DEF CallRecord
<1>5. call' = [call EXCEPT ![d] = new]
  BY DEF RepairProgram, PlanInv, TypeInv, CallOK
<1>6. PICK next \in {"program", "hung"} : pc' = [pc EXCEPT ![d] = next]
  BY DEF RepairProgram, AssertAndGoTo
<1>7. Plan(pc[d], r, devBase[d], attrs[d], flash)
  BY DEF PlanInv, CallInv
<1> HIDE DEF new
<1>8. Plan(next, new, devBase[d], attrs[d], flash)
  BY <1>1, <1>2, <1>4, <1>7, RepairGoesOn
<1> QED
  BY <1>5, <1>6, <1>8, OwnStep DEF PlanInv, TypeInv

LEMMA NextSectorIs ==
  ASSUME NEW r \in CallRecord
  PROVE  LET n == NextSector(r)
         IN  /\ n \in CallRecord /\ n.index = r.index + 1
             /\ n.op = r.op /\ n.list = r.list /\ n.addr = r.addr /\ n.len = r.len
             /\ n.data = r.data /\ n.grant = r.grant /\ n.touched = r.touched
             /\ n.clean = r.clean /\ n.clean \in BOOLEAN
<1>1. r.index + 1 \in Nat
  BY DEF CallRecord
<1> QED
  BY <1>1 DEF NextSector, CallRecord

LEMMA SectorErasedPlan ==
  ASSUME PlanInv, NEW d \in Drivers, SectorErased(d)
  PROVE  CallInv'
<1> DEFINE r == call[d]
           cl == NextSector(r)
<1>1. UNCHANGED <<flash, devBase, attrs>> /\ pc[d] = "eraseWait"
  BY DEF SectorErased
<1>2. r \in CallRecord /\ r.op \in {"erase", "repair"} /\ (r.op = "erase" => r.list # <<>>)
  BY <1>1 DEF PlanInv, TypeInv, CallOK, CallRecord, Active, Waiting
<1>3. /\ cl \in CallRecord /\ cl.index = r.index + 1
      /\ cl.op = r.op /\ cl.list = r.list /\ cl.addr = r.addr /\ cl.len = r.len
      /\ cl.data = r.data /\ cl.grant = r.grant
      /\ cl.clean = r.clean /\ cl.clean \in BOOLEAN
  BY <1>2, NextSectorIs
<1>4. Plan("eraseWait", r, devBase[d], attrs[d], flash)
  BY <1>1 DEF PlanInv, CallInv
<1>5. \/ /\ cl.index < cl.len \div SectorSize
         /\ pc' = [pc EXCEPT ![d] = "erase"] /\ call' = [call EXCEPT ![d] = cl]
      \/ /\ ~(cl.index < cl.len \div SectorSize)
         /\ cl.op = "repair" /\ RepairProgram(d, TRUE, cl.clean)
      \/ /\ ~(cl.index < cl.len \div SectorSize)
         /\ cl.op # "repair" /\ EraseFrom(d, cl, Advance(cl.list))
  BY DEF SectorErased
<1>0. r = call[d]
  OBVIOUS
<1> HIDE DEF cl, r
<1>6. CASE /\ cl.index < cl.len \div SectorSize
           /\ pc' = [pc EXCEPT ![d] = "erase"] /\ call' = [call EXCEPT ![d] = cl]
  <2>1. Plan("erase", cl, devBase[d], attrs[d], flash)
    BY <1>2, <1>3, <1>4, <1>6, NextTurn
  <2> QED  BY <1>1, <1>6, <2>1, OwnStep DEF PlanInv, TypeInv
<1>7. CASE /\ ~(cl.index < cl.len \div SectorSize)
           /\ cl.op = "repair" /\ RepairProgram(d, TRUE, cl.clean)
  BY <1>0, <1>1, <1>3, <1>7, RepairProgramPlan
<1>8. CASE /\ ~(cl.index < cl.len \div SectorSize)
           /\ cl.op # "repair" /\ EraseFrom(d, cl, Advance(cl.list))
  <2>1. cl.op = "erase" /\ r.list \in Seq(Nat \X Nat) /\ r.list # <<>>
    BY <1>2, <1>3, <1>8 DEF CallRecord
  <2>2. Advance(cl.list) \in Seq(Nat \X Nat)
    BY <1>3, <2>1, AdvanceType
  <2>3. /\ \A i \in DOMAIN Advance(r.list) : Advance(r.list)[i][2] > 0
        /\ EraseCells(Advance(r.list)) \subseteq r.grant
        /\ r.clean => \A c \in r.grant :
             flash[c] = Bits \/ c \in EraseCells(Advance(r.list))
    BY <1>2, <1>3, <1>4, <1>8, <2>1, BlockDone
  <2> QED  BY <1>1, <1>3, <1>8, <2>1, <2>2, <2>3, EraseFromPlan
<1> QED
  BY <1>5, <1>6, <1>7, <1>8

LEMMA RestPlan ==
  ASSUME PlanInv, NEW d \in Drivers, UNCHANGED <<flash, devBase>>,
         \A e \in Drivers \ {d} : attrs'[e] = attrs[e],
         NEW next \in {"idle", "hung", "absent"}, pc' = [pc EXCEPT ![d] = next],
         call' = [call EXCEPT ![d] = NoCall]
  PROVE  CallInv'
BY AtRest, OwnStep DEF PlanInv, TypeInv

LEMMA ProgrammedPlan ==
  ASSUME PlanInv, NEW d \in Drivers, Programmed(d)
  PROVE  CallInv'
<1>1. \/ RepairDone(d)
      \/ Return(d, call[d], "SUCCESS") /\ attrs' = attrs
  BY DEF Programmed
<1>2. /\ \E q \in {"idle", "hung"} : pc' = [pc EXCEPT ![d] = q]
      /\ call' = [call EXCEPT ![d] = NoCall]
      /\ \A e \in Drivers \ {d} : attrs'[e] = attrs[e]
  BY <1>1 DEF RepairDone, AssertAndGoTo, Return, PlanInv, TypeInv, DataOK
<1> QED
  BY <1>2, RestPlan DEF Programmed

LEMMA SpiErrorPlan ==
  ASSUME PlanInv, NEW d \in Drivers, SpiError(d)
  PROVE  CallInv'
<1>1. \/ /\ \/ RepairDone(d)
            \/ Return(d, call[d], "DEVICE_ERROR") /\ attrs' = attrs
      \/ /\ call[d].op = "repair" /\ pc[d] \in {"erase", "eraseWait"}
         /\ RepairProgram(d, FALSE, FALSE) /\ attrs' = attrs
  BY DEF SpiError
<1>2. UNCHANGED <<flash, devBase>>
  BY DEF SpiError
<1>3. CASE RepairDone(d) \/ (Return(d, call[d], "DEVICE_ERROR") /\ attrs' = attrs)
  <2>1. /\ \E q \in {"idle", "hung"} : pc' = [pc EXCEPT ![d] = q]
        /\ call' = [call EXCEPT ![d] = NoCall]
        /\ \A e \in Drivers \ {d} : attrs'[e] = attrs[e]
    BY <1>3 DEF RepairDone, AssertAndGoTo, Return, PlanInv, TypeInv, DataOK
  <2> QED  BY <1>2, <2>1, RestPlan
<1>4. CASE /\ call[d].op = "repair" /\ pc[d] \in {"erase", "eraseWait"}
           /\ RepairProgram(d, FALSE, FALSE) /\ attrs' = attrs
  BY <1>2, <1>4, RepairProgramPlan
<1> QED
  BY <1>1, <1>3, <1>4

LEMMA InitializePlan ==
  ASSUME PlanInv, NEW d \in Drivers, FvbInitialize(d)
  PROVE  CallInv'
<1>1. pc[d] = "off" /\ pc' = [pc EXCEPT ![d] = "idle"] /\ call' = call
      /\ UNCHANGED <<flash, devBase>>
  BY DEF FvbInitialize, Loading
<1>2. \A e \in Drivers \ {d} : attrs'[e] = attrs[e]
  BY DEF FvbInitialize, PlanInv, TypeInv, DataOK
<1>3. call[d] = NoCall
  BY <1>1 DEF PlanInv, CallInv, Plan
<1>4. call' = [call EXCEPT ![d] = NoCall]
  BY <1>1, <1>3 DEF PlanInv, TypeInv, CallOK
<1> QED
  BY <1>1, <1>2, <1>4, RestPlan

LEMMA RepairPlanned ==
  ASSUME PlanInv, NEW d \in Drivers, FvbInitializeRepair(d)
  PROVE  CallInv'
<1> DEFINE new == [NoCall EXCEPT !.op = "repair", !.addr = fvBase[d].physical,
                                 !.len = FwBlockSize, !.grant = RepairCells]
<1>1. pc[d] = "off" /\ UNCHANGED <<flash, devBase, attrs>>
  BY DEF FvbInitializeRepair, Loading
<1>2. CASE HasFvbInfo
  <2>1. pc' = [pc EXCEPT ![d] = "erase"] /\ call' = [call EXCEPT ![d] = new]
    BY <1>2 DEF FvbInitializeRepair
  <2>2. fvBase[d].physical = devBase[d] + FvOffset /\ devBase[d] \in Nat
    BY <1>1, Bases DEF PlanInv
  <2>3. /\ new.op = "repair" /\ new.addr = devBase[d] + FvOffset /\ new.index = 0
        /\ new.len = FwBlockSize /\ new.grant = RepairCells
    BY <2>2 DEF NoCall
  <2> HIDE DEF new
  <2>4. new.index < new.len \div SectorSize
    BY <2>3, ChipAssumption, WholeSectors
  <2>5. FvOffset \in Nat /\ Turns("erase", new) * SectorSize = 0
    BY <2>3, ChipAssumption DEF Turns
  <2>6. \A c \in RepairCells : c >= FvOffset + Turns("erase", new) * SectorSize
    BY <2>5 DEF RepairCells, Cells
  <2>7. RepairPlan("erase", new, devBase[d], flash)
    BY <2>3, <2>4, <2>6 DEF RepairPlan
  <2>8. Plan("erase", new, devBase[d], attrs'[d], flash)
    BY <2>3, <2>7 DEF Plan
  <2> QED  BY <1>1, <2>1, <2>8, OwnStep DEF PlanInv, TypeInv
<1>3. CASE ~HasFvbInfo
  <2>1. pc' = [pc EXCEPT ![d] = "absent"] /\ call' = call
    BY <1>3 DEF FvbInitializeRepair
  <2>2. call[d] = NoCall
    BY <1>1 DEF PlanInv, CallInv, Plan
  <2>3. call' = [call EXCEPT ![d] = NoCall]
    BY <2>1, <2>2 DEF PlanInv, TypeInv, CallOK
  <2> QED  BY <1>1, <2>1, <2>3, RestPlan
<1> QED
  BY <1>2, <1>3

LEMMA PowerLossPlan ==
  ASSUME PowerLoss
  PROVE  CallInv'
BY AtRest DEF PowerLoss, CallInv

LEMMA CallStep ==
  ASSUME PlanInv, [Next]_vars
  PROVE  CallInv'
<1>1. CASE FlashReady
  BY <1>1, SameCalls DEF FlashReady, PlanInv
<1>2. CASE UNCHANGED vars
  BY <1>2, SameCalls DEF vars, PlanInv
<1>3. CASE FvbVirtualddressChangeEvent
  <2>1. \A e \in Drivers : devBase'[e] = devBase[e] \/ pc[e] = "idle"
    BY <1>3 DEF FvbVirtualddressChangeEvent, ConvertedDeviceBase, PlanInv, TypeInv, DataOK
  <2> QED  BY <1>3, <2>1, SameCalls DEF FvbVirtualddressChangeEvent, PlanInv
<1>4. ASSUME NEW d \in Drivers, NEW w \in ReadRequests, Read(d, w)
      PROVE  CallInv'
  BY <1>4, SameCalls DEF Read, PlanInv
<1> QED
  BY <1>1, <1>2, <1>3, <1>4, SetAttributesPlan, WritePlanned, EraseBlocksPlan,
     EraseSectorPlan, SectorErasedPlan, ProgramPlan, ProgrammedPlan, SpiErrorPlan,
     InitializePlan, RepairPlanned, PowerLossPlan, NextByDriver DEF DriverNext, Protocol, Work

LEMMA PlanInvariant == Spec => []PlanInv
<1>1. Init => BaseInv
  BY DriversAssumption DEF Init, BaseInv
<1>2. Init => CallInv
  BY AtRest DEF Init, CallInv
<1>3. TypeInv /\ TypeInv' /\ BaseInv /\ CallInv /\ [Next]_vars => BaseInv' /\ CallInv'
  BY BaseStep, CallStep DEF PlanInv
<1>4. Spec => [](TypeInv /\ BaseInv /\ CallInv)
  BY TypeInvariant, <1>1, <1>2, <1>3, PTL DEF Spec
<1> QED
  BY <1>4, PTL DEF PlanInv

-----------------------------------------------------------------------------
(* What a success means.                                                   *)


(* A driver at work moves by its own code, or loses the power.             *)
LEMMA OwnAction ==
  ASSUME TypeInv, [Next]_vars, NEW d \in Drivers, Active(d), pc'[d] # pc[d], pc'[d] # "off"
  PROVE  Work(d) \/ SpiError(d)
<1>1. ~FlashReady /\ ~FvbVirtualddressChangeEvent /\ ~PowerLoss /\ ~UNCHANGED vars
  BY DEF FlashReady, FvbVirtualddressChangeEvent, PowerLoss, vars
<1>2. PICK e \in Drivers : DriverNext(e)
  BY <1>1, NextByDriver
<1>3. pc \in [Drivers -> {"off", "absent", "idle", "erase", "eraseWait",
                          "program", "programWait", "hung"}]
  BY DEF TypeInv, CallOK
<1>4. ASSUME \/ \E req \in AttributeRequests : SetAttributes(e, req)
             \/ \E w \in WriteRequests : Write(e, w)
             \/ \E w \in ReadRequests : Read(e, w)
             \/ FvbInitialize(e) \/ FvbInitializeRepair(e)
      PROVE  pc[e] \in {"idle", "off"} /\ \A f \in Drivers \ {e} : pc'[f] = pc[f]
  BY <1>3, <1>4 DEF SetAttributes, Write, Read, Refuse, FvbInitialize,
       FvbInitializeRepair, Loading
<1>5. ASSUME \E list \in EraseRequests : EraseBlocks(e, list)
      PROVE  pc[e] \in {"idle", "off"} /\ \A f \in Drivers \ {e} : pc'[f] = pc[f]
  BY <1>3, <1>5 DEF EraseBlocks, Refuse, EraseFrom, Return
<1>6. ASSUME EraseSector(e) \/ Program(e) \/ Programmed(e) \/ SpiError(e)
      PROVE  \A f \in Drivers \ {e} : pc'[f] = pc[f]
  BY <1>3, <1>6 DEF EraseSector, Program, Programmed, SpiError, Execute, Ignored, Return,
       RepairDone, RepairProgram, AssertAndGoTo
<1>7. ASSUME SectorErased(e)
      PROVE  \A f \in Drivers \ {e} : pc'[f] = pc[f]
  BY <1>3, <1>7 DEF SectorErased, RepairProgram, AssertAndGoTo, EraseFrom, Return
<1> QED
  BY <1>2, <1>4, <1>5, <1>6, <1>7 DEF DriverNext, Protocol, Work, Active, Waiting

(* EFI_SUCCESS of FvbProtocolEraseBlocks ends the second pass: the list is *)
(* used up, and every block of it is erased.                               *)
LEMMA EraseReturns ==
  ASSUME PlanInv, [Next]_vars, NEW d \in Drivers, Returns(d, "erase", "SUCCESS"),
         call[d].clean
  PROVE  \A c \in call[d].grant : flash'[c] = Bits
<1> DEFINE r == call[d]
           cl == NextSector(r)
<1>1. r \in CallRecord /\ r.op = "erase" /\ r.list # <<>>
  BY DEF PlanInv, TypeInv, CallOK, Returns
<1>2. Plan(pc[d], r, devBase[d], attrs[d], flash)
  BY DEF PlanInv, CallInv
<1>3. pc[d] \in {"erase", "eraseWait"}
  BY <1>1, <1>2 DEF Plan, ErasePlan
<1>4. Work(d) \/ SpiError(d)
  BY <1>3, OwnAction DEF PlanInv, Active, Waiting, Returns
<1>5. ~SpiError(d)
  BY <1>1 DEF SpiError, Return, Returns
<1>6. SectorErased(d)
  BY <1>3, <1>4, <1>5 DEF Work, EraseSector, Program, Programmed, Execute, Ignored, Returns,
       PlanInv, TypeInv, CallOK
<1>7. flash' = flash /\ pc[d] = "eraseWait"
  BY <1>6 DEF SectorErased
<1>8. /\ cl \in CallRecord /\ cl.index = r.index + 1 /\ cl.op = r.op /\ cl.list = r.list
      /\ cl.len = r.len
  BY <1>1, NextSectorIs
<1>9. \/ pc' = [pc EXCEPT ![d] = "erase"]
      \/ /\ ~(cl.index < cl.len \div SectorSize)
         /\ cl.op = "repair" \/ EraseFrom(d, cl, Advance(cl.list))
  BY <1>6 DEF SectorErased
<1> HIDE DEF cl
<1>10. pc'[d] = "idle" /\ reply'.status = "SUCCESS"
  BY DEF Returns
<1>11. ~(r.index + 1 < r.len \div SectorSize) /\ EraseFrom(d, cl, Advance(r.list))
  BY <1>1, <1>8, <1>9, <1>10 DEF PlanInv, TypeInv, CallOK
<1>12. Advance(r.list) = <<>>
  <2>1. EraseBlockStatus(d, Advance(r.list)[1][1]) # "SUCCESS" =>
          \/ Advance(r.list) = <<>>
          \/ reply'.status = EraseBlockStatus(d, Advance(r.list)[1][1])
    BY <1>11 DEF EraseFrom, Return
  <2>2. EraseBlockStatus(d, Advance(r.list)[1][1]) = "SUCCESS" =>
          Advance(r.list) = <<>> \/ pc'[d] = "erase"
    BY <1>11 DEF EraseFrom, PlanInv, TypeInv, CallOK
  <2> QED  BY <1>10, <2>1, <2>2
<1>13. EraseCells(<<>>) = {}
  BY DEF EraseCells
<1>14. \A c \in r.grant : flash[c] = Bits \/ c \in EraseCells(Advance(r.list))
  BY <1>1, <1>2, <1>7, <1>11, BlockDone
<1> QED
  BY <1>7, <1>12, <1>13, <1>14

(* The byte that belongs into a cell is counted from the first cell.       *)
LEMMA FirstCell ==
  ASSUME NEW first \in Nat, NEW n \in Nat, NEW c \in Span(first, n)
  PROVE  (CHOOSE b \in Span(first, n) : \A x \in Span(first, n) : b <= x) = first
<1>1. ChipSize \in Nat
  BY ChipAssumption
<1>2. first \in Span(first, n)
  BY <1>1 DEF Span, Cells
<1>3. \A x \in Span(first, n) : first <= x
  BY DEF Span
<1>4. ASSUME NEW b \in Span(first, n), \A x \in Span(first, n) : b <= x
      PROVE  b = first
  <2>1. b <= first /\ first <= b
    BY <1>2, <1>3, <1>4
  <2>2. b \in Nat
    BY DEF Span, Cells
  <2> QED  BY <2>1, <2>2
<1> QED
  BY <1>2, <1>3, <1>4

LEMMA WriteReturns ==
  ASSUME PlanInv, [Next]_vars, NEW d \in Drivers, Returns(d, "write", "SUCCESS"),
         call[d].clean
  PROVE  \A c \in call[d].grant : flash'[c] \subseteq Asked(call[d], c)
<1> DEFINE r == call[d]
<1>1. r \in CallRecord /\ r.op = "write" /\ Active(d)
  <2>1. pc[d] # "hung"
    <3>1. pc[d] = "hung" => Halted
      BY DEF Halted
    <3>2. Halted /\ pc[d] = "hung" => pc'[d] # "idle"
      BY <3>1, NextByDriver DEF Halted, DriverNext, Protocol, Work, SetAttributes, Write, Read,
           EraseBlocks, EraseSector, SectorErased, Program, Programmed, SpiError, MayRun,
           FvbInitialize, FvbInitializeRepair, Loading, FlashReady,
           FvbVirtualddressChangeEvent, PowerLoss, vars
    <3> QED  BY <3>1, <3>2 DEF Returns
  <2> QED  BY <2>1 DEF PlanInv, TypeInv, CallOK, Returns
<1>2. WritePlan(pc[d], r, devBase[d], flash)
  BY <1>1 DEF PlanInv, CallInv, Plan
<1>3. Work(d) \/ SpiError(d)
  BY <1>1, OwnAction DEF PlanInv, Active, Waiting, Returns
<1>4. ~SpiError(d)
  BY <1>1 DEF SpiError, Return, Returns
<1>5. Programmed(d)
  BY <1>1, <1>3, <1>4 DEF Work, EraseSector, SectorErased, Program, Execute, Ignored,
       Returns, PlanInv, TypeInv, CallOK
<1>6. pc[d] = "programWait" /\ flash' = flash
  BY <1>5 DEF Programmed
<1>7. r.grant = Span(r.addr - devBase[d], r.len) /\ r.addr - devBase[d] \in Nat
      /\ r.len \in Nat
  BY <1>1, <1>2 DEF WritePlan, CallRecord
<1> HIDE DEF r
<1>8. ASSUME NEW c \in r.grant
      PROVE  Asked(r, c) = r.data[c - (r.addr - devBase[d]) + 1]
  <2>1. c \in Span(r.addr - devBase[d], r.len)
    BY <1>7
  <2>2. (CHOOSE b \in Span(r.addr - devBase[d], r.len) :
           \A x \in Span(r.addr - devBase[d], r.len) : b <= x) = r.addr - devBase[d]
    BY <1>7, <2>1, FirstCell
  <2>3. (CHOOSE b \in r.grant : \A x \in r.grant : b <= x) = r.addr - devBase[d]
    BY <1>7, <2>2
  <2> QED  BY <2>3 DEF Asked
<1>9. \A c \in r.grant : flash[c] \subseteq r.data[c - (r.addr - devBase[d]) + 1]
  BY <1>2, <1>6 DEF WritePlan, r
<1>10. \A c \in r.grant : flash'[c] \subseteq Asked(r, c)
  BY <1>6, <1>8, <1>9
<1> QED
  BY <1>10 DEF r

LEMMA RepairReturns ==
  ASSUME PlanInv, [Next]_vars, NEW d \in Drivers, call[d].op = "repair", call[d].clean,
         pc[d] = "programWait", pc'[d] \notin {"programWait", "off"}
  PROVE  Holds(flash', DefaultHeader \o VarStoreImage)
<1>1. Work(d) \/ SpiError(d)
  BY OwnAction DEF PlanInv, Active, Waiting
<1>2. flash' = flash
  BY <1>1 DEF Work, EraseSector, SectorErased, Program, Programmed, SpiError
<1>3. RepairPlan("programWait", call[d], devBase[d], flash)
  BY DEF PlanInv, CallInv, Plan
<1>4. Holds(flash, RepairImage)
  BY <1>3 DEF RepairPlan
<1> QED
  BY <1>2, <1>4 DEF RepairImage

(* Whatever list an erase is given and whatever falls between its sectors, *)
(* EFI_SUCCESS means that every block of the list reads as erased.         *)
THEOREM EraseCorrect == Spec => EraseSuccessMeansErased
<1>1. PlanInv /\ [Next]_vars =>
        [\A d \in Drivers : Returns(d, "erase", "SUCCESS") /\ call[d].clean =>
           \A c \in call[d].grant : flash'[c] = Bits]_vars
  BY EraseReturns
<1> QED
  BY PlanInvariant, <1>1, PTL DEF Spec, EraseSuccessMeansErased

(* EFI_SUCCESS of a write means that the cells it was asked for have every *)
(* bit clear that the data has clear.                                      *)
THEOREM WriteCorrect == Spec => WriteSuccessMeansProgrammed
<1>1. PlanInv /\ [Next]_vars =>
        [\A d \in Drivers : Returns(d, "write", "SUCCESS") /\ call[d].clean =>
           \A c \in call[d].grant : flash'[c] \subseteq Asked(call[d], c)]_vars
  BY WriteReturns
<1> QED
  BY PlanInvariant, <1>1, PTL DEF Spec, WriteSuccessMeansProgrammed

(* The repair leaves both headers in flash.                                *)
THEOREM RepairCorrect == Spec => RepairRestoresHeaders
<1>1. PlanInv /\ [Next]_vars =>
        [\A d \in Drivers :
           call[d].op = "repair" /\ call[d].clean /\ pc[d] = "programWait"
             /\ pc'[d] \notin {"programWait", "off"} =>
            Holds(flash', DefaultHeader \o VarStoreImage)]_vars
  BY RepairReturns
<1> QED
  BY PlanInvariant, <1>1, PTL DEF Spec, RepairRestoresHeaders

-----------------------------------------------------------------------------
(* The drivers implement the contract: every step of theirs begins or ends *)
(* a call, is a command within the cells of a call, the end of a command   *)
(* or a power loss, or changes nothing the contract sees.                  *)

ContractVars == <<flash, [d \in Drivers |-> call[d].grant], chip.cells>>
Grants(S) == \A e \in S : call'[e].grant = call[e].grant

LEMMA NothingSeen ==
  ASSUME flash' = flash, chip'.cells = chip.cells, Grants(Drivers)
  PROVE  UNCHANGED ContractVars
BY DEF ContractVars, Grants

LEMMA CallBegins ==
  ASSUME NEW d \in Drivers, flash' = flash, chip'.cells = chip.cells,
         call[d].grant = {}, call'[d].grant \subseteq Cells, Grants(Drivers \ {d})
  PROVE  Contract!Begin(d)
BY DEF Contract!Begin, Grants

LEMMA CallEnds ==
  ASSUME NEW d \in Drivers, flash' = flash, chip'.cells = chip.cells,
         call'[d].grant = {}, Grants(Drivers \ {d})
  PROVE  Contract!End(d)
BY DEF Contract!End, Grants

LEMMA CommandSent ==
  ASSUME NEW d \in Drivers, chip.cells = {}, chip'.cells \subseteq call[d].grant,
         \A c \in Cells \ chip'.cells : flash'[c] = flash[c], Grants(Drivers)
  PROVE  Contract!Command(d)
BY DEF Contract!Command, Contract!ChangesOnly, Grants

LEMMA CallEndsOrMoves ==
  ASSUME CallOK, NEW d \in Drivers, NEW new, flash' = flash, chip' = chip,
         call' = [call EXCEPT ![d] = new], new.grant = call[d].grant \/ new.grant = {}
  PROVE  [Contract!Next]_ContractVars
<1>1. Grants(Drivers \ {d}) /\ call'[d] = new
  BY DEF Grants, CallOK
<1>2. CASE new.grant = call[d].grant
  BY <1>1, <1>2, NothingSeen DEF Grants
<1>3. CASE new.grant = {}
  BY <1>1, <1>3, CallEnds DEF Contract!Next
<1> QED
  BY <1>2, <1>3

LEMMA CommandRefines ==
  ASSUME CallOK, flash \in [Cells -> Cell], NEW d \in Drivers, NEW cells, NEW new, NEW next,
         \/ Execute(d, cells, new, next) /\ ~Busy
         \/ Ignored(d, next),
         cells \subseteq call[d].grant
  PROVE  [Contract!Next]_ContractVars
<1>1. ASSUME NEW e \in Drivers
      PROVE  call'[e].grant = call[e].grant
  <2>1. call[e] \in CallRecord
    BY DEF CallOK
  <2> DEFINE still == call[e].clean /\ (cells \cap call[e].grant = {})
  <2>2. [call[e] EXCEPT !.touched = TRUE].grant = call[e].grant
    BY <2>1 DEF CallRecord
  <2>3. [call[e] EXCEPT !.clean = still].grant = call[e].grant
    <3> HIDE DEF still
    <3> QED  BY <2>1 DEF CallRecord
  <2>4. [call[e] EXCEPT !.clean = FALSE].grant = call[e].grant
    BY <2>1 DEF CallRecord
  <2>5. CASE Execute(d, cells, new, next)
    <3>1. \/ call'[e] = [call[e] EXCEPT !.touched = TRUE]
          \/ call'[e] = [call[e] EXCEPT !.clean = still]
      BY <2>5 DEF Execute
    <3> HIDE DEF still
    <3> QED  BY <3>1, <2>2, <2>3
  <2>6. CASE Ignored(d, next)
    <3>1. \/ call'[e] = [call[e] EXCEPT !.clean = FALSE]
          \/ call'[e] = call[e]
      BY <2>6 DEF Ignored, CallOK
    <3> QED  BY <3>1, <2>4
  <2> QED  BY <2>5, <2>6
<1>2. CASE Execute(d, cells, new, next) /\ ~Busy
  <2>1. chip.cells = {} /\ chip'.cells = cells
    BY <1>2 DEF Execute, Busy
  <2>2. \A c \in Cells \ cells : flash'[c] = flash[c]
    BY <1>2 DEF Execute
  <2>3. Contract!Command(d)
    BY <1>1, <2>1, <2>2, CommandSent DEF Grants
  <2> QED  BY <2>3 DEF Contract!Next
<1>3. CASE Ignored(d, next)
  BY <1>1, <1>3, NothingSeen DEF Ignored, Grants
<1> QED
  BY <1>2, <1>3

LEMMA StepRefines ==
  ASSUME PlanInv, [Next]_vars
  PROVE  [Contract!Next]_ContractVars
<1>0. CallOK /\ flash \in [Cells -> Cell]
      /\ chip \in [cells : SUBSET Cells, before : [Cells -> Cell]]
  BY DEF PlanInv, TypeInv, DataOK
<1>1. ASSUME NEW d \in Drivers, pc[d] \in {"idle", "off", "absent"}
      PROVE  call[d] = NoCall /\ call[d].grant = {}
  BY <1>1 DEF PlanInv, CallInv, Plan, NoCall
<1>2. NoCall.grant = {}
  BY DEF NoCall
<1>3. ASSUME NEW d \in Drivers, NEW req \in AttributeRequests, SetAttributes(d, req)
      PROVE  [Contract!Next]_ContractVars
  BY <1>3, NothingSeen DEF SetAttributes, Refuse, Grants
<1>4. ASSUME NEW d \in Drivers, NEW w \in ReadRequests, Read(d, w)
      PROVE  [Contract!Next]_ContractVars
  BY <1>4, NothingSeen DEF Read, Grants
<1>5. ASSUME NEW d \in Drivers, NEW w \in WriteRequests, Write(d, w)
      PROVE  [Contract!Next]_ContractVars
  <2> DEFINE new == [NoCall EXCEPT !.op = "write",
                                   !.addr = FvbGetLbaAddress(d, w.lba) + w.offset,
                                   !.len = NumBytes(w), !.asked = Len(w.data),
                                   !.data = w.data, !.grant = WriteCells(w)]
  <2>1. flash' = flash /\ chip' = chip /\ pc[d] = "idle"
    BY <1>5 DEF Write
  <2>2. call' = call \/ call' = [call EXCEPT ![d] = new]
    BY <1>5 DEF Write, Refuse
  <2>3. new.grant \subseteq Cells
    BY DEF NoCall, WriteCells, BlockCells
  <2> HIDE DEF new
  <2>4. CASE call' = call
    BY <2>1, <2>4, NothingSeen DEF Grants
  <2>5. CASE call' = [call EXCEPT ![d] = new]
    <3>1. Grants(Drivers \ {d}) /\ call'[d] = new
      BY <1>0, <2>5 DEF Grants, CallOK
    <3>2. Contract!Begin(d)
      BY <1>1, <2>1, <2>3, <3>1, CallBegins
    <3> QED  BY <3>2 DEF Contract!Next
  <2> QED  BY <2>2, <2>4, <2>5
<1>6. ASSUME NEW d \in Drivers, NEW list \in EraseRequests, EraseBlocks(d, list)
      PROVE  [Contract!Next]_ContractVars
  <2> DEFINE cl == [NoCall EXCEPT !.op = "erase", !.grant = EraseCells(list)]
             new == [cl EXCEPT !.list = list, !.addr = FvbGetLbaAddress(d, list[1][1]),
                               !.len = BlockLength(list[1][1]), !.index = 0]
  <2>1. flash' = flash /\ chip' = chip /\ pc[d] = "idle"
    BY <1>6 DEF EraseBlocks
  <2>2. \/ call' = call \/ call' = [call EXCEPT ![d] = NoCall]
        \/ call' = [call EXCEPT ![d] = new]
    BY <1>6 DEF EraseBlocks, Refuse, EraseFrom, Return
  <2>3. new.grant \subseteq Cells
    BY DEF NoCall, EraseCells
  <2> HIDE DEF new, cl
  <2>4. CASE call' = call
    BY <2>1, <2>4, NothingSeen DEF Grants
  <2>5. CASE call' = [call EXCEPT ![d] = NoCall]
    BY <1>0, <1>2, <2>1, <2>5, CallEndsOrMoves
  <2>6. CASE call' = [call EXCEPT ![d] = new]
    <3>1. Grants(Drivers \ {d}) /\ call'[d] = new
      BY <1>0, <2>6 DEF Grants, CallOK
    <3>2. Contract!Begin(d)
      BY <1>1, <2>1, <2>3, <3>1, CallBegins
    <3> QED  BY <3>2 DEF Contract!Next
  <2> QED  BY <2>2, <2>4, <2>5, <2>6
<1>7. ASSUME NEW d \in Drivers, EraseSector(d)
      PROVE  [Contract!Next]_ContractVars
  <2> DEFINE cells == SpiCells(d, call[d].addr + call[d].index * SectorSize, SectorSize)
             new == [c \in Cells |-> Bits]
  <2>1. \/ Execute(d, cells, new, "eraseWait") /\ ~Busy
        \/ Ignored(d, "eraseWait")
    BY <1>7 DEF EraseSector
  <2>2. cells \subseteq call[d].grant
    BY <1>7, EraseSectorPlan
  <2> HIDE DEF cells, new
  <2> QED  BY <1>0, <2>1, <2>2, CommandRefines
<1>8. ASSUME NEW d \in Drivers, Program(d)
      PROVE  [Contract!Next]_ContractVars
  <2> DEFINE cells == SpiCells(d, call[d].addr, call[d].len)
             first == call[d].addr - devBase[d]
             new == [c \in Cells |-> IF c - first + 1 \in DOMAIN call[d].data
                                     THEN flash[c] \cap call[d].data[c - first + 1]
                                     ELSE flash[c]]
  <2>1. \/ Execute(d, cells, new, "programWait") /\ ~Busy
        \/ Ignored(d, "programWait")
    BY <1>8 DEF Program
  <2>2. cells \subseteq call[d].grant
    BY <1>8, ProgramPlan
  <2> HIDE DEF cells, new
  <2> QED  BY <1>0, <2>1, <2>2, CommandRefines
<1>9. ASSUME NEW d \in Drivers, SectorErased(d)
      PROVE  [Contract!Next]_ContractVars
  <2> DEFINE cl == NextSector(call[d])
  <2>0. flash' = flash /\ chip' = chip
    BY <1>9 DEF SectorErased
  <2>1. call[d] \in CallRecord
    BY <1>0 DEF CallOK
  <2>2. cl \in CallRecord /\ cl.grant = call[d].grant
    BY <2>1, NextSectorIs
  <2>3. \/ call' = [call EXCEPT ![d] = cl]
        \/ RepairProgram(d, TRUE, cl.clean)
        \/ EraseFrom(d, cl, Advance(cl.list))
    BY <1>9 DEF SectorErased
  <2> HIDE DEF cl
  <2>4. ASSUME NEW r \in CallRecord, NEW addr, NEW len, NEW data, NEW clean, NEW list
        PROVE  /\ [r EXCEPT !.data = data, !.len = len, !.addr = addr,
                            !.clean = clean].grant = r.grant
               /\ [r EXCEPT !.list = list, !.addr = addr, !.len = len,
                            !.index = 0].grant = r.grant
    BY DEF CallRecord
  <2>5. ASSUME RepairProgram(d, TRUE, cl.clean)
        PROVE  \E new : call' = [call EXCEPT ![d] = new] /\ new.grant = call[d].grant
    <3> DEFINE new == [call[d] EXCEPT !.data = RepairImage, !.len = Len(RepairImage),
                                      !.addr = fvBase[d].physical, !.clean = cl.clean]
    <3>1. call' = [call EXCEPT ![d] = new]
      BY <1>0, <2>5 DEF RepairProgram, CallOK
    <3>2. new.grant = call[d].grant
      BY <2>1, <2>4
    <3> HIDE DEF new
    <3> QED  BY <3>1, <3>2
  <2>6. ASSUME EraseFrom(d, cl, Advance(cl.list))
        PROVE  \E new : /\ call' = [call EXCEPT ![d] = new]
                        /\ new.grant = call[d].grant \/ new.grant = {}
    <3> DEFINE list == Advance(cl.list)
               new == [cl EXCEPT !.list = list, !.addr = FvbGetLbaAddress(d, list[1][1]),
                                 !.len = BlockLength(list[1][1]), !.index = 0]
    <3>1. call' = [call EXCEPT ![d] = new] \/ call' = [call EXCEPT ![d] = NoCall]
      BY <2>6 DEF EraseFrom, Return
    <3>2. new.grant = call[d].grant
      BY <2>2, <2>4
    <3> HIDE DEF new, list
    <3> QED  BY <1>2, <3>1, <3>2
  <2>7. \E new : /\ call' = [call EXCEPT ![d] = new]
                 /\ new.grant = call[d].grant \/ new.grant = {}
    BY <2>2, <2>3, <2>5, <2>6
  <2> QED  BY <1>0, <2>0, <2>7, CallEndsOrMoves
<1>10. ASSUME NEW d \in Drivers, Programmed(d) \/ SpiError(d)
       PROVE  [Contract!Next]_ContractVars
  <2>0. flash' = flash /\ chip' = chip
    BY <1>10 DEF Programmed, SpiError
  <2>1. call[d] \in CallRecord
    BY <1>0 DEF CallOK
  <2>2. \/ call' = [call EXCEPT ![d] = NoCall]
        \/ RepairProgram(d, FALSE, FALSE)
    BY <1>10 DEF Programmed, SpiError, RepairDone, Return
  <2>3. ASSUME NEW r \in CallRecord, NEW addr, NEW len, NEW data, NEW clean
        PROVE  [r EXCEPT !.data = data, !.len = len, !.addr = addr,
                         !.clean = clean].grant = r.grant
    BY DEF CallRecord
  <2>4. ASSUME RepairProgram(d, FALSE, FALSE)
        PROVE  \E new : call' = [call EXCEPT ![d] = new] /\ new.grant = call[d].grant
    <3> DEFINE new == [call[d] EXCEPT !.data = RepairImage, !.len = Len(RepairImage),
                                      !.addr = fvBase[d].physical, !.clean = FALSE]
    <3>1. call' = [call EXCEPT ![d] = new]
      BY <1>0, <2>4 DEF RepairProgram, CallOK
    <3>2. new.grant = call[d].grant
      BY <2>1, <2>3
    <3> HIDE DEF new
    <3> QED  BY <3>1, <3>2
  <2>5. \E new : /\ call' = [call EXCEPT ![d] = new]
                 /\ new.grant = call[d].grant \/ new.grant = {}
    BY <1>2, <2>2, <2>4
  <2> QED  BY <1>0, <2>0, <2>5, CallEndsOrMoves
<1>11. ASSUME NEW d \in Drivers, FvbInitialize(d)
       PROVE  [Contract!Next]_ContractVars
  BY <1>11, NothingSeen DEF FvbInitialize, Grants
<1>12. ASSUME NEW d \in Drivers, FvbInitializeRepair(d)
       PROVE  [Contract!Next]_ContractVars
  <2> DEFINE new == [NoCall EXCEPT !.op = "repair", !.addr = fvBase[d].physical,
                                   !.len = FwBlockSize, !.grant = RepairCells]
  <2>1. flash' = flash /\ chip' = chip /\ pc[d] = "off"
    BY <1>12 DEF FvbInitializeRepair, Loading
  <2>2. call' = call \/ call' = [call EXCEPT ![d] = new]
    BY <1>12 DEF FvbInitializeRepair
  <2>3. new.grant \subseteq Cells
    BY DEF NoCall, RepairCells
  <2> HIDE DEF new
  <2>4. CASE call' = call
    BY <2>1, <2>4, NothingSeen DEF Grants
  <2>5. CASE call' = [call EXCEPT ![d] = new]
    <3>1. Grants(Drivers \ {d}) /\ call'[d] = new
      BY <1>0, <2>5 DEF Grants, CallOK
    <3>2. Contract!Begin(d)
      BY <1>1, <2>1, <2>3, <3>1, CallBegins
    <3> QED  BY <3>2 DEF Contract!Next
  <2> QED  BY <2>2, <2>4, <2>5
<1>13. CASE FlashReady
  <2>1. flash' = flash /\ chip'.cells = {} /\ call' = call
    BY <1>13 DEF FlashReady, Idle
  <2>2. Contract!Finish
    BY <2>1 DEF Contract!Finish
  <2> QED  BY <2>2 DEF Contract!Next
<1>14. CASE FvbVirtualddressChangeEvent \/ UNCHANGED vars
  BY <1>14, NothingSeen DEF FvbVirtualddressChangeEvent, vars, Grants
<1>15. CASE PowerLoss
  <2>1. PICK torn \in SUBSET chip.cells :
          flash' = [c \in Cells |-> IF c \in torn THEN chip.before[c] ELSE flash[c]]
    BY <1>15 DEF PowerLoss
  <2>2. \A c \in Cells \ chip.cells : flash'[c] = flash[c]
    BY <2>1
  <2>3. chip'.cells = {} /\ \A d \in Drivers : call'[d].grant = {}
    BY <1>2, <1>15 DEF PowerLoss, Idle
  <2>4. Contract!PowerLoss
    BY <2>2, <2>3 DEF Contract!PowerLoss, Contract!ChangesOnly
  <2> QED  BY <2>4 DEF Contract!Next
<1> QED
  BY <1>3, <1>4, <1>5, <1>6, <1>7, <1>8, <1>9, <1>10, <1>11, <1>12, <1>13, <1>14, <1>15,
     NextByDriver DEF DriverNext, Protocol, Work

(* The two drivers on their one chip, for every geometry, request, error,  *)
(* interruption and power loss, keep the contract of FvbContract.          *)
THEOREM ContractCorrect == Spec => ImplementsContract
<1>1. Init => Contract!Init
  BY DEF Init, Contract!Init, NoCall, Idle
<1>2. PlanInv /\ [Next]_vars => [Contract!Next]_ContractVars
  BY StepRefines
<1> QED
  BY PlanInvariant, <1>1, <1>2, PTL
     DEF Spec, ImplementsContract, Contract!Spec, ContractVars

-----------------------------------------------------------------------------
(* What a refusal means.                                                   *)

(* No request runs past the last EFI_LBA.  The first pass of               *)
(* FvbProtocolEraseBlocks adds 64-bit numbers without a check: a range     *)
(* that wraps passes it, and its blocks are refused one by one after the   *)
(* ranges before it have been erased.                                      *)
NoWrap ==
  \A list \in EraseRequests : \A i \in DOMAIN list : list[i][1] + list[i][2] < LbaModulus

LEMMA LeastNat ==
  ASSUME NEW S, S \subseteq Nat, S # {}
  PROVE  \E n \in S : \A m \in S : n <= m
<1>1. PICK n \in S : \A m \in S : ~(<<m, n>> \in OpToRel(<, Nat))
  BY NatLessThanWellFounded, WFMin
<1>2. \A m \in S : ~(m < n)
  BY <1>1 DEF OpToRel
<1> QED
  BY <1>2

(* The walk over the block map finds every LBA below the number of blocks. *)
LEMMA BlocksExist ==
  ASSUME NEW lba \in Nat, lba < NumOfBlocks
  PROVE  LbaExists(lba)
<1> DEFINE S == {i \in DOMAIN BlockMap : lba < BlockMap[i].first + BlockMap[i].num}
<1>1. Len(BlockMap) \in Nat \ {0} /\ DOMAIN BlockMap = 1 .. Len(BlockMap)
  BY BlockMapAssumption
<1>2. \A i \in DOMAIN BlockMap : BlockMap[i].first \in Nat /\ BlockMap[i].num \in Nat
  <2> SUFFICES ASSUME NEW i \in DOMAIN BlockMap
               PROVE  BlockMap[i].first \in Nat /\ BlockMap[i].num \in Nat
    OBVIOUS
  <2>1. BlockMap[i] \in MapEntry
    BY BlockMapAssumption, LenProperties
  <2> QED  BY <2>1 DEF MapEntry
<1>3. Len(BlockMap) \in S
  BY <1>1 DEF NumOfBlocks, LastEntry
<1>4. PICK i \in S : \A j \in S : i <= j
  <2>1. S \subseteq Nat /\ S # {}
    BY <1>1, <1>3
  <2> HIDE DEF S
  <2> QED  BY <2>1, LeastNat
<1>5. i \in DOMAIN BlockMap /\ lba < BlockMap[i].first + BlockMap[i].num
  OBVIOUS
<1>6. lba >= BlockMap[i].first
  <2>1. CASE i = 1
    BY <2>1, BlockMapAssumption
  <2>2. CASE i # 1
    <3>1. i - 1 \in 1 .. Len(BlockMap) - 1 /\ i - 1 \in DOMAIN BlockMap /\ (i - 1) + 1 = i
      BY <1>1, <1>5, <2>2
    <3>2. BlockMap[i].first = BlockMap[i - 1].first + BlockMap[i - 1].num
      BY <3>1, BlockMapAssumption
    <3>3. ~(lba < BlockMap[i - 1].first + BlockMap[i - 1].num)
      BY <1>1, <1>4, <3>1
    <3> QED  BY <1>2, <1>5, <3>1, <3>2, <3>3
  <2> QED  BY <2>1, <2>2
<1> QED
  BY <1>5, <1>6 DEF LbaExists, EntryOf

(* An accepted argument list names existing blocks only.                   *)
LEMMA AcceptedList ==
  ASSUME NoWrap, NEW list \in EraseRequests, ~ListRefused(list), NEW lba, Lists(list, lba)
  PROVE  LbaExists(lba)
<1>1. PICK i \in DOMAIN list : \E k \in 0 .. list[i][2] - 1 : lba = list[i][1] + k
  BY DEF Lists
<1>2. PICK k \in 0 .. list[i][2] - 1 : lba = list[i][1] + k
  BY <1>1
<1>3. list[i] \in (0 .. LbaModulus - 1) \X Nat
  BY RequestAssumption, LenProperties
<1>4. LbaModulus \in Nat \ {0} /\ list[i][1] \in Nat /\ list[i][2] \in Nat
  BY <1>3, ChipAssumption
<1>5. list[i][1] + list[i][2] < LbaModulus
  BY DEF NoWrap
<1>6. (list[i][1] + list[i][2]) % LbaModulus = list[i][1] + list[i][2]
  <2> DEFINE n == list[i][1] + list[i][2]
  <2>1. n \in 0 .. LbaModulus - 1
    BY <1>4, <1>5
  <2> HIDE DEF n
  <2> QED  BY <1>4, <2>1 DEF n
<1>7. ~((list[i][1] + list[i][2]) % LbaModulus > NumOfBlocks)
  BY DEF ListRefused
<1>8. NumOfBlocks \in Nat
  <2>1. LastEntry \in MapEntry
    BY BlockMapAssumption, LenProperties DEF LastEntry
  <2> QED  BY <2>1 DEF NumOfBlocks, MapEntry
<1>9. lba \in Nat /\ lba < NumOfBlocks
  BY <1>2, <1>4, <1>6, <1>7, <1>8
<1> QED
  BY <1>9, BlocksExist

(* A repair follows a power loss, so that no reply of its driver stands,   *)
(* and the blocks an erase has yet to reach exist.                         *)
Unanswered(d, r) == r.by = d => r.status = "SUCCESS"
RefuseInv ==
  \A d \in Drivers :
    /\ pc[d] = "off" \/ call[d].op = "repair" => Unanswered(d, reply)
    /\ call[d].op = "erase" => \A lba : Lists(call[d].list, lba) => LbaExists(lba)

(* What a step of driver d leaves of it.                                   *)
RefuseStep(d) ==
  /\ reply' = reply \/ (reply'.by = d /\ pc'[d] = "idle" /\ call'[d].op # "repair")
  /\ NoNewRepair
  /\ \A e \in Drivers : call'[e].op = "erase" =>
       \/ call[e].op = "erase" /\ call'[e].list = call[e].list
       \/ \A lba : Lists(call'[e].list, lba) => LbaExists(lba)

LEMMA RefuseKept ==
  ASSUME RefuseInv, NEW d \in Drivers, RefuseStep(d)
  PROVE  RefuseInv'
<1> SUFFICES ASSUME NEW e \in Drivers
             PROVE  /\ pc'[e] = "off" \/ call'[e].op = "repair" => Unanswered(e, reply')
                    /\ call'[e].op = "erase" =>
                         \A lba : Lists(call'[e].list, lba) => LbaExists(lba)
  BY DEF RefuseInv
<1>1. ASSUME pc'[e] = "off" \/ call'[e].op = "repair"
      PROVE  Unanswered(e, reply')
  <2>1. Unanswered(e, reply)
    BY <1>1 DEF RefuseStep, NoNewRepair, RefuseInv
  <2>2. reply' = reply \/ reply'.by # e
    BY <1>1 DEF RefuseStep
  <2> QED  BY <2>1, <2>2 DEF Unanswered
<1>2. ASSUME call'[e].op = "erase"
      PROVE  \A lba : Lists(call'[e].list, lba) => LbaExists(lba)
  BY <1>2 DEF RefuseStep, RefuseInv
<1> QED
  BY <1>1, <1>2

(* Returns and commands are such steps.                                    *)
LEMMA ReturnRefuses ==
  ASSUME CallOK, NEW d \in Drivers, NEW cl, NEW st, Return(d, cl, st)
  PROVE  RefuseStep(d)
<1>1. NoCall.op = "none"
  BY DEF NoCall
<1>2. reply'.by = d
  BY DEF Return
<1> QED
  BY <1>1, <1>2 DEF Return, RefuseStep, NoNewRepair, CallOK

LEMMA SameRefuses ==
  ASSUME CallOK, NEW d \in Drivers, NEW next, NEW new, next # "off",
         pc' = [pc EXCEPT ![d] = next], call' = [call EXCEPT ![d] = new], reply' = reply,
         new.op = "repair" => call[d].op = "repair" \/ pc[d] = "off",
         new.op = "erase" => \A lba : Lists(new.list, lba) => LbaExists(lba)
  PROVE  RefuseStep(d)
BY DEF RefuseStep, NoNewRepair, CallOK

LEMMA CommandRefuses ==
  ASSUME CallOK, NEW d \in Drivers, EraseSector(d) \/ Program(d)
  PROVE  RefuseStep(d)
<1>1. ASSUME NEW e \in Drivers
      PROVE  call'[e].op = call[e].op /\ call'[e].list = call[e].list
  <2>1. call[e] \in CallRecord
    BY DEF CallOK
  <2>2. \/ call'[e] = [call[e] EXCEPT !.touched = TRUE]
        \/ call'[e] = [call[e] EXCEPT !.clean = FALSE]
        \/ call'[e] = call[e]
        \/ \E b : call'[e] = [call[e] EXCEPT !.clean = b]
    BY DEF EraseSector, Program, Execute, Ignored, CallOK
  <2> QED  BY <2>1, <2>2 DEF CallRecord
<1>2. \A e \in Drivers : pc'[e] = "off" => pc[e] = "off"
  BY DEF EraseSector, Program, Execute, Ignored, CallOK
<1>3. reply' = reply
  BY DEF EraseSector, Program, Execute, Ignored
<1> QED
  BY <1>1, <1>2, <1>3 DEF RefuseStep, NoNewRepair

LEMMA EraseFromRefuses ==
  ASSUME CallOK, NEW d \in Drivers, NEW cl \in CallRecord, NEW list, cl.op = "erase",
         \A lba : Lists(list, lba) => LbaExists(lba), EraseFrom(d, cl, list)
  PROVE  RefuseStep(d)
<1> DEFINE new == [cl EXCEPT !.list = list, !.addr = FvbGetLbaAddress(d, list[1][1]),
                             !.len = BlockLength(list[1][1]), !.index = 0]
<1>1. new.op = "erase" /\ new.list = list
  BY DEF CallRecord
<1>2. \/ \E st : Return(d, cl, st)
      \/ /\ pc' = [pc EXCEPT ![d] = "erase"] /\ call' = [call EXCEPT ![d] = new]
         /\ reply' = reply
  BY DEF EraseFrom
<1> HIDE DEF new
<1> QED
  BY <1>1, <1>2, ReturnRefuses, SameRefuses

LEMMA RefuseInvStep ==
  ASSUME NoWrap, PlanInv, RefuseInv, [Next]_vars
  PROVE  RefuseInv'
<1>0. CallOK
  BY DEF PlanInv, TypeInv
<1>1. ASSUME NEW d \in Drivers,
             \/ \E req \in AttributeRequests : SetAttributes(d, req)
             \/ \E w \in ReadRequests : Read(d, w)
      PROVE  RefuseInv'
  <2>1. pc[d] = "idle" /\ UNCHANGED <<pc, call>> /\ reply'.by = d
    BY <1>1 DEF SetAttributes, Read, Refuse
  <2>2. call[d].op # "repair"
    BY <2>1 DEF PlanInv, CallInv, Plan, NoCall
  <2>3. RefuseStep(d)
    BY <2>1, <2>2 DEF RefuseStep, NoNewRepair
  <2> QED  BY <2>3, RefuseKept
<1>2. ASSUME NEW d \in Drivers, NEW w \in WriteRequests, Write(d, w)
      PROVE  RefuseInv'
  <2> DEFINE new == [NoCall EXCEPT !.op = "write",
                                   !.addr = FvbGetLbaAddress(d, w.lba) + w.offset,
                                   !.len = NumBytes(w), !.asked = Len(w.data),
                                   !.data = w.data, !.grant = WriteCells(w)]
  <2>1. new.op = "write"
    BY DEF NoCall
  <2>2. \/ UNCHANGED <<pc, call>> /\ reply'.by = d /\ pc[d] = "idle"
        \/ /\ pc' = [pc EXCEPT ![d] = "program"] /\ call' = [call EXCEPT ![d] = new]
           /\ reply' = reply
    BY <1>2 DEF Write, Refuse
  <2> HIDE DEF new
  <2>3. CASE UNCHANGED <<pc, call>> /\ reply'.by = d /\ pc[d] = "idle"
    <3>1. call[d].op # "repair"
      BY <2>3 DEF PlanInv, CallInv, Plan, NoCall
    <3>2. RefuseStep(d)
      BY <2>3, <3>1 DEF RefuseStep, NoNewRepair
    <3> QED  BY <3>2, RefuseKept
  <2> QED  BY <1>0, <2>1, <2>2, <2>3, SameRefuses, RefuseKept
<1>3. ASSUME NEW d \in Drivers, NEW list \in EraseRequests, EraseBlocks(d, list)
      PROVE  RefuseInv'
  <2> DEFINE cl == [NoCall EXCEPT !.op = "erase", !.grant = EraseCells(list)]
  <2>1. cl \in CallRecord /\ cl.op = "erase"
    <3>1. EraseCells(list) \in SUBSET Cells
      BY DEF EraseCells
    <3> QED  BY <3>1, NoCallType DEF CallRecord
  <2>2. \/ UNCHANGED <<pc, call>> /\ reply'.by = d /\ pc[d] = "idle"
        \/ ~ListRefused(list) /\ EraseFrom(d, cl, list)
    BY <1>3 DEF EraseBlocks, Refuse
  <2> HIDE DEF cl
  <2>3. CASE UNCHANGED <<pc, call>> /\ reply'.by = d /\ pc[d] = "idle"
    <3>1. call[d].op # "repair"
      BY <2>3 DEF PlanInv, CallInv, Plan, NoCall
    <3>2. RefuseStep(d)
      BY <2>3, <3>1 DEF RefuseStep, NoNewRepair
    <3> QED  BY <3>2, RefuseKept
  <2>4. CASE ~ListRefused(list) /\ EraseFrom(d, cl, list)
    <3>1. \A lba : Lists(list, lba) => LbaExists(lba)
      BY <2>4, AcceptedList
    <3> QED  BY <1>0, <2>1, <2>4, <3>1, EraseFromRefuses, RefuseKept
  <2> QED  BY <2>2, <2>3, <2>4
<1>4. ASSUME NEW d \in Drivers, EraseSector(d) \/ Program(d)
      PROVE  RefuseInv'
  BY <1>0, <1>4, CommandRefuses, RefuseKept
<1>5. ASSUME NEW d \in Drivers, SectorErased(d)
      PROVE  RefuseInv'
  <2> DEFINE cl == NextSector(call[d])
  <2>1. cl \in CallRecord /\ cl.op = call[d].op /\ cl.list = call[d].list
    <3>1. call[d] \in CallRecord /\ call[d].index + 1 \in Nat
      BY <1>0 DEF CallOK, CallRecord
    <3> QED  BY <3>1 DEF NextSector, CallRecord
  <2>2. cl.op \in {"erase", "repair"}
    <3>1. call[d].op # "none" /\ call[d].op # "write" /\ call[d] \in CallRecord
      BY <1>0, <1>5 DEF SectorErased, CallOK, Active, Waiting
    <3> QED  BY <2>1, <3>1 DEF CallRecord
  <2> HIDE DEF cl
  <2>3. \/ /\ pc' = [pc EXCEPT ![d] = "erase"] /\ call' = [call EXCEPT ![d] = cl]
           /\ reply' = reply
        \/ cl.op = "repair" /\ RepairProgram(d, TRUE, cl.clean)
        \/ cl.op # "repair" /\ EraseFrom(d, cl, Advance(cl.list))
    BY <1>5 DEF SectorErased, cl
  <2>4. cl.op = "erase" => \A lba : Lists(cl.list, lba) => LbaExists(lba)
    BY <2>1 DEF RefuseInv
  <2>5. CASE /\ pc' = [pc EXCEPT ![d] = "erase"] /\ call' = [call EXCEPT ![d] = cl]
             /\ reply' = reply
    BY <1>0, <2>1, <2>4, <2>5, SameRefuses, RefuseKept
  <2>6. CASE cl.op = "repair" /\ RepairProgram(d, TRUE, cl.clean)
    <3>1. RefuseStep(d)
      BY <1>0, <2>1, <2>6 DEF RepairProgram, AssertAndGoTo, RefuseStep, NoNewRepair, CallOK,
           CallRecord
    <3> QED  BY <3>1, RefuseKept
  <2>7. CASE cl.op # "repair" /\ EraseFrom(d, cl, Advance(cl.list))
    <3>1. call[d].op = "erase" /\ cl.list \in Seq(Nat \X Nat) /\ cl.list # <<>>
          /\ \A i \in DOMAIN cl.list : cl.list[i][2] > 0
      BY <1>0, <1>5, <2>1, <2>2, <2>7
         DEF SectorErased, CallOK, CallRecord, PlanInv, CallInv, Plan, ErasePlan
    <3>2. \A lba : Lists(Advance(cl.list), lba) => Lists(cl.list, lba)
      BY <3>1, AdvancedBlocks
    <3> QED  BY <1>0, <2>1, <2>4, <2>7, <3>1, <3>2, EraseFromRefuses, RefuseKept
  <2> QED  BY <2>3, <2>5, <2>6, <2>7
<1>6. ASSUME NEW d \in Drivers, Programmed(d) \/ SpiError(d)
      PROVE  RefuseInv'
  <2>1. \/ RepairDone(d)
        \/ \E st : Return(d, call[d], st)
        \/ call[d].op = "repair" /\ RepairProgram(d, FALSE, FALSE)
    BY <1>6 DEF Programmed, SpiError
  <2>2. CASE RepairDone(d)
    <3>1. PICK q \in {"idle", "hung"} : pc' = [pc EXCEPT ![d] = q]
      BY <2>2 DEF RepairDone, AssertAndGoTo
    <3>2. NoCall.op = "none"
      BY DEF NoCall
    <3> QED
      BY <1>0, <2>2, <3>1, <3>2, SameRefuses, RefuseKept DEF RepairDone, AssertAndGoTo
  <2>3. CASE \E st : Return(d, call[d], st)
    BY <1>0, <2>3, ReturnRefuses, RefuseKept
  <2>4. CASE call[d].op = "repair" /\ RepairProgram(d, FALSE, FALSE)
    <3>1. RefuseStep(d)
      BY <1>0, <2>4 DEF RepairProgram, AssertAndGoTo, RefuseStep, NoNewRepair, CallOK,
           CallRecord
    <3> QED  BY <3>1, RefuseKept
  <2> QED  BY <2>1, <2>2, <2>3, <2>4
<1>7. ASSUME NEW d \in Drivers, FvbInitialize(d) \/ FvbInitializeRepair(d)
      PROVE  RefuseInv'
  <2>1. pc[d] = "off" /\ reply' = reply
        /\ \A e \in Drivers \ {d} : pc'[e] = pc[e] /\ call'[e] = call[e]
    BY <1>0, <1>7 DEF FvbInitialize, FvbInitializeRepair, Loading, CallOK
  <2>2. pc'[d] # "off"
    BY <1>0, <1>7 DEF FvbInitialize, FvbInitializeRepair, CallOK
  <2>3. call'[d].op # "erase"
    <3> DEFINE new == [NoCall EXCEPT !.op = "repair", !.addr = fvBase[d].physical,
                                     !.len = FwBlockSize, !.grant = RepairCells]
    <3>1. call[d] = NoCall
      BY <2>1 DEF PlanInv, CallInv, Plan
    <3>2. new.op = "repair" /\ NoCall.op = "none"
      BY DEF NoCall
    <3>3. call' = call \/ call' = [call EXCEPT ![d] = new]
      BY <1>7 DEF FvbInitialize, FvbInitializeRepair
    <3> HIDE DEF new
    <3> QED
      BY <1>0, <3>1, <3>2, <3>3 DEF CallOK
  <2>4. RefuseStep(d)
    BY <2>1, <2>2, <2>3 DEF RefuseStep, NoNewRepair
  <2> QED  BY <2>4, RefuseKept
<1>8. CASE FlashReady \/ FvbVirtualddressChangeEvent \/ UNCHANGED vars
  BY <1>8 DEF FlashReady, FvbVirtualddressChangeEvent, vars, RefuseInv
<1>9. CASE PowerLoss
  BY <1>9 DEF PowerLoss, RefuseInv, Unanswered, NoReply, NoCall
<1> QED
  BY <1>1, <1>2, <1>3, <1>4, <1>5, <1>6, <1>7, <1>8, <1>9, NextByDriver
     DEF DriverNext, Protocol, Work

LEMMA ErasableBlock ==
  ASSUME PlanInv, NEW d \in Drivers, "WRITE_STATUS" \in attrs[d], NEW lba \in Nat, LbaExists(lba)
  PROVE  EraseBlockStatus(d, lba) = "SUCCESS"
<1>1. FvOffset \in Nat
  BY ChipAssumption
<1>2. BlockOffset(lba) \in Nat /\ BlockLength(lba) % SectorSize = 0
  BY BlockGeometry
<1>3. devBase[d] \in Nat \ {0} /\ FvbGetPhysicalAddress(d) = devBase[d] + FvOffset
  BY Bases DEF PlanInv
<1>4. FvbGetLbaAddress(d, lba) # 0
  BY <1>1, <1>2, <1>3 DEF FvbGetLbaAddress
<1> QED
  BY <1>2, <1>4 DEF EraseBlockStatus

(* A call that has reached the chip is not refused any more.               *)
LEMMA RefusalIsFirst ==
  ASSUME NoWrap, PlanInv, RefuseInv, [Next]_vars, NEW d \in Drivers,
         pc'[d] = "idle", reply'.by = d,
         reply'.status \in {"INVALID_PARAMETER", "ACCESS_DENIED"}, call[d].touched
  PROVE  FALSE
<1>1. call[d] \in CallRecord /\ TypeInv /\ CallOK
  BY DEF PlanInv, TypeInv, CallOK
<1>2. call[d] # NoCall
  BY DEF NoCall
<1>3. pc[d] \notin {"idle", "off", "absent"}
  BY <1>2 DEF PlanInv, CallInv, Plan
<1>4. Active(d)
  <2>1. pc[d] # "hung"
    <3>1. ASSUME pc[d] = "hung"
          PROVE  pc'[d] # "idle"
      <4>1. Halted
        BY <3>1 DEF Halted
      <4>2. CASE FlashReady \/ UNCHANGED vars
        BY <3>1, <4>2 DEF FlashReady, vars
      <4>3. CASE PowerLoss
        BY <4>3 DEF PowerLoss
      <4>4. ~FvbVirtualddressChangeEvent /\ \A e \in Drivers : ~DriverNext(e)
        BY <4>1 DEF FvbVirtualddressChangeEvent, DriverNext, Protocol, Work, SetAttributes,
             Write, Read, EraseBlocks, EraseSector, SectorErased, Program, Programmed,
             SpiError, FvbInitialize, FvbInitializeRepair, Loading, MayRun
      <4> QED  BY <4>2, <4>3, <4>4, NextByDriver
    <3> QED  BY <3>1
  <2> QED  BY <1>1, <1>3, <2>1 DEF CallOK, Active, Waiting
<1>5. Work(d) \/ SpiError(d)
  BY <1>1, <1>4, OwnAction DEF Active, Waiting
<1>6. call[d].op = "repair" => ~(reply.status \in {"INVALID_PARAMETER", "ACCESS_DENIED"})
                               \/ reply.by # d
  BY DEF RefuseInv, Unanswered
<1>7. CASE EraseSector(d) \/ Program(d)
  BY <1>1, <1>7 DEF EraseSector, Program, Execute, Ignored, CallOK
<1>8. CASE Programmed(d) \/ SpiError(d)
  BY <1>6, <1>8 DEF Programmed, SpiError, Return, RepairDone, RepairProgram, AssertAndGoTo
<1>9. CASE SectorErased(d)
  <2> DEFINE cl == NextSector(call[d])
  <2>1. cl.op = call[d].op /\ cl.list = call[d].list
    <3>1. call[d].index + 1 \in Nat
      BY <1>1 DEF CallRecord
    <3> QED  BY <1>1, <3>1 DEF NextSector, CallRecord
  <2> HIDE DEF cl
  <2>2. \/ pc' = [pc EXCEPT ![d] = "erase"]
        \/ cl.op = "repair" /\ reply' = reply
        \/ cl.op # "repair" /\ EraseFrom(d, cl, Advance(cl.list))
    BY <1>9 DEF SectorErased, RepairProgram, AssertAndGoTo, cl
  <2>3. CASE cl.op # "repair" /\ EraseFrom(d, cl, Advance(cl.list))
    <3> DEFINE next == Advance(cl.list)
    <3>0. call[d].op = "erase" /\ cl.list \in Seq(Nat \X Nat)
      <4>1. call[d].op # "none" /\ call[d].op # "write"
        BY <1>1, <1>4, <1>9 DEF SectorErased, CallOK, Active, Waiting
      <4> QED  BY <1>1, <2>1, <2>3, <4>1 DEF CallRecord
    <3>1. cl.list # <<>> /\ \A i \in DOMAIN cl.list : cl.list[i][2] > 0
      BY <1>1, <2>1, <3>0 DEF CallOK, PlanInv, CallInv, Plan, ErasePlan
    <3>2. next \in Seq(Nat \X Nat)
      BY <3>0, <3>1, AdvanceType
    <3>3. "WRITE_STATUS" \in attrs[d]
      BY <3>0 DEF PlanInv, CallInv, Plan, ErasePlan
    <3>4. CASE next = <<>>
      BY <2>3, <3>4 DEF EraseFrom, Return
    <3>5. CASE next # <<>>
      <4>1. next[1][1] \in Nat /\ next[1][2] \in Nat /\ 1 \in DOMAIN next
        <5> HIDE DEF next
        <5> QED  BY <3>2, <3>5, ListEntries
      <4>2. next[1][2] > 0
        BY <3>0, <3>1, <4>1, AdvancedCounts
      <4>3. Lists(next, next[1][1])
        <5>1. 0 \in 0 .. next[1][2] - 1 /\ next[1][1] = next[1][1] + 0
          BY <4>1, <4>2
        <5> QED  BY <4>1, <5>1 DEF Lists
      <4>4. Lists(cl.list, next[1][1])
        BY <3>0, <3>1, <4>3, AdvancedBlocks
      <4>5. LbaExists(next[1][1])
        BY <2>1, <3>0, <3>1, <4>4 DEF RefuseInv
      <4>6. EraseBlockStatus(d, next[1][1]) = "SUCCESS"
        BY <3>3, <4>1, <4>5, ErasableBlock
      <4> HIDE DEF next
      <4>7. pc' = [pc EXCEPT ![d] = "erase"]
        <5>1. EraseFrom(d, cl, next)
          BY <2>3 DEF next
        <5> QED  BY <3>5, <4>6, <5>1 DEF EraseFrom
      <4> QED  BY <1>1, <4>7 DEF CallOK
    <3> QED  BY <3>4, <3>5
  <2>4. CASE pc' = [pc EXCEPT ![d] = "erase"]
    BY <1>1, <2>4 DEF CallOK
  <2>5. CASE cl.op = "repair" /\ reply' = reply
    BY <1>6, <2>1, <2>5
  <2> QED  BY <2>2, <2>3, <2>4, <2>5
<1> QED
  BY <1>5, <1>7, <1>8, <1>9 DEF Work

(* FvbProtocolEraseBlocks verifies its whole list first, and Write and     *)
(* SetAttributes make their tests before the chip is asked for anything:   *)
(* a call that is refused has changed nothing, if no range wraps.          *)
THEOREM RefusedCorrect ==
  ASSUME NoWrap
  PROVE  Spec => RefusedMeansUntouched
<1>1. Init => RefuseInv
  BY DEF Init, RefuseInv, Unanswered, NoReply, NoCall
<1>2. PlanInv /\ RefuseInv /\ [Next]_vars => RefuseInv'
  BY RefuseInvStep
<1>3. PlanInv /\ RefuseInv /\ [Next]_vars =>
        [\A d \in Drivers :
           /\ pc'[d] = "idle" /\ reply'.by = d
           /\ reply'.status \in {"INVALID_PARAMETER", "ACCESS_DENIED"}
           => ~call[d].touched]_vars
  BY RefusalIsFirst
<1> QED
  BY PlanInvariant, <1>1, <1>2, <1>3, PTL DEF Spec, RefusedMeansUntouched
=============================================================================
