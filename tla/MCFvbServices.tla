---------------------------- MODULE MCFvbServices ----------------------------
(***************************************************************************)
(* A volume of two block map entries (one block of two sectors, two blocks *)
(* of one), preceded and followed by other cells of the chip.             *)
(***************************************************************************)
EXTENDS FvbServices, SequencesExt

(* Values for the constants. *)
MCBits == {1, 2}
MCBlockMap == <<[first |-> 0, num |-> 1, offset |-> 0, len |-> 4],
                [first |-> 1, num |-> 2, offset |-> 4, len |-> 2]>>
Factory == <<{1}, {1}>>
Default == <<{2}, {2}>>
MCHeaderImages == {Factory, Default}
(* The factory header declares every capability; the table of FvbInfo.c    *)
(* declares READ_ENABLED and WRITE_ENABLED only.                           *)
MCHeaderAttributes ==
  [img \in MCHeaderImages |->
     IF img = Factory
     THEN CapFlags \cup {"READ_STATUS", "WRITE_STATUS", "ERASE_POLARITY"}
     ELSE {"READ_ENABLED_CAP", "READ_STATUS", "WRITE_ENABLED_CAP",
           "WRITE_STATUS", "ERASE_POLARITY"}]
MCVarStoreImage == <<{1}>>
(* The last block of the volume and the cells around the volume are full.  *)
MCContents == {[c \in Cells |-> IF c \in 1 .. 6 THEN Bits ELSE {}]}
(* A write cut at its block's end, one that starts at the end, and one     *)
(* past the volume.                                                        *)
MCWriteRequests ==
  {[lba |-> 0, offset |-> 3, data |-> <<{1}, {2}>>],
   [lba |-> 1, offset |-> 2, data |-> <<{1}>>],
   [lba |-> 3, offset |-> 0, data |-> <<{1}>>]}
(* A read that its block's end cuts.                                       *)
MCReadRequests == {[lba |-> 2, offset |-> 1, data |-> <<{}, {}>>]}
(* A list over two entries of the map, and one whose second range is too   *)
(* long.                                                                   *)
MCEraseRequests ==
  {<<<<0, 1>>, <<1, 2>>>>, <<<<1, 1>>, <<2, 2>>>>}
(* An EFI_LBA near the end of its range: first + count wraps to a block.   *)
WrappingEraseRequests == {<<<<1, 1>>, <<LbaModulus - 2, 3>>>>}
MCAttributeRequests ==
  {CapFlags \cup {"ERASE_POLARITY", "READ_STATUS", "LOCK_STATUS"},
   CapFlags \cup {"ERASE_POLARITY", "READ_STATUS", "WRITE_STATUS"},
   {"READ_ENABLED_CAP", "WRITE_ENABLED_CAP", "ERASE_POLARITY", "READ_STATUS"}}

(* The running sums in the block map are those of the walk.                *)
ASSUME \A i \in DOMAIN MCBlockMap :
  /\ MCBlockMap[i].first = FoldLeft(LAMBDA acc, e : acc + e.num, 0,
                                    SubSeq(MCBlockMap, 1, i - 1))
  /\ MCBlockMap[i].offset = FoldLeft(LAMBDA acc, e : acc + e.num * e.len, 0,
                                     SubSeq(MCBlockMap, 1, i - 1))

=============================================================================
