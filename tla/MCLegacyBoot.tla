---------------------------- MODULE MCLegacyBoot ----------------------------
(* Three disks (two of them the array has room for), two CD drives, a      *)
(* partition, and a boot table of three SATA entries behind one of a ROM.  *)
EXTENDS LegacyBoot

MCPlaces == {"1F.2-0", "1F.2-1", "1F.2-2", "1F.2-3", "1F.5-0", "1F.5-1", "rom"}
MCStrings == {"P0-Disk", "P1-Disk", "P2-Disk", "P3-CD", "P1-CD", "PXE"}

D(k, l, n, b) == [kind |-> k, loc |-> l, name |-> n, boot |-> b]
Disk1 == D("disk", "1F.2-0", "P0-Disk", "signed")
Part1 == D("other", "1F.2-0", "P0-Disk", "signed")
Disk2 == D("disk", "1F.2-1", "P1-Disk", "signed")
Blank2 == D("disk", "1F.2-1", "P1-Disk", "unsigned")
Disk3 == D("disk", "1F.2-2", "P2-Disk", "signed")
Twin1 == D("disk", "1F.5-0", "P0-Disk", "signed")
Cd == D("cd", "1F.2-3", "P3-CD", "bootable")
CdNone == D("cd", "1F.2-3", "P3-CD", "none")
CdSegment == D("cd", "1F.5-1", "P1-CD", "elsewhere")

MCInventories ==
  {<< >>, <<Disk1, Part1>>, <<Disk2, Disk1, Cd>>, <<Cd, Disk1, Disk2, Disk3>>,
   <<Disk1, Twin1, CdNone>>, <<Disk1, Part1, Blank2>>, <<Cd, CdSegment, Disk1>>, <<CdSegment, Disk2>>}
MCOneCd == {<<Disk2, Disk1, Cd>>, <<Disk1, Part1>>}
MCRomEntries == <<[type |-> "bev", loc |-> "rom", name |-> "PXE", prio |-> "UNPRIORITIZED"]>>
MCDriveNumbers == {127, 128, 129, 143, 240}
=============================================================================
