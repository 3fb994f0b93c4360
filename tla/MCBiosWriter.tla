---------------------------- MODULE MCBiosWriter ----------------------------
(* The chips and images of MCSpiFlash.  Files of the right and of a smaller*)
(* size.  ACPI tables below and behind the root pointer, of whole UINT32s  *)
(* or not, and too far apart.                                              *)
EXTENDS BiosWriter, MCSpiFlash

MCOtherAndJunk == MCOther \cup {Junk}

MCBoards == {[legal |-> TRUE, even |-> TRUE, compares |-> TRUE],
             [legal |-> TRUE, even |-> TRUE, compares |-> FALSE],
             [legal |-> FALSE, even |-> FALSE, compares |-> FALSE]}

MCRomFiles == [size : {"same", "shorter"}, data : MCImages]

T(start, length) == [at |-> start, len |-> length]
MCAcpiLayouts ==
  {[rsdp |-> 8, rsdt |-> T(16, 8), xsdt |-> T(24, 8), tables |-> {T(32, 6), T(40, 4)},
    dsdt |-> T(50, 7)],
   [rsdp |-> 40, rsdt |-> T(16, 8), xsdt |-> T(24, 8), tables |-> {T(2, 6), T(8, 5)},
    dsdt |-> T(10, 6)],
   [rsdp |-> 40, rsdt |-> T(16, 8), xsdt |-> T(24, 8), tables |-> {T(100, 6), T(8, 5)},
    dsdt |-> T(10, 6)]}
=============================================================================
