----------------------------- MODULE MCSpiFlash -----------------------------
(* Three sectors of two pages, the last two in the BIOS region.  Images    *)
(* with a blank page, with a page of DWORDs 0x000000ff, and one that is    *)
(* already in the chip; chips that are old, erased, or written in part.    *)
EXTENDS SpiFlash

CONSTANTS New, Old, Mixed

MCOther == {New, Old, Mixed}

Sector(p1, p2) == [p \in Page |-> IF p = 1 THEN p1 ELSE p2]
Image(s1, s2) == [s \in Sectors |-> CASE s = 0 -> Sector(Old, Old) [] s = 1 -> s1 [] s = 2 -> s2]

MCImages == {Image(Sector(New, New), Sector(New, Blank)),
             Image(Sector(Blank, New), Sector(Blank, Blank)),
             Image(Sector(New, Word00FF), Sector(New, New)),
             Image(Sector(Word00FF, Word00FF), Sector(Old, Old)),
             Image(Sector(Old, Old), Sector(Old, Old))}
MCFactory == {Image(Sector(Old, Old), Sector(Old, Old)),
              Image(Sector(Blank, Blank), Sector(Old, Blank))}
=============================================================================
