-------------------------------- MODULE MCPost --------------------------------
(* A small instance of Post: the board's tables, two machines and a bare   *)
(* one, and counters of 16 and 8 counts.                                   *)
EXTENDS Post

F(bus, dev, fn, pin, class, gop) ==
  [bus |-> bus, dev |-> dev, fn |-> fn, pin |-> pin, class |-> class, gop |-> gop]

mcPirqs == 0 .. 7
mcPirqTable == [p \in mcPirqs |-> <<11, 11, 11, 10, 11, 128, 10, 10>>[p + 1]]
mcDxxR == {31, 29, 28, 27, 26, 25, 22, 20}
mcIrqRouteTable == [d \in mcDxxR |->
  CASE d = 31 -> <<0, 3, 2, 0>> [] d = 29 -> <<7, 3, 0, 2>> [] d = 28 -> <<0, 1, 2, 3>>
    [] d = 27 -> <<6, 1, 2, 3>> [] d = 26 -> <<0, 5, 2, 3>> [] d = 25 -> <<4, 5, 6, 7>>
    [] d = 22 -> <<0, 3, 2, 1>> [] d = 20 -> <<0, 1, 2, 3>>]

Board == <<F(0, 2, 0, 1, "VGA", "native"), F(0, 31, 0, 0, "LPC", "none"),
           F(0, 31, 2, 2, "SATA", "none"), F(0, 26, 1, 2, "other", "none")>>
Cards == <<F(1, 0, 0, 1, "VGA", "legacy"), F(0, 31, 0, 0, "LPC", "none"),
           F(0, 29, 0, 1, "other", "none"), F(2, 3, 0, 2, "serial", "none")>>
Headless == <<F(0, 31, 0, 0, "LPC", "none"), F(3, 0, 0, 3, "old VGA", "none")>>

mcMachines == {Board, Cards, Headless}
mcVolumes == {<<"csm", "old csm">>, <<None, "csm">>}

Image(header, marker, wait) ==
  [header |-> header, marker |-> marker, checksum |-> 3, delay |-> wait, rest |-> 2]
mcFast == <<1, 0>>
mcSlow == <<2, 3>>
mcRomVolumes == {<<None>>, <<Image(TRUE, TRUE, <<3, 2>>)>>,
                 <<None, Image(TRUE, FALSE, <<1, 0>>)>>}
=============================================================================
