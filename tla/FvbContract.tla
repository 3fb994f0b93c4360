----------------------------- MODULE FvbContract -----------------------------
(***************************************************************************)
(* What the firmware volume block drivers promise of the chip, whatever    *)
(* their calls are made of: a command changes only cells that the call it  *)
(* belongs to is about, nothing changes outside calls, and a power loss    *)
(* damages only the cells of a command the chip has not finished.          *)
(***************************************************************************)
CONSTANTS Drivers, Cells

VARIABLES
  flash,      \* contents of the chip
  open,       \* the cells the open call of each driver is about, {} for none
  unfinished  \* the cells of the command the chip is executing

ChangesOnly(S) == \A c \in Cells \ S : flash'[c] = flash[c]

Init ==
  /\ open = [d \in Drivers |-> {}]
  /\ unfinished = {}

Begin(d) ==
  /\ open[d] = {}
  /\ open'[d] \subseteq Cells
  /\ open' = [open EXCEPT ![d] = open'[d]]
  /\ UNCHANGED <<flash, unfinished>>

Command(d) ==
  /\ unfinished = {}
  /\ unfinished' \subseteq open[d]
  /\ ChangesOnly(unfinished')
  /\ UNCHANGED open

Finish == unfinished' = {} /\ UNCHANGED <<flash, open>>

End(d) == open' = [open EXCEPT ![d] = {}] /\ UNCHANGED <<flash, unfinished>>

PowerLoss ==
  /\ ChangesOnly(unfinished)
  /\ unfinished' = {}
  /\ open' = [d \in Drivers |-> {}]

Next ==
  \/ Finish \/ PowerLoss
  \/ \E d \in Drivers : Begin(d) \/ Command(d) \/ End(d)

Spec == Init /\ [][Next]_<<flash, open, unfinished>>
=============================================================================
