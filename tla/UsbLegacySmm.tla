----------------------------- MODULE UsbLegacySmm -----------------------------
(***************************************************************************)
(* USB legacy support: the SMI handler of Platform/UsbLegacySmmHandler,    *)
(* and SmmInit of Platform/LegacyBiosPlatformProtocolDxe, which turns its  *)
(* SMIs on.  While the legacy OS has not taken a controller, its interrupt *)
(* transfers (the keyboard's) are served from SMM: a completed one raises  *)
(* an SMI, and the handler has the EHCI driver look for completed ones.    *)
(*                                                                         *)
(* The processors wait in SMM, but the controllers keep running: a status  *)
(* bit may be set between any two register accesses of the handler.        *)
(***************************************************************************)
EXTENDS Naturals

CONSTANTS
  Ehc0, Ehc1,     \* the controllers (00:1A.0 and 00:1D.0)
  MaxCallbacks    \* calls of the handler per SMI: it is registered twice

VARIABLES
  init,           \* where SmmInit is
  Flags,          \* mUsbLegacyInitProtocol->Flags & USB_LEGACY_ENABLED
  sts,            \* USB2STS of each controller: its set bits
  change,         \* LEGEXT_CS bit 29: SMI on OS ownership change, per controller
  enable,         \* LEGEXT_CS bits 0..15: the enabled SMIs
  osOwned,        \* LEGEXT_CAP: HC_OS_OWNERSHIP
  transfer,       \* the EHCI driver's interrupt transfer on each controller
  stopped,        \* StopEhciDxe was called for the controller
  pc,             \* where the handler is
  again,          \* calls of the handler left in this SMI
  seen,           \* what the handler last read: UsbSts0/1, UsbLegacyConSts0/1
  mEhc            \* the controller to look for completed transfers on

vars == <<init, Flags, sts, change, enable, osOwned, transfer, stopped, pc,
          again, seen, mEhc>>
hardware == <<sts, change, enable, osOwned, transfer>>

ASSUME ControllersAssumption == Ehc0 # Ehc1 /\ MaxCallbacks \in Nat \ {0}

-----------------------------------------------------------------------------
Controllers == {Ehc0, Ehc1}

(* BIT0 (USBINT) and the other interrupt bits of USB2STS, which bits 16-21 *)
(* of LEGEXT_CS shadow.                                                    *)
StatusBits == {"USBINT", "PORT_CHANGE"}
SmiSources == {"COMPLETE", "OWNERSHIP"}

(* A controller asks for an SMI.                                           *)
Requests(c) ==
  \/ "COMPLETE" \in enable[c] /\ "USBINT" \in sts[c]
  \/ "OWNERSHIP" \in enable[c] /\ change[c]
SmiPending == \E c \in Controllers : Requests(c)

NothingSeen == [c \in Controllers |-> {}]

(* The order the handler tests the controllers in.                         *)
FirstOf(S) == IF Ehc0 \in S THEN Ehc0 ELSE Ehc1

-----------------------------------------------------------------------------
(* SmmInit: start the EHCI, bus and keyboard drivers, enable the SMIs one  *)
(* register at a time, then set the flag.                                  *)

StartDrivers ==
  /\ init = "start" /\ pc = "off"
  /\ \/ init' = "complete0" /\ transfer' = [c \in Controllers |-> "queued"]
     \/ init' = "aborted" /\ UNCHANGED transfer
  /\ UNCHANGED <<Flags, sts, change, enable, osOwned, stopped, pc, again, seen, mEhc>>

(* PciOr32 of an enable bit writes LEGEXT_CS back, status bits included.   *)
EnableSmi(from, c, source, to) ==
  /\ init = from /\ pc = "off"
  /\ init' = to
  /\ enable' = [enable EXCEPT ![c] = @ \cup {source}]
  /\ change' = [change EXCEPT ![c] = FALSE]
  /\ UNCHANGED <<Flags, sts, osOwned, transfer, stopped, pc, again, seen, mEhc>>

SetFlag ==
  /\ init = "flag" /\ pc = "off"
  /\ init' = "ready"
  /\ Flags' = TRUE
  /\ UNCHANGED <<hardware, stopped, pc, again, seen, mEhc>>

SmmInit ==
  \/ StartDrivers
  \/ EnableSmi("complete0", Ehc0, "COMPLETE", "complete1")
  \/ EnableSmi("complete1", Ehc1, "COMPLETE", "owner0")
  \/ EnableSmi("owner0", Ehc0, "OWNERSHIP", "owner1")
  \/ EnableSmi("owner1", Ehc1, "OWNERSHIP", "flag")
  \/ SetFlag

-----------------------------------------------------------------------------
(* The controllers and the OS.                                             *)

Complete(c) ==
  /\ transfer[c] = "queued"
  /\ transfer' = [transfer EXCEPT ![c] = "done"]
  /\ sts' = [sts EXCEPT ![c] = @ \cup {"USBINT"}]
  /\ UNCHANGED <<init, Flags, change, enable, osOwned, stopped, pc, again, seen, mEhc>>

PortChange(c) ==
  /\ "PORT_CHANGE" \notin sts[c]
  /\ sts' = [sts EXCEPT ![c] = @ \cup {"PORT_CHANGE"}]
  /\ UNCHANGED <<init, Flags, change, enable, osOwned, transfer, stopped, pc,
                 again, seen, mEhc>>

(* The OS asks for a controller, once it has been booted.                  *)
OsTakes(c) ==
  /\ init \in {"ready", "aborted"} /\ pc = "off" /\ ~osOwned[c]
  /\ osOwned' = [osOwned EXCEPT ![c] = TRUE]
  /\ change' = [change EXCEPT ![c] = TRUE]
  /\ UNCHANGED <<init, Flags, sts, enable, transfer, stopped, pc, again, seen, mEhc>>

(* A transfer of the OS's own driver completes.                            *)
OsComplete(c) ==
  /\ stopped[c] /\ "USBINT" \notin sts[c]
  /\ sts' = [sts EXCEPT ![c] = @ \cup {"USBINT"}]
  /\ UNCHANGED <<init, Flags, change, enable, osOwned, transfer, stopped, pc,
                 again, seen, mEhc>>

-----------------------------------------------------------------------------
(* UsbLegacyDispatch                                                       *)

(* The SMI dispatcher calls the handler, for either registration.          *)
Smi ==
  /\ pc = "off" /\ SmiPending
  /\ pc' = "entry"
  /\ again' \in 0 .. MaxCallbacks - 1
  /\ UNCHANGED <<init, Flags, hardware, stopped, seen, mEhc>>

(* Mutant: the second registration is counted down past its end.           *)
ReturnUncounted ==
  /\ pc' = IF again > 0 THEN "entry" ELSE "off"
  /\ again' = again - 1
  /\ seen' = NothingSeen

Return ==
  /\ pc' = IF again > 0 THEN "entry" ELSE "off"
  /\ again' = IF again > 0 THEN again - 1 ELSE 0
  /\ seen' = NothingSeen

(* UsbLegacyConSts0 and UsbLegacyConSts1 are read.                         *)
Entry ==
  /\ pc = "entry"
  /\ pc' = IF \E c \in Controllers : change[c] THEN "ownership" ELSE "status"
  /\ seen' = [c \in Controllers |-> IF change[c] THEN {"OWNERSHIP"} ELSE {}]
  /\ UNCHANGED <<init, Flags, hardware, stopped, again, mEhc>>

(* Mutant: the flag stays.                                                 *)
FlagsKept == Flags

(* Flags &= ~USB_LEGACY_ENABLED                                            *)
FlagsAfterOwnershipChange == FALSE

(* Mutant: the request is left in LEGEXT_CS.                               *)
ChangeLeft(c) == change

(* Mutant: the requests of both controllers are cleared.                   *)
ChangesCleared(c) == [x \in Controllers |-> FALSE]

(* The three writes to LEGEXT_CS clear its status bits.                    *)
ChangeCleared(c) == [change EXCEPT ![c] = FALSE]

(* The controller this call deals with.                                    *)
Seen == FirstOf({c \in Controllers : seen[c] # {}})

(* One controller per call: if the OS asked for it, its driver is stopped  *)
(* and all its SMIs are disabled.                                          *)
OwnershipChange ==
  /\ pc = "ownership"
  /\ LET c == Seen
     IN  IF osOwned[c]
         THEN /\ stopped' = [stopped EXCEPT ![c] = TRUE]
              /\ transfer' = [transfer EXCEPT ![c] = "none"]
              /\ change' = ChangeCleared(c)
              /\ enable' = [enable EXCEPT ![c] = {}]
         ELSE UNCHANGED <<stopped, transfer, change, enable>>
  /\ Flags' = FlagsAfterOwnershipChange
  /\ Return
  /\ UNCHANGED <<init, sts, osOwned, mEhc>>

(* UsbSts0 and UsbSts1 are read from USB2STS.                              *)
ReadStatus ==
  /\ pc = "status"
  /\ seen' = sts
  /\ pc' = IF \E c \in Controllers : "USBINT" \in sts[c] THEN "acknowledge" ELSE "shadow"
  /\ UNCHANGED <<init, Flags, hardware, stopped, again, mEhc>>

(* Mutant: only the first controller's status is written back.             *)
AcknowledgedFirst == [sts EXCEPT ![Ehc0] = @ \ seen[Ehc0]]

(* Both are written back: a one clears the bit it is written to.           *)
Acknowledged == [c \in Controllers |-> sts[c] \ seen[c]]

Acknowledge ==
  /\ pc = "acknowledge"
  /\ sts' = Acknowledged
  /\ mEhc' = FirstOf({c \in Controllers : "USBINT" \in seen[c]})
  /\ IF Flags THEN pc' = "monitor" /\ UNCHANGED <<again, seen>> ELSE Return
  /\ UNCHANGED <<init, Flags, change, enable, osOwned, transfer, stopped>>

(* EhcMonitorAsyncRequests: the EHCI driver handles the completed transfers*)
(* of the controller and submits them again.                               *)
Monitor ==
  /\ pc = "monitor"
  /\ transfer' = [transfer EXCEPT ![mEhc] = IF @ = "done" THEN "queued" ELSE @]
  /\ Return
  /\ UNCHANGED <<init, Flags, sts, change, enable, osOwned, stopped, mEhc>>

(* Nothing was found: LEGEXT_CS is read once more, shadow bits included.   *)
ReadShadow ==
  /\ pc = "shadow"
  /\ seen' = [c \in Controllers |-> sts[c] \cup IF change[c] THEN {"OWNERSHIP"} ELSE {}]
  /\ pc' = "clear0"
  /\ UNCHANGED <<init, Flags, hardware, stopped, again, mEhc>>

(* PciOr32 and MmioOr32 write back what the register holds by then.        *)
ClearRequests(c) ==
  IF "OWNERSHIP" \in seen[c]
  THEN change' = [change EXCEPT ![c] = FALSE] /\ UNCHANGED sts
  ELSE IF seen[c] # {}
  THEN sts' = [sts EXCEPT ![c] = {}] /\ UNCHANGED change
  ELSE UNCHANGED <<sts, change>>

Clear0 ==
  /\ pc = "clear0" /\ pc' = "clear1"
  /\ ClearRequests(Ehc0)
  /\ UNCHANGED <<init, Flags, enable, osOwned, transfer, stopped, again, seen, mEhc>>

Clear1 ==
  /\ pc = "clear1"
  /\ ClearRequests(Ehc1)
  /\ Return
  /\ UNCHANGED <<init, Flags, enable, osOwned, transfer, stopped, mEhc>>

Handler ==
  \/ Entry \/ OwnershipChange \/ ReadStatus \/ Acknowledge \/ Monitor
  \/ ReadShadow \/ Clear0 \/ Clear1

-----------------------------------------------------------------------------
Init ==
  /\ init = "start" /\ Flags = FALSE
  /\ sts = [c \in Controllers |-> {}]
  /\ change = [c \in Controllers |-> FALSE]
  /\ enable = [c \in Controllers |-> {}]
  /\ osOwned = [c \in Controllers |-> FALSE]
  /\ transfer = [c \in Controllers |-> "none"]
  /\ stopped = [c \in Controllers |-> FALSE]
  /\ pc = "off" /\ again = 0 /\ seen = NothingSeen /\ mEhc = Ehc0

Next ==
  \/ SmmInit
  \/ \E c \in Controllers : Complete(c) \/ PortChange(c) \/ OsTakes(c) \/ OsComplete(c)
  \/ Smi
  \/ Handler

Spec == Init /\ [][Next]_vars

(* An SMI that stays pending is taken, and the handler keeps executing.    *)
FairSpec == Spec /\ WF_vars(Smi) /\ WF_vars(Handler)

-----------------------------------------------------------------------------
TypeOK ==
  /\ init \in {"start", "complete0", "complete1", "owner0", "owner1", "flag",
               "ready", "aborted"}
  /\ Flags \in BOOLEAN
  /\ sts \in [Controllers -> SUBSET StatusBits]
  /\ change \in [Controllers -> BOOLEAN]
  /\ enable \in [Controllers -> SUBSET SmiSources]
  /\ osOwned \in [Controllers -> BOOLEAN]
  /\ transfer \in [Controllers -> {"none", "queued", "done"}]
  /\ stopped \in [Controllers -> BOOLEAN]
  /\ pc \in {"off", "entry", "ownership", "status", "acknowledge", "monitor",
             "shadow", "clear0", "clear1"}
  /\ again \in 0 .. MaxCallbacks - 1
  /\ seen \in [Controllers -> SUBSET (StatusBits \cup {"OWNERSHIP"})]
  /\ mEhc \in Controllers
  /\ pc = "ownership" => \E c \in Controllers : seen[c] # {}

(* EhcMonitorAsyncRequests is never called for a controller whose driver   *)
(* has been stopped for the OS, though a status bit the OS's driver caused *)
(* makes the handler pick that controller.                                 *)
MonitorOnlyRunning == pc = "monitor" => Flags /\ \A c \in Controllers : ~stopped[c]

(* StopEhciDxe is called once for a controller, however many SMIs and      *)
(* calls per SMI the OS's request is seen in.                              *)
StoppedOnce ==
  [][OwnershipChange => ~stopped[Seen]]_vars

(* No SMI storm: whatever combination of sources raised it, the SMI        *)
(* request of a controller goes away.                                      *)
SmiEnds == \A c \in Controllers : Requests(c) ~> ~Requests(c)

(* Once SmmInit has enabled its SMIs, a controller the OS asks for is      *)
(* given up, also if the OS asks for both before the handler runs.         *)
HandoffHappens ==
  \A c \in Controllers : init = "ready" /\ osOwned[c] ~> stopped[c]

-----------------------------------------------------------------------------
(* UsbLegacySmmHandler.c:424 "handle interrupt with EhcMonitorAsync-       *)
(* Requests", after 416 "clear all UsbSts interrupt requests": a           *)
(* completion whose status bit was cleared is handled.                     *)
CompletionIsHandled ==
  pc = "monitor" => \A c \in Controllers :
    "USBINT" \in seen[c] /\ transfer[c] = "done" => c = mEhc
=============================================================================
