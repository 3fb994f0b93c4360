---------------------------- MODULE LegacyKeyboard ----------------------------
(***************************************************************************)
(* The keyboard of the legacy BIOS: Irq1 (Int 09) and Int16 of             *)
(* Platform/LegacyBiosRom/csm.n16 with kbd_func.inc and kbd_int16_func.inc,*)
(* and the USB key repeat, which the timer interrupt (Irq0 of rtc_func.inc)*)
(* runs from Int1c as an Int 09 of its own.                                *)
(*                                                                         *)
(* There is one processor.  Interrupts nest as the 8259 allows, so `stack' *)
(* holds the activations of the handlers and only the last one executes;   *)
(* the program that calls Int16 executes when it is empty.  A step is a    *)
(* run of instructions no interrupt can split in a way that is visible:    *)
(* a section between cli and sti, or accesses to one variable; only ktog,  *)
(* whose test and two updates are one step, is coarser than that.          *)
(*                                                                         *)
(* Left out: the other shift and toggle keys, which change flags as Caps   *)
(* Lock does; the E0 prefix; Pause, PrtSc, SysRq and Ctrl-Alt-Del; scan    *)
(* codes Int15 AH=4F takes; Int16 functions that do not touch the buffer.  *)
(***************************************************************************)
EXTENDS Naturals, Sequences, FiniteSets

CONSTANTS
  BufferSize,     \* words in the keyboard buffer (16, set up by the CSM driver)
  RepeatTicks,    \* ticks between repeats of a USB key (4)
  Retries,        \* of kb_send (3)
  MaxInputs       \* bound: key bytes, timer interrupts, USB keys and Int16 calls

ASSUME BufferAssumption == BufferSize \in Nat /\ BufferSize >= 2
ASSUME RepeatAssumption == RepeatTicks \in Nat \ {0} /\ Retries \in Nat \ {0}
ASSUME BoundAssumption == MaxInputs \in Nat

VARIABLES
  stack,          \* the active interrupt handlers, the executing one last
  isr,            \* 8259: interrupts in service
  irr,            \* 8259: a keyboard interrupt is requested
  kbc,            \* keyboard controller: the byte in its output buffer
  disabled,       \* keyboard controller: the keyboard is disabled
  reply,          \* the keyboard's answer to a command, not sent yet
  head, tail,     \* m_kbhead, m_kbtail: indices into the buffer
  cell,           \* the buffer
  capsLock,       \* m_kbf: kb_fcaps
  pressed,        \* m_kbf1: Caps Lock is pressed
  led,            \* m_kbf2: the LED state sent last
  kbf2,           \* m_kbf2: kb_fack, kb_fres and kb_fcled
  usbKey,         \* m_usb_key
  usbDelay,       \* m_usb_delay
  usbFlag,        \* usb_kbd_flag
  program,        \* the Int16 call the program is in
  inputs,         \* what has come from outside so far
  raced           \* history: two activations were in putbuf or kbrk at once

pic == <<isr, irr>>
controller == <<kbc, disabled, reply>>
ring == <<head, tail, cell>>
flags == <<capsLock, pressed, led, kbf2>>
usb == <<usbKey, usbDelay, usbFlag>>
vars == <<stack, pic, controller, ring, flags, usb, program, inputs, raced>>

-----------------------------------------------------------------------------
Nothing == "nothing"

(* Bytes from the keyboard: a key, one whose code only the extended Int16  *)
(* functions know, Caps Lock and its release, Ctrl-Break.                  *)
Scans == {"key", "F11", "caps", "caps up", "break"}
Answers == {"FA", "FE"}

(* Words in the buffer.                                                    *)
Codes == {"key", "F11", "break"}

(* kb_xlat sets the carry flag.                                            *)
Extended == {"F11"}

Indices == 0 .. BufferSize - 1

(* Mutant: the end of the buffer is not tested.                            *)
NextIndex(i) == i + 1

(* The index after i: at m_kbend it restarts at m_kbstart.                 *)
Following(i) == IF i + 1 = BufferSize THEN 0 ELSE i + 1

(* Mutant: the head is not compared.                                       *)
NeverFull == FALSE

BufferFull == Following(tail) = head

-----------------------------------------------------------------------------
(* Activations.  `key' is the byte, later the word to store; `di' the      *)
(* register putbuf keeps the old tail in; the rest belongs to kb_send.     *)

Activation(act, pc) ==
  [act |-> act, pc |-> pc, key |-> Nothing, di |-> 0, cmd |-> Nothing,
   tries |-> 0, mode |-> FALSE]

Running == stack # <<>>
Top == stack[Len(stack)]
At(pc) == Running /\ Top.pc = pc
Become(f) == stack' = [stack EXCEPT ![Len(stack)] = f]
GoTo(pc) == Become([Top EXCEPT !.pc = pc])
Push(f) == stack' = Append(stack, f)
Iret == stack' = SubSeq(stack, 1, Len(stack) - 1)

(* Int1c runs with interrupts disabled.                                    *)
InterruptsOn == ~At("repeat") /\ ~At("rearm")

(* The non-specific end of interrupt: the highest one in service.          *)
AfterEoi == IF 0 \in isr THEN isr \ {0} ELSE {}

(* An activation other than the executing one has begun to change the      *)
(* buffer.                                                                 *)
Contended ==
  \E i \in 1 .. Len(stack) - 1 : stack[i].pc \in {"store", "advance", "clear tail"}

-----------------------------------------------------------------------------
(* The keyboard, its controller, and the SMM driver of the USB keyboard.   *)

Input == inputs < MaxInputs /\ inputs' = inputs + 1

SendScan ==
  /\ kbc = Nothing /\ reply = Nothing /\ ~disabled
  /\ kbc' \in Scans
  /\ irr' = TRUE
  /\ Input
  /\ UNCHANGED <<stack, isr, disabled, reply, ring, flags, usb, program, raced>>

SendAnswer ==
  /\ kbc = Nothing /\ reply # Nothing
  /\ kbc' = reply
  /\ reply' = Nothing
  /\ irr' = TRUE
  /\ UNCHANGED <<stack, isr, disabled, ring, flags, usb, program, inputs, raced>>

(* A key is pressed or released.                                           *)
UsbKeyboard ==
  /\ Input
  /\ \/ usbKey = Nothing /\ usbKey' = "key" /\ usbDelay' \in 1 .. RepeatTicks
     \/ usbKey # Nothing /\ usbKey' = Nothing /\ UNCHANGED usbDelay
  /\ UNCHANGED <<stack, pic, controller, ring, flags, usbFlag, program, raced>>

TimerInterrupt ==
  /\ InterruptsOn /\ 0 \notin isr
  /\ isr' = isr \cup {0}
  /\ Input
  /\ Push(Activation("irq0", "tick"))
  /\ UNCHANGED <<irr, controller, ring, flags, usb, program, raced>>

KeyboardInterrupt ==
  /\ InterruptsOn /\ isr = {} /\ irr
  /\ isr' = {1}
  /\ irr' = FALSE
  /\ Push(Activation("irq1", "read"))
  /\ UNCHANGED <<controller, ring, flags, usb, program, inputs, raced>>

-----------------------------------------------------------------------------
(* Irq0: Int1c counts down to the next repeat of a held USB key and calls  *)
(* Int 09 for it.                                                          *)

Tick ==
  /\ At("tick")
  /\ IF usbKey = Nothing
     THEN GoTo("eoi") /\ UNCHANGED usbDelay
     ELSE IF usbDelay > 1
     THEN GoTo("eoi") /\ usbDelay' = usbDelay - 1
     ELSE GoTo("repeat") /\ UNCHANGED usbDelay
  /\ UNCHANGED <<pic, controller, ring, flags, usbKey, usbFlag, program, inputs, raced>>

(* m_usb_key is read again for the call: the key may have been released.   *)
Repeat ==
  /\ At("repeat")
  /\ stack' = Append([stack EXCEPT ![Len(stack)].pc = "rearm"],
                     [Activation("usb", "dispatch") EXCEPT !.key = usbKey])
  /\ usbFlag' = TRUE
  /\ UNCHANGED <<pic, controller, ring, flags, usbKey, usbDelay, program, inputs, raced>>

Rearm ==
  /\ At("rearm")
  /\ usbDelay' = RepeatTicks
  /\ GoTo("eoi")
  /\ UNCHANGED <<pic, controller, ring, flags, usbKey, usbFlag, program, inputs, raced>>

TickDone ==
  /\ At("eoi")
  /\ isr' = AfterEoi
  /\ Iret
  /\ UNCHANGED <<irr, controller, ring, flags, usb, program, inputs, raced>>

-----------------------------------------------------------------------------
(* Irq1: readchar.                                                         *)

(* Mutant: an update that is under way is not noticed.                     *)
LedsSame == capsLock = led

NoLedUpdate == capsLock = led \/ "updating" \in kbf2

(* A byte written to the keyboard: it may answer, and the controller       *)
(* enables it to.                                                          *)
Command ==
  /\ reply' \in Answers \cup {Nothing}
  /\ disabled' = FALSE

(* kb_send clears the answers before it writes the byte.                   *)
Cleared(bits) == bits \ {"ack", "res"}

(* The answer to a command only sets a flag.                               *)
ReadAnswer ==
  /\ At("read") /\ kbc \in Answers
  /\ kbc' = Nothing
  /\ kbf2' = kbf2 \cup {IF kbc = "FA" THEN "ack" ELSE "res"}
  /\ disabled' = usbFlag
  /\ isr' = IF usbFlag THEN isr ELSE AfterEoi
  /\ usbFlag' = FALSE
  /\ Iret
  /\ UNCHANGED <<irr, reply, ring, capsLock, pressed, led, usbKey, usbDelay, program,
                 inputs, raced>>

ReadKey ==
  /\ At("read") /\ kbc \in Scans /\ NoLedUpdate
  /\ kbc' = Nothing
  /\ disabled' = TRUE
  /\ Become([Top EXCEPT !.pc = "dispatch", !.key = kbc])
  /\ UNCHANGED <<pic, reply, ring, flags, usb, program, inputs, raced>>

(* setleds sends the end of interrupt first, so that the answers arrive.   *)
SetLeds ==
  /\ At("read") /\ kbc \in Scans /\ ~NoLedUpdate
  /\ kbc' = Nothing
  /\ isr' = AfterEoi
  /\ kbf2' = Cleared(kbf2) \cup {"updating"}
  /\ Command
  /\ Become([Top EXCEPT !.pc = "wait", !.key = kbc, !.cmd = "ED", !.tries = Retries,
                        !.mode = capsLock])
  /\ UNCHANGED <<irr, ring, capsLock, pressed, led, usb, program, inputs, raced>>

(* setleds is over.                                                        *)
LedsSent == [Top EXCEPT !.pc = "dispatch", !.cmd = Nothing, !.tries = 0, !.mode = FALSE]

(* Mutant: the retries are not counted.                                    *)
TriesUncounted == Top.tries

TriesLeft == Top.tries - 1

(* kb_send has been acknowledged: ED is followed by the mode byte.         *)
Acknowledged ==
  /\ At("wait") /\ "ack" \in kbf2 /\ "res" \notin kbf2
  /\ IF Top.cmd = "ED"
     THEN /\ kbf2' = Cleared(kbf2)
          /\ Command
          /\ Become([Top EXCEPT !.cmd = "mode", !.tries = Retries])
          /\ UNCHANGED led
     ELSE /\ led' = Top.mode
          /\ kbf2' = kbf2 \ {"updating"}
          /\ Become(LedsSent)
          /\ UNCHANGED <<reply, disabled>>
  /\ UNCHANGED <<pic, kbc, ring, capsLock, pressed, usb, program, inputs, raced>>

(* A resend, or no answer in time: the byte is written again, or the LED   *)
(* update is given up (kb_ferr, set and reset without an interrupt).       *)
Retry ==
  /\ At("wait") /\ ("res" \in kbf2 \/ "ack" \notin kbf2)
  /\ IF TriesLeft > 0
     THEN /\ kbf2' = Cleared(kbf2)
          /\ Command
          /\ Become([Top EXCEPT !.tries = TriesLeft])
     ELSE /\ kbf2' = kbf2 \ {"updating"}
          /\ Become(LedsSent)
          /\ UNCHANGED <<reply, disabled>>
  /\ UNCHANGED <<pic, kbc, ring, capsLock, pressed, led, usb, program, inputs, raced>>

-----------------------------------------------------------------------------
(* Irq1: the byte, from the keyboard or from m_usb_key, is dispatched.     *)

(* ktog: Caps Lock does not repeat.                                        *)
Toggle ==
  /\ At("dispatch") /\ Top.key \in {"caps", "caps up"}
  /\ pressed' = (Top.key = "caps")
  /\ capsLock' = IF Top.key = "caps" /\ ~pressed THEN ~capsLock ELSE capsLock
  /\ GoTo("end")
  /\ UNCHANGED <<pic, controller, ring, led, kbf2, usb, program, inputs, raced>>

(* kbrk clears the buffer, head before tail, and puts the break code in.   *)
ClearHead ==
  /\ At("dispatch") /\ Top.key = "break"
  /\ head' = 0
  /\ raced' = (raced \/ Contended)
  /\ GoTo("clear tail")
  /\ UNCHANGED <<pic, controller, tail, cell, flags, usb, program, inputs>>

ClearTail ==
  /\ At("clear tail")
  /\ tail' = 0
  /\ GoTo("put break")
  /\ UNCHANGED <<pic, controller, head, cell, flags, usb, program, inputs, raced>>

(* putbuf                                                                  *)
Putbuf ==
  /\ \/ At("dispatch") /\ Top.key \in {"key", "F11"}
     \/ At("put break")
  /\ ~BufferFull
  /\ Become([Top EXCEPT !.pc = "store", !.di = tail])
  /\ raced' = (raced \/ Contended)
  /\ UNCHANGED <<pic, controller, ring, flags, usb, program, inputs>>

StoreKey ==
  /\ At("store")
  /\ cell' = [cell EXCEPT ![Top.di] = Top.key]
  /\ GoTo("advance")
  /\ UNCHANGED <<pic, controller, head, tail, flags, usb, program, inputs, raced>>

AdvanceTail ==
  /\ At("advance")
  /\ tail' = Following(Top.di)
  /\ Become([Top EXCEPT !.pc = "end", !.di = 0])
  /\ UNCHANGED <<pic, controller, head, cell, flags, usb, program, inputs, raced>>

Exit(eoi) ==
  /\ isr' = IF eoi THEN AfterEoi ELSE isr
  /\ disabled' = (disabled /\ usbFlag)
  /\ usbFlag' = FALSE
  /\ Iret
  /\ UNCHANGED <<irr, kbc, reply, ring, flags, usbKey, usbDelay, program, inputs, raced>>

EndOfKey == At("end") /\ Exit(~usbFlag)

(* The buffer is full, or the scan code zero because the USB key has just  *)
(* been released: the end of interrupt is sent for a USB key as well.      *)
Overrun ==
  /\ At("dispatch")
  /\ Top.key = Nothing \/ (Top.key \in {"key", "F11"} /\ BufferFull)
  /\ Exit(TRUE)

(* kbrk ignores the error of putbuf.                                       *)
BreakDropped == At("put break") /\ BufferFull /\ Exit(~usbFlag)

Handler ==
  \/ Tick \/ Repeat \/ Rearm \/ TickDone
  \/ ReadAnswer \/ ReadKey \/ SetLeds \/ Acknowledged \/ Retry
  \/ Toggle \/ ClearHead \/ ClearTail
  \/ Putbuf \/ StoreKey \/ AdvanceTail
  \/ EndOfKey \/ Overrun \/ BreakDropped

-----------------------------------------------------------------------------
(* Int16.  Its accesses to the buffer are between cli and sti.             *)

(* AH=00 and AH=10 get a key, AH=01 checks for one.                        *)
Call ==
  /\ ~Running /\ program = "running"
  /\ Input
  /\ program' \in {"get", "extended get", "check"}
  /\ UNCHANGED <<stack, pic, controller, ring, flags, usb, raced>>

(* AH=05                                                                   *)
WriteKey ==
  /\ ~Running /\ program = "running"
  /\ ~BufferFull
  /\ Input
  /\ cell' = [cell EXCEPT ![tail] = "key"]
  /\ tail' = Following(tail)
  /\ UNCHANGED <<stack, pic, controller, head, flags, usb, program, raced>>

(* kb_getch, which waits for a key; AH=00 drops one it cannot translate,   *)
(* and AH=01 one it was told of.                                           *)
GetKey ==
  /\ ~Running /\ program \in {"get", "extended get", "skip"}
  /\ head # tail
  /\ head' = Following(head)
  /\ program' = CASE program = "skip" -> "check"
                  [] program = "get" /\ cell[head] \in Extended -> "get"
                  [] OTHER -> "running"
  /\ UNCHANGED <<stack, pic, controller, tail, cell, flags, usb, inputs, raced>>

(* kb_chk                                                                  *)
CheckKey ==
  /\ ~Running /\ program = "check"
  /\ program' = IF head # tail /\ cell[head] \in Extended THEN "skip" ELSE "running"
  /\ UNCHANGED <<stack, pic, controller, ring, flags, usb, inputs, raced>>

Int16 == Call \/ WriteKey \/ GetKey \/ CheckKey

-----------------------------------------------------------------------------
Init ==
  /\ stack = <<>> /\ isr = {} /\ irr = FALSE
  /\ kbc = Nothing /\ disabled = FALSE /\ reply = Nothing
  /\ head = 0 /\ tail = 0 /\ cell = [i \in Indices |-> Nothing]
  /\ capsLock = FALSE /\ pressed = FALSE /\ led = FALSE /\ kbf2 = {}
  /\ usbKey = Nothing /\ usbDelay = RepeatTicks /\ usbFlag = FALSE
  /\ program = "running" /\ inputs = 0 /\ raced = FALSE

Next ==
  \/ SendScan \/ SendAnswer \/ UsbKeyboard
  \/ TimerInterrupt \/ KeyboardInterrupt
  \/ Handler
  \/ Int16

Spec == Init /\ [][Next]_vars

(* The processor executes: the handler on top, and the program's call when *)
(* no handler is active.                                                   *)
FairSpec == Spec /\ WF_vars(Handler) /\ WF_vars(GetKey) /\ WF_vars(CheckKey)

-----------------------------------------------------------------------------
Frames ==
  [act : {"irq0", "irq1", "usb"},
   pc : {"tick", "repeat", "rearm", "eoi", "read", "wait", "dispatch", "clear tail",
         "put break", "store", "advance", "end"},
   key : Scans \cup Codes \cup {Nothing}, di : Indices,
   cmd : {"ED", "mode", Nothing}, tries : 0 .. Retries, mode : BOOLEAN]

TypeOK ==
  /\ stack \in Seq(Frames)
  /\ isr \in SUBSET {0, 1} /\ irr \in BOOLEAN
  /\ kbc \in Scans \cup Answers \cup {Nothing}
  /\ disabled \in BOOLEAN
  /\ reply \in Answers \cup {Nothing}
  /\ head \in Indices /\ tail \in Indices
  /\ cell \in [Indices -> Codes \cup {Nothing}]
  /\ capsLock \in BOOLEAN /\ pressed \in BOOLEAN /\ led \in BOOLEAN
  /\ kbf2 \in SUBSET {"ack", "res", "updating"}
  /\ usbKey \in {"key", Nothing} /\ usbDelay \in 1 .. RepeatTicks
  /\ usbFlag \in BOOLEAN /\ raced \in BOOLEAN
  /\ program \in {"running", "get", "extended get", "check", "skip"}
  /\ inputs \in 0 .. MaxInputs

(* However the handlers nest: when none is active, no interrupt is left in *)
(* service and the keyboard is enabled, so that keyboard and timer go on;  *)
(* and kb_fcled marks exactly one activation that waits for the keyboard's *)
(* answers: setleds, which has sent its end of interrupt, is not reentered *)
(* there, and the flag is not left set, which would end LED updates.       *)
NothingLeftInService ==
  /\ ~Running => isr = {} /\ ~disabled /\ ~usbFlag
  /\ Cardinality({i \in 1 .. Len(stack) : stack[i].pc = "wait"})
       = IF "updating" \in kbf2 THEN 1 ELSE 0

Clearing == \E i \in 1 .. Len(stack) : stack[i].pc = "clear tail"

(* The keys in the buffer; none while kbrk is between its two stores.      *)
Contents ==
  IF Clearing THEN <<>>
  ELSE [i \in 1 .. (tail + BufferSize - head) % BufferSize |->
          cell[(head + i - 1) % BufferSize]]

(* As long as no two activations are inside putbuf or kbrk at once, the    *)
(* buffer is a queue, however the handlers and Int16 interleave: a key is  *)
(* added behind the others, the first one is taken, or Ctrl-Break clears   *)
(* it; no key is overwritten, lost or seen twice.                          *)
BufferIsQueue ==
  [][~raced' =>
       \/ Contents' = Contents
       \/ \E k \in Codes : Contents' = Append(Contents, k)
       \/ Contents # <<>> /\ Contents' = Tail(Contents)
       \/ ClearHead /\ Contents' = <<>>]_vars

(* Every handler returns, also if the keyboard never answers a command;    *)
(* and Int16 AH=01 returns without a key to wait for, though it drops the  *)
(* codes it cannot translate with the function that waits.                 *)
HandlersReturn ==
  /\ Running ~> ~Running
  /\ program \in {"check", "skip"} /\ ~raced ~> program = "running" \/ raced

-----------------------------------------------------------------------------
(* kbd_func.inc:2 "put keystroke in buffer", 18 "clc ;ok": when putbuf has *)
(* advanced the tail, its key is behind the keys that were in the buffer.  *)
(* (kbrk clears it without a comment, so it is left out.)                  *)
PutKeystroke ==
  [][AdvanceTail /\ ~Clearing => Contents' = Append(Contents, Top.key)]_vars
=============================================================================
