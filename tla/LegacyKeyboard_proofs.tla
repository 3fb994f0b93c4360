------------------------ MODULE LegacyKeyboard_proofs ------------------------
(***************************************************************************)
(* Theorems about LegacyKeyboard, for every size of the buffer and however *)
(* deep the interrupt handlers nest.                                       *)
(***************************************************************************)
EXTENDS LegacyKeyboard, FiniteSetTheorems, SequenceTheorems, TLAPS

-----------------------------------------------------------------------------
(* Stacks.                                                                 *)

LEMMA BecomeStack ==
  ASSUME NEW S, stack \in Seq(S), Running, NEW f \in S, Become(f)
  PROVE  /\ stack' \in Seq(S) /\ Len(stack') = Len(stack) /\ Running'
         /\ stack'[Len(stack)] = f /\ Top' = f
         /\ \A i \in 1 .. Len(stack) - 1 : stack'[i] = stack[i]
BY DEF Become, Running, Top

LEMMA PushStack ==
  ASSUME NEW S, stack \in Seq(S), NEW f \in S, Push(f)
  PROVE  /\ stack' \in Seq(S) /\ Len(stack') = Len(stack) + 1 /\ Running'
         /\ stack'[Len(stack) + 1] = f /\ Top' = f
         /\ \A i \in 1 .. Len(stack) : stack'[i] = stack[i]
BY DEF Push, Running, Top

LEMMA IretStack ==
  ASSUME NEW S, stack \in Seq(S), Running, Iret
  PROVE  /\ stack' \in Seq(S) /\ Len(stack') = Len(stack) - 1
         /\ Running' <=> Len(stack) > 1
         /\ Running' => Top' = stack[Len(stack) - 1]
         /\ \A i \in 1 .. Len(stack) - 1 : stack'[i] = stack[i]
<1>1. Len(stack) \in Nat \ {0}
  BY DEF Running
<1>2. /\ stack' \in Seq(S) /\ Len(stack') = Len(stack) - 1
      /\ \A i \in 1 .. Len(stack) - 1 : stack'[i] = stack[i]
  <2> DEFINE n == Len(stack) - 1  rest == SubSeq(stack, 1, n)
  <2>1. n \in Nat /\ \A i \in 1 .. n : stack[i] \in S
    BY <1>1
  <2>2. /\ rest \in Seq(S) /\ Len(rest) = (IF 1 <= n THEN n - 1 + 1 ELSE 0)
        /\ \A i \in 1 .. n - 1 + 1 : rest[i] = stack[1 + i - 1]
    <3> HIDE DEF n
    <3> QED BY <2>1, SubSeqProperties
  <2>3. stack' = rest
    BY DEF Iret
  <2> HIDE DEF n, rest
  <2>4. Len(rest) = n /\ \A i \in 1 .. n : rest[i] = stack[i]
    BY <2>1, <2>2
  <2>5. stack' \in Seq(S) /\ Len(stack') = n /\ \A i \in 1 .. n : stack'[i] = stack[i]
    BY <2>2, <2>3, <2>4
  <2> QED BY <2>5 DEF n
<1>3. Running' <=> Len(stack) > 1
  BY <1>1, <1>2 DEF Running
<1>4. Running' => Top' = stack[Len(stack) - 1]
  <2>1. Top' = stack'[Len(stack) - 1]
    BY <1>2 DEF Top
  <2> QED BY <1>1, <1>2, <1>3, <2>1
<1> QED BY <1>2, <1>3, <1>4

LEMMA TopType ==
  ASSUME NEW S, stack \in Seq(S), Running
  PROVE  Len(stack) \in Nat \ {0} /\ Top \in S /\ Top = stack[Len(stack)]
BY DEF Running, Top

-----------------------------------------------------------------------------
(* The invariant.                                                          *)

(* What an activation of each handler can be doing, and with which byte.   *)
FrameOK(f) ==
  /\ f.act = "irq0" => f.pc \in {"tick", "repeat", "rearm", "eoi"}
  /\ f.act = "irq1" => f.pc \notin {"tick", "repeat", "rearm", "eoi"}
  /\ f.act = "usb" => /\ f.pc \in {"dispatch", "store", "advance", "end"}
                      /\ f.key \in {"key", Nothing}
  /\ f.pc \in {"store", "advance"} => f.key \in Codes
  /\ f.pc \in {"clear tail", "put break"} => f.key = "break"

(* No interrupt is accepted while the timer's is in service: above the     *)
(* timer handler stands at most the Int 09 it has called itself, and       *)
(* nothing above that; usb_kbd_flag is set just as long.                   *)
Nesting ==
  /\ \A i \in 1 .. Len(stack) : FrameOK(stack[i])
  /\ \A i \in 1 .. Len(stack) - 1 : stack[i].act # "usb" /\ stack[i].pc \notin {"tick", "repeat"}
  /\ Running /\ Top.act = "usb" => Len(stack) > 1 /\ stack[Len(stack) - 1].act = "irq0"
  /\ usbFlag <=> Running /\ Top.act = "usb"

(* Who is in service, and who will end it.                                 *)
Service ==
  /\ 0 \in isr => Running /\ Top.act # "irq1"
  /\ Running /\ (Top.act = "usb" \/ Top.pc \in {"tick", "repeat"}) => 0 \in isr
  /\ 1 \in isr \/ disabled => \E i \in 1 .. Len(stack) : stack[i].act = "irq1"

(* kb_fcled stands for the one activation that waits.                      *)
Updating ==
  /\ \A i, j \in 1 .. Len(stack) : stack[i].pc = "wait" /\ stack[j].pc = "wait" => i = j
  /\ "updating" \in kbf2 <=> \E i \in 1 .. Len(stack) : stack[i].pc = "wait"

Inv == TypeOK /\ Nesting /\ Service /\ Updating

LEMMA IndicesType == Indices \subseteq Nat /\ 0 \in Indices
BY BufferAssumption DEF Indices

LEMMA FollowingType == ASSUME NEW i \in Indices PROVE Following(i) \in Indices
BY BufferAssumption DEF Following, Indices

LEMMA InitInv == Init => Inv
<1> SUFFICES ASSUME Init PROVE Inv
  OBVIOUS
<1>1. TypeOK
  BY IndicesType, RepeatAssumption, BoundAssumption DEF Init, TypeOK, Nothing
<1>2. Nesting /\ Service /\ Updating
  BY DEF Init, Nesting, Service, Updating, Running
<1> QED
  BY <1>1, <1>2 DEF Inv

-----------------------------------------------------------------------------
(* Types.                                                                  *)

(* Each field of an activation has a value of its own set.                 *)
LEMMA FrameUpdates ==
  ASSUME NEW A, NEW P, NEW K, NEW D, NEW C, NEW T, NEW M,
         NEW f \in [act : A, pc : P, key : K, di : D, cmd : C, tries : T, mode : M],
         NEW pc \in P, NEW key \in K, NEW di \in D, NEW cmd \in C, NEW tries \in T, NEW mode \in M
  PROVE  LET Records == [act : A, pc : P, key : K, di : D, cmd : C, tries : T, mode : M]
         IN  /\ [f EXCEPT !.pc = pc] \in Records
             /\ [f EXCEPT !.key = key] \in Records
             /\ [f EXCEPT !.pc = pc, !.key = key] \in Records
             /\ [f EXCEPT !.pc = pc, !.di = di] \in Records
             /\ [f EXCEPT !.pc = pc, !.cmd = cmd, !.tries = tries, !.mode = mode] \in Records
             /\ [f EXCEPT !.pc = pc, !.key = key, !.cmd = cmd, !.tries = tries, !.mode = mode]
                  \in Records
             /\ [f EXCEPT !.cmd = cmd, !.tries = tries] \in Records
             /\ [f EXCEPT !.tries = tries] \in Records
OBVIOUS

LEMMA TriesType == 0 \in 0 .. Retries /\ Retries \in 0 .. Retries
BY RepeatAssumption

LEMMA ActivationType ==
  ASSUME NEW act \in {"irq0", "irq1", "usb"}, NEW pc \in {"tick", "read", "dispatch"},
         NEW key \in {"key", Nothing}
  PROVE  /\ Activation(act, pc) \in Frames
         /\ [Activation(act, pc) EXCEPT !.key = key] \in Frames
<1>1. Activation(act, pc) \in Frames
  BY IndicesType, TriesType DEF Activation, Frames
<1>2. key \in Scans \cup Codes \cup {Nothing}
  BY DEF Scans
<1> QED BY <1>1, <1>2, FrameUpdates DEF Frames

(* Whatever a handler does next, its activation stays one.                 *)
LEMMA FrameTypes ==
  ASSUME TypeOK, Running
  PROVE  /\ Top \in Frames
         /\ \A pc \in {"repeat", "rearm", "eoi", "dispatch", "clear tail", "put break", "store",
                        "advance", "end"} : [Top EXCEPT !.pc = pc] \in Frames
         /\ \A key \in Scans : [Top EXCEPT !.pc = "dispatch", !.key = key] \in Frames
         /\ \A key \in Scans, mode \in BOOLEAN :
              [Top EXCEPT !.pc = "wait", !.key = key, !.cmd = "ED", !.tries = Retries,
                          !.mode = mode] \in Frames
         /\ LedsSent \in Frames
         /\ [Top EXCEPT !.cmd = "mode", !.tries = Retries] \in Frames
         /\ TriesLeft > 0 => [Top EXCEPT !.tries = TriesLeft] \in Frames
         /\ \A i \in Indices : [Top EXCEPT !.pc = "store", !.di = i] \in Frames
         /\ [Top EXCEPT !.pc = "end", !.di = 0] \in Frames
<1>1. Top \in Frames
  BY TopType DEF TypeOK
<1>2. /\ LedsSent \in Frames
      /\ [Top EXCEPT !.cmd = "mode", !.tries = Retries] \in Frames
      /\ TriesLeft > 0 => [Top EXCEPT !.tries = TriesLeft] \in Frames
  <2>1. ASSUME TriesLeft > 0 PROVE TriesLeft \in 0 .. Retries
    <3>1. Top.tries \in 0 .. Retries
      BY <1>1 DEF Frames
    <3> QED BY <2>1, <3>1, RepeatAssumption DEF TriesLeft
  <2>2. LedsSent \in Frames
    BY <1>1, TriesType, FrameUpdates DEF Frames, LedsSent
  <2>3. [Top EXCEPT !.cmd = "mode", !.tries = Retries] \in Frames
    BY <1>1, TriesType, FrameUpdates DEF Frames
  <2>4. ASSUME TriesLeft > 0 PROVE [Top EXCEPT !.tries = TriesLeft] \in Frames
    BY <1>1, <2>1, <2>4, FrameUpdates DEF Frames
  <2> QED BY <2>2, <2>3, <2>4
<1>3. /\ \A i \in Indices : [Top EXCEPT !.pc = "store", !.di = i] \in Frames
      /\ [Top EXCEPT !.pc = "end", !.di = 0] \in Frames
  BY <1>1, IndicesType DEF Frames
<1>4. \A pc \in {"repeat", "rearm", "eoi", "dispatch", "clear tail", "put break", "store",
                 "advance", "end"} : [Top EXCEPT !.pc = pc] \in Frames
  BY <1>1 DEF Frames
<1>5. \A key \in Scans : [Top EXCEPT !.pc = "dispatch", !.key = key] \in Frames
  BY <1>1 DEF Frames
<1>6. ASSUME NEW key \in Scans, NEW mode \in BOOLEAN
      PROVE  [Top EXCEPT !.pc = "wait", !.key = key, !.cmd = "ED", !.tries = Retries,
                         !.mode = mode] \in Frames
  BY <1>1, <1>6, TriesType, FrameUpdates DEF Frames
<1> QED BY <1>1, <1>2, <1>3, <1>4, <1>5, <1>6

LEMMA TopFrame ==
  ASSUME TypeOK, Nesting, Running
  PROVE  /\ stack \in Seq(Frames) /\ Len(stack) \in Nat \ {0} /\ Len(stack) \in 1 .. Len(stack)
         /\ Top = stack[Len(stack)] /\ Top \in Frames /\ FrameOK(Top)
<1>1. stack \in Seq(Frames)
  BY DEF TypeOK
<1>2. Len(stack) \in Nat \ {0} /\ Top \in Frames /\ Top = stack[Len(stack)]
  BY <1>1, TopType
<1>3. Len(stack) \in 1 .. Len(stack)
  BY <1>2
<1> QED BY <1>1, <1>2, <1>3 DEF Nesting

LEMMA AfterEoiType == ASSUME isr \in SUBSET {0, 1} PROVE AfterEoi \in SUBSET {0, 1}
BY DEF AfterEoi

(* TypeOK in parts, so that a step looks only at those it can change.      *)
RingOK == head \in Indices /\ tail \in Indices /\ cell \in [Indices -> Codes \cup {Nothing}]
ServiceOK == isr \in SUBSET {0, 1}
DataOK ==
  /\ irr \in BOOLEAN
  /\ kbc \in Scans \cup Answers \cup {Nothing}
  /\ disabled \in BOOLEAN
  /\ reply \in Answers \cup {Nothing}
  /\ capsLock \in BOOLEAN /\ pressed \in BOOLEAN /\ led \in BOOLEAN
  /\ kbf2 \in SUBSET {"ack", "res", "updating"}
  /\ usbKey \in {"key", Nothing}
  /\ usbFlag \in BOOLEAN /\ raced \in BOOLEAN
  /\ program \in {"running", "get", "extended get", "check", "skip"}
StackOK == stack \in Seq(Frames)
DelayOK == usbDelay \in 1 .. RepeatTicks
InputsOK == inputs \in 0 .. MaxInputs

LEMMA TypeParts == TypeOK <=> StackOK /\ ServiceOK /\ RingOK /\ DataOK /\ DelayOK /\ InputsOK
BY DEF TypeOK, StackOK, ServiceOK, RingOK, DataOK, DelayOK, InputsOK

LEMMA TypePartsNext == TypeOK' <=> StackOK' /\ ServiceOK' /\ RingOK' /\ DataOK' /\ DelayOK' /\ InputsOK'
BY DEF TypeOK, StackOK, ServiceOK, RingOK, DataOK, DelayOK, InputsOK

LEMMA StackTypeStep == ASSUME TypeOK, [Next]_vars PROVE StackOK'
<1>1. stack \in Seq(Frames)
  BY DEF TypeOK
<1> USE DEF StackOK
<1>2. CASE TimerInterrupt \/ KeyboardInterrupt
  BY <1>1, <1>2, ActivationType, PushStack DEF TimerInterrupt, KeyboardInterrupt
<1>3. CASE Tick \/ Rearm
  <2>1. Running /\ (GoTo("eoi") \/ GoTo("repeat"))
    BY <1>3 DEF Tick, Rearm, At
  <2>2. [Top EXCEPT !.pc = "eoi"] \in Frames /\ [Top EXCEPT !.pc = "repeat"] \in Frames
    BY <2>1, FrameTypes
  <2> QED BY <1>1, <2>1, <2>2, BecomeStack DEF GoTo
<1>4. CASE Repeat
  <2>1. Running /\ [Top EXCEPT !.pc = "rearm"] \in Frames
    BY <1>4, FrameTypes DEF Repeat, At
  <2>2. [stack EXCEPT ![Len(stack)] = [Top EXCEPT !.pc = "rearm"]] \in Seq(Frames)
    BY <1>1, <2>1, TopType, ExceptSeq
  <2>3. [stack EXCEPT ![Len(stack)] = [Top EXCEPT !.pc = "rearm"]]
          = [stack EXCEPT ![Len(stack)].pc = "rearm"]
    BY <1>1, <2>1 DEF Top
  <2>4. [Activation("usb", "dispatch") EXCEPT !.key = usbKey] \in Frames
    BY ActivationType DEF TypeOK
  <2> QED BY <1>4, <2>2, <2>3, <2>4 DEF Repeat
<1>5. CASE TickDone \/ ReadAnswer
  BY <1>1, <1>5, IretStack DEF TickDone, ReadAnswer, At
<1>6. CASE ReadKey
  BY <1>1, <1>6, FrameTypes, BecomeStack DEF ReadKey, At
<1>7. CASE SetLeds
  BY <1>1, <1>7, FrameTypes, BecomeStack DEF SetLeds, At, TypeOK
<1>8. CASE Acknowledged
  BY <1>1, <1>8, FrameTypes, BecomeStack DEF Acknowledged, At
<1>9. CASE Retry
  BY <1>1, <1>9, FrameTypes, BecomeStack DEF Retry, At
<1>10. CASE Toggle \/ ClearHead \/ ClearTail \/ StoreKey
  BY <1>1, <1>10, FrameTypes, BecomeStack DEF Toggle, ClearHead, ClearTail, StoreKey, At, GoTo
<1>11. CASE Putbuf
  BY <1>1, <1>11, FrameTypes, BecomeStack DEF Putbuf, At, TypeOK
<1>12. CASE AdvanceTail
  BY <1>1, <1>12, FrameTypes, BecomeStack DEF AdvanceTail, At
<1>13. CASE EndOfKey \/ Overrun \/ BreakDropped
  BY <1>1, <1>13, IretStack DEF EndOfKey, Overrun, BreakDropped, Exit, At
<1>14. CASE SendScan \/ SendAnswer \/ UsbKeyboard \/ Int16 \/ UNCHANGED vars
  BY <1>1, <1>14
  DEF SendScan, SendAnswer, UsbKeyboard, Int16, Call, WriteKey, GetKey, CheckKey, vars
<1> QED
  BY <1>2, <1>3, <1>4, <1>5, <1>6, <1>7, <1>8, <1>9, <1>10, <1>11, <1>12, <1>13, <1>14
  DEF Next, Handler

LEMMA DelayTypeStep == ASSUME TypeOK, [Next]_vars PROVE DelayOK'
<1>1. \/ usbDelay' = usbDelay \/ usbDelay' \in 1 .. RepeatTicks \/ usbDelay' = RepeatTicks
      \/ usbDelay > 1 /\ usbDelay' = usbDelay - 1
  BY DEF Next, Handler, SendScan, SendAnswer, UsbKeyboard, TimerInterrupt, KeyboardInterrupt,
         Tick, Repeat, Rearm, TickDone, ReadAnswer, ReadKey, SetLeds, Acknowledged, Retry,
         Toggle, ClearHead, ClearTail, Putbuf, StoreKey, AdvanceTail, EndOfKey, Overrun,
         BreakDropped, Exit, Int16, Call, WriteKey, GetKey, CheckKey, usb, vars
<1>2. usbDelay \in 1 .. RepeatTicks
  BY DEF TypeOK
<1> QED BY <1>1, <1>2, RepeatAssumption DEF DelayOK

LEMMA InputsTypeStep == ASSUME TypeOK, [Next]_vars PROVE InputsOK'
<1>1. inputs' = inputs \/ Input
  BY DEF Next, Handler, SendScan, SendAnswer, UsbKeyboard, TimerInterrupt, KeyboardInterrupt,
         Tick, Repeat, Rearm, TickDone, ReadAnswer, ReadKey, SetLeds, Acknowledged, Retry,
         Toggle, ClearHead, ClearTail, Putbuf, StoreKey, AdvanceTail, EndOfKey, Overrun,
         BreakDropped, Exit, Int16, Call, WriteKey, GetKey, CheckKey, vars
<1>2. inputs \in 0 .. MaxInputs
  BY DEF TypeOK
<1> QED BY <1>1, <1>2, BoundAssumption DEF InputsOK, Input

LEMMA ServiceTypeStep == ASSUME TypeOK, [Next]_vars PROVE ServiceOK'
<1>1. isr' \in {isr, isr \cup {0}, {1}, AfterEoi}
  BY DEF Next, Handler, SendScan, SendAnswer, UsbKeyboard, TimerInterrupt, KeyboardInterrupt,
         Tick, Repeat, Rearm, TickDone, ReadAnswer, ReadKey, SetLeds, Acknowledged, Retry,
         Toggle, ClearHead, ClearTail, Putbuf, StoreKey, AdvanceTail, EndOfKey, Overrun,
         BreakDropped, Exit, Int16, Call, WriteKey, GetKey, CheckKey, pic, vars
<1> QED BY <1>1, AfterEoiType DEF TypeOK, ServiceOK

LEMMA RingTypeStep == ASSUME TypeOK, Nesting, [Next]_vars PROVE RingOK'
<1>1. RingOK
  BY TypeParts
<1>2. CASE UNCHANGED ring
  BY <1>1, <1>2 DEF RingOK, ring
<1>3. CASE ClearHead \/ ClearTail
  BY <1>1, <1>3, IndicesType DEF ClearHead, ClearTail, RingOK
<1>4. CASE StoreKey
  <2>1. FrameOK(Top) /\ Top.pc = "store"
    <3>1. Running /\ Top.pc = "store"
      BY <1>4 DEF StoreKey, At
    <3> QED BY <3>1, TopFrame
  <2>2. Top.key \in Codes
    BY <2>1 DEF FrameOK
  <2> QED BY <1>1, <1>4, <2>2 DEF StoreKey, RingOK
<1>5. CASE AdvanceTail
  <2>1. Top.di \in Indices
    <3>1. Top \in Frames
      BY <1>5, FrameTypes DEF AdvanceTail, At
    <3> QED BY <3>1 DEF Frames
  <2> QED BY <1>1, <1>5, <2>1, FollowingType DEF AdvanceTail, RingOK
<1>6. CASE WriteKey
  BY <1>1, <1>6, FollowingType DEF WriteKey, RingOK, Codes
<1>7. CASE GetKey
  BY <1>1, <1>7, FollowingType DEF GetKey, RingOK
<1>8. \/ UNCHANGED ring
      \/ ClearHead \/ ClearTail \/ StoreKey \/ AdvanceTail \/ WriteKey \/ GetKey
  BY DEF Next, Handler, SendScan, SendAnswer, UsbKeyboard, TimerInterrupt, KeyboardInterrupt,
         Tick, Repeat, Rearm, TickDone, ReadAnswer, ReadKey, SetLeds, Acknowledged, Retry,
         Toggle, Putbuf, EndOfKey, Overrun, BreakDropped, Exit, Int16, Call, CheckKey, vars
<1> QED BY <1>2, <1>3, <1>4, <1>5, <1>6, <1>7, <1>8

LEMMA DataTypeStep == ASSUME TypeOK, [Next]_vars PROVE DataOK'
<1>0. DataOK
  BY TypeParts
<1>1. CASE SendScan \/ SendAnswer \/ UsbKeyboard
  BY <1>0, <1>1 DEF DataOK, SendScan, SendAnswer, UsbKeyboard, pic, controller, flags, usb
<1>2. CASE TimerInterrupt \/ KeyboardInterrupt
  BY <1>0, <1>2 DEF DataOK, TimerInterrupt, KeyboardInterrupt, controller, flags, usb
<1>3. CASE Tick \/ Repeat \/ Rearm
  <2>1. CASE Repeat
    BY <1>0, <2>1 DEF DataOK, Repeat, pic, controller, flags
  <2>2. CASE Tick \/ Rearm
    <3>1. UNCHANGED <<pic, controller, flags, usbKey, usbFlag, program, raced>>
      BY <2>2 DEF Tick, Rearm
    <3> QED BY <1>0, <3>1 DEF DataOK, pic, controller, flags
  <2> QED BY <1>3, <2>1, <2>2
<1>4. CASE TickDone
  BY <1>0, <1>4 DEF DataOK, TickDone, controller, flags, usb
<1>5. CASE ReadAnswer
  BY <1>0, <1>5 DEF DataOK, ReadAnswer
<1>6. CASE ReadKey
  BY <1>0, <1>6 DEF DataOK, ReadKey, pic, flags, usb
<1>7. CASE SetLeds
  BY <1>0, <1>7 DEF DataOK, SetLeds, Command, Cleared, usb
<1>8. CASE Acknowledged
  <2>1. Top.mode \in BOOLEAN
    <3>1. Top \in Frames
      BY <1>8, FrameTypes DEF Acknowledged, At
    <3> QED BY <3>1 DEF Frames
  <2>2. /\ led' \in {led, Top.mode}
        /\ \/ reply' \in Answers \cup {Nothing} /\ disabled' = FALSE
           \/ UNCHANGED <<reply, disabled>>
        /\ kbf2' \subseteq kbf2
        /\ UNCHANGED <<irr, kbc, capsLock, pressed, usb, program, raced>>
    BY <1>8 DEF Acknowledged, Command, Cleared, pic
  <2>3. led' \in BOOLEAN /\ reply' \in Answers \cup {Nothing} /\ disabled' \in BOOLEAN
    BY <1>0, <2>1, <2>2 DEF DataOK
  <2> QED BY <1>0, <2>2, <2>3 DEF DataOK, usb
<1>9. CASE Retry
  BY <1>0, <1>9 DEF DataOK, Retry, Command, Cleared, pic, usb
<1>10. CASE Toggle
  BY <1>0, <1>10 DEF DataOK, Toggle, pic, controller, usb
<1>11. CASE ClearHead \/ ClearTail \/ Putbuf \/ StoreKey \/ AdvanceTail
  <2>1. UNCHANGED <<pic, controller, flags, usb, program>>
    BY <1>11 DEF ClearHead, ClearTail, Putbuf, StoreKey, AdvanceTail
  <2>2. raced' = raced \/ raced' = (raced \/ Contended)
    BY <1>11 DEF ClearHead, ClearTail, Putbuf, StoreKey, AdvanceTail
  <2>3. raced' \in BOOLEAN
    BY <1>0, <2>2 DEF DataOK
  <2> QED BY <1>0, <2>1, <2>3 DEF DataOK, pic, controller, flags, usb
<1>12. CASE EndOfKey \/ Overrun \/ BreakDropped
  BY <1>0, <1>12 DEF DataOK, EndOfKey, Overrun, BreakDropped, Exit, flags
<1>13. CASE Int16
  BY <1>0, <1>13
  DEF DataOK, Int16, Call, WriteKey, GetKey, CheckKey, pic, controller, flags, usb
<1>14. CASE UNCHANGED vars
  BY <1>0, <1>14 DEF DataOK, vars, pic, controller, flags, usb
<1> QED
  BY <1>1, <1>2, <1>3, <1>4, <1>5, <1>6, <1>7, <1>8, <1>9, <1>10, <1>11, <1>12, <1>13, <1>14
  DEF Next, Handler

LEMMA TypeStep == ASSUME TypeOK, Nesting, [Next]_vars PROVE TypeOK'
BY StackTypeStep, ServiceTypeStep, RingTypeStep, DataTypeStep, DelayTypeStep, InputsTypeStep,
   TypePartsNext

-----------------------------------------------------------------------------
(* How the handlers nest.                                                  *)

(* The handler on top goes on.                                             *)
LEMMA NestingBecome ==
  ASSUME TypeOK, Nesting, Running, NEW f \in Frames, Become(f),
         FrameOK(f), f.act = Top.act, UNCHANGED usbFlag
  PROVE  Nesting'
<1>1. stack \in Seq(Frames) /\ Len(stack) \in Nat \ {0} /\ Top = stack[Len(stack)]
  BY TopFrame
<1>2. /\ Len(stack') = Len(stack) /\ Running' /\ Top' = f /\ stack'[Len(stack)] = f
      /\ \A i \in 1 .. Len(stack) - 1 : stack'[i] = stack[i]
  BY <1>1, BecomeStack
<1>3. \A i \in 1 .. Len(stack') : FrameOK(stack'[i])
  <2>1. \A i \in 1 .. Len(stack) : i = Len(stack) \/ i \in 1 .. Len(stack) - 1
    BY <1>1
  <2>2. \A i \in 1 .. Len(stack) - 1 : i \in 1 .. Len(stack)
    BY <1>1
  <2> QED BY <1>2, <2>1, <2>2 DEF Nesting
<1>4. \A i \in 1 .. Len(stack') - 1 : stack'[i].act # "usb" /\ stack'[i].pc \notin {"tick", "repeat"}
  BY <1>2 DEF Nesting
<1>5. /\ Running' /\ Top'.act = "usb" => Len(stack') > 1 /\ stack'[Len(stack') - 1].act = "irq0"
      /\ usbFlag' <=> Running' /\ Top'.act = "usb"
  <2>1. Len(stack) > 1 => stack'[Len(stack) - 1] = stack[Len(stack) - 1]
    BY <1>1, <1>2
  <2> QED BY <1>2, <2>1 DEF Nesting
<1> QED BY <1>3, <1>4, <1>5 DEF Nesting

(* An interrupt: the handler under it is not the timer's before its end.   *)
LEMMA NestingPush ==
  ASSUME TypeOK, Nesting, NEW f \in Frames, Push(f), FrameOK(f), f.act # "usb",
         Running => Top.act # "usb" /\ Top.pc \notin {"tick", "repeat"}, UNCHANGED usbFlag
  PROVE  Nesting'
<1>0. stack \in Seq(Frames)
  BY DEF TypeOK
<1>1. stack \in Seq(Frames) /\ Len(stack) \in Nat
  BY <1>0
<1>2. /\ Len(stack') = Len(stack) + 1 /\ Running' /\ Top' = f /\ stack'[Len(stack) + 1] = f
      /\ \A i \in 1 .. Len(stack) : stack'[i] = stack[i]
  BY <1>1, PushStack
<1>3. \A i \in 1 .. Len(stack') : FrameOK(stack'[i])
  <2>1. \A i \in 1 .. Len(stack') : i = Len(stack) + 1 \/ i \in 1 .. Len(stack)
    BY <1>1, <1>2
  <2> QED BY <1>2, <2>1 DEF Nesting
<1>4. ASSUME NEW i \in 1 .. Len(stack') - 1
      PROVE  stack'[i].act # "usb" /\ stack'[i].pc \notin {"tick", "repeat"}
  <2>1. i \in 1 .. Len(stack) /\ stack'[i] = stack[i]
    BY <1>1, <1>2
  <2>2. CASE i \in 1 .. Len(stack) - 1
    BY <2>1, <2>2 DEF Nesting
  <2>3. CASE i = Len(stack)
    <3>1. Running /\ Top = stack[i]
      BY <1>1, <2>1, <2>3 DEF Running, Top
    <3> QED BY <2>1, <3>1
  <2> QED BY <1>1, <2>1, <2>2, <2>3
<1>5. /\ Running' /\ Top'.act = "usb" => Len(stack') > 1 /\ stack'[Len(stack') - 1].act = "irq0"
      /\ usbFlag' <=> Running' /\ Top'.act = "usb"
  BY <1>2 DEF Nesting
<1> QED BY <1>3, <1>4, <1>5 DEF Nesting

(* A handler returns, and has cleared usb_kbd_flag if it was set.          *)
LEMMA NestingIret ==
  ASSUME TypeOK, Nesting, Running, Iret, ~usbFlag'
  PROVE  Nesting'
<1>1. stack \in Seq(Frames) /\ Len(stack) \in Nat \ {0}
  BY TopFrame
<1>2. /\ Len(stack') = Len(stack) - 1
      /\ Running' <=> Len(stack) > 1
      /\ Running' => Top' = stack[Len(stack) - 1]
      /\ \A i \in 1 .. Len(stack) - 1 : stack'[i] = stack[i]
  BY <1>1, IretStack
<1>3. \A i \in 1 .. Len(stack') : FrameOK(stack'[i])
  <2>1. \A i \in 1 .. Len(stack) - 1 : i \in 1 .. Len(stack)
    BY <1>1
  <2> QED BY <1>2, <2>1 DEF Nesting
<1>4. \A i \in 1 .. Len(stack') - 1 : stack'[i].act # "usb" /\ stack'[i].pc \notin {"tick", "repeat"}
  <2>1. \A i \in 1 .. Len(stack') - 1 : i \in 1 .. Len(stack) - 1
    BY <1>1, <1>2
  <2> QED BY <1>2, <2>1 DEF Nesting
<1>5. Running' => Top'.act # "usb"
  <2>1. Len(stack) > 1 => Len(stack) - 1 \in 1 .. Len(stack) - 1
    BY <1>1
  <2> QED BY <1>2, <2>1 DEF Nesting
<1> QED BY <1>3, <1>4, <1>5 DEF Nesting

(* The timer handler calls Int 09 and stays under it.                      *)
LEMMA NestingRepeat ==
  ASSUME TypeOK, Nesting, Repeat
  PROVE  /\ Nesting'
         /\ Running' /\ Len(stack') = Len(stack) + 1
         /\ \A i \in 1 .. Len(stack) : stack'[i].act = stack[i].act
         /\ \A i \in 1 .. Len(stack) : stack[i].pc = "wait" <=> stack'[i].pc = "wait"
         /\ Top'.act = "usb" /\ Top'.pc = "dispatch" /\ stack'[Len(stack')] = Top'
         /\ \A i \in 1 .. Len(stack) - 1 : stack'[i] = stack[i]
         /\ stack'[Len(stack)].pc = "rearm"
<1> DEFINE f == [Top EXCEPT !.pc = "rearm"]
           u == [Activation("usb", "dispatch") EXCEPT !.key = usbKey]
           under == [stack EXCEPT ![Len(stack)] = f]
<1>1. /\ Running /\ Top.pc = "repeat" /\ stack \in Seq(Frames) /\ Len(stack) \in Nat \ {0}
      /\ Len(stack) \in 1 .. Len(stack) /\ Top = stack[Len(stack)] /\ Top \in Frames
      /\ FrameOK(Top)
  BY TopFrame DEF Repeat, At
<1>2. f \in Frames /\ f.act = Top.act /\ f.pc = "rearm"
  <2>1. f \in Frames
    BY <1>1, FrameTypes
  <2>2. f.act = Top.act /\ f.pc = "rearm"
    BY <1>1 DEF Frames
  <2> QED BY <2>1, <2>2
<1>3. u \in Frames /\ u.act = "usb" /\ u.pc = "dispatch" /\ u.key \in {"key", Nothing}
  BY ActivationType DEF TypeOK, Activation
<1>4. Top.act = "irq0"
  BY <1>1 DEF FrameOK, Frames
<1>5. FrameOK(f) /\ FrameOK(u)
  BY <1>2, <1>3, <1>4 DEF FrameOK
<1>6. /\ under \in Seq(Frames) /\ Len(under) = Len(stack)
      /\ \A i \in 1 .. Len(stack) : under[i] = IF i = Len(stack) THEN f ELSE stack[i]
  <2> HIDE DEF f
  <2> QED BY <1>1, <1>2, ExceptSeq
<1>7. stack' = Append(under, u) /\ usbFlag' = TRUE
  BY <1>1 DEF Repeat
<1> HIDE DEF under, f, u
<1>8. /\ Len(stack') = Len(stack) + 1 /\ stack'[Len(stack) + 1] = u
      /\ \A i \in 1 .. Len(stack) : stack'[i] = under[i]
  BY <1>3, <1>6, <1>7
<1>9. Running' /\ Top' = u
  BY <1>1, <1>8 DEF Running, Top
<1>10. stack'[Len(stack)] = f /\ \A i \in 1 .. Len(stack) - 1 : stack'[i] = stack[i]
  BY <1>1, <1>6, <1>8
<1>11. \A i \in 1 .. Len(stack') : i = Len(stack') \/ i = Len(stack) \/ i \in 1 .. Len(stack) - 1
  BY <1>1, <1>8
<1>12. \A i \in 1 .. Len(stack) - 1 : i \in 1 .. Len(stack)
  BY <1>1
<1>13. \A i \in 1 .. Len(stack') : FrameOK(stack'[i])
  BY <1>5, <1>8, <1>10, <1>11, <1>12 DEF Nesting
<1>14. ASSUME NEW i \in 1 .. Len(stack') - 1
       PROVE  stack'[i].act # "usb" /\ stack'[i].pc \notin {"tick", "repeat"}
  <2>1. i = Len(stack) \/ i \in 1 .. Len(stack) - 1
    BY <1>1, <1>8
  <2> QED BY <1>2, <1>4, <1>10, <2>1 DEF Nesting
<1>15. Len(stack') > 1 /\ stack'[Len(stack') - 1].act = "irq0"
  BY <1>1, <1>2, <1>4, <1>8, <1>10
<1>16. Nesting'
  BY <1>3, <1>7, <1>9, <1>13, <1>14, <1>15 DEF Nesting
<1>17. \A i \in 1 .. Len(stack) : i = Len(stack) \/ i \in 1 .. Len(stack) - 1
  BY <1>1
<1> QED
  BY <1>1, <1>2, <1>3, <1>8, <1>9, <1>10, <1>16, <1>17

-----------------------------------------------------------------------------
(* Who is in service, and who waits.                                       *)

LEMMA ServiceBecome ==
  ASSUME TypeOK, Nesting, Service, Running, NEW f \in Frames, Become(f), f.act = Top.act,
         0 \in isr' => 0 \in isr,
         f.act = "usb" \/ f.pc \in {"tick", "repeat"} => 0 \in isr',
         1 \in isr' \/ disabled' => 1 \in isr \/ disabled \/ f.act = "irq1"
  PROVE  Service'
<1>1. stack \in Seq(Frames) /\ Len(stack) \in 1 .. Len(stack) /\ Top = stack[Len(stack)]
  BY TopFrame
<1>2. /\ Len(stack') = Len(stack) /\ Running' /\ Top' = f /\ stack'[Len(stack)] = f
      /\ \A i \in 1 .. Len(stack) - 1 : stack'[i] = stack[i]
  BY <1>1, BecomeStack
<1>3. \A i \in 1 .. Len(stack) : i = Len(stack) \/ i \in 1 .. Len(stack) - 1
  BY <1>1
<1>4. \A i \in 1 .. Len(stack) : stack'[i].act = stack[i].act
  BY <1>1, <1>2, <1>3
<1> QED BY <1>1, <1>2, <1>4 DEF Service

LEMMA ServiceIret ==
  ASSUME TypeOK, Nesting, Nesting', Service, Running, Iret,
         0 \in isr' => Top.act = "usb",
         1 \in isr' \/ disabled' => (1 \in isr \/ disabled) /\ Top.act # "irq1"
  PROVE  Service'
<1>1. /\ stack \in Seq(Frames) /\ Len(stack) \in Nat \ {0} /\ Len(stack) \in 1 .. Len(stack)
      /\ Top = stack[Len(stack)]
  BY TopFrame
<1>2. /\ Len(stack') = Len(stack) - 1
      /\ Running' <=> Len(stack) > 1
      /\ Running' => Top' = stack[Len(stack) - 1]
      /\ \A i \in 1 .. Len(stack) - 1 : stack'[i] = stack[i]
  BY <1>1, IretStack
<1>3. \A i \in 1 .. Len(stack) : i = Len(stack) \/ i \in 1 .. Len(stack) - 1
  BY <1>1
<1>4. 0 \in isr' => Running' /\ Top'.act # "irq1"
  BY <1>2 DEF Nesting
<1>5. ~(Running' /\ (Top'.act = "usb" \/ Top'.pc \in {"tick", "repeat"}))
  <2>1. ASSUME Running' PROVE Top'.act # "usb" /\ Top'.pc \notin {"tick", "repeat"}
    <3>1. Len(stack) - 1 \in 1 .. Len(stack) - 1
      BY <1>1, <1>2, <2>1
    <3> QED BY <1>2, <2>1, <3>1 DEF Nesting
  <2> QED BY <2>1
<1>6. 1 \in isr' \/ disabled' => \E i \in 1 .. Len(stack') : stack'[i].act = "irq1"
  BY <1>1, <1>2, <1>3 DEF Service
<1> QED BY <1>4, <1>5, <1>6 DEF Service

LEMMA UpdatingBecome ==
  ASSUME TypeOK, Nesting, Updating, Running, NEW f \in Frames, Become(f),
         \/ (f.pc = "wait" <=> Top.pc = "wait") /\ ("updating" \in kbf2' <=> "updating" \in kbf2)
         \/ "updating" \notin kbf2 /\ f.pc = "wait" /\ "updating" \in kbf2'
         \/ Top.pc = "wait" /\ f.pc # "wait" /\ "updating" \notin kbf2'
  PROVE  Updating'
<1>1. stack \in Seq(Frames) /\ Len(stack) \in 1 .. Len(stack) /\ Top = stack[Len(stack)]
  BY TopFrame
<1>2. /\ Len(stack') = Len(stack) /\ stack'[Len(stack)] = f
      /\ \A i \in 1 .. Len(stack) - 1 : stack'[i] = stack[i]
  BY <1>1, BecomeStack
<1>3. \A i \in 1 .. Len(stack) : i = Len(stack) \/ i \in 1 .. Len(stack) - 1
  BY <1>1
<1>4. \A i \in 1 .. Len(stack) : i = Len(stack) \/ stack'[i] = stack[i]
  BY <1>2, <1>3
<1> QED BY <1>1, <1>2, <1>4 DEF Updating

(* One more activation that does not wait, or one fewer.                   *)
LEMMA UpdatingPush ==
  ASSUME stack \in Seq(Frames), stack' \in Seq(Frames), Updating, UNCHANGED kbf2,
         Len(stack') = Len(stack) + 1,
         \A i \in 1 .. Len(stack) : stack[i].pc = "wait" <=> stack'[i].pc = "wait",
         stack'[Len(stack')].pc # "wait"
  PROVE  Updating'
<1>1. Len(stack) \in Nat
  OBVIOUS
<1>2. \A i \in 1 .. Len(stack') : i = Len(stack') \/ i \in 1 .. Len(stack)
  BY <1>1
<1>3. \A i \in 1 .. Len(stack) : i \in 1 .. Len(stack')
  BY <1>1
<1> QED BY <1>2, <1>3 DEF Updating

LEMMA UpdatingIret ==
  ASSUME TypeOK, Nesting, Updating, Running, Iret, Top.pc # "wait",
         "updating" \in kbf2' <=> "updating" \in kbf2
  PROVE  Updating'
<1>1. stack \in Seq(Frames) /\ Len(stack) \in 1 .. Len(stack) /\ Top = stack[Len(stack)]
  BY TopFrame
<1>2. /\ Len(stack') = Len(stack) - 1
      /\ \A i \in 1 .. Len(stack) - 1 : stack'[i] = stack[i]
  BY <1>1, IretStack
<1>3. \A i \in 1 .. Len(stack) : i = Len(stack) \/ i \in 1 .. Len(stack) - 1
  BY <1>1
<1>4. \A i \in 1 .. Len(stack) - 1 : i \in 1 .. Len(stack)
  BY <1>1
<1> QED BY <1>1, <1>2, <1>3, <1>4 DEF Updating

-----------------------------------------------------------------------------
(* The steps.                                                              *)

Control == Nesting /\ Service /\ Updating

(* Which handler does what.                                                *)
LEMMA TopActs ==
  ASSUME TypeOK, Nesting, Running
  PROVE  /\ Top.pc \in {"tick", "repeat", "rearm", "eoi"} => Top.act = "irq0"
         /\ Top.pc \in {"read", "wait", "clear tail", "put break"} => Top.act = "irq1"
         /\ Top.pc \in {"dispatch", "store", "advance", "end"} => Top.act \in {"irq1", "usb"}
<1>1. Top \in Frames /\ FrameOK(Top)
  BY TopFrame
<1> QED BY <1>1 DEF FrameOK, Frames

(* A step of the handler on top that no other part of the control sees.    *)
LEMMA QuietStep ==
  ASSUME TypeOK, Control, Running, NEW f \in Frames, Become(f), FrameOK(f), f.act = Top.act,
         UNCHANGED <<isr, disabled, kbf2, usbFlag>>, f.pc # "wait", Top.pc # "wait",
         f.pc \in {"tick", "repeat"} => Top.pc \in {"tick", "repeat"}
  PROVE  Control'
<1>1. Nesting'
  BY NestingBecome DEF Control
<1>2. Service'
  <2>1. f.act = "usb" \/ f.pc \in {"tick", "repeat"} => 0 \in isr
    BY DEF Control, Service
  <2> QED BY <2>1, ServiceBecome DEF Control
<1>3. Updating'
  BY UpdatingBecome DEF Control
<1> QED BY <1>1, <1>2, <1>3 DEF Control

(* A step that leaves the stack alone.                                     *)
LEMMA OutsideStep ==
  ASSUME Control, UNCHANGED <<stack, isr, disabled, kbf2, usbFlag>>
  PROVE  Control'
BY DEF Control, Nesting, Service, Updating, Running, Top

LEMMA InterruptStep ==
  ASSUME TypeOK, Control, TimerInterrupt \/ KeyboardInterrupt
  PROVE  Control'
<1> DEFINE Interrupt(act, pc) ==
      /\ Push(Activation(act, pc)) /\ 0 \notin isr /\ UNCHANGED <<disabled, kbf2, usbFlag>>
      /\ isr' = IF act = "irq0" THEN isr \cup {0} ELSE {1}
<1>1. PICK act \in {"irq0", "irq1"}, pc \in {"tick", "read"} :
        /\ Interrupt(act, pc) /\ pc = IF act = "irq0" THEN "tick" ELSE "read"
  BY DEF TimerInterrupt, KeyboardInterrupt, controller, flags, usb
<1> DEFINE f == Activation(act, pc)
<1>2. f \in Frames /\ f.act = act /\ f.pc = pc /\ FrameOK(f)
  <2>1. f \in Frames
    BY ActivationType
  <2> QED BY <1>1, <2>1 DEF Activation, FrameOK
<1>3. Running => Top.act # "usb" /\ Top.pc \notin {"tick", "repeat"}
  BY <1>1 DEF Control, Service
<1>4. stack \in Seq(Frames)
  BY DEF TypeOK
<1> HIDE DEF f
<1>5. /\ stack' \in Seq(Frames) /\ Len(stack') = Len(stack) + 1 /\ Running'
      /\ stack'[Len(stack) + 1] = f /\ Top' = f
      /\ \A i \in 1 .. Len(stack) : stack'[i] = stack[i]
  BY <1>1, <1>2, <1>4, PushStack DEF f
<1>6. Nesting'
  BY <1>1, <1>2, <1>3, NestingPush DEF f, Control
<1>7. Service'
  <2>1. 1 \in isr' \/ disabled' => act = "irq1" \/ 1 \in isr \/ disabled
    BY <1>1
  <2>2. Len(stack') \in 1 .. Len(stack') /\ \A i \in 1 .. Len(stack) : i \in 1 .. Len(stack')
    BY <1>4, <1>5
  <2>3. 1 \in isr' \/ disabled' => \E i \in 1 .. Len(stack') : stack'[i].act = "irq1"
    BY <1>2, <1>5, <2>1, <2>2 DEF Control, Service
  <2>4. 0 \in isr' <=> act = "irq0"
    BY <1>1
  <2> QED BY <1>1, <1>2, <1>5, <2>3, <2>4 DEF Service
<1>8. Updating'
  BY <1>1, <1>2, <1>4, <1>5, UpdatingPush DEF Control
<1> QED BY <1>6, <1>7, <1>8 DEF Control

LEMMA TimerStep ==
  ASSUME TypeOK, Control, Tick \/ Repeat \/ Rearm \/ TickDone
  PROVE  Control'
<1>1. CASE Tick \/ Rearm
  <2>1. /\ Running /\ Top.pc \in {"tick", "rearm"}
        /\ UNCHANGED <<isr, disabled, kbf2, usbFlag>>
    BY <1>1 DEF Tick, Rearm, At, pic, controller, flags
  <2>2. PICK pc \in {"eoi", "repeat"} : GoTo(pc) /\ (pc = "repeat" => Top.pc = "tick")
    BY <1>1 DEF Tick, Rearm, At
  <2> DEFINE f == [Top EXCEPT !.pc = pc]
  <2>3. f \in Frames /\ Become(f)
    BY <2>1, <2>2, FrameTypes DEF GoTo
  <2>4. Top \in Frames /\ Top.act = "irq0"
    BY <2>1, TopFrame, TopActs DEF Control
  <2>5. f.act = Top.act /\ f.pc = pc
    BY <2>4 DEF Frames
  <2> HIDE DEF f
  <2>6. FrameOK(f)
    BY <2>4, <2>5 DEF FrameOK
  <2> QED BY <2>1, <2>2, <2>3, <2>5, <2>6, QuietStep
<1>2. CASE Repeat
  <2>1. stack \in Seq(Frames) /\ stack' \in Seq(Frames)
    <3>1. [Next]_vars
      BY <1>2 DEF Next, Handler
    <3> QED BY <3>1, StackTypeStep DEF TypeOK, StackOK
  <2>2. UNCHANGED <<isr, disabled, kbf2>> /\ Running /\ Top.pc = "repeat"
    BY <1>2 DEF Repeat, At, pic, controller, flags
  <2>3. /\ Nesting' /\ Running' /\ Len(stack') = Len(stack) + 1
        /\ \A i \in 1 .. Len(stack) : stack'[i].act = stack[i].act
        /\ \A i \in 1 .. Len(stack) : stack[i].pc = "wait" <=> stack'[i].pc = "wait"
        /\ Top'.act = "usb" /\ Top'.pc = "dispatch" /\ stack'[Len(stack')] = Top'
    BY <1>2, NestingRepeat DEF Control
  <2>4. \A i \in 1 .. Len(stack) : i \in 1 .. Len(stack')
    BY <2>1, <2>3
  <2>5. 0 \in isr
    BY <2>2 DEF Control, Service
  <2>6. Service'
    BY <2>2, <2>3, <2>4, <2>5 DEF Control, Service
  <2>7. Updating'
    BY <2>1, <2>2, <2>3, UpdatingPush DEF Control
  <2> QED BY <2>3, <2>6, <2>7 DEF Control
<1>3. CASE TickDone
  <2>1. /\ Running /\ Iret /\ Top.pc = "eoi" /\ isr' = AfterEoi
        /\ UNCHANGED <<disabled, kbf2, usbFlag>>
    BY <1>3 DEF TickDone, At, controller, flags, usb
  <2>2. Top.act = "irq0" /\ ~usbFlag
    <3>1. Top.act = "irq0"
      BY <2>1, TopActs DEF Control
    <3> QED BY <3>1 DEF Control, Nesting
  <2>3. Nesting'
    BY <2>1, <2>2, NestingIret DEF Control
  <2>4. 0 \notin isr' /\ (1 \in isr' => 1 \in isr)
    BY <2>1 DEF AfterEoi
  <2>5. Service'
    BY <2>1, <2>2, <2>3, <2>4, ServiceIret DEF Control
  <2>6. Updating'
    BY <2>1, UpdatingIret DEF Control
  <2> QED BY <2>3, <2>5, <2>6 DEF Control
<1> QED BY <1>1, <1>2, <1>3

(* Irq1 runs when the timer is not in service: its end of interrupt is its *)
(* own.                                                                    *)
LEMMA KeyboardEoi ==
  ASSUME TypeOK, Control, Running, Top.act = "irq1"
  PROVE  AfterEoi = {} /\ usbFlag = FALSE
<1>1. 0 \notin isr
  BY DEF Control, Service
<1>2. usbFlag = FALSE
  BY DEF Control, Nesting, TypeOK
<1> QED BY <1>1, <1>2 DEF AfterEoi

(* Any handler returns by Exit, from a point where it does not wait.       *)
LEMMA ExitStep ==
  ASSUME TypeOK, Control, Running, NEW eoi \in BOOLEAN, Exit(eoi),
         Top.act \in {"irq1", "usb"}, Top.act = "irq1" => eoi = TRUE, Top.pc # "wait"
  PROVE  Control'
<1>1. Iret /\ ~usbFlag' /\ UNCHANGED kbf2 /\ disabled' = (disabled /\ usbFlag)
      /\ isr' = IF eoi THEN AfterEoi ELSE isr
  BY DEF Exit, flags
<1>2. Nesting'
  BY <1>1, NestingIret DEF Control
<1>3. Updating'
  BY <1>1, UpdatingIret DEF Control
<1>4. CASE Top.act = "irq1"
  <2>1. isr' = {} /\ disabled' = FALSE
    BY <1>1, <1>4, KeyboardEoi
  <2>2. Service'
    BY <1>1, <1>2, <2>1, ServiceIret DEF Control
  <2> QED BY <1>2, <1>3, <2>2 DEF Control
<1>5. CASE Top.act = "usb"
  <2>1. (1 \in isr' => 1 \in isr) /\ (disabled' => disabled)
    BY <1>1 DEF AfterEoi
  <2>2. Service'
    BY <1>1, <1>2, <1>5, <2>1, ServiceIret DEF Control
  <2> QED BY <1>2, <1>3, <2>2 DEF Control
<1> QED BY <1>4, <1>5

LEMMA ReadStep ==
  ASSUME TypeOK, Control, ReadAnswer \/ ReadKey \/ SetLeds
  PROVE  Control'
<1>1. Running /\ Top.pc = "read" /\ Top.act = "irq1" /\ Top \in Frames
  <2>1. Running /\ Top.pc = "read"
    BY DEF ReadAnswer, ReadKey, SetLeds, At
  <2> QED BY <2>1, TopActs, TopFrame DEF Control
<1>2. AfterEoi = {} /\ usbFlag = FALSE
  BY <1>1, KeyboardEoi
<1>3. CASE ReadAnswer
  <2>1. /\ Iret /\ isr' = {} /\ disabled' = FALSE /\ ~usbFlag'
        /\ ("updating" \in kbf2' <=> "updating" \in kbf2)
    BY <1>2, <1>3 DEF ReadAnswer
  <2>2. Nesting'
    BY <1>1, <2>1, NestingIret DEF Control
  <2>3. Service'
    BY <1>1, <2>1, <2>2, ServiceIret DEF Control
  <2>4. Updating'
    BY <1>1, <2>1, UpdatingIret DEF Control
  <2> QED BY <2>2, <2>3, <2>4 DEF Control
<1>4. CASE ReadKey
  <2> DEFINE f == [Top EXCEPT !.pc = "dispatch", !.key = kbc]
  <2>1. Become(f) /\ f \in Frames /\ UNCHANGED <<isr, kbf2, usbFlag>>
    BY <1>1, <1>4, FrameTypes DEF ReadKey, pic, flags, usb
  <2>2. f.act = "irq1" /\ f.pc = "dispatch"
    BY <1>1 DEF Frames
  <2> HIDE DEF f
  <2>3. FrameOK(f)
    BY <2>2 DEF FrameOK
  <2>4. Nesting'
    BY <1>1, <2>1, <2>2, <2>3, NestingBecome DEF Control
  <2>5. Service'
    BY <1>1, <2>1, <2>2, ServiceBecome DEF Control
  <2>6. Updating'
    BY <1>1, <2>1, <2>2, UpdatingBecome DEF Control
  <2> QED BY <2>4, <2>5, <2>6 DEF Control
<1>5. CASE SetLeds
  <2> DEFINE f == [Top EXCEPT !.pc = "wait", !.key = kbc, !.cmd = "ED", !.tries = Retries,
                              !.mode = capsLock]
  <2>1. /\ Become(f) /\ UNCHANGED usbFlag /\ isr' = {} /\ disabled' = FALSE
        /\ "updating" \notin kbf2 /\ "updating" \in kbf2'
    BY <1>2, <1>5 DEF SetLeds, NoLedUpdate, Command, usb
  <2>2. f \in Frames
    BY <1>1, <1>5, FrameTypes DEF SetLeds, TypeOK
  <2>3. f.act = "irq1" /\ f.pc = "wait"
    BY <1>1 DEF Frames
  <2> HIDE DEF f
  <2>4. FrameOK(f)
    BY <2>3 DEF FrameOK
  <2>5. Nesting'
    BY <1>1, <2>1, <2>2, <2>3, <2>4, NestingBecome DEF Control
  <2>6. Service'
    BY <1>1, <2>1, <2>2, <2>3, ServiceBecome DEF Control
  <2>7. Updating'
    BY <1>1, <2>1, <2>2, <2>3, UpdatingBecome DEF Control
  <2> QED BY <2>5, <2>6, <2>7 DEF Control
<1> QED BY <1>3, <1>4, <1>5

(* kb_send: a byte written again or the mode byte, or setleds ends.        *)
LEMMA WaitStep ==
  ASSUME TypeOK, Control, Acknowledged \/ Retry
  PROVE  Control'
<1>1. Running /\ Top.pc = "wait" /\ Top.act = "irq1" /\ Top \in Frames
  <2>1. Running /\ Top.pc = "wait"
    BY DEF Acknowledged, Retry, At
  <2> QED BY <2>1, TopActs, TopFrame DEF Control
<1>2. UNCHANGED <<isr, usbFlag>> /\ (disabled' = disabled \/ disabled' = FALSE)
  BY DEF Acknowledged, Retry, Command, pic, usb
<1>3. PICK f \in Frames :
        /\ Become(f) /\ f.act = "irq1"
        /\ \/ f.pc = "wait" /\ ("updating" \in kbf2' <=> "updating" \in kbf2)
           \/ f.pc = "dispatch" /\ "updating" \notin kbf2'
  <2>1. [Top EXCEPT !.cmd = "mode", !.tries = Retries] \in Frames /\ LedsSent \in Frames
    BY <1>1, FrameTypes
  <2>2. /\ LedsSent.act = "irq1" /\ LedsSent.pc = "dispatch"
        /\ [Top EXCEPT !.cmd = "mode", !.tries = Retries].act = "irq1"
        /\ [Top EXCEPT !.cmd = "mode", !.tries = Retries].pc = "wait"
        /\ [Top EXCEPT !.tries = TriesLeft].act = "irq1"
        /\ [Top EXCEPT !.tries = TriesLeft].pc = "wait"
    BY <1>1 DEF Frames, LedsSent
  <2>3. CASE Acknowledged
    BY <2>1, <2>2, <2>3 DEF Acknowledged, Cleared
  <2>4. CASE Retry /\ TriesLeft > 0
    <3>1. [Top EXCEPT !.tries = TriesLeft] \in Frames
      BY <1>1, <2>4, FrameTypes
    <3>2. Become([Top EXCEPT !.tries = TriesLeft]) /\ kbf2' = Cleared(kbf2)
      BY <2>4 DEF Retry
    <3> QED BY <2>2, <3>1, <3>2 DEF Cleared
  <2>5. CASE Retry /\ ~(TriesLeft > 0)
    <3>1. Become(LedsSent) /\ kbf2' = kbf2 \ {"updating"}
      BY <2>5 DEF Retry
    <3> QED BY <2>1, <2>2, <3>1
  <2> QED BY <2>3, <2>4, <2>5
<1>4. FrameOK(f)
  BY <1>3 DEF FrameOK
<1>5. Nesting'
  BY <1>1, <1>2, <1>3, <1>4, NestingBecome DEF Control
<1>6. Service'
  BY <1>1, <1>2, <1>3, ServiceBecome DEF Control
<1>7. Updating'
  BY <1>1, <1>3, UpdatingBecome DEF Control
<1> QED BY <1>5, <1>6, <1>7 DEF Control

LEMMA KeyStep ==
  ASSUME TypeOK, Control, Toggle \/ ClearHead \/ ClearTail \/ Putbuf \/ StoreKey \/ AdvanceTail
  PROVE  Control'
<1>1. /\ Running /\ UNCHANGED <<isr, disabled, kbf2, usbFlag>>
      /\ Top.pc \in {"dispatch", "clear tail", "put break", "store", "advance"}
  BY DEF Toggle, ClearHead, ClearTail, Putbuf, StoreKey, AdvanceTail, At, pic, controller,
         flags, usb
<1>2. Top \in Frames /\ FrameOK(Top)
  BY <1>1, TopFrame DEF Control
<1>3. Top.act \in {"irq1", "usb"} /\ (Top.pc \in {"clear tail", "put break"} => Top.act = "irq1")
  BY <1>1, TopActs DEF Control
<1>4. PICK f \in Frames :
        /\ Become(f) /\ f.act = Top.act /\ f.key = Top.key
        /\ \/ f.pc = "end"
           \/ f.pc = "clear tail" /\ Top.pc = "dispatch" /\ Top.key = "break"
           \/ f.pc = "put break" /\ Top.pc = "clear tail"
           \/ f.pc = "store" /\ (Top.key \in {"key", "F11"} \/ Top.pc = "put break")
           \/ f.pc = "advance" /\ Top.pc = "store"
  <2>1. CASE Toggle \/ ClearHead \/ ClearTail \/ StoreKey
    <3>1. PICK pc \in {"end", "clear tail", "put break", "advance"} :
            /\ GoTo(pc)
            /\ \/ pc = "end"
               \/ pc = "clear tail" /\ Top.pc = "dispatch" /\ Top.key = "break"
               \/ pc = "put break" /\ Top.pc = "clear tail"
               \/ pc = "advance" /\ Top.pc = "store"
      BY <2>1 DEF Toggle, ClearHead, ClearTail, StoreKey, At
    <3> DEFINE g == [Top EXCEPT !.pc = pc]
    <3>2. g \in Frames /\ Become(g)
      BY <1>1, <3>1, FrameTypes DEF GoTo
    <3>3. g.act = Top.act /\ g.key = Top.key /\ g.pc = pc
      BY <1>2 DEF Frames
    <3> HIDE DEF g
    <3> QED BY <3>1, <3>2, <3>3
  <2>2. CASE Putbuf
    <3> DEFINE g == [Top EXCEPT !.pc = "store", !.di = tail]
    <3>1. g \in Frames /\ Become(g)
      BY <1>1, <2>2, FrameTypes DEF Putbuf, TypeOK
    <3>2. g.act = Top.act /\ g.key = Top.key /\ g.pc = "store"
      BY <1>2 DEF Frames
    <3>3. Top.key \in {"key", "F11"} \/ Top.pc = "put break"
      BY <2>2 DEF Putbuf, At
    <3> HIDE DEF g
    <3> QED BY <3>1, <3>2, <3>3
  <2>3. CASE AdvanceTail
    <3> DEFINE g == [Top EXCEPT !.pc = "end", !.di = 0]
    <3>1. g \in Frames /\ Become(g)
      BY <1>1, <2>3, FrameTypes DEF AdvanceTail
    <3>2. g.act = Top.act /\ g.key = Top.key /\ g.pc = "end"
      BY <1>2 DEF Frames
    <3> HIDE DEF g
    <3> QED BY <3>1, <3>2
  <2> QED BY <2>1, <2>2, <2>3
<1>5. FrameOK(f)
  BY <1>2, <1>3, <1>4 DEF FrameOK, Codes, Nothing
<1>6. f.pc \notin {"wait", "tick", "repeat"} /\ Top.pc # "wait"
  BY <1>1, <1>4
<1> QED BY <1>1, <1>4, <1>5, <1>6, QuietStep

LEMMA ReturnStep ==
  ASSUME TypeOK, Control, EndOfKey \/ Overrun \/ BreakDropped
  PROVE  Control'
<1>1. Running /\ Top.pc \in {"dispatch", "put break", "end"}
  BY DEF EndOfKey, Overrun, BreakDropped, At
<1>2. Top.act \in {"irq1", "usb"}
  BY <1>1, TopActs DEF Control
<1>3. Top.act = "irq1" => usbFlag = FALSE
  BY <1>1, KeyboardEoi
<1>4. CASE Overrun
  BY <1>1, <1>2, <1>4, ExitStep DEF Overrun
<1>5. CASE EndOfKey \/ BreakDropped
  <2>1. (~usbFlag) \in BOOLEAN /\ Exit(~usbFlag)
    BY <1>5 DEF EndOfKey, BreakDropped
  <2>2. Top.act = "irq1" => (~usbFlag) = TRUE
    BY <1>3
  <2> QED BY <1>1, <1>2, <2>1, <2>2, ExitStep
<1> QED BY <1>4, <1>5

LEMMA NextInv == Inv /\ [Next]_vars => Inv'
<1> SUFFICES ASSUME Inv, [Next]_vars PROVE Inv'
  OBVIOUS
<1>1. TypeOK /\ Control
  BY DEF Inv, Control
<1>2. TypeOK'
  BY <1>1, TypeStep DEF Control
<1>3. Control'
  <2>1. CASE SendScan \/ SendAnswer \/ UsbKeyboard \/ Int16 \/ UNCHANGED vars
    <3>1. UNCHANGED <<stack, isr, disabled, kbf2, usbFlag>>
      BY <2>1 DEF SendScan, SendAnswer, UsbKeyboard, Int16, Call, WriteKey, GetKey, CheckKey,
                  vars, pic, controller, flags, usb
    <3> QED BY <1>1, <3>1, OutsideStep
  <2>2. CASE TimerInterrupt \/ KeyboardInterrupt
    BY <1>1, <2>2, InterruptStep
  <2>3. CASE Tick \/ Repeat \/ Rearm \/ TickDone
    BY <1>1, <2>3, TimerStep
  <2>4. CASE ReadAnswer \/ ReadKey \/ SetLeds
    BY <1>1, <2>4, ReadStep
  <2>5. CASE Acknowledged \/ Retry
    BY <1>1, <2>5, WaitStep
  <2>6. CASE Toggle \/ ClearHead \/ ClearTail \/ Putbuf \/ StoreKey \/ AdvanceTail
    BY <1>1, <2>6, KeyStep
  <2>7. CASE EndOfKey \/ Overrun \/ BreakDropped
    BY <1>1, <2>7, ReturnStep
  <2> QED BY <2>1, <2>2, <2>3, <2>4, <2>5, <2>6, <2>7 DEF Next, Handler
<1> QED BY <1>2, <1>3 DEF Inv, Control

-----------------------------------------------------------------------------
LEMMA InvHolds == Spec => []Inv
BY InitInv, NextInv, PTL DEF Spec

(* Every variable keeps its type, for any size of the buffer.              *)
THEOREM TypeCorrect == Spec => []TypeOK
<1>1. Inv => TypeOK
  BY DEF Inv
<1> QED BY <1>1, InvHolds, PTL

(* When no handler is active none is in service and the keyboard is        *)
(* enabled; and kb_fcled counts the activations of setleds that wait.      *)
THEOREM ServiceCorrect == Spec => []NothingLeftInService
<1>1. Inv => NothingLeftInService
  <2> SUFFICES ASSUME Inv PROVE NothingLeftInService
    OBVIOUS
  <2> DEFINE Waiting == {i \in 1 .. Len(stack) : stack[i].pc = "wait"}
  <2>1. ASSUME ~Running PROVE isr = {} /\ ~disabled /\ ~usbFlag
    <3>1. Len(stack) = 0
      BY <2>1 DEF Running
    <3>2. 0 \notin isr /\ 1 \notin isr /\ ~disabled
      BY <2>1, <3>1 DEF Inv, Service
    <3>3. isr \in SUBSET {0, 1}
      BY DEF Inv, TypeOK
    <3> QED BY <2>1, <3>2, <3>3 DEF Inv, Nesting
  <2>2. Cardinality(Waiting) = IF "updating" \in kbf2 THEN 1 ELSE 0
    <3>1. CASE "updating" \in kbf2
      <4>1. PICK i \in Waiting : Waiting = {i}
        BY <3>1 DEF Inv, Updating
      <4> QED BY <3>1, <4>1, FS_Singleton
    <3>2. CASE "updating" \notin kbf2
      <4>1. Waiting = {}
        BY <3>2 DEF Inv, Updating
      <4> QED BY <3>2, <4>1, FS_EmptySet
    <3> QED BY <3>1, <3>2
  <2> QED BY <2>1, <2>2 DEF NothingLeftInService
<1> QED BY <1>1, InvHolds, PTL

-----------------------------------------------------------------------------
(* The buffer.                                                             *)

(* What lies in a ring between a head and a tail.                          *)
Queue(h, t, c) ==
  [i \in 1 .. (t + BufferSize - h) % BufferSize |-> c[(h + i - 1) % BufferSize]]

(* The same without remainders.                                            *)
Distance(h, t) == IF h <= t THEN t - h ELSE t + BufferSize - h
Slot(h, i) == IF h + i - 1 < BufferSize THEN h + i - 1 ELSE h + i - 1 - BufferSize

LEMMA Remainder ==
  ASSUME NEW n \in Nat, n < 2 * BufferSize
  PROVE  n % BufferSize = IF n < BufferSize THEN n ELSE n - BufferSize
<1> DEFINE q == n \div BufferSize  r == n % BufferSize
<1>1. BufferSize \in Nat \ {0}
  BY BufferAssumption
<1>2. q \in Nat /\ r \in 0 .. BufferSize - 1 /\ n = BufferSize * q + r
  BY <1>1
<1> HIDE DEF q, r
<1>3. q < 2
  <2>1. CASE q >= 2
    <3>1. BufferSize * q >= BufferSize * 2
      BY <1>1, <1>2, <2>1
    <3> QED BY <1>1, <1>2, <3>1
  <2> QED BY <1>2, <2>1
<1>4. q = 0 \/ q = 1
  BY <1>2, <1>3
<1>5. r = IF n < BufferSize THEN n ELSE n - BufferSize
  BY <1>1, <1>2, <1>4
<1> QED BY <1>5 DEF r

LEMMA QueueIs ==
  ASSUME NEW h \in Indices, NEW t \in Indices, NEW c
  PROVE  /\ Distance(h, t) \in 0 .. BufferSize - 1
         /\ Queue(h, t, c) = [i \in 1 .. Distance(h, t) |-> c[Slot(h, i)]]
         /\ \A i \in 1 .. Distance(h, t) : Slot(h, i) \in Indices /\ Slot(h, i) # t
<1>1. h \in 0 .. BufferSize - 1 /\ t \in 0 .. BufferSize - 1 /\ BufferSize \in Nat
  BY BufferAssumption DEF Indices
<1>2. Distance(h, t) \in 0 .. BufferSize - 1
  BY <1>1 DEF Distance
<1>3. (t + BufferSize - h) % BufferSize = Distance(h, t)
  <2>1. t + BufferSize - h \in Nat /\ t + BufferSize - h < 2 * BufferSize
    BY <1>1
  <2>2. (t + BufferSize - h) % BufferSize
          = IF t + BufferSize - h < BufferSize THEN t + BufferSize - h
            ELSE (t + BufferSize - h) - BufferSize
    BY <2>1, Remainder
  <2> QED BY <1>1, <2>2 DEF Distance
<1>4. ASSUME NEW i \in 1 .. Distance(h, t)
      PROVE  (h + i - 1) % BufferSize = Slot(h, i)
  <2> DEFINE m == h + i - 1
  <2>1. m \in Nat /\ m < 2 * BufferSize
    BY <1>1, <1>2
  <2>2. Slot(h, i) = IF m < BufferSize THEN m ELSE m - BufferSize
    BY <1>1, <1>2 DEF Slot
  <2> HIDE DEF m
  <2>3. m % BufferSize = Slot(h, i)
    BY <2>1, <2>2, Remainder
  <2> QED BY <2>3 DEF m
<1>5. ASSUME NEW i \in 1 .. Distance(h, t)
      PROVE  Slot(h, i) \in Indices /\ Slot(h, i) # t
  BY <1>1, <1>2 DEF Slot, Distance, Indices
<1> QED BY <1>2, <1>3, <1>4, <1>5 DEF Queue

(* A key behind the others.                                                *)
LEMMA QueueGrows ==
  ASSUME NEW h \in Indices, NEW t \in Indices, Following(t) # h,
         NEW S, NEW c \in [Indices -> S]
  PROVE  Queue(h, Following(t), c) = Append(Queue(h, t, c), c[t])
<1> DEFINE n == Distance(h, t)  q == Queue(h, t, c)  r == Queue(h, Following(t), c)
<1>1. h \in 0 .. BufferSize - 1 /\ t \in 0 .. BufferSize - 1 /\ BufferSize \in Nat
  BY BufferAssumption DEF Indices
<1>2. Following(t) \in Indices
  BY FollowingType
<1>3. Distance(h, Following(t)) = n + 1 /\ Slot(h, n + 1) = t
  BY <1>1 DEF Following, Distance, Slot
<1>4. n \in Nat /\ q = [i \in 1 .. n |-> c[Slot(h, i)]]
  BY QueueIs
<1>5. r = [i \in 1 .. n + 1 |-> c[Slot(h, i)]]
  BY <1>2, <1>3, QueueIs
<1>6. /\ \A i \in 1 .. n : c[Slot(h, i)] \in S
      /\ c[t] \in S
  BY QueueIs
<1> HIDE DEF n, q, r
<1>7. q \in Seq(S) /\ Len(q) = n
  BY <1>4, <1>6
<1>8. \A i \in 1 .. n + 1 : i = n + 1 \/ i \in 1 .. n
  BY <1>4
<1>9. r \in Seq(S) /\ Len(r) = n + 1
  <2>1. \A i \in 1 .. n + 1 : c[Slot(h, i)] \in S
    BY <1>3, <1>6, <1>8 DEF n
  <2> QED BY <1>4, <1>5, <2>1
<1>10. /\ Append(q, c[t]) \in Seq(S) /\ Len(Append(q, c[t])) = n + 1
       /\ \A i \in 1 .. n : Append(q, c[t])[i] = q[i]
       /\ Append(q, c[t])[n + 1] = c[t]
  BY <1>6, <1>7, AppendProperties
<1>11. \A i \in 1 .. n + 1 : r[i] = Append(q, c[t])[i]
  <2>1. \A i \in 1 .. n + 1 : r[i] = c[Slot(h, i)]
    BY <1>5
  <2>2. \A i \in 1 .. n : q[i] = c[Slot(h, i)]
    BY <1>4
  <2>3. r[n + 1] = c[t]
    BY <1>3, <1>4, <2>1 DEF n
  <2> QED BY <1>8, <1>10, <2>1, <2>2, <2>3
<1>12. r = Append(q, c[t])
  BY <1>9, <1>10, <1>11, SeqEqual
<1> QED BY <1>12 DEF q, r

(* The first key is taken.                                                 *)
LEMMA QueueShrinks ==
  ASSUME NEW h \in Indices, NEW t \in Indices, h # t,
         NEW S, NEW c \in [Indices -> S]
  PROVE  Queue(h, t, c) # << >> /\ Queue(Following(h), t, c) = Tail(Queue(h, t, c))
<1> DEFINE n == Distance(h, t)  q == Queue(h, t, c)  r == Queue(Following(h), t, c)
<1>1. h \in 0 .. BufferSize - 1 /\ t \in 0 .. BufferSize - 1 /\ BufferSize \in Nat
  BY BufferAssumption DEF Indices
<1>2. Following(h) \in Indices
  BY FollowingType
<1>3. n \in Nat \ {0} /\ Distance(Following(h), t) = n - 1
  BY <1>1 DEF Following, Distance
<1>4. \A i \in 1 .. n - 1 : Slot(Following(h), i) = Slot(h, i + 1)
  BY <1>1 DEF Following, Distance, Slot
<1>5. q = [i \in 1 .. n |-> c[Slot(h, i)]]
  BY QueueIs
<1>6. r = [i \in 1 .. n - 1 |-> c[Slot(Following(h), i)]]
  BY <1>2, <1>3, QueueIs
<1>7. /\ \A i \in 1 .. n : c[Slot(h, i)] \in S
      /\ \A i \in 1 .. n - 1 : c[Slot(Following(h), i)] \in S
  BY <1>2, <1>3, QueueIs
<1> HIDE DEF n, q, r
<1>8. q \in Seq(S) /\ Len(q) = n /\ r \in Seq(S) /\ Len(r) = n - 1
  BY <1>3, <1>5, <1>6, <1>7
<1>9. q # << >>
  BY <1>3, <1>8
<1>10. Tail(q) \in Seq(S) /\ Len(Tail(q)) = n - 1 /\ \A i \in 1 .. n - 1 : Tail(q)[i] = q[i + 1]
  BY <1>8, <1>9, HeadTailProperties
<1>11. \A i \in 1 .. n - 1 : r[i] = Tail(q)[i]
  <2>1. ASSUME NEW i \in 1 .. n - 1 PROVE r[i] = q[i + 1]
    <3>1. i + 1 \in 1 .. n
      BY <1>3
    <3> QED BY <1>4, <1>5, <1>6, <3>1
  <2> QED BY <1>10, <2>1
<1>12. r = Tail(q)
  BY <1>8, <1>10, <1>11, SeqEqual
<1> QED BY <1>9, <1>12 DEF q, r

(* The cell at the tail belongs to no key.                                 *)
LEMMA QueueKept ==
  ASSUME NEW h \in Indices, NEW t \in Indices, NEW c, NEW d,
         \A i \in Indices : i # t => d[i] = c[i]
  PROVE  Queue(h, t, d) = Queue(h, t, c)
<1>1. \A i \in 1 .. Distance(h, t) : d[Slot(h, i)] = c[Slot(h, i)]
  BY QueueIs
<1>2. Queue(h, t, d) = [i \in 1 .. Distance(h, t) |-> d[Slot(h, i)]]
  BY QueueIs
<1>3. Queue(h, t, c) = [i \in 1 .. Distance(h, t) |-> c[Slot(h, i)]]
  BY QueueIs
<1> QED BY <1>1, <1>2, <1>3

LEMMA QueueEmpty == ASSUME NEW c PROVE Queue(0, 0, c) = << >>
<1>1. 0 \in Indices /\ Distance(0, 0) = 0
  BY IndicesType DEF Distance
<1>2. Queue(0, 0, c) = [i \in 1 .. 0 |-> c[Slot(0, i)]]
  BY <1>1, QueueIs
<1> QED BY <1>2

-----------------------------------------------------------------------------
(* While no two activations are in putbuf or kbrk, the one that is there   *)
(* has the tail in its register, and there is room; the head is where kbrk *)
(* has put it.                                                             *)
Busy(f) == f.pc \in {"store", "advance", "clear tail"}
Alone ==
  /\ \A i, j \in 1 .. Len(stack) : Busy(stack[i]) /\ Busy(stack[j]) => i = j
  /\ \A i \in 1 .. Len(stack) :
       /\ stack[i].pc \in {"store", "advance"} => stack[i].di = tail /\ Following(tail) # head
       /\ stack[i].pc = "advance" => cell[tail] = stack[i].key
       /\ stack[i].pc = "clear tail" => head = 0
QueueInv == ~raced => Alone

BufferStep ==
  ~raced' => \/ Contents' = Contents
             \/ \E k \in Codes : Contents' = Append(Contents, k)
             \/ Contents # <<>> /\ Contents' = Tail(Contents)
             \/ ClearHead /\ Contents' = <<>>

(* The activations in putbuf and kbrk stay what they are.                  *)
BusyKept ==
  /\ \A i \in 1 .. Len(stack') : Busy(stack'[i]) => i \in 1 .. Len(stack) /\ stack[i] = stack'[i]
  /\ \A i \in 1 .. Len(stack) : Busy(stack[i]) => i \in 1 .. Len(stack') /\ stack'[i] = stack[i]

LEMMA ContentsIs == Contents = IF Clearing THEN << >> ELSE Queue(head, tail, cell)
BY DEF Contents, Queue

LEMMA ContentsNextIs == Contents' = IF Clearing' THEN << >> ELSE Queue(head', tail', cell')
BY DEF Contents, Queue

LEMMA KeptStep ==
  ASSUME QueueInv, BusyKept, UNCHANGED <<ring, raced>>
  PROVE  QueueInv' /\ BufferStep
<1>1. UNCHANGED <<head, tail, cell, raced>>
  BY DEF ring
<1>2. \A i \in 1 .. Len(stack') :
        Busy(stack'[i]) => i \in 1 .. Len(stack) /\ Busy(stack[i]) /\ stack[i] = stack'[i]
  BY DEF BusyKept
<1>3. Alone => Alone'
  BY <1>1, <1>2 DEF Alone, Busy
<1>4. Clearing' <=> Clearing
  BY DEF BusyKept, Clearing, Busy
<1>5. Contents' = Contents
  BY <1>1, <1>4, ContentsIs, ContentsNextIs
<1> QED BY <1>1, <1>3, <1>5 DEF QueueInv, BufferStep

LEMMA KeptBecome ==
  ASSUME TypeOK, Nesting, Running, NEW f \in Frames, Become(f), ~Busy(Top), ~Busy(f)
  PROVE  BusyKept
<1>1. stack \in Seq(Frames) /\ Len(stack) \in 1 .. Len(stack) /\ Top = stack[Len(stack)]
  BY TopFrame
<1>2. /\ Len(stack') = Len(stack) /\ stack'[Len(stack)] = f
      /\ \A i \in 1 .. Len(stack) - 1 : stack'[i] = stack[i]
  BY <1>1, BecomeStack
<1>3. \A i \in 1 .. Len(stack) : i = Len(stack) \/ i \in 1 .. Len(stack) - 1
  BY <1>1
<1> QED BY <1>1, <1>2, <1>3 DEF BusyKept

LEMMA KeptPush ==
  ASSUME TypeOK, NEW f \in Frames, Push(f), ~Busy(f)
  PROVE  BusyKept
<1>0. stack \in Seq(Frames)
  BY DEF TypeOK
<1>1. /\ Len(stack) \in Nat /\ Len(stack') = Len(stack) + 1 /\ stack'[Len(stack) + 1] = f
      /\ \A i \in 1 .. Len(stack) : stack'[i] = stack[i]
  BY <1>0, PushStack
<1>2. \A i \in 1 .. Len(stack') : i = Len(stack) + 1 \/ i \in 1 .. Len(stack)
  BY <1>1
<1>3. \A i \in 1 .. Len(stack) : i \in 1 .. Len(stack')
  BY <1>1
<1> QED BY <1>1, <1>2, <1>3 DEF BusyKept

LEMMA KeptIret ==
  ASSUME TypeOK, Nesting, Running, Iret, ~Busy(Top)
  PROVE  BusyKept
<1>1. /\ stack \in Seq(Frames) /\ Len(stack) \in Nat \ {0} /\ Len(stack) \in 1 .. Len(stack)
      /\ Top = stack[Len(stack)]
  BY TopFrame
<1>2. /\ Len(stack') = Len(stack) - 1
      /\ \A i \in 1 .. Len(stack) - 1 : stack'[i] = stack[i]
  BY <1>1, IretStack
<1>3. \A i \in 1 .. Len(stack) : i = Len(stack) \/ i \in 1 .. Len(stack) - 1
  BY <1>1
<1>4. \A i \in 1 .. Len(stack) - 1 : i \in 1 .. Len(stack)
  BY <1>1
<1> QED BY <1>1, <1>2, <1>3, <1>4 DEF BusyKept

(* The handler on top, with no other in putbuf or kbrk.                    *)
LEMMA SoleStep ==
  ASSUME TypeOK, Nesting, Running, NEW f \in Frames, Become(f),
         \A i \in 1 .. Len(stack) - 1 : ~Busy(stack[i])
  PROVE  /\ \A i \in 1 .. Len(stack') : Busy(stack'[i]) => i = Len(stack) /\ stack'[i] = f
         /\ Clearing <=> Top.pc = "clear tail"
         /\ Clearing' <=> f.pc = "clear tail"
<1>1. stack \in Seq(Frames) /\ Len(stack) \in 1 .. Len(stack) /\ Top = stack[Len(stack)]
  BY TopFrame
<1>2. /\ Len(stack') = Len(stack) /\ stack'[Len(stack)] = f
      /\ \A i \in 1 .. Len(stack) - 1 : stack'[i] = stack[i]
  BY <1>1, BecomeStack
<1>3. \A i \in 1 .. Len(stack) : i = Len(stack) \/ i \in 1 .. Len(stack) - 1
  BY <1>1
<1> QED BY <1>1, <1>2, <1>3 DEF Clearing, Busy

LEMMA SoleTop ==
  ASSUME TypeOK, Nesting, Running, Busy(Top), Alone
  PROVE  /\ \A i \in 1 .. Len(stack) - 1 : ~Busy(stack[i])
         /\ Top.pc \in {"store", "advance"} => Top.di = tail /\ Following(tail) # head
         /\ Top.pc = "advance" => cell[tail] = Top.key
         /\ Top.pc = "clear tail" => head = 0
<1>1. stack \in Seq(Frames) /\ Len(stack) \in 1 .. Len(stack) /\ Top = stack[Len(stack)]
  BY TopFrame
<1>2. \A i \in 1 .. Len(stack) - 1 : i \in 1 .. Len(stack) /\ i # Len(stack)
  BY <1>1
<1> QED BY <1>1, <1>2 DEF Alone

LEMMA PutbufStep ==
  ASSUME TypeOK, Nesting, QueueInv, Putbuf
  PROVE  QueueInv' /\ BufferStep
<1> SUFFICES ASSUME ~raced' PROVE Alone' /\ Contents' = Contents
  BY DEF QueueInv, BufferStep
<1> DEFINE f == [Top EXCEPT !.pc = "store", !.di = tail]
<1>1. /\ Running /\ Top.pc \in {"dispatch", "put break"} /\ Following(tail) # head
      /\ Become(f) /\ ~Contended /\ UNCHANGED <<head, tail, cell>>
  BY DEF Putbuf, At, BufferFull, ring
<1>2. f \in Frames
  BY <1>1, FrameTypes DEF TypeOK
<1>3. f.pc = "store" /\ f.di = tail
  <2>1. Top \in Frames
    BY <1>1, TopFrame
  <2> QED BY <2>1 DEF Frames
<1>4. \A i \in 1 .. Len(stack) - 1 : ~Busy(stack[i])
  BY <1>1 DEF Contended, Busy
<1> HIDE DEF f
<1>5. /\ \A i \in 1 .. Len(stack') : Busy(stack'[i]) => i = Len(stack) /\ stack'[i] = f
      /\ ~Clearing /\ ~Clearing'
  BY <1>1, <1>2, <1>3, <1>4, SoleStep
<1>6. Alone'
  BY <1>1, <1>3, <1>5 DEF Alone, Busy
<1>7. Contents' = Contents
  BY <1>1, <1>5, ContentsIs, ContentsNextIs
<1> QED BY <1>6, <1>7

LEMMA StoreStep ==
  ASSUME TypeOK, Nesting, QueueInv, StoreKey
  PROVE  QueueInv' /\ BufferStep
<1> SUFFICES ASSUME ~raced' PROVE Alone' /\ Contents' = Contents
  BY DEF QueueInv, BufferStep
<1> DEFINE f == [Top EXCEPT !.pc = "advance"]
<1>1. /\ Running /\ Top.pc = "store" /\ Become(f) /\ Alone
      /\ cell' = [cell EXCEPT ![Top.di] = Top.key] /\ UNCHANGED <<head, tail>>
  BY DEF StoreKey, At, GoTo, QueueInv
<1>2. f \in Frames
  BY <1>1, FrameTypes
<1>3. f.pc = "advance" /\ f.di = Top.di /\ f.key = Top.key
  <2>1. Top \in Frames
    BY <1>1, TopFrame
  <2> QED BY <2>1 DEF Frames
<1>4. Busy(Top)
  BY <1>1 DEF Busy
<1>5. /\ \A i \in 1 .. Len(stack) - 1 : ~Busy(stack[i])
      /\ Top.di = tail /\ Following(tail) # head
  BY <1>1, <1>4, SoleTop
<1>6. tail \in Indices /\ head \in Indices /\ cell \in [Indices -> Codes \cup {Nothing}]
  BY TypeParts DEF RingOK
<1> HIDE DEF f
<1>7. /\ \A i \in 1 .. Len(stack') : Busy(stack'[i]) => i = Len(stack) /\ stack'[i] = f
      /\ ~Clearing /\ ~Clearing'
  BY <1>1, <1>2, <1>3, <1>5, SoleStep
<1>8. cell'[tail] = f.key
  BY <1>1, <1>3, <1>5, <1>6
<1>9. Alone'
  BY <1>1, <1>3, <1>5, <1>7, <1>8 DEF Alone, Busy
<1>10. Queue(head, tail, cell') = Queue(head, tail, cell)
  <2>1. \A i \in Indices : i # tail => cell'[i] = cell[i]
    BY <1>1, <1>5, <1>6
  <2> QED BY <1>6, <2>1, QueueKept
<1>11. Contents' = Contents
  BY <1>1, <1>7, <1>10, ContentsIs, ContentsNextIs
<1> QED BY <1>9, <1>11

LEMMA AdvanceStep ==
  ASSUME TypeOK, Nesting, QueueInv, AdvanceTail
  PROVE  QueueInv' /\ BufferStep
<1> SUFFICES ASSUME ~raced'
             PROVE  Alone' /\ \E k \in Codes : Contents' = Append(Contents, k)
  BY DEF QueueInv, BufferStep
<1> DEFINE f == [Top EXCEPT !.pc = "end", !.di = 0]
<1>1. /\ Running /\ Top.pc = "advance" /\ Become(f) /\ Alone
      /\ tail' = Following(Top.di) /\ UNCHANGED <<head, cell>>
  BY DEF AdvanceTail, At, QueueInv
<1>2. f \in Frames
  BY <1>1, FrameTypes
<1>3. Top \in Frames /\ FrameOK(Top)
  BY <1>1, TopFrame
<1>4. f.pc = "end" /\ Top.key \in Codes
  BY <1>1, <1>3 DEF Frames, FrameOK
<1>5. Busy(Top)
  BY <1>1 DEF Busy
<1>6. /\ \A i \in 1 .. Len(stack) - 1 : ~Busy(stack[i])
      /\ Top.di = tail /\ Following(tail) # head /\ cell[tail] = Top.key
  BY <1>1, <1>5, SoleTop
<1>7. tail \in Indices /\ head \in Indices /\ cell \in [Indices -> Codes \cup {Nothing}]
  BY TypeParts DEF RingOK
<1> HIDE DEF f
<1>8. /\ \A i \in 1 .. Len(stack') : Busy(stack'[i]) => i = Len(stack) /\ stack'[i] = f
      /\ ~Clearing /\ ~Clearing'
  BY <1>1, <1>2, <1>4, <1>6, SoleStep
<1>9. Alone'
  <2>1. \A i \in 1 .. Len(stack') : ~Busy(stack'[i])
    BY <1>4, <1>8 DEF Busy
  <2> QED BY <2>1 DEF Alone, Busy
<1>10. Contents' = Append(Contents, cell[tail])
  BY <1>1, <1>6, <1>7, <1>8, QueueGrows, ContentsIs, ContentsNextIs
<1> QED BY <1>4, <1>6, <1>9, <1>10

(* kbrk: cleared from the first store on.                                  *)
LEMMA ClearStep ==
  ASSUME TypeOK, Nesting, QueueInv, ClearHead \/ ClearTail
  PROVE  QueueInv' /\ BufferStep
<1> SUFFICES ASSUME ~raced'
             PROVE  /\ Alone'
                    /\ Contents' = << >> /\ (ClearHead \/ Contents = << >>)
  BY DEF QueueInv, BufferStep
<1>1. CASE ClearHead
  <2> DEFINE f == [Top EXCEPT !.pc = "clear tail"]
  <2>1. Running /\ Top.pc = "dispatch" /\ Become(f) /\ ~Contended /\ head' = 0
    BY <1>1 DEF ClearHead, At, GoTo
  <2>2. f \in Frames
    BY <2>1, FrameTypes
  <2>3. f.pc = "clear tail"
    <3>1. Top \in Frames
      BY <2>1, TopFrame
    <3> QED BY <3>1 DEF Frames
  <2>4. \A i \in 1 .. Len(stack) - 1 : ~Busy(stack[i])
    BY <2>1 DEF Contended, Busy
  <2> HIDE DEF f
  <2>5. /\ \A i \in 1 .. Len(stack') : Busy(stack'[i]) => i = Len(stack) /\ stack'[i] = f
        /\ Clearing'
    BY <2>1, <2>2, <2>3, <2>4, SoleStep
  <2>6. Alone'
    BY <2>1, <2>3, <2>5 DEF Alone, Busy
  <2> QED BY <1>1, <2>5, <2>6, ContentsNextIs
<1>2. CASE ClearTail
  <2> DEFINE f == [Top EXCEPT !.pc = "put break"]
  <2>1. Running /\ Top.pc = "clear tail" /\ Become(f) /\ Alone /\ tail' = 0 /\ UNCHANGED head
    BY <1>2 DEF ClearTail, At, GoTo, QueueInv
  <2>2. f \in Frames
    BY <2>1, FrameTypes
  <2>3. f.pc = "put break"
    <3>1. Top \in Frames
      BY <2>1, TopFrame
    <3> QED BY <3>1 DEF Frames
  <2>4. Busy(Top)
    BY <2>1 DEF Busy
  <2>5. head = 0 /\ \A i \in 1 .. Len(stack) - 1 : ~Busy(stack[i])
    BY <2>1, <2>4, SoleTop
  <2> HIDE DEF f
  <2>6. /\ \A i \in 1 .. Len(stack') : Busy(stack'[i]) => i = Len(stack) /\ stack'[i] = f
        /\ Clearing /\ ~Clearing'
    BY <2>1, <2>2, <2>3, <2>5, SoleStep
  <2>7. Alone'
    <3>1. \A i \in 1 .. Len(stack') : ~Busy(stack'[i])
      BY <2>3, <2>6 DEF Busy
    <3> QED BY <3>1 DEF Alone, Busy
  <2>8. Contents' = << >> /\ Contents = << >>
    BY <2>1, <2>5, <2>6, QueueEmpty, ContentsIs, ContentsNextIs
  <2> QED BY <2>7, <2>8
<1> QED BY <1>1, <1>2

(* Int 16 AH=05 and kb_getch run when no handler does.                     *)
LEMMA ProgramStep ==
  ASSUME TypeOK, WriteKey \/ GetKey
  PROVE  QueueInv' /\ BufferStep
<1>1. /\ stack = << >> /\ UNCHANGED <<stack, raced>>
      /\ tail \in Indices /\ head \in Indices /\ cell \in [Indices -> Codes \cup {Nothing}]
  BY TypeParts DEF WriteKey, GetKey, Running, RingOK
<1>2. Len(stack') = 0 /\ ~Clearing /\ ~Clearing'
  BY <1>1 DEF Clearing
<1>3. Alone'
  BY <1>2 DEF Alone
<1>4. CASE WriteKey
  <2> DEFINE c == [cell EXCEPT ![tail] = "key"]
  <2>1. Following(tail) # head /\ cell' = c /\ tail' = Following(tail) /\ UNCHANGED head
    BY <1>4 DEF WriteKey, BufferFull
  <2>2. c \in [Indices -> Codes \cup {Nothing}] /\ c[tail] = "key" /\ "key" \in Codes
    BY <1>1 DEF Codes
  <2>3. Queue(head, tail, c) = Queue(head, tail, cell)
    <3>1. \A i \in Indices : i # tail => c[i] = cell[i]
      BY <1>1
    <3> HIDE DEF c
    <3> QED BY <1>1, <3>1, QueueKept
  <2> HIDE DEF c
  <2>4. Queue(head, Following(tail), c) = Append(Queue(head, tail, c), c[tail])
    BY <1>1, <2>1, <2>2, QueueGrows
  <2>5. Contents' = Append(Contents, "key")
    BY <1>2, <2>1, <2>2, <2>3, <2>4, ContentsIs, ContentsNextIs
  <2> QED BY <1>3, <2>2, <2>5 DEF QueueInv, BufferStep
<1>5. CASE GetKey
  <2>1. head # tail /\ head' = Following(head) /\ UNCHANGED <<tail, cell>>
    BY <1>5 DEF GetKey
  <2>2. Contents # << >> /\ Contents' = Tail(Contents)
    BY <1>1, <1>2, <2>1, QueueShrinks, ContentsIs, ContentsNextIs
  <2> QED BY <1>3, <2>2 DEF QueueInv, BufferStep
<1> QED BY <1>4, <1>5

LEMMA KeptSteps ==
  ASSUME TypeOK, Nesting,
         \/ SendScan \/ SendAnswer \/ UsbKeyboard \/ TimerInterrupt \/ KeyboardInterrupt
         \/ Tick \/ Repeat \/ Rearm \/ TickDone
         \/ ReadAnswer \/ ReadKey \/ SetLeds \/ Acknowledged \/ Retry \/ Toggle
         \/ EndOfKey \/ Overrun \/ BreakDropped \/ Call \/ CheckKey \/ UNCHANGED vars
  PROVE  BusyKept /\ UNCHANGED <<ring, raced>>
<1> UNCHANGED <<ring, raced>>
  BY DEF SendScan, SendAnswer, UsbKeyboard, TimerInterrupt, KeyboardInterrupt, Tick, Repeat,
         Rearm, TickDone, ReadAnswer, ReadKey, SetLeds, Acknowledged, Retry, Toggle, EndOfKey,
         Overrun, BreakDropped, Exit, Call, CheckKey, vars
<1>1. CASE SendScan \/ SendAnswer \/ UsbKeyboard \/ Call \/ CheckKey \/ UNCHANGED vars
  <2>1. UNCHANGED stack
    BY <1>1 DEF SendScan, SendAnswer, UsbKeyboard, Call, CheckKey, vars
  <2> QED BY <2>1 DEF BusyKept
<1>2. CASE TimerInterrupt \/ KeyboardInterrupt
  <2>1. PICK act \in {"irq0", "irq1"}, pc \in {"tick", "read"} : Push(Activation(act, pc))
    BY <1>2 DEF TimerInterrupt, KeyboardInterrupt
  <2>2. Activation(act, pc) \in Frames /\ ~Busy(Activation(act, pc))
    <3>1. Activation(act, pc) \in Frames
      BY ActivationType
    <3> QED BY <3>1 DEF Activation, Busy
  <2> QED BY <2>1, <2>2, KeptPush
<1>3. CASE Repeat
  <2>1. stack \in Seq(Frames) /\ stack' \in Seq(Frames)
    <3>1. [Next]_vars
      BY <1>3 DEF Next, Handler
    <3> QED BY <3>1, StackTypeStep DEF TypeOK, StackOK
  <2>2. /\ Len(stack') = Len(stack) + 1 /\ \A i \in 1 .. Len(stack) - 1 : stack'[i] = stack[i]
        /\ ~Busy(stack'[Len(stack)]) /\ ~Busy(stack'[Len(stack')])
    BY <1>3, NestingRepeat DEF Busy
  <2>3. Running /\ ~Busy(Top)
    BY <1>3 DEF Repeat, At, Busy
  <2>4. Len(stack) \in Nat \ {0} /\ Top = stack[Len(stack)]
    BY <2>3, TopFrame
  <2>5. /\ \A i \in 1 .. Len(stack') : i = Len(stack') \/ i = Len(stack) \/ i \in 1 .. Len(stack) - 1
        /\ \A i \in 1 .. Len(stack) : i = Len(stack) \/ i \in 1 .. Len(stack) - 1
        /\ \A i \in 1 .. Len(stack) - 1 : i \in 1 .. Len(stack) /\ i \in 1 .. Len(stack')
    BY <2>2, <2>4
  <2> QED BY <2>2, <2>3, <2>4, <2>5 DEF BusyKept
<1>4. CASE TickDone \/ ReadAnswer \/ EndOfKey \/ Overrun \/ BreakDropped
  <2>1. Running /\ Iret /\ ~Busy(Top)
    BY <1>4 DEF TickDone, ReadAnswer, EndOfKey, Overrun, BreakDropped, Exit, At, Busy
  <2> QED BY <2>1, KeptIret
<1>5. CASE Tick \/ Rearm \/ ReadKey \/ SetLeds \/ Acknowledged \/ Retry \/ Toggle
  <2>1. Running /\ ~Busy(Top)
    BY <1>5 DEF Tick, Rearm, ReadKey, SetLeds, Acknowledged, Retry, Toggle, At, Busy
  <2>2. Top \in Frames
    BY <2>1, TopFrame
  <2>3. \E f \in Frames : Become(f) /\ f.pc \in {"eoi", "repeat", "dispatch", "wait", "end"}
    <3>1. CASE Tick \/ Rearm \/ Toggle
      <4>1. PICK pc \in {"eoi", "repeat", "end"} : GoTo(pc)
        BY <3>1 DEF Tick, Rearm, Toggle
      <4>2. [Top EXCEPT !.pc = pc] \in Frames
        BY <2>1, FrameTypes
      <4>3. [Top EXCEPT !.pc = pc].pc = pc
        BY <2>2 DEF Frames
      <4> QED BY <4>1, <4>2, <4>3 DEF GoTo
    <3>2. CASE ReadKey
      <4>1. [Top EXCEPT !.pc = "dispatch", !.key = kbc] \in Frames
        BY <2>1, <3>2, FrameTypes DEF ReadKey
      <4>2. [Top EXCEPT !.pc = "dispatch", !.key = kbc].pc = "dispatch"
        BY <2>2 DEF Frames
      <4> QED BY <3>2, <4>1, <4>2 DEF ReadKey
    <3>3. CASE SetLeds
      <4> DEFINE f == [Top EXCEPT !.pc = "wait", !.key = kbc, !.cmd = "ED", !.tries = Retries,
                                  !.mode = capsLock]
      <4>1. f \in Frames /\ Become(f)
        BY <2>1, <3>3, FrameTypes DEF SetLeds, TypeOK
      <4>2. f.pc = "wait"
        BY <2>2 DEF Frames
      <4> QED BY <4>1, <4>2
    <3>4. CASE Acknowledged \/ Retry
      <4>1. Top.pc = "wait"
        BY <3>4 DEF Acknowledged, Retry, At
      <4>2. /\ LedsSent.pc = "dispatch"
            /\ [Top EXCEPT !.cmd = "mode", !.tries = Retries].pc = "wait"
            /\ [Top EXCEPT !.tries = TriesLeft].pc = "wait"
        BY <2>2, <4>1 DEF Frames, LedsSent
      <4>3. /\ LedsSent \in Frames /\ [Top EXCEPT !.cmd = "mode", !.tries = Retries] \in Frames
            /\ TriesLeft > 0 => [Top EXCEPT !.tries = TriesLeft] \in Frames
        BY <2>1, FrameTypes
      <4>4. \/ Become(LedsSent) \/ Become([Top EXCEPT !.cmd = "mode", !.tries = Retries])
            \/ TriesLeft > 0 /\ Become([Top EXCEPT !.tries = TriesLeft])
        BY <3>4 DEF Acknowledged, Retry
      <4> QED BY <4>2, <4>3, <4>4
    <3> QED BY <1>5, <3>1, <3>2, <3>3, <3>4
  <2> QED BY <2>1, <2>3, KeptBecome DEF Busy
<1> QED BY <1>1, <1>2, <1>3, <1>4, <1>5

LEMMA BufferNext == Inv /\ QueueInv /\ [Next]_vars => QueueInv' /\ BufferStep
<1> SUFFICES ASSUME Inv, QueueInv, [Next]_vars PROVE QueueInv' /\ BufferStep
  OBVIOUS
<1>1. TypeOK /\ Nesting
  BY DEF Inv
<1>2. CASE Putbuf
  BY <1>1, <1>2, PutbufStep
<1>3. CASE StoreKey
  BY <1>1, <1>3, StoreStep
<1>4. CASE AdvanceTail
  BY <1>1, <1>4, AdvanceStep
<1>5. CASE ClearHead \/ ClearTail
  BY <1>1, <1>5, ClearStep
<1>6. CASE WriteKey \/ GetKey
  BY <1>1, <1>6, ProgramStep
<1>7. CASE ~(Putbuf \/ StoreKey \/ AdvanceTail \/ ClearHead \/ ClearTail \/ WriteKey \/ GetKey)
  <2>1. BusyKept /\ UNCHANGED <<ring, raced>>
    BY <1>1, <1>7, KeptSteps DEF Next, Handler, Int16
  <2> QED BY <2>1, KeptStep
<1> QED BY <1>2, <1>3, <1>4, <1>5, <1>6, <1>7

(* Without two activations in putbuf or kbrk at once the buffer is a queue *)
(* on every step, whatever its size and however deep the handlers nest.    *)
THEOREM BufferCorrect == Spec => BufferIsQueue
<1>1. Init => QueueInv
  BY DEF Init, QueueInv, Alone
<1>2. Inv /\ QueueInv /\ [Next]_vars => QueueInv' /\ [BufferStep]_vars
  BY BufferNext
<1>3. Spec => [][BufferStep]_vars
  BY <1>1, <1>2, InvHolds, PTL DEF Spec
<1> QED BY <1>3 DEF BufferIsQueue, BufferStep
=============================================================================
