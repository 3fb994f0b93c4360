--------------------------- MODULE MCLegacyKeyboard ---------------------------
(***************************************************************************)
(* A buffer for two keys, so that it fills up and wraps.  Four inputs are  *)
(* enough for Caps Lock, a key that updates the LEDs, one more that        *)
(* interrupts it and a timer interrupt; for a buffer that a held USB key   *)
(* overruns; and for a key that arrives while Ctrl-Break clears the        *)
(* buffer.  The run of the lost key needs three.                           *)
(***************************************************************************)
EXTENDS LegacyKeyboard

MCBufferSize == 3
MCRepeatTicks == 1
MCRetries == 2
MCMaxInputs == 4
MCFewInputs == 3
=============================================================================
