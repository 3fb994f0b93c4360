---------------------------- MODULE MCUsbLegacySmm ----------------------------
(***************************************************************************)
(* Both controllers of the board, the handler called up to twice per SMI.  *)
(***************************************************************************)
EXTENDS UsbLegacySmm

(* The handler is registered for both controllers with the same source.    *)
MCMaxCallbacks == 2
=============================================================================
