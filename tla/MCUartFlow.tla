----------------------------- MODULE MCUartFlow -----------------------------
(***************************************************************************)
(* Instances of UartFlow for TLC.                                          *)
(***************************************************************************)
EXTENDS UartFlow

OneOfEachKind == {"RTSCTS", "XONXOFF"}
NoneAndDtr    == {"NONE", "DTRDSR"}
=============================================================================
