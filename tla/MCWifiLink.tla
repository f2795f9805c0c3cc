----------------------------- MODULE MCWifiLink -----------------------------
(***************************************************************************)
(* An instance of WifiLink for TLC: packets of equal and of different size. *)
(***************************************************************************)
EXTENDS WifiLink

TwoSizes == <<1, 2>>
=============================================================================
