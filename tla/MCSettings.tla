----------------------------- MODULE MCSettings -----------------------------
(***************************************************************************)
(* Instances of Settings for TLC.                                          *)
(***************************************************************************)
EXTENDS Settings

CONSTANTS off, on, one, two

\* A typed address that is shorter than the default one, and one that is not.
Typed      == {<<one>>, <<two, one>>}
OneName    == {<<one>>}
TwoChars   == {one, two}
TwoValues  == {off, on}
Fresh      == [k \in ConfigKeys |-> CASE k[1] \in PortParameters -> off
                                      [] k[1] = "IP"   -> <<one, two>>
                                      [] OTHER         -> None]
=============================================================================
