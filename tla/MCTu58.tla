------------------------------- MODULE MCTu58 -------------------------------
(***************************************************************************)
(* An instance of Tu58 for TLC: a write over a block boundary, a read that *)
(* stays on the tape, one that reaches its end and one past it; and a read *)
(* of 8000H bytes, whose checksum is of 8000H or more.                     *)
(***************************************************************************)
EXTENDS Tu58

Op(code, unit, block, count) ==
  [code |-> code, unit |-> unit, block |-> block, count |-> count]

FoldedOps == { Op("READ", 1, 0, 256) }

SomeOps == { Op("NOP", 0, 0, 0), Op("BOOT", 0, 0, 0),
             Op("WRITE", 0, 0, 3), Op("WRITE", 1, 1, 1),
             Op("READ", 0, 1, 2), Op("READ", 0, 1, 3), Op("READ", 0, 3, 1) } \cup FoldedOps
=============================================================================
