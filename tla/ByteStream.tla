----------------------------- MODULE ByteStream -----------------------------
(***************************************************************************)
(* What a USB port promises to whoever reads it: the bytes its finished    *)
(* reads report come out once each and in the order they went in.          *)
(***************************************************************************)
EXTENDS Sequences, SequencesExt

VARIABLES
  queue,  \* the bytes reported and not read yet
  out     \* the byte read last

Init == queue = <<>> /\ out = 0

Send    == queue # queue' /\ IsPrefix(queue, queue') /\ UNCHANGED out
Receive == queue # <<>> /\ out' = Head(queue) /\ queue' = Tail(queue)

vars == <<queue, out>>

Next == Send \/ Receive

Spec == Init /\ [][Next]_vars
=============================================================================
