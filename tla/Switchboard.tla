---------------------------- MODULE Switchboard -----------------------------
(***************************************************************************)
(* What the terminal server promises its users: a board on which a user    *)
(* gets a line to a host nobody else has, or to a system the server calls  *)
(* for it, and talks on it until one of its own operations, or the end of  *)
(* the call, takes the line away.  No step moves two users, and no line is *)
(* ever led elsewhere.                                                     *)
(***************************************************************************)
CONSTANTS
  Ports, Boot,  \* the places on the board, and those that are always there
  Lines

VARIABLES
  up,    \* the ports there are
  ends,  \* [Lines -> the port a line is of and the port it leads to]
  on     \* [Ports -> the line that what is typed goes into, or 0]

vars == <<up, ends, on>>

Free      == <<0, 0>>
From(l)   == ends[l][1]
To(l)     == ends[l][2]
LinesOf(p) == {l \in Lines : From(l) = p}
Taken(t)  == \E l \in Lines : To(l) = t

Init ==
  /\ up = Boot
  /\ ends = [l \in Lines |-> Free]
  /\ on = [p \in Ports |-> 0]

Lead(l, p, t) ==
  /\ ends[l] = Free /\ p # t
  /\ ends' = [ends EXCEPT ![l] = <<p, t>>]

Connect(l, p, t) ==
  /\ p \in up /\ t \in up /\ ~Taken(t) /\ on[p] = 0
  /\ Lead(l, p, t)
  /\ on' = [on EXCEPT ![p] = l]
  /\ UNCHANGED up

\* q is where the called system is.
Call(l, p, q) ==
  /\ p \in up /\ q \notin up /\ ~Taken(q) /\ on[p] = 0
  /\ Lead(l, p, q)
  /\ on' = [on EXCEPT ![p] = l, ![q] = 0]
  /\ up' = up \cup {q}

\* A connection to the listener of host t, which does not look for others.
Admit(l, q, t) ==
  /\ q \notin up /\ t \in Boot
  /\ Lead(l, q, t)
  /\ on' = [on EXCEPT ![q] = l]
  /\ up' = up \cup {q}

Login(q) ==
  /\ q \notin up
  /\ on' = [on EXCEPT ![q] = 0]
  /\ up' = up \cup {q}
  /\ UNCHANGED ends

\* To another of its lines, or to the prompt.
Switch(p, l) ==
  /\ p \in up /\ (l = 0 \/ l \in LinesOf(p))
  /\ on' = [on EXCEPT ![p] = l]
  /\ UNCHANGED <<up, ends>>

\* Lines of p end, and with them the calls they lead to; p may go as well.  A
\* login that is lost goes without its lines, which then are those of whoever
\* gets the port next.
Hangup(p, Z, leaves) ==
  LET gone == ({To(l) : l \in Z} \cup (IF leaves THEN {p} ELSE {})) \ Boot
  IN  /\ up' = up \ gone
      /\ ends' = [l \in Lines |-> IF l \in Z THEN Free ELSE ends[l]]
      /\ on' = [x \in Ports |-> IF x = p \/ x \in gone THEN 0 ELSE on[x]]

Next ==
  \/ \E l \in Lines, p, t \in Ports : Connect(l, p, t) \/ Call(l, p, t) \/ Admit(l, p, t)
  \/ \E p \in Ports : Login(p)
  \/ \E p \in Ports, l \in Lines \cup {0} : Switch(p, l)
  \/ \E p \in Ports : \E Z \in SUBSET LinesOf(p), leaves \in BOOLEAN : Hangup(p, Z, leaves)

Spec == Init /\ [][Next]_vars
=============================================================================
