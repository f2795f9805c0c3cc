------------------------- MODULE TerminalUserProofs -------------------------
(***************************************************************************)
(* What a user of TerminalServer can rely on, for any number of ports,     *)
(* sessions and sockets: the session a port is in is its own, no two users *)
(* share a port, LOGOUT leaves nothing behind, and what it takes for the   *)
(* program to crash.  The wiring of the tables (CircuitInv) is proved in   *)
(* TerminalServerProofs.                                                   *)
(***************************************************************************)
EXTENDS TerminalServerProofs

(***************************************************************************)
(* The inductive invariants.                                               *)
(***************************************************************************)
\* The current session of p is live and p's.
Mine(p) == Live(active[p]) /\ session[active[p]].parent = p

\* ATO puts a modem back into MODE_SESSION without a look at the session, so
\* the two properties stand only together.
OwnInv == SessionModeIsOwn /\ ModemCallIsOwn

\* Of two sessions to one port one is the listener's, and ends with it: its
\* parent is the listener's port.
ListenerShares ==
  \A s1, s2 \in Sessions :
    Live(s1) /\ Live(s2) /\ s1 # s2 /\ session[s1].target = session[s2].target =>
      \E c \in TcpSockets : /\ tcp_in[c].state = "CONNECTED"
                            /\ tcp_in[c].session \in {s1, s2}
                            /\ TcpTarget[c] = session[s1].target
                            /\ session[tcp_in[c].session].parent = tcp_in[c].port

\* The end of a call gives a terminal its prompt back, and does not idle it.
CallerReturns ==
  \A q \in Ports : type[q] = "TELNET_OUT" =>
    LET par == session[todata[q].session].parent
    IN  par \in Static /\ access[par] = "LOCAL" => todata[q].mode_return = "LOCAL"

IdleInv == IdleTerminalHasNoSession /\ CallerReturns

\* Where nobody logs in by telnet, calls are made from boot ports; only a call
\* is ever given the prompt among the other ports, and it does not use it; and
\* a port that is called or boots a computer has no current session.
CallsFromBoot ==
  \A q \in Ports : type[q] = "TELNET_OUT" =>
    /\ active[q] = todata[q].session
    /\ session[todata[q].session].parent \in Static

QuietSlots ==
  \A q \in Dynamic : \/ mode[q] = "IDLE"
                     \/ mode[q] = "SESSION" /\ type[q] = "TCP_IN"
                     \/ mode[q] = "LOCAL" /\ type[q] = "TELNET_OUT"

HostsStayOut ==
  \A p \in Static : access[p] \in {"REMOTE", "TU58"} => active[p] = 0

CrashInv == CallsFromBoot /\ QuietSlots /\ HostsStayOut /\ CrashNeedsLogout

(***************************************************************************)
(* A step of the loop, slot by slot: what it does to the ports, sessions   *)
(* and listeners, and to which it does nothing.                            *)
(***************************************************************************)
CallKept(x) == /\ todata'[x].session = todata[x].session
               /\ todata'[x].mode_return = todata[x].mode_return
SlotKept(x) == /\ type'[x] = type[x] /\ access'[x] = access[x]
               /\ CallKept(x)
PortKept(x) == SlotKept(x) /\ mode'[x] = mode[x] /\ active'[x] = active[x]
PortGone(x) == type'[x] = "NONE" /\ mode'[x] = "IDLE" /\ access'[x] = "LOCAL" /\ active'[x] = 0
OthersKept(P) == \A x \in Ports \ P : PortKept(x)

ListenersKept == \A c \in TcpSockets : tcp_in[c].state = "CONNECTED" => tcp_in'[c] = tcp_in[c]

\* A session begins in a deleted object.
Begins(s, p, t) == /\ session[s].type = "DELETED" /\ session'[s] = Direct(p, t)
                   /\ \A z \in Sessions : z # s => session'[z] = session[z]

\* The port reads commands.
AtPrompt(p) == mode[p] = "LOCAL" /\ (access[p] = "MODEM" \/ (access[p] = "LOCAL" /\ type[p] # "NONE"))

Waits == OthersKept({}) /\ UNCHANGED session /\ ListenersKept

\* Port p goes to mode m: by a key or BREAK of its terminal, greeting, escape
\* and local switch, ATO, or a BREAK from the remote system.
Turns(p, m) ==
  /\ mode'[p] = m /\ active'[p] = active[p] /\ SlotKept(p)
  /\ OthersKept({p}) /\ UNCHANGED session /\ ListenersKept
  /\ \/ p \in Static /\ m \in {"GREET", "LOCAL"}
     \/ type[p] = "TELNET_IN" /\ m = "LOCAL"
     \/ mode[p] = "PREGREET" /\ m = "GREET"
     \/ mode[p] = "GREET" /\ m = "LOCAL"
     \/ mode[p] = "SESSION" /\ (m = "SESSION" \/ (m = "MODEM" /\ access[p] = "MODEM"))
     \/ mode[p] = "SESSION" /\ m = "LOCAL" /\ type[p] # "TCP_IN"
     \/ AtPrompt(p) /\ access[p] = "MODEM" /\ active[p] # 0 /\ m = "SESSION"
     \/ type[p] = "TELNET_OUT" /\ m = todata[p].mode_return

\* Port p enters a session s to t that nobody else has.
Enters(p, s, t) ==
  /\ AtPrompt(p) /\ ~Busy(t) /\ type[t] # "NONE" /\ p # t
  /\ Begins(s, p, t) /\ mode'[p] = "SESSION" /\ active'[p] = s /\ SlotKept(p)
  /\ OthersKept({p}) /\ ListenersKept

\* Port p makes a call: port q and session s are made for it.
Calls(p, s, q) ==
  /\ AtPrompt(p) /\ type[q] = "NONE" /\ p # q
  /\ Begins(s, p, q) /\ mode'[p] = "SESSION" /\ active'[p] = s /\ SlotKept(p)
  /\ type'[q] = "TELNET_OUT" /\ mode'[q] = "IDLE" /\ access'[q] = "REMOTE"
  /\ active'[q] = s /\ todata'[q].session = s
  /\ access[p] = "LOCAL" => todata'[q].mode_return = "LOCAL"
  /\ OthersKept({p, q}) /\ ListenersKept

\* Listener c serves a connection through a new port q.
Serves(c, s, q) ==
  /\ tcp_in[c].state = "LISTEN" /\ type[q] = "NONE"
  /\ Begins(s, q, TcpTarget[c])
  /\ type'[q] = "TCP_IN" /\ mode'[q] = "SESSION" /\ access'[q] = "LOCAL" /\ active'[q] = s
  /\ tcp_in'[c] = [state |-> "CONNECTED", port |-> q, session |-> s]
  /\ \A d \in TcpSockets : d # c => tcp_in'[d] = tcp_in[d]
  /\ OthersKept({q})

\* The telnet server accepts a login on a new port q.
Accepts(q) ==
  /\ type[q] = "NONE"
  /\ type'[q] = "TELNET_IN" /\ mode'[q] = "PREGREET" /\ access'[q] = "LOCAL"
  /\ OthersKept({q}) /\ UNCHANGED session /\ ListenersKept

\* Port p goes on with another session s of its own.
Picks(p, s, m) ==
  /\ s \in Own(p) /\ m \in {"SESSION", "MODEM"} /\ active'[p] = s /\ mode'[p] = m /\ SlotKept(p)
  /\ \/ AtPrompt(p)
     \/ mode[p] = "SESSION" /\ type[p] # "TCP_IN" /\ Live(active[p])
  /\ OthersKept({p}) /\ UNCHANGED session /\ ListenersKept

\* The sessions Z, all of port p, end and the ports D are deleted: disconnect,
\* ATH, LOGOUT, the end of a call or of a connection.
CallOf(q, p) == type[q] = "TELNET_OUT" /\ session[todata[q].session].parent = p
AllOf(p, Z)  == \A z \in Sessions : session[z].parent = p => z \in Z

\* The calls that the sessions Z lead to go with them, and besides them p at most.
CallsGo(p, D, Z) == /\ D \subseteq {p} \cup {session[z].target : z \in Z}
                    /\ \A z \in Z : session[z].target \in Dynamic => session[z].target \in D

Ends(p, D, Z) ==
  /\ D \subseteq Dynamic /\ CallsGo(p, D, Z) /\ \A x \in D \ {p} : PortGone(x)
  /\ \A z \in Z : session[z].parent = p
  /\ \A z \in Sessions : session'[z] = IF z \in Z THEN NoSession ELSE session[z]
  /\ OthersKept(D \cup {p})
  /\ p \in D => type'[p] = "NONE" /\ access'[p] = "LOCAL"
  /\ p \in Ports \ D => SlotKept(p)
  /\ access[p] \in {"LOCAL", "MODEM"} \/ \E q \in Ports : CallOf(q, p)
  /\ mode'[p] = "SESSION" => active'[p] = 0 /\ "SESSION" \in FreedModes
  /\ active'[p] # 0 => access'[p] = "LOCAL"
  /\ p \in Static /\ mode'[p] = "IDLE" =>
       \/ AllOf(p, Z) \/ "IDLE" \in FreedModes
       \/ \E q \in Ports : CallOf(q, p) /\ todata[q].mode_return = "IDLE"
  /\ p \in Dynamic =>
       \/ mode'[p] = "IDLE" \/ (mode'[p] = mode[p] /\ SlotKept(p))
       \/ \E q \in Ports : CallOf(q, p)
  /\ \A c \in TcpSockets : tcp_in[c].state = "CONNECTED" =>
       tcp_in'[c] = tcp_in[c] \/ (tcp_in[c].port = p /\ AllOf(p, Z))

Operation ==
  \/ Waits
  \/ \E p \in Ports, m \in Modes : Turns(p, m)
  \/ \E p, t \in Ports, s \in Sessions : Enters(p, s, t) \/ Calls(p, s, t)
  \/ \E q \in Ports, s \in Sessions, c \in TcpSockets : Serves(c, s, q)
  \/ \E q \in Ports : TelnetSockets # {} /\ Accepts(q)
  \/ \E p \in Ports, s \in Sessions, m \in Modes : Picks(p, s, m)
  \/ \E p \in Ports, D \in SUBSET Ports, Z \in SUBSET Sessions : Ends(p, D, Z)

\* Each operation of the model is one of these steps: nothing to do, or a crash;
LEMMA WaitsOp ==
  ASSUME CircuitInv, Quiet \/ Fault
  PROVE  Operation
<1> QED BY DEF Quiet, Fault, portVars, Operation, Waits, OthersKept, PortKept, SlotKept, CallKept, ListenersKept

\* a change of mode;
LEMMA TurnsOp ==
  ASSUME CircuitInv, NEW p \in Ports, NEW m \in Modes, mode' = Set(mode, p, m), OnlyMode,
         \/ p \in Static /\ m \in {"GREET", "LOCAL"}
         \/ type[p] = "TELNET_IN" /\ m = "LOCAL"
         \/ mode[p] = "PREGREET" /\ m = "GREET"
         \/ mode[p] = "GREET" /\ m = "LOCAL"
         \/ mode[p] = "SESSION" /\ (m = "SESSION" \/ (m = "MODEM" /\ access[p] = "MODEM"))
         \/ mode[p] = "SESSION" /\ m = "LOCAL" /\ type[p] # "TCP_IN"
         \/ AtPrompt(p) /\ access[p] = "MODEM" /\ active[p] # 0 /\ m = "SESSION"
         \/ type[p] = "TELNET_OUT" /\ m = todata[p].mode_return
  PROVE  Operation
<1>1. mode'[p] = m /\ \A x \in Ports : x # p => mode'[x] = mode[x]
  BY DEF Set, CircuitInv, DataOK
<1>2. Turns(p, m)
  BY <1>1 DEF OnlyMode, Turns, OthersKept, PortKept, SlotKept, CallKept, ListenersKept
<1> QED BY <1>2 DEF Operation

\* connect_local and ATDP to a port;
LEMMA EntersOp ==
  ASSUME CircuitInv, NEW p \in Ports, NEW t \in Ports, AtPrompt(p), ~Busy(t),
         type[t] # "NONE", p # t, Enter(p, t)
  PROVE  Operation
<1> DEFINE s == Min(FreeSessions)
<1>1. s \in Sessions /\ session[s].type = "DELETED"
  BY FirstFree DEF Enter, FreeSessions
<1>2. /\ session' = Set(session, s, Direct(p, t)) /\ active' = Set(active, p, s)
      /\ mode' = Set(mode, p, "SESSION")
      /\ UNCHANGED <<type, access, todata, insock, telnet_in, tcp_in>>
  BY DEF Enter
<1> HIDE DEF s
<1>3. Begins(s, p, t)
  BY <1>1, <1>2 DEF Begins, Set, CircuitInv, DataOK
<1>4. /\ mode'[p] = "SESSION" /\ active'[p] = s
      /\ \A x \in Ports : x # p => mode'[x] = mode[x] /\ active'[x] = active[x]
  BY <1>2 DEF Set, CircuitInv, DataOK
<1>5. Enters(p, s, t)
  BY <1>2, <1>3, <1>4 DEF Enters, OthersKept, PortKept, SlotKept, CallKept, ListenersKept
<1> QED BY <1>1, <1>5 DEF Operation

\* TELNET and ATDT;
LEMMA CallsOp ==
  ASSUME CircuitInv, NEW p \in Ports, AtPrompt(p), NEW ret \in {"IDLE", "LOCAL"},
         access[p] = "LOCAL" => ret = "LOCAL", Dial(p, ret)
  PROVE  Operation
<1> DEFINE s == Min(FreeSessions)
           q == Min(FreePorts)
<1>1. s \in Sessions /\ session[s].type = "DELETED" /\ q \in Ports /\ type[q] = "NONE"
  BY FirstFree DEF Dial, FreeSessions, FreePorts
<1>2. p # q
  BY <1>1, PortsSplit, StaticAssumption DEF AtPrompt, CircuitInv, PortKinds
<1>3. /\ type' = Set(type, q, "TELNET_OUT")
      /\ access' = Set(access, q, "REMOTE")
      /\ todata' = Set(todata, q, [state |-> "DNS_PRECHECK", session |-> s, mode_return |-> ret])
      /\ session' = Set(session, s, Direct(p, q))
      /\ active' = [active EXCEPT ![p] = s, ![q] = s]
      /\ mode' = [mode EXCEPT ![q] = "IDLE", ![p] = "SESSION"]
      /\ UNCHANGED <<telnet_in, tcp_in>>
  BY DEF Dial
<1> HIDE DEF s, q
<1>4. Begins(s, p, q)
  BY <1>1, <1>3 DEF Begins, Set, CircuitInv, DataOK
<1>5. /\ mode'[p] = "SESSION" /\ active'[p] = s /\ mode'[q] = "IDLE" /\ active'[q] = s
      /\ \A x \in Ports : x # p /\ x # q => mode'[x] = mode[x] /\ active'[x] = active[x]
  BY <1>1, <1>2, <1>3 DEF CircuitInv, DataOK
<1>6. /\ type'[q] = "TELNET_OUT" /\ access'[q] = "REMOTE"
      /\ todata'[q].session = s /\ todata'[q].mode_return = ret
      /\ \A x \in Ports : x # q => SlotKept(x)
  BY <1>1, <1>3 DEF Set, CircuitInv, DataOK, SlotKept, CallKept
<1>7. Calls(p, s, q)
  BY <1>1, <1>2, <1>3, <1>4, <1>5, <1>6 DEF Calls, OthersKept, PortKept, ListenersKept
<1> QED BY <1>1, <1>7 DEF Operation

\* RESUME and the switches;
LEMMA PicksOp ==
  ASSUME CircuitInv, NEW p \in Ports, NEW s \in Own(p), NEW m \in {"SESSION", "MODEM"},
         AtPrompt(p) \/ (mode[p] = "SESSION" /\ type[p] # "TCP_IN" /\ Live(active[p])),
         active' = Set(active, p, s), mode' = Set(mode, p, m),
         UNCHANGED <<type, access, todata, insock, session, telnet_in, tcp_in>>
  PROVE  Operation
<1>1. /\ mode'[p] = m /\ active'[p] = s
      /\ \A x \in Ports : x # p => mode'[x] = mode[x] /\ active'[x] = active[x]
  BY DEF Set, CircuitInv, DataOK
<1>2. Picks(p, s, m)
  BY <1>1 DEF Picks, OthersKept, PortKept, SlotKept, CallKept, ListenersKept
<1>3. s \in Sessions /\ m \in Modes
  BY DEF Own, Modes
<1> QED BY <1>2, <1>3 DEF Operation

\* DISCONNECT and ATH;
LEMMA HangupOp ==
  ASSUME CircuitInv, NEW p \in Ports, NEW s \in Sessions, AtPrompt(p),
         session[s].parent = p, Hangup(p, s)
  PROVE  Operation
<1> DEFINE t == session[s].target
           D == Closable({t})
           Z == {s}
<1>1. t \in Ports /\ type[t] \in StaticTypes \cup {"TELNET_OUT"} /\ access[t] # "LOCAL"
  BY TargetKind, PortsSplit DEF CircuitInv, LiveTarget
<1>2. /\ type'   = SetAll(type, D, "NONE")
      /\ mode'   = SetAll(mode, D, "IDLE")
      /\ access' = SetAll(access, D, "LOCAL")
      /\ active' = Set(SetAll(active, D, 0), p, 0)
      /\ todata' = SetAll(todata, D, NoToData)
      /\ session' = Set(session, s, NoSession)
      /\ CloseSockets({t})
  BY DEF Hangup
<1>3. D = (IF type[t] = "TELNET_OUT" THEN {t} ELSE {}) /\ D \in SUBSET Dynamic
  BY <1>1, PortsSplit DEF Closable, CircuitInv, StaticTypes
<1>4. p \notin D
  BY <1>1, <1>3, PortsSplit, StaticAssumption DEF AtPrompt, CircuitInv, PortKinds
<1>5. tcp_in' = tcp_in
  BY <1>1, <1>2 DEF CloseSockets, CircuitInv, DataOK, StaticTypes
<1>10. CallsGo(p, D, Z)
  <2>1. t \in Dynamic => type[t] = "TELNET_OUT"
    BY <1>1, PortsSplit DEF CircuitInv, PortKinds, StaticTypes
  <2> QED BY <1>3, <2>1 DEF CallsGo
<1>6. /\ Z \in SUBSET Sessions /\ \A z \in Z : session[z].parent = p
      /\ \A z \in Sessions : session'[z] = IF z \in Z THEN NoSession ELSE session[z]
  BY <1>2 DEF Set, CircuitInv, DataOK
<1> HIDE DEF D, Z
<1>7. active'[p] = 0 /\ \A x \in Ports : x # p => active'[x] = IF x \in D THEN 0 ELSE active[x]
  <2>1. SetAll(active, D, 0) = [x \in Ports |-> IF x \in D THEN 0 ELSE active[x]]
    BY DEF SetAll
  <2> QED BY <1>2, <2>1 DEF Set
<1>8. /\ \A x \in D : type'[x] = "NONE" /\ mode'[x] = "IDLE" /\ access'[x] = "LOCAL"
      /\ \A x \in Ports \ D : SlotKept(x) /\ mode'[x] = mode[x]
  BY <1>2, <1>3, PortsSplit DEF SetAll, SlotKept, CallKept
<1>9. Ends(p, D, Z)
  <2>1. \A x \in D \ {p} : PortGone(x)
    BY <1>3, <1>7, <1>8, PortsSplit DEF PortGone
  <2>2. OthersKept(D \cup {p})
    BY <1>7, <1>8 DEF OthersKept, PortKept
  <2> QED BY <1>3, <1>4, <1>5, <1>6, <1>7, <1>8, <1>10, <2>1, <2>2 DEF Ends, AtPrompt
<1> QED BY <1>3, <1>6, <1>9, PortsSplit DEF Operation

\* LOGOUT, and the end of a raw TCP connection;
LEMMA ClosePortOp ==
  ASSUME CircuitInv, NEW p \in Ports, access[p] = "LOCAL", type[p] # "NONE", ClosePort(p)
  PROVE  Operation
<1> DEFINE Z == SessionsOf(p)
           Q == {p} \cup {session[s].target : s \in Z}
           D == Closable(Q)
<1>1. /\ type'   = SetAll(type, D, "NONE")
      /\ mode'   = SetAll(Set(mode, p, "IDLE"), D, "IDLE")
      /\ access' = SetAll(access, D, "LOCAL")
      /\ active' = SetAll(active, D, 0)
      /\ todata' = SetAll(todata, D, NoToData)
      /\ CloseSockets(Q)
      /\ session' = [s \in Sessions |-> IF s \in Z THEN NoSession ELSE session[s]]
  BY DEF ClosePort, DeletePorts
<1>2. \A s \in Z : /\ s \in Sessions /\ session[s].parent = p /\ session[s].target \in Ports
                   /\ type[session[s].target] \in {"SERIAL", "CDC", "TELNET_OUT"}
  BY TargetKind, PortsSplit DEF SessionsOf, StaticTypes, CircuitInv, LiveTarget
<1>3. AllOf(p, Z) /\ Z \in SUBSET Sessions
  BY DEF SessionsOf, AllOf
<1>4. \A q \in Q : q \in Ports /\ (type[q] = "TCP_IN" => q = p)
  BY <1>2
<1>5. D \in SUBSET Dynamic
  BY <1>4, PortsSplit DEF Closable, CircuitInv
<1>9. CallsGo(p, D, Z)
  <2>1. \A z \in Z : session[z].target \in Dynamic => type[session[z].target] = "TELNET_OUT"
    BY <1>2, PortsSplit DEF CircuitInv, PortKinds
  <2> QED BY <2>1 DEF CallsGo, Closable
<1> HIDE DEF D, Q, Z
<1>6. /\ \A x \in D : type'[x] = "NONE" /\ mode'[x] = "IDLE" /\ access'[x] = "LOCAL" /\ active'[x] = 0
      /\ mode'[p] = "IDLE"
      /\ \A x \in Ports \ D : SlotKept(x) /\ active'[x] = active[x]
      /\ \A x \in Ports \ D : x # p => mode'[x] = mode[x]
  <2>1. \A x \in Ports : Set(mode, p, "IDLE")[x] = IF x = p THEN "IDLE" ELSE mode[x]
    BY DEF Set, CircuitInv, DataOK
  <2>2. \A x \in Ports : /\ type'[x] = IF x \in D THEN "NONE" ELSE type[x]
                         /\ mode'[x] = IF x \in D THEN "IDLE" ELSE Set(mode, p, "IDLE")[x]
                         /\ access'[x] = IF x \in D THEN "LOCAL" ELSE access[x]
                         /\ active'[x] = IF x \in D THEN 0 ELSE active[x]
                         /\ x \notin D => todata'[x] = todata[x]
    BY <1>1 DEF SetAll
  <2> QED BY <1>5, <2>1, <2>2, PortsSplit DEF SlotKept, CallKept
<1>7. ASSUME NEW c \in TcpSockets, tcp_in[c].state = "CONNECTED"
      PROVE  tcp_in'[c] = tcp_in[c] \/ (tcp_in[c].port = p /\ AllOf(p, Z))
  <2>1. CASE type[p] = "TCP_IN" /\ insock[p] = c
    BY <1>3, <2>1 DEF CircuitInv, SocketOwnsPort
  <2>2. CASE ~ (type[p] = "TCP_IN" /\ insock[p] = c)
    BY <1>1, <1>4, <2>2 DEF CloseSockets
  <2> QED BY <2>1, <2>2
<1>8. Ends(p, D, Z)
  <2>1. \A x \in D \ {p} : PortGone(x)
    BY <1>6 DEF PortGone
  <2>2. OthersKept(D \cup {p})
    BY <1>6 DEF OthersKept, PortKept
  <2>3. \A z \in Sessions : session'[z] = IF z \in Z THEN NoSession ELSE session[z]
    BY <1>1
  <2>4. access'[p] = "LOCAL" /\ (p \in D => type'[p] = "NONE") /\ (p \in Ports \ D => SlotKept(p))
    BY <1>6 DEF SlotKept
  <2> QED BY <1>2, <1>3, <1>5, <1>6, <1>7, <1>9, <2>1, <2>2, <2>3, <2>4 DEF Ends
<1> QED BY <1>3, <1>5, <1>8, PortsSplit DEF Operation

\* A port of a lost connection is deleted; its sessions are not looked for.
LEMMA DropOp ==
  ASSUME CircuitInv, NEW p \in Dynamic, access[p] = "LOCAL", DeletePorts({p}, mode),
         UNCHANGED session, ListenersKept
  PROVE  Operation
<1> DEFINE D == {p}
           Z == {}
<1>1. /\ p \in Ports /\ D \subseteq Dynamic /\ D \in SUBSET Ports /\ Z \in SUBSET Sessions /\ p \notin Static
      /\ \A x : x \in D <=> x = p
      /\ \A z : z \notin Z
  BY PortsSplit
<1> HIDE DEF D, Z
<1>2. \A x \in Ports : /\ type'[x] = IF x = p THEN "NONE" ELSE type[x]
                       /\ mode'[x] = IF x = p THEN "IDLE" ELSE mode[x]
                       /\ access'[x] = IF x = p THEN "LOCAL" ELSE access[x]
                       /\ active'[x] = IF x = p THEN 0 ELSE active[x]
                       /\ x # p => todata'[x] = todata[x]
  BY DEF DeletePorts, SetAll
<1>3. OthersKept(D \cup {p})
  BY <1>1, <1>2 DEF OthersKept, PortKept, SlotKept, CallKept
<1>4. CallsGo(p, D, Z)
  BY <1>1 DEF CallsGo
<1>5. Ends(p, D, Z)
  BY <1>1, <1>2, <1>3, <1>4 DEF Ends, ListenersKept
<1> QED BY <1>1, <1>5 DEF Operation

\* The end of a call;
LEMMA ToCloseOp ==
  ASSUME CircuitInv, NEW q \in Ports, type[q] = "TELNET_OUT", ToClose(q)
  PROVE  Operation
<1> DEFINE s == todata[q].session
           par == session[s].parent
           D == {q}
           Z == {s}
<1>0. PICK m \in {todata[q].mode_return} \cup FreedModes :
        mode' = [mode EXCEPT ![q] = "IDLE", ![par] = m]
  BY DEF ToClose
<1>1. /\ type' = Set(type, q, "NONE") /\ access' = Set(access, q, "LOCAL")
      /\ todata' = Set(todata, q, NoToData)
      /\ active' = [active EXCEPT ![par] = 0, ![q] = 0]
      /\ session' = Set(session, s, NoSession)
      /\ par # 0 /\ UNCHANGED tcp_in
  BY DEF ToClose
<1>2. q \in Dynamic /\ s \in Sessions /\ par \in Ports
  BY <1>1, PortsSplit DEF CircuitInv, OneSessionPerCall, DataOK, SessionEnds, NoSession
<1>3. /\ D \in SUBSET Dynamic /\ D \in SUBSET Ports /\ \A x : x \in D <=> x = q
      /\ Z \in SUBSET Sessions /\ \A z : z \in Z <=> z = s
  BY <1>2
<1>4. CallOf(q, par)
  BY DEF CallOf
<1>5. todata[q].mode_return \in {"IDLE", "LOCAL"}
  BY DEF CircuitInv, DataOK
<1> HIDE DEF s, par, D, Z
<1>6. \A x \in Ports : /\ type'[x] = IF x = q THEN "NONE" ELSE type[x]
                       /\ mode'[x] = IF x = par THEN m ELSE IF x = q THEN "IDLE" ELSE mode[x]
                       /\ access'[x] = IF x = q THEN "LOCAL" ELSE access[x]
                       /\ active'[x] = IF x = par \/ x = q THEN 0 ELSE active[x]
                       /\ x # q => todata'[x] = todata[x]
  BY <1>0, <1>1, <1>2 DEF Set, CircuitInv, DataOK
<1>7. \A z \in Sessions : session'[z] = IF z \in Z THEN NoSession ELSE session[z]
  BY <1>1, <1>3 DEF Set, CircuitInv, DataOK
<1>8. \A z \in Z : session[z].parent = par
  BY <1>3 DEF par
<1>9. /\ OthersKept(D \cup {par}) /\ \A x \in D \ {par} : PortGone(x)
      /\ par \in Ports \ D => SlotKept(par)
  BY <1>2, <1>3, <1>6 DEF OthersKept, PortKept, SlotKept, CallKept, PortGone
<1>10. active'[par] = 0 /\ mode'[par] = m /\ (par \in D => type'[par] = "NONE" /\ access'[par] = "LOCAL")
  BY <1>2, <1>3, <1>6
<1>11. \/ m \in FreedModes
       \/ m = "LOCAL"
       \/ m = "IDLE" /\ \E x \in Ports : CallOf(x, par) /\ todata[x].mode_return = "IDLE"
  BY <1>0, <1>4, <1>5
<1>12. CallsGo(par, D, Z)
  <2>1. session[s].target = q
    BY <1>2 DEF CircuitInv, OneSessionPerCall, s
  <2> QED BY <1>3, <2>1 DEF CallsGo
<1>13. Ends(par, D, Z)
  BY <1>1, <1>3, <1>4, <1>7, <1>8, <1>9, <1>10, <1>11, <1>12 DEF Ends
<1> QED BY <1>2, <1>3, <1>13 DEF Operation

\* a login by telnet;
LEMMA AcceptsOp ==
  ASSUME CircuitInv, NEW k \in TelnetSockets, AddPort("TELNET_IN", k, "PREGREET"),
         UNCHANGED <<active, session, tcp_in>>
  PROVE  Operation
<1> DEFINE q == Min(FreePorts)
<1>1. q \in Ports /\ type[q] = "NONE"
  BY FirstFree DEF AddPort, FreePorts
<1>2. /\ type' = Set(type, q, "TELNET_IN") /\ mode' = Set(mode, q, "PREGREET")
      /\ access' = Set(access, q, "LOCAL") /\ todata' = Set(todata, q, NoToData)
  BY DEF AddPort
<1> HIDE DEF q
<1>3. Accepts(q)
  BY <1>1, <1>2 DEF Accepts, Set, OthersKept, PortKept, SlotKept, CallKept, ListenersKept, CircuitInv, DataOK
<1> QED BY <1>1, <1>3 DEF Operation

\* a raw TCP connection.
LEMMA ServesOp ==
  ASSUME CircuitInv, NEW c \in TcpSockets, TcpInListen(c), ~Quiet
  PROVE  Operation
<1> DEFINE q == Min(FreePorts)
           s == Min(FreeSessions)
<1>1. /\ AddPort("TCP_IN", c, "SESSION")
      /\ session' = Set(session, s, Direct(q, TcpTarget[c]))
      /\ active' = Set(active, q, s)
      /\ tcp_in' = [tcp_in EXCEPT ![c] = [state |-> "CONNECTED", port |-> q, session |-> s]]
      /\ tcp_in[c].state = "LISTEN"
  BY DEF TcpInListen
<1>2. q \in Ports /\ type[q] = "NONE" /\ s \in Sessions /\ session[s].type = "DELETED"
  BY FirstFree DEF TcpInListen, AddPort, FreePorts, FreeSessions
<1>3. /\ type' = Set(type, q, "TCP_IN") /\ mode' = Set(mode, q, "SESSION")
      /\ access' = Set(access, q, "LOCAL") /\ todata' = Set(todata, q, NoToData)
  BY <1>1 DEF AddPort
<1> HIDE DEF q, s
<1>4. Begins(s, q, TcpTarget[c])
  BY <1>1, <1>2 DEF Begins, Set, CircuitInv, DataOK
<1>5. /\ type'[q] = "TCP_IN" /\ mode'[q] = "SESSION" /\ access'[q] = "LOCAL" /\ active'[q] = s
      /\ OthersKept({q})
  BY <1>1, <1>2, <1>3 DEF Set, OthersKept, PortKept, SlotKept, CallKept, CircuitInv, DataOK
<1>6. /\ tcp_in'[c] = [state |-> "CONNECTED", port |-> q, session |-> s]
      /\ \A d \in TcpSockets : d # c => tcp_in'[d] = tcp_in[d]
  BY <1>1 DEF CircuitInv, DataOK
<1>7. Serves(c, s, q)
  BY <1>1, <1>2, <1>4, <1>5, <1>6 DEF Serves
<1> QED BY <1>2, <1>7 DEF Operation

\* The commands of a terminal and of a modem.
LEMMA CommandOp ==
  ASSUME CircuitInv, OwnInv, NEW p \in Ports, AtPrompt(p),
         \/ access[p] = "LOCAL" /\ command_process(p)
         \/ access[p] = "MODEM" /\ modem_process(p)
  PROVE  Operation
<1>0. p # 0
  BY PortsSplit
<1>1. CASE Quiet \/ Fault
  BY <1>1, WaitsOp
<1>2. CASE \E t \in Ports : ~Busy(t) /\ type[t] # "NONE" /\ access[p] # access[t] /\ Enter(p, t)
  BY <1>2, EntersOp
<1>3. CASE Dial(p, IF access[p] = "MODEM" THEN "IDLE" ELSE "LOCAL")
  BY <1>3, CallsOp
<1>4. ASSUME NEW s \in Sessions, resume_session(p, s)
      PROVE  Operation
  <2>1. s \in Own(p)
    BY <1>0, <1>4, TargetKind DEF resume_session, Own, Live
  <2> QED BY <1>4, <2>1, PicksOp DEF resume_session, Modes
<1>5. CASE \E s \in Sessions : disconnect_session(p, s)
  BY <1>5, HangupOp DEF disconnect_session
<1>6. CASE access[p] = "LOCAL" /\ ClosePort(p)
  BY <1>6, ClosePortOp DEF AtPrompt
<1>7. CASE access[p] = "MODEM" /\ active[p] # 0 /\ mode' = Set(mode, p, "SESSION") /\ OnlyMode
  BY <1>7, TurnsOp DEF Modes
<1>8. CASE access[p] = "LOCAL" /\ command_process(p)
  BY <1>1, <1>2, <1>3, <1>4, <1>5, <1>6, <1>8
  DEF command_process, connect_local, telnet, logout, port_send_break
<1>9. CASE access[p] = "MODEM" /\ modem_process(p)
  <2>1. CASE active[p] # 0 /\ Hangup(p, active[p])
    BY <1>9, <2>1, HangupOp DEF OwnInv, ModemCallIsOwn, Live
  <2> QED BY <1>1, <1>2, <1>3, <1>7, <1>9, <2>1 DEF modem_process, modem_dial_telnet, modem_dial_port
<1> QED BY <1>8, <1>9

\* The switches pick a session of the port, if it has one.
LEMMA SwitchOwn ==
  ASSUME NEW p, Own(p) # {}
  PROVE  Forward(p) \in Own(p) /\ Backward(p) \in Own(p)
<1>1. Own(p) \in SUBSET Nat
  BY SizeAssumption DEF Own, Sessions
<1>2. ASSUME NEW S \in SUBSET Own(p), S # {}
      PROVE  Min(S) \in Own(p) /\ Max(S) \in Own(p)
  <2>1. S \in SUBSET Nat /\ S \in SUBSET (0..NumSessions)
    BY <1>1, SizeAssumption DEF Own, Sessions
  <2> QED BY <1>2, <2>1, MinIn, MaxIn, SizeAssumption
<1>3. Own(p) \in SUBSET Own(p)
  OBVIOUS
<1>4. Min(Own(p)) \in Own(p) /\ Max(Own(p)) \in Own(p)
  BY <1>2, <1>3
<1> QED BY <1>2, <1>4 DEF Forward, Backward

\* The parts of the pass of APP_Tasks.
LEMMA ServiceOp ==
  ASSUME CircuitInv, OwnInv, NEW p \in Ports, Service(p)
  PROVE  Operation
<1>1. CASE Quiet \/ Fault
  BY <1>1, WaitsOp
<1>2. CASE ServiceIdle(p) \/ ServicePregreet(p) \/ ServiceGreet(p)
  <2>1. type[p] = "SERIAL" => p \in Static
    BY PortsSplit DEF CircuitInv, PortKinds
  <2> QED BY <1>1, <1>2, <2>1, TurnsOp DEF ServiceIdle, ServicePregreet, ServiceGreet, Modes
<1>3. CASE ServiceLocal(p)
  <2>1. CASE (access[p] = "LOCAL" /\ command_process(p)) \/ (access[p] = "MODEM" /\ modem_process(p))
    <3>1. CASE AtPrompt(p)
      BY <2>1, <3>1, CommandOp
    <3>2. CASE ~AtPrompt(p)
      BY <1>1, <1>3, <3>2, Zenon DEF AtPrompt, ServiceLocal
    <3> QED BY <3>1, <3>2
  <2> QED BY <1>1, <1>3, <2>1, Zenon DEF ServiceLocal
<1>4. CASE ServiceSession(p)
  <2>0. PICK m \in Escaped(p) :
          \/ mode' = Set(mode, p, m) /\ OnlyMode
          \/ /\ active[p] # 0 /\ Live(active[p]) /\ type[p] # "TCP_IN"
             /\ \/ mode' = Set(mode, p, "LOCAL") /\ OnlyMode
                \/ Switch(p, m, Forward(p))
                \/ Switch(p, m, Backward(p))
    BY <1>4 DEF ServiceSession
  <2>1. m \in Modes /\ "LOCAL" \in Modes /\ (m = "SESSION" \/ (m = "MODEM" /\ access[p] = "MODEM"))
        /\ mode[p] = "SESSION"
    BY <1>4 DEF Escaped, Modes, ServiceSession
  <2>2. CASE mode' = Set(mode, p, m) /\ OnlyMode
    BY <2>1, <2>2, TurnsOp
  <2>3. CASE type[p] # "TCP_IN" /\ mode' = Set(mode, p, "LOCAL") /\ OnlyMode
    BY <2>1, <2>3, TurnsOp
  <2>4. ASSUME NEW s \in {Forward(p), Backward(p)}, Switch(p, m, s), Live(active[p]), active[p] # 0,
               type[p] # "TCP_IN"
        PROVE  Operation
    <3>1. active[p] \in Own(p)
      BY <2>1, <2>4 DEF OwnInv, SessionModeIsOwn, Own, Live
    <3>2. s \in Own(p) /\ s # 0
      BY <2>4, <3>1, SwitchOwn, SizeAssumption DEF Own, Sessions
    <3> QED BY <2>1, <2>4, <3>2, PicksOp DEF Switch
  <2> QED BY <2>0, <2>2, <2>3, <2>4
<1> QED BY <1>1, <1>2, <1>3, <1>4 DEF Service, ServiceModem

LEMMA TelnetInOp ==
  ASSUME CircuitInv, NEW k \in TelnetSockets, telnet_in_task(k)
  PROVE  Operation
<1>1. CASE Quiet
  BY <1>1, WaitsOp
<1>2. CASE TelnetInListen(k)
  BY <1>1, <1>2, AcceptsOp DEF TelnetInListen
<1>3. CASE TelnetInConnected(k)
  <2> DEFINE p == telnet_in[k].port
  <2>1. p \in Ports /\ type[p] = "TELNET_IN"
    BY <1>3, PortsSplit DEF TelnetInConnected, CircuitInv, SocketOwnsPort
  <2>2. mode' \in {mode, Set(mode, p, "LOCAL")}
    BY <1>3, Zenon DEF TelnetInConnected
  <2>3. UNCHANGED <<type, access, active, todata, insock, session, tcp_in>>
    BY <1>3 DEF TelnetInConnected
  <2> HIDE DEF p
  <2>4. CASE mode' = mode
    BY <2>3, <2>4 DEF Operation, Waits, OthersKept, PortKept, SlotKept, CallKept, ListenersKept
  <2>5. CASE mode' = Set(mode, p, "LOCAL")
    <3>1. mode'[p] = "LOCAL" /\ \A x \in Ports : x # p => mode'[x] = mode[x]
      BY <2>1, <2>5 DEF Set, CircuitInv, DataOK
    <3>2. Turns(p, "LOCAL")
      BY <2>1, <2>3, <3>1 DEF Turns, OthersKept, PortKept, SlotKept, CallKept, ListenersKept
    <3> QED BY <2>1, <3>2 DEF Operation, Modes
  <2> QED BY <2>2, <2>4, <2>5
<1>4. CASE TelnetInDisconnected(k)
  <2>1. telnet_in[k].port \in Dynamic /\ access[telnet_in[k].port] = "LOCAL"
    BY <1>4, PortsSplit DEF TelnetInDisconnected, CircuitInv, SocketOwnsPort, PortKinds
  <2> QED BY <1>4, <2>1, DropOp DEF TelnetInDisconnected, ListenersKept
<1>5. CASE TelnetInClosed(k)
  BY <1>5 DEF TelnetInClosed, portVars, Operation, Waits, OthersKept, PortKept, SlotKept, CallKept, ListenersKept
<1> QED BY <1>2, <1>3, <1>4, <1>5 DEF telnet_in_task

LEMMA TelnetOutOp ==
  ASSUME CircuitInv, NEW q \in Ports, telnet_out_task(q)
  PROVE  Operation
<1>1. CASE Quiet \/ Fault
  BY <1>1, WaitsOp
<1>2. CASE ToStep(q) /\ ~Fault
  <2>1. PICK st : /\ todata' = [todata EXCEPT ![q].state = st]
                  /\ UNCHANGED <<type, mode, access, active, insock, session,
                                 telnet_in, tcp_in, running>>
    BY <1>2 DEF ToStep
  <2>2. \A x \in Ports : CallKept(x)
    BY <2>1 DEF CircuitInv, DataOK, CallKept
  <2> QED BY <2>1, <2>2 DEF Operation, Waits, OthersKept, PortKept, SlotKept, ListenersKept
<1>3. CASE type[q] = "TELNET_OUT" /\ mode' = Set(mode, q, todata[q].mode_return) /\ OnlyMode
  <2>1. todata[q].mode_return \in Modes
    BY DEF CircuitInv, DataOK, Modes
  <2> QED BY <1>3, <2>1, TurnsOp
<1>4. CASE type[q] = "TELNET_OUT" /\ ToClose(q)
  BY <1>4, ToCloseOp
<1> QED BY <1>1, <1>2, <1>3, <1>4 DEF telnet_out_task, ToBreak, BreakFaults

LEMMA TcpInOp ==
  ASSUME CircuitInv, NEW c \in TcpSockets, tcp_in_task(c)
  PROVE  Operation
<1>1. CASE Quiet
  BY <1>1, WaitsOp
<1>2. CASE TcpInClosed(c) /\ ~Quiet
  <2>1. ListenersKept /\ UNCHANGED <<portVars, session>>
    BY <1>2 DEF TcpInClosed, ListenersKept, CircuitInv, DataOK
  <2> QED BY <2>1 DEF portVars, Operation, Waits, OthersKept, PortKept, SlotKept, CallKept
<1>3. CASE TcpInListen(c) /\ ~Quiet
  BY <1>3, ServesOp
<1>4. CASE TcpInConnected(c) /\ ~Quiet
  <2>1. tcp_in[c].port \in Ports /\ type[tcp_in[c].port] = "TCP_IN" /\ access[tcp_in[c].port] = "LOCAL"
        /\ ClosePort(tcp_in[c].port)
    BY <1>4, PortsSplit DEF TcpInConnected, CircuitInv, SocketOwnsPort, PortKinds
  <2> QED BY <2>1, ClosePortOp
<1>5. CASE TcpInDisconnected(c)
  <2>1. tcp_in[c].port \in Dynamic /\ access[tcp_in[c].port] = "LOCAL"
    BY <1>5, PortsSplit DEF TcpInDisconnected, CircuitInv, SocketOwnsPort, PortKinds
  <2>2. ListenersKept
    BY <1>5 DEF TcpInDisconnected, ListenersKept, CircuitInv, DataOK
  <2> QED BY <1>5, <2>1, <2>2, DropOp DEF TcpInDisconnected
<1> QED BY <1>1, <1>2, <1>3, <1>4, <1>5 DEF tcp_in_task

\* Whatever the loop or the USB task does is one of the operations.
LEMMA Operations ==
  ASSUME CircuitInv, OwnInv, Next
  PROVE  Operation
<1>1. CASE \E p \in Ports : Service(p)
  BY <1>1, ServiceOp
<1>2. CASE uart_task
  <2>1. CASE Quiet \/ Fault
    BY <2>1, WaitsOp
  <2>2. CASE \E p \in Static : mode' = Set(mode, p, "LOCAL") /\ OnlyMode
    BY <2>2, TurnsOp, PortsSplit DEF Modes
  <2> QED BY <1>2, <2>1, <2>2 DEF uart_task, BreakLocal, BreakRemote
<1>3. CASE \E k \in TelnetSockets : telnet_in_task(k)
  BY <1>3, TelnetInOp
<1>4. CASE \E q \in Dynamic : telnet_out_task(q)
  BY <1>4, TelnetOutOp, PortsSplit
<1>5. CASE \E c \in TcpSockets : tcp_in_task(c)
  BY <1>5, TcpInOp
<1>6. CASE \E p \in Static : CarrierRise(p)
  BY <1>6, TurnsOp, PortsSplit DEF CarrierRise, Modes
<1> QED BY <1>1, <1>2, <1>3, <1>4, <1>5, <1>6 DEF Next, APP_Tasks

(***************************************************************************)
(* Whose session a port is in.                                             *)
(***************************************************************************)
\* A port that a step leaves alone keeps its session, unless that ends.
LEMMA OwnKept ==
  ASSUME OwnInv, NEW x \in Ports, PortKept(x),
         Mine(x) => session'[active[x]] = session[active[x]]
  PROVE  /\ mode'[x] = "SESSION" => \/ Live(active[x])' /\ session'[active'[x]].parent = x
                                    \/ active'[x] = 0 /\ "SESSION" \in FreedModes
         /\ access'[x] = "MODEM" /\ active'[x] # 0 =>
              Live(active[x])' /\ session'[active'[x]].parent = x
BY DEF OwnInv, SessionModeIsOwn, ModemCallIsOwn, Mine, PortKept, SlotKept, Live

\* Every step keeps the ports in sessions of their own.
LEMMA OwnStep ==
  ASSUME CircuitInv, OwnInv, Operation
  PROVE  OwnInv'
<1> DEFINE Good(x) ==
      /\ mode'[x] = "SESSION" => \/ Live(active[x])' /\ session'[active'[x]].parent = x
                                 \/ active'[x] = 0 /\ "SESSION" \in FreedModes
      /\ access'[x] = "MODEM" /\ active'[x] # 0 =>
           Live(active[x])' /\ session'[active'[x]].parent = x
<1> SUFFICES ASSUME NEW x \in Ports PROVE Good(x)
  BY DEF OwnInv, SessionModeIsOwn, ModemCallIsOwn
<1>1. CASE Waits
  BY <1>1, OwnKept DEF Waits, OthersKept
<1>2. ASSUME NEW p \in Ports, NEW m \in Modes, Turns(p, m) PROVE Good(x)
  <2>1. CASE x = p
    BY <1>2, <2>1 DEF Turns, SlotKept, OwnInv, SessionModeIsOwn, ModemCallIsOwn, Live, CircuitInv, DataOK
  <2>2. CASE x # p
    BY <1>2, <2>2, OwnKept DEF Turns, OthersKept
  <2> QED BY <2>1, <2>2
<1>3. ASSUME NEW p \in Ports, NEW t \in Ports, NEW s \in Sessions, Enters(p, s, t) \/ Calls(p, s, t)
      PROVE  Good(x)
  <2>1. Begins(s, p, t) /\ mode'[p] = "SESSION" /\ active'[p] = s
    BY <1>3 DEF Enters, Calls
  <2>2. CASE x = p
    BY <2>1, <2>2 DEF Begins, Direct, Live
  <2>3. CASE PortKept(x)
    BY <2>1, <2>3, OwnKept DEF Begins, Mine, Live
  <2>4. CASE mode'[x] = "IDLE" /\ access'[x] = "REMOTE"
    BY <2>4
  <2> QED BY <1>3, <2>2, <2>3, <2>4 DEF Enters, Calls, OthersKept
<1>4. ASSUME NEW q \in Ports, NEW s \in Sessions, NEW c \in TcpSockets, Serves(c, s, q)
      PROVE  Good(x)
  <2>1. CASE x = q
    BY <1>4, <2>1 DEF Serves, Begins, Direct, Live
  <2>2. CASE x # q
    BY <1>4, <2>2, OwnKept DEF Serves, OthersKept, Begins, Mine, Live
  <2> QED BY <2>1, <2>2
<1>5. ASSUME NEW q \in Ports, Accepts(q) PROVE Good(x)
  BY <1>5, OwnKept DEF Accepts, OthersKept
<1>6. ASSUME NEW p \in Ports, NEW s \in Sessions, NEW m \in Modes, Picks(p, s, m)
      PROVE  Good(x)
  <2>1. CASE x = p
    BY <1>6, <2>1 DEF Picks, Own, Live, CircuitInv, SessionEnds, NoSession
  <2>2. CASE x # p
    BY <1>6, <2>2, OwnKept DEF Picks, OthersKept
  <2> QED BY <2>1, <2>2
<1>7. ASSUME NEW p \in Ports, NEW D \in SUBSET Ports, NEW Z \in SUBSET Sessions, Ends(p, D, Z)
      PROVE  Good(x)
  <2>1. CASE x = p
    BY <1>7, <2>1 DEF Ends
  <2>2. CASE x \in D \ {p}
    BY <1>7, <2>2 DEF Ends, PortGone
  <2>3. CASE x \notin D \cup {p}
    <3>1. PortKept(x)
      BY <1>7, <2>3 DEF Ends, OthersKept
    <3>2. ASSUME Mine(x) PROVE session'[active[x]] = session[active[x]]
      BY <1>7, <2>3, <3>2 DEF Mine, Live, Ends
    <3> QED BY <3>1, <3>2, OwnKept
  <2> QED BY <2>1, <2>2, <2>3
<1> HIDE DEF Good
<1> QED BY <1>1, <1>2, <1>3, <1>4, <1>5, <1>6, <1>7 DEF Operation

(***************************************************************************)
(* Two users.                                                              *)
(***************************************************************************)
\* A session begins at a port nobody is at, or is the listener's.
LEMMA SharesStep ==
  ASSUME CircuitInv, ListenerShares, Operation
  PROVE  ListenerShares'
<1> DEFINE Shared(a, b) == \E c \in TcpSockets : /\ tcp_in'[c].state = "CONNECTED"
                                               /\ tcp_in'[c].session \in {a, b}
                                               /\ TcpTarget[c] = session'[a].target
                                               /\ session'[tcp_in'[c].session].parent = tcp_in'[c].port
<1> SUFFICES ASSUME NEW a \in Sessions, NEW b \in Sessions, Live(a)', Live(b)', a # b,
                    session'[a].target = session'[b].target
             PROVE  Shared(a, b)
  BY DEF ListenerShares
\* Two sessions that a step leaves alone.
<1>1. ASSUME Live(a), Live(b), session'[a] = session[a], session'[b] = session[b], ListenersKept
      PROVE  Shared(a, b)
  BY <1>1 DEF ListenerShares, ListenersKept
<1>2. ASSUME UNCHANGED session, ListenersKept
      PROVE  Shared(a, b)
  BY <1>1, <1>2 DEF Live
<1>3. ASSUME NEW p \in Ports, NEW t \in Ports, NEW s \in Sessions, Enters(p, s, t) \/ Calls(p, s, t)
      PROVE  Shared(a, b)
  <2>1. Begins(s, p, t) /\ ListenersKept
    BY <1>3 DEF Enters, Calls
  <2>2. \A z \in Sessions : session[z].target # t
    BY <1>3, TargetKind, PortsSplit DEF Enters, Calls, Busy, StaticTypes
  <2>3. a # s /\ b # s
    BY <2>1, <2>2 DEF Begins, Direct
  <2> QED BY <1>1, <2>1, <2>3 DEF Begins, Live
<1>4. ASSUME NEW q \in Ports, NEW s \in Sessions, NEW c \in TcpSockets, Serves(c, s, q)
      PROVE  Shared(a, b)
  <2>1. CASE a = s \/ b = s
    BY <1>4, <2>1 DEF Serves, Begins, Direct
  <2>2. CASE a # s /\ b # s
    BY <1>4, <2>2 DEF Serves, Begins, Live, ListenerShares
  <2> QED BY <2>1, <2>2
<1>5. ASSUME NEW p \in Ports, NEW D \in SUBSET Ports, NEW Z \in SUBSET Sessions, Ends(p, D, Z)
      PROVE  Shared(a, b)
  <2>1. /\ a \notin Z /\ b \notin Z /\ session'[a] = session[a] /\ session'[b] = session[b]
        /\ Live(a) /\ Live(b)
    BY <1>5 DEF Ends, Live, NoSession
  <2>2. PICK c \in TcpSockets : /\ tcp_in[c].state = "CONNECTED"
                                /\ tcp_in[c].session \in {a, b}
                                /\ TcpTarget[c] = session[a].target
                                /\ session[tcp_in[c].session].parent = tcp_in[c].port
    BY <2>1 DEF ListenerShares
  <2>3. tcp_in'[c] = tcp_in[c]
    BY <1>5, <2>1, <2>2 DEF Ends, AllOf
  <2> QED BY <2>1, <2>2, <2>3
<1> HIDE DEF Shared
<1> QED BY <1>2, <1>3, <1>4, <1>5 DEF Operation, Waits, Turns, Accepts, Picks

(***************************************************************************)
(* Idle terminals.                                                         *)
(***************************************************************************)
\* A call that is there after a step was there before it, with the same session
\* and mode to go back to, or has just been made.
LEMMA CallBefore ==
  ASSUME CircuitInv, CircuitInv', Operation, NEW q \in Ports, type'[q] = "TELNET_OUT"
  PROVE  \/ /\ type[q] = "TELNET_OUT" /\ CallKept(q)
            /\ session'[todata'[q].session] = session[todata[q].session]
         \/ \E p \in Ports, s \in Sessions : Calls(p, s, q)
<1>0. /\ todata'[q].session \in Sessions /\ session'[todata'[q].session].target = q
      /\ 0 \notin Ports
  BY PortsSplit DEF CircuitInv, OneSessionPerCall
<1>1. ASSUME SlotKept(q), UNCHANGED session
      PROVE  /\ type[q] = "TELNET_OUT" /\ CallKept(q)
             /\ session'[todata'[q].session] = session[todata[q].session]
  BY <1>1 DEF SlotKept, CallKept
<1>2. ASSUME SlotKept(q)
      PROVE  type[q] = "TELNET_OUT" /\ CallKept(q) /\ session[todata'[q].session].target = q
  BY <1>2 DEF SlotKept, CallKept, CircuitInv, OneSessionPerCall
<1>3. ASSUME NEW p \in Ports, NEW t \in Ports, NEW s \in Sessions, q # t \/ Enters(p, s, t),
             Enters(p, s, t) \/ Calls(p, s, t)
      PROVE  /\ type[q] = "TELNET_OUT" /\ CallKept(q)
             /\ session'[todata'[q].session] = session[todata[q].session]
  <2>1. SlotKept(q) /\ Begins(s, p, t)
    BY <1>3 DEF Enters, Calls, OthersKept, PortKept
  <2>2. session[s].target = 0
    BY <2>1 DEF Begins, CircuitInv, SessionEnds, NoSession
  <2> QED BY <1>0, <1>2, <2>1, <2>2 DEF Begins, CallKept
<1>4. ASSUME NEW x \in Ports, NEW s \in Sessions, NEW c \in TcpSockets, Serves(c, s, x)
      PROVE  /\ type[q] = "TELNET_OUT" /\ CallKept(q)
             /\ session'[todata'[q].session] = session[todata[q].session]
  <2>1. SlotKept(q) /\ Begins(s, x, TcpTarget[c])
    BY <1>4 DEF Serves, OthersKept, PortKept
  <2>2. session[s].target = 0
    BY <2>1 DEF Begins, CircuitInv, SessionEnds, NoSession
  <2> QED BY <1>0, <1>2, <2>1, <2>2 DEF Begins, CallKept
<1>5. ASSUME NEW p \in Ports, NEW D \in SUBSET Ports, NEW Z \in SUBSET Sessions, Ends(p, D, Z)
      PROVE  /\ type[q] = "TELNET_OUT" /\ CallKept(q)
             /\ session'[todata'[q].session] = session[todata[q].session]
  <2>1. SlotKept(q)
    BY <1>5 DEF Ends, OthersKept, PortKept, PortGone
  <2> QED BY <1>0, <1>2, <1>5, <2>1 DEF Ends, NoSession, CallKept
<1> QED BY <1>1, <1>3, <1>4, <1>5 DEF Operation, Waits, Turns, Accepts, Picks, OthersKept, PortKept

\* A terminal is idled by LOGOUT alone, which ends its sessions.
LEMMA IdleStep ==
  ASSUME CircuitInv, CircuitInv', OwnInv, IdleInv, Operation, "IDLE" \notin FreedModes
  PROVE  IdleInv'
<1>0. PortKinds /\ PortKinds'
  BY DEF CircuitInv
<1>1. CallerReturns'
  <2> SUFFICES ASSUME NEW q \in Ports, type'[q] = "TELNET_OUT",
                      session'[todata'[q].session].parent \in Static,
                      access'[session'[todata'[q].session].parent] = "LOCAL"
               PROVE  todata'[q].mode_return = "LOCAL"
    BY DEF CallerReturns
  <2>1. CASE type[q] = "TELNET_OUT" /\ CallKept(q)
             /\ session'[todata'[q].session] = session[todata[q].session]
    BY <1>0, <2>1 DEF PortKinds, IdleInv, CallerReturns, CallKept
  <2>2. CASE \E p \in Ports, s \in Sessions : Calls(p, s, q)
    BY <1>0, <2>2 DEF PortKinds, Calls, Begins, Direct
  <2> QED BY <2>1, <2>2, CallBefore
<1>2. IdleTerminalHasNoSession'
  <2> SUFFICES ASSUME NEW x \in Static, access'[x] = "LOCAL", mode'[x] = "IDLE",
                      NEW z \in Sessions
               PROVE  session'[z].parent # x
    BY DEF IdleTerminalHasNoSession
  <2>0. x \in Ports /\ access[x] = "LOCAL" /\ x \notin Dynamic /\ x # 0 /\ type[x] \notin {"NONE", "TELNET_OUT"}
    BY <1>0, PortsSplit, StaticAssumption DEF PortKinds, StaticTypes
  <2>1. ASSUME mode[x] = "IDLE", \/ session'[z] \in {session[z], NoSession}
                                 \/ session'[z].parent # x
        PROVE  session'[z].parent # x
    BY <2>0, <2>1 DEF IdleInv, IdleTerminalHasNoSession, NoSession
  <2>2. CASE \E p \in Ports, m \in Modes : Turns(p, m)
    BY <2>0, <2>1, <2>2 DEF Turns, OthersKept, PortKept
  <2>3. ASSUME NEW p \in Ports, NEW t \in Ports, NEW s \in Sessions, Enters(p, s, t) \/ Calls(p, s, t)
        PROVE  session'[z].parent # x
    BY <2>0, <2>1, <2>3 DEF Enters, Calls, OthersKept, PortKept, Begins, Direct
  <2>4. ASSUME NEW q \in Ports, NEW s \in Sessions, NEW c \in TcpSockets, Serves(c, s, q)
        PROVE  session'[z].parent # x
    BY <2>0, <2>1, <2>4 DEF Serves, OthersKept, PortKept, Begins, Direct
  <2>5. ASSUME NEW p \in Ports, NEW s \in Sessions, NEW m \in Modes, Picks(p, s, m)
        PROVE  session'[z].parent # x
    <3>1. CASE x = p
      BY <2>5, <3>1 DEF Picks
    <3>2. CASE x # p
      <4>1. mode[x] = "IDLE" /\ session'[z] = session[z]
        BY <2>0, <2>5, <3>2 DEF Picks, OthersKept, PortKept
      <4> QED BY <2>1, <4>1
    <3> QED BY <3>1, <3>2
  <2>6. ASSUME NEW p \in Ports, NEW D \in SUBSET Ports, NEW Z \in SUBSET Sessions, Ends(p, D, Z)
        PROVE  session'[z].parent # x
    <3>1. CASE x = p
      <4>1. AllOf(x, Z)
        BY <2>0, <2>6, <3>1 DEF Ends, CallOf, IdleInv, CallerReturns
      <4> QED BY <2>0, <2>6, <4>1 DEF Ends, AllOf, NoSession
    <3>2. CASE x # p
      BY <2>0, <2>1, <2>6, <3>2 DEF Ends, OthersKept, PortKept
    <3> QED BY <3>1, <3>2
  <2> QED BY <2>0, <2>1, <2>2, <2>3, <2>4, <2>5, <2>6 DEF Operation, Waits, Accepts, OthersKept, PortKept
<1> QED BY <1>1, <1>2 DEF IdleInv

(***************************************************************************)
(* Crashes.                                                                *)
(***************************************************************************)
\* What it takes for the program to call or read through NULL, where nobody
\* logs in by telnet.
FaultReason ==
  \/ \E p \in Ports : DanglingActive(p) /\ (AtPrompt(p) \/ p \in Static)
  \/ \E p \in Ports : mode[p] = "LOCAL" /\ type[p] = "NONE"
  \/ \E q \in Ports : /\ type[q] = "TELNET_OUT"
                      /\ (active[q] = 0 \/ session[active[q]].parent \in FreePorts)

\* The crashes of the loop.
LEMMA Faults ==
  ASSUME CircuitInv, OwnInv, Next, TelnetSockets = {}, running'  # running
  PROVE  FaultReason /\ Fault
<1>1. ASSUME NEW p \in Ports, command_process(p) \/ modem_process(p)
      PROVE  DanglingActive(p) /\ Fault
  BY <1>1 DEF command_process, modem_process, Quiet, connect_local, Enter, telnet, Dial, resume_session,
              disconnect_session, Hangup, logout, ClosePort, port_send_break, modem_dial_telnet,
              modem_dial_port, OnlyMode
<1>2. ASSUME NEW p \in Ports, Service(p)
      PROVE  FaultReason /\ Fault
  <2>1. CASE ServiceIdle(p) \/ ServicePregreet(p) \/ ServiceGreet(p) \/ ServiceModem(p)
    BY <2>1 DEF ServiceIdle, ServicePregreet, ServiceGreet, ServiceModem, Quiet, OnlyMode
  <2>2. CASE ServiceLocal(p)
    <3>1. mode[p] = "LOCAL"
      BY <2>2, Zenon DEF ServiceLocal
    <3>2. CASE type[p] = "NONE" /\ (Quiet \/ Fault)
      BY <3>1, <3>2 DEF FaultReason, Quiet
    <3>3. CASE Quiet
      BY <3>3 DEF Quiet
    <3>4. CASE AtPrompt(p) /\ (command_process(p) \/ modem_process(p))
      BY <1>1, <3>4 DEF FaultReason
    <3>5. \/ type[p] = "NONE" /\ (Quiet \/ Fault)
          \/ Quiet
          \/ AtPrompt(p) /\ (command_process(p) \/ modem_process(p))
      BY <2>2, Zenon DEF ServiceLocal, AtPrompt
    <3> QED BY <3>2, <3>3, <3>4, <3>5
  <2>3. CASE ServiceSession(p)
    <3>1. PICK s \in {Forward(p), Backward(p)}, m \in Escaped(p) :
            Switch(p, m, s) /\ mode[p] = "SESSION" /\ active[p] # 0 /\ Live(active[p])
      BY <2>3 DEF ServiceSession, OnlyMode
    <3>2. active[p] \in Own(p)
      BY <3>1 DEF OwnInv, SessionModeIsOwn, Own, Live
    <3>3. s # 0
      BY <3>1, <3>2, SwitchOwn, SizeAssumption DEF Own, Sessions
    <3> QED BY <3>1, <3>3 DEF Switch
  <2> QED BY <1>2, <2>1, <2>2, <2>3 DEF Service
<1>3. CASE uart_task
  <2>1. PICK p \in Static : BreakRemote(p)
    BY <1>3 DEF uart_task, BreakLocal, OnlyMode, Quiet
  <2> QED BY <2>1, PortsSplit DEF BreakRemote, FaultReason
<1>4. ASSUME NEW q \in Dynamic, telnet_out_task(q)
      PROVE  FaultReason /\ Fault
  <2>1. type[q] = "TELNET_OUT" /\ Fault /\ (ToFaults(q) \/ active[q] = 0 \/ CallerLost(q))
    BY <1>4 DEF telnet_out_task, ToStep, ToBreak, BreakFaults, ToClose, OnlyMode, Quiet
  <2>2. active[q] = 0 \/ session[active[q]].parent \in FreePorts
    BY <2>1 DEF ToFaults, CallerLost
  <2> QED BY <2>1, <2>2, PortsSplit DEF FaultReason
<1>5. ASSUME NEW c \in TcpSockets PROVE ~tcp_in_task(c)
  BY DEF tcp_in_task, TcpInClosed, TcpInListen, TcpInConnected, TcpInDisconnected, ClosePort, Quiet
<1>6. ASSUME NEW p \in Static PROVE ~CarrierRise(p)
  BY DEF CarrierRise, OnlyMode
<1> QED BY <1>2, <1>3, <1>4, <1>5, <1>6 DEF Next, APP_Tasks

\* Of the reasons for a crash only the first ever holds, at a LOCAL terminal.
LEMMA CrashStep ==
  ASSUME CircuitInv, CircuitInv', OwnInv, CrashInv, Next, TelnetSockets = {}
  PROVE  CrashInv'
<1>0. PortKinds /\ PortKinds' /\ Operation
  BY Operations DEF CircuitInv
<1>1. ASSUME NEW p \in Ports, AtPrompt(p) PROVE p \in Static
  BY <1>0, <1>1, PortsSplit DEF AtPrompt, CrashInv, QuietSlots, PortKinds
<1>2. \A q \in Ports : type[q] # "TELNET_IN"
  BY DEF CircuitInv, SocketOwnsPort
\* A call keeps the session it was made for as its own.
<1>3. CallsFromBoot'
  <2> SUFFICES ASSUME NEW q \in Ports, type'[q] = "TELNET_OUT"
               PROVE  /\ active'[q] = todata'[q].session
                      /\ session'[todata'[q].session].parent \in Static
    BY DEF CallsFromBoot
  <2>1. CASE \E p \in Ports, s \in Sessions : Calls(p, s, q)
    BY <1>1, <2>1 DEF Calls, Begins, Direct
  <2>2. CASE /\ type[q] = "TELNET_OUT" /\ CallKept(q)
             /\ session'[todata'[q].session] = session[todata[q].session]
    <3>1. q \in Dynamic /\ access[q] = "REMOTE" /\ q \notin Static
      BY <1>0, <2>2, PortsSplit DEF PortKinds
    <3>2. ASSUME NEW p \in Ports, PortKept(q) \/ (q = p /\ (AtPrompt(p) \/ p \in Static))
          PROVE  active'[q] = active[q]
      BY <1>1, <3>1, <3>2 DEF PortKept
    <3>3. ASSUME NEW p \in Ports, NEW D \in SUBSET Ports, NEW Z \in SUBSET Sessions, Ends(p, D, Z)
          PROVE  active'[q] = active[q]
      <4>1. q # p
        BY <3>1, <3>3 DEF Ends, CallOf, CrashInv, CallsFromBoot
      <4>2. q \notin D
        BY <2>2, <3>3, <4>1 DEF Ends, PortGone
      <4> QED BY <3>3, <4>1, <4>2 DEF Ends, OthersKept, PortKept
    <3>4. ASSUME NEW p \in Ports, NEW s \in Sessions, NEW m \in Modes, Picks(p, s, m)
          PROVE  active'[q] = active[q]
      <4>1. q # p
        BY <1>1, <3>1, <3>4 DEF Picks, CrashInv, QuietSlots
      <4> QED BY <3>4, <4>1 DEF Picks, OthersKept, PortKept
    <3>5. active'[q] = active[q]
      <4>1. CASE Waits
        BY <2>2, <3>2, <4>1 DEF Waits, OthersKept
      <4>2. CASE \E p \in Ports, m \in Modes : Turns(p, m)
        <5>1. PICK p \in Ports, m \in Modes : Turns(p, m)
          BY <4>2
        <5> QED BY <5>1 DEF Turns, OthersKept, PortKept
      <4>3. CASE \E p, t \in Ports, s \in Sessions : Enters(p, s, t) \/ Calls(p, s, t)
        <5>1. PICK p \in Ports, t \in Ports, s \in Sessions : Enters(p, s, t) \/ Calls(p, s, t)
          BY <4>3
        <5>2. AtPrompt(p) /\ (q = p \/ q = t \/ PortKept(q))
          BY <5>1 DEF Enters, Calls, OthersKept
        <5>3. CASE q = t
          <6>1. Enters(p, s, t)
            BY <2>2, <5>1, <5>3 DEF Calls
          <6> QED BY <3>2, <5>2, <6>1 DEF Enters, OthersKept
        <5> QED BY <3>2, <5>2, <5>3
      <4>4. CASE \E x \in Ports, s \in Sessions, c \in TcpSockets : Serves(c, s, x)
        BY <2>2, <4>4 DEF Serves, OthersKept, PortKept
      <4>5. CASE \E x \in Ports : TelnetSockets # {} /\ Accepts(x)
        BY <2>2, <4>5 DEF Accepts, OthersKept, PortKept
      <4> QED BY <1>0, <3>3, <3>4, <4>1, <4>2, <4>3, <4>4, <4>5 DEF Operation
    <3> QED BY <2>2, <3>5 DEF CallKept, CrashInv, CallsFromBoot
  <2> QED BY <1>0, <2>1, <2>2, CallBefore
<1>4. QuietSlots'
  <2> SUFFICES ASSUME NEW q \in Dynamic
               PROVE  \/ mode'[q] = "IDLE"
                      \/ mode'[q] = "SESSION" /\ type'[q] = "TCP_IN"
                      \/ mode'[q] = "LOCAL" /\ type'[q] = "TELNET_OUT"
    BY DEF QuietSlots
  <2>0. /\ q \in Ports /\ q \notin Static /\ access[q] # "MODEM"
        /\ \/ mode[q] = "IDLE"
           \/ mode[q] = "SESSION" /\ type[q] = "TCP_IN"
           \/ mode[q] = "LOCAL" /\ type[q] = "TELNET_OUT"
    BY <1>0, PortsSplit DEF CrashInv, QuietSlots, PortKinds
  <2>1. CASE SlotKept(q) /\ mode'[q] = mode[q]
    BY <2>0, <2>1 DEF SlotKept
  <2>2. ASSUME NEW p \in Ports, NEW m \in Modes, Turns(p, m), q = p
        PROVE  \/ mode'[q] = "IDLE"
               \/ mode'[q] = "SESSION" /\ type'[q] = "TCP_IN"
               \/ mode'[q] = "LOCAL" /\ type'[q] = "TELNET_OUT"
    BY <1>2, <2>0, <2>2 DEF Turns, SlotKept, AtPrompt, CircuitInv, DataOK
  <2>3. ASSUME NEW p \in Ports, NEW t \in Ports, NEW s \in Sessions, Enters(p, s, t) \/ Calls(p, s, t)
        PROVE  PortKept(q) \/ mode'[q] = "IDLE"
    BY <1>1, <2>0, <2>3 DEF Enters, Calls, OthersKept
  <2>4. ASSUME NEW p \in Ports, NEW s \in Sessions, NEW m \in Modes, Picks(p, s, m)
        PROVE  PortKept(q)
    BY <1>1, <2>0, <2>4 DEF Picks, OthersKept
  <2>5. ASSUME NEW p \in Ports, NEW D \in SUBSET Ports, NEW Z \in SUBSET Sessions, Ends(p, D, Z)
        PROVE  mode'[q] = "IDLE" \/ (SlotKept(q) /\ mode'[q] = mode[q])
    <3>1. CASE q = p
      BY <2>0, <2>5, <3>1 DEF Ends, CallOf, CrashInv, CallsFromBoot
    <3>2. CASE q # p
      BY <2>0, <2>5, <3>2 DEF Ends, OthersKept, PortKept, PortGone
    <3> QED BY <3>1, <3>2
  <2> QED BY <1>0, <2>0, <2>1, <2>2, <2>3, <2>4, <2>5
      DEF Operation, Waits, Turns, Serves, Accepts, OthersKept, PortKept
<1>5. HostsStayOut'
  <2> SUFFICES ASSUME NEW x \in Static, access'[x] \in {"REMOTE", "TU58"}
               PROVE  active'[x] = 0
    BY DEF HostsStayOut
  <2>0. /\ x \in Ports /\ x \notin Dynamic /\ type[x] # "NONE" /\ type'[x] # "NONE"
        /\ access[x] \in {"REMOTE", "TU58"} /\ active[x] = 0
    BY <1>0, PortsSplit, StaticAssumption DEF CrashInv, HostsStayOut, PortKinds, StaticTypes
  <2>1. CASE active'[x] = active[x]
    BY <2>0, <2>1
  <2>2. ASSUME NEW p \in Ports, NEW t \in Ports, NEW s \in Sessions, Enters(p, s, t) \/ Calls(p, s, t)
        PROVE  PortKept(x)
    BY <2>0, <2>2 DEF Enters, Calls, OthersKept, AtPrompt
  <2>3. ASSUME NEW p \in Ports, NEW s \in Sessions, NEW m \in Modes, Picks(p, s, m)
        PROVE  PortKept(x)
    BY <2>0, <2>3, SizeAssumption DEF Picks, OthersKept, AtPrompt, Live, Sessions
  <2>4. ASSUME NEW p \in Ports, NEW D \in SUBSET Ports, NEW Z \in SUBSET Sessions, Ends(p, D, Z)
        PROVE  active'[x] = 0
    BY <2>0, <2>4 DEF Ends, OthersKept, PortKept, PortGone
  <2> QED BY <1>0, <2>0, <2>1, <2>2, <2>3, <2>4
      DEF Operation, Waits, Turns, Serves, Accepts, OthersKept, PortKept
<1>6. CrashNeedsLogout'
  <2>1. running
    BY DEF Next, APP_Tasks, Service, uart_task, telnet_in_task, telnet_out_task, tcp_in_task, At, CarrierRise
  <2> SUFFICES ASSUME ~running'
               PROVE  \E p \in Static : access'[p] = "LOCAL" /\ DanglingActive(p)'
    BY DEF CrashNeedsLogout
  <2>2. FaultReason /\ UNCHANGED <<type, mode, access, active, session>>
    BY <2>1, Faults DEF Fault, portVars
  <2>3. ASSUME NEW p \in Ports, mode[p] = "LOCAL" /\ type[p] = "NONE"
        PROVE  FALSE
    BY <1>0, <2>3, PortsSplit, StaticAssumption DEF CrashInv, QuietSlots, PortKinds, StaticTypes
  <2>4. ASSUME NEW q \in Ports, type[q] = "TELNET_OUT",
               active[q] = 0 \/ session[active[q]].parent \in FreePorts
        PROVE  FALSE
    <3>1. active[q] \in Sessions /\ session[active[q]].parent \in Static
      BY <2>4 DEF CrashInv, CallsFromBoot, CircuitInv, OneSessionPerCall
    <3> QED BY <1>0, <2>4, <3>1, SizeAssumption, StaticAssumption
        DEF Sessions, FreePorts, PortKinds, StaticTypes
  <2>5. PICK p \in Static : DanglingActive(p)
    BY <1>1, <2>2, <2>3, <2>4 DEF FaultReason
  <2>6. access[p] = "LOCAL"
    <3>1. p \in Ports /\ active[p] # 0 /\ session[active[p]].target = 0 /\ 0 \notin Ports
      BY <2>5, PortsSplit DEF DanglingActive
    <3>2. access[p] # "MODEM"
      BY <3>1 DEF OwnInv, ModemCallIsOwn, CircuitInv, LiveTarget, Live
    <3> QED BY <3>1, <3>2 DEF CrashInv, HostsStayOut, CircuitInv, DataOK, AccessModes
  <2> QED BY <2>2, <2>5, <2>6 DEF DanglingActive
<1> QED BY <1>3, <1>4, <1>5, <1>6 DEF CrashInv

(***************************************************************************)
(* The switchboard.                                                        *)
(***************************************************************************)
\* A deleted slot talks on no line, although TO_CLOSE may write its mode.
SilentSlots == \A q \in Ports : type[q] = "NONE" /\ mode[q] = "SESSION" => active[q] = 0

\* Port by port, what the board shows of the port table.
Seen(x) == /\ TalkingOn'[x] = TalkingOn[x]
           /\ x \in Present' <=> x \in Present

LEMMA OthersSeen ==
  ASSUME NEW P, OthersKept(P)
  PROVE  \A x \in Ports \ P : Seen(x)
BY DEF OthersKept, PortKept, SlotKept, Seen, TalkingOn, Present

LEMMA Talking ==
  ASSUME NEW p \in Ports
  PROVE  /\ TalkingOn[p] = IF mode[p] = "SESSION" THEN active[p] ELSE 0
         /\ TalkingOn'[p] = IF mode'[p] = "SESSION" THEN active'[p] ELSE 0
         /\ p \in Present <=> type[p] # "NONE"
         /\ p \in Present' <=> type'[p] # "NONE"
BY DEF TalkingOn, Present

\* One port moves to line l.
LEMMA OneMoves ==
  ASSUME NEW p \in Ports, \A x \in Ports \ {p} : TalkingOn'[x] = TalkingOn[x]
  PROVE  TalkingOn' = [TalkingOn EXCEPT ![p] = TalkingOn'[p]]
<1>1. TalkingOn = [x \in Ports |-> TalkingOn[x]] /\ TalkingOn' = [x \in Ports |-> TalkingOn'[x]]
  BY DEF TalkingOn
<1> QED BY <1>1

LEMMA TwoMove ==
  ASSUME NEW p \in Ports, NEW q \in Ports, p # q,
         \A x \in Ports \ {p, q} : TalkingOn'[x] = TalkingOn[x]
  PROVE  TalkingOn' = [TalkingOn EXCEPT ![p] = TalkingOn'[p], ![q] = TalkingOn'[q]]
<1>1. TalkingOn = [x \in Ports |-> TalkingOn[x]] /\ TalkingOn' = [x \in Ports |-> TalkingOn'[x]]
  BY DEF TalkingOn
<1> QED BY <1>1

LEMMA OneComes ==
  ASSUME NEW q \in Ports, q \in Present', \A x \in Ports \ {q} : x \in Present' <=> x \in Present
  PROVE  Present' = Present \cup {q}
BY DEF Present

\* The ends of the lines.
LEMMA LineFacts ==
  ASSUME CircuitInv
  PROVE  /\ \A s \in Sessions : LineEnds[s] = <<session[s].parent, session[s].target>>
         /\ \A s \in Sessions : session[s].type = "DELETED" => LineEnds[s] = Board!Free
         /\ \A s \in Sessions : Board!From(s) = session[s].parent /\ Board!To(s) = session[s].target
         /\ \A t : Board!Taken(t) <=> Busy(t)
<1>1. \A s \in Sessions : LineEnds[s] = <<session[s].parent, session[s].target>>
  BY DEF LineEnds
<1>2. \A s \in Sessions : Board!From(s) = session[s].parent /\ Board!To(s) = session[s].target
  BY <1>1 DEF Board!From, Board!To
<1>3. \A s \in Sessions : session[s].type = "DELETED" => LineEnds[s] = Board!Free
  BY <1>1 DEF Board!Free, CircuitInv, SessionEnds, NoSession
<1> QED BY <1>1, <1>2, <1>3 DEF Board!Taken, Busy

LEMMA BeginsLeads ==
  ASSUME CircuitInv, NEW s \in Sessions, NEW p, NEW t, p # t, Begins(s, p, t)
  PROVE  Board!Lead(s, p, t)
<1>1. LineEnds' = [z \in Sessions |-> <<session'[z].parent, session'[z].target>>]
  BY DEF LineEnds
<1>2. session'[s].parent = p /\ session'[s].target = t
      /\ \A z \in Sessions : z # s => session'[z] = session[z]
  BY DEF Begins, Direct
<1>3. LineEnds' = [LineEnds EXCEPT ![s] = <<p, t>>]
  BY <1>1, <1>2 DEF LineEnds
<1> QED BY <1>3, LineFacts DEF Board!Lead, Begins

\* A prompt is that of a port that is there and talks on no line.
LEMMA PromptIsUp ==
  ASSUME CircuitInv, NEW p \in Ports, AtPrompt(p)
  PROVE  p \in Present /\ TalkingOn[p] = 0
<1>1. type[p] # "NONE"
  BY PortsSplit, StaticAssumption DEF AtPrompt, CircuitInv, PortKinds, StaticTypes
<1> QED BY <1>1, Talking DEF AtPrompt

\* A slot that is not in use is no session's target.
LEMMA FreeIsNotTaken ==
  ASSUME CircuitInv, NEW q \in Ports, type[q] = "NONE"
  PROVE  ~Board!Taken(q) /\ q \notin Present /\ q \in Dynamic
<1>1. ~Busy(q)
  BY TargetKind, PortsSplit DEF Busy, StaticTypes
<1> QED BY <1>1, LineFacts, PortsSplit, Talking DEF CircuitInv

\* Each step of the program is one of the board.
LEMMA BoardSteps ==
  ASSUME CircuitInv, CircuitInv', OwnInv, OwnInv', SilentSlots, Operation
  PROVE  Board!Next \/ UNCHANGED Board!vars
<1>1. CASE Waits
  <2>1. \A x \in Ports : Seen(x)
    BY <1>1, OthersSeen DEF Waits
  <2>2. Present' = Present
    BY <2>1 DEF Seen, Present
  <2>3. TalkingOn' = TalkingOn
    BY <2>1 DEF Seen, TalkingOn
  <2>4. LineEnds' = LineEnds
    BY <1>1 DEF Waits, LineEnds
  <2> QED BY <2>2, <2>3, <2>4 DEF Board!vars
<1>2. ASSUME NEW p \in Ports, UNCHANGED session, SlotKept(p), OthersKept({p}),
             TalkingOn'[p] = 0 \/ TalkingOn'[p] \in Own(p) \/ TalkingOn'[p] = TalkingOn[p],
             p \in Present \/ TalkingOn'[p] = TalkingOn[p]
      PROVE  Board!Next \/ UNCHANGED Board!vars
  <2>1. Present' = Present /\ LineEnds' = LineEnds
    BY <1>2, OthersSeen DEF SlotKept, Seen, Present, LineEnds
  <2>2. TalkingOn' = [TalkingOn EXCEPT ![p] = TalkingOn'[p]]
    BY <1>2, OthersSeen, OneMoves DEF Seen
  <2>3. CASE TalkingOn'[p] = TalkingOn[p]
    <3>1. TalkingOn' = TalkingOn
      BY <2>2, <2>3 DEF TalkingOn
    <3> QED BY <2>1, <3>1 DEF Board!vars
  <2>4. CASE TalkingOn'[p] # TalkingOn[p]
    <3>1. TalkingOn'[p] \in Board!LinesOf(p) \cup {0} /\ TalkingOn'[p] \in Sessions \cup {0}
      BY <1>2, <2>4, LineFacts DEF Board!LinesOf, Own
    <3>2. Board!Switch(p, TalkingOn'[p])
      BY <1>2, <2>1, <2>2, <2>4, <3>1 DEF Board!Switch
    <3> QED BY <3>1, <3>2 DEF Board!Next
  <2> QED BY <2>3, <2>4
<1>3. ASSUME NEW p \in Ports, NEW m \in Modes, Turns(p, m)
      PROVE  Board!Next \/ UNCHANGED Board!vars
  <2>1. CASE m # "SESSION" \/ mode[p] = "SESSION"
    <3>1. TalkingOn'[p] = 0 \/ TalkingOn'[p] = TalkingOn[p]
      BY <1>3, <2>1, Talking DEF Turns
    <3>2. p \in Present \/ TalkingOn'[p] = TalkingOn[p]
      BY <1>3, <2>1, Talking DEF Turns, SilentSlots
    <3> QED BY <1>2, <1>3, <3>1, <3>2 DEF Turns
  <2>2. CASE m = "SESSION" /\ mode[p] # "SESSION"
    <3>1. AtPrompt(p) /\ access[p] = "MODEM" /\ active[p] # 0
      BY <1>3, <2>2 DEF Turns, CircuitInv, DataOK
    <3>2. TalkingOn'[p] \in Own(p)
      BY <1>3, <2>2, <3>1, Talking DEF Turns, OwnInv, ModemCallIsOwn, Own, Live
    <3> QED BY <1>2, <1>3, <3>1, <3>2, PromptIsUp DEF Turns
  <2> QED BY <2>1, <2>2
<1>4. ASSUME NEW p \in Ports, NEW s \in Sessions, NEW m \in Modes, Picks(p, s, m)
      PROVE  Board!Next \/ UNCHANGED Board!vars
  <2>1. TalkingOn'[p] = 0 \/ TalkingOn'[p] \in Own(p)
    BY <1>4, Talking DEF Picks
  <2>2. p \in Present
    <3>1. CASE AtPrompt(p)
      BY <3>1, PromptIsUp
    <3>2. CASE mode[p] = "SESSION" /\ Live(active[p])
      BY <3>2, Talking, SizeAssumption DEF SilentSlots, Live, Sessions
    <3> QED BY <1>4, <3>1, <3>2 DEF Picks
  <2> QED BY <1>2, <1>4, <2>1, <2>2 DEF Picks
<1>5. ASSUME NEW p \in Ports, NEW t \in Ports, NEW s \in Sessions, Enters(p, s, t)
      PROVE  Board!Next
  <2>1. /\ AtPrompt(p) /\ ~Busy(t) /\ type[t] # "NONE" /\ p # t /\ Begins(s, p, t)
        /\ mode'[p] = "SESSION" /\ active'[p] = s /\ SlotKept(p) /\ OthersKept({p})
    BY <1>5 DEF Enters
  <2>2. TalkingOn'[p] = s /\ \A x \in Ports \ {p} : Seen(x)
    BY <2>1, Talking, OthersSeen
  <2>3. Present' = Present
    BY <2>1, <2>2 DEF Seen, SlotKept, Present
  <2>4. TalkingOn' = [TalkingOn EXCEPT ![p] = s]
    BY <2>2, OneMoves DEF Seen
  <2>5. Board!Connect(s, p, t)
    BY <2>1, <2>3, <2>4, PromptIsUp, BeginsLeads, LineFacts, Talking DEF Board!Connect
  <2> QED BY <2>5 DEF Board!Next
<1>6. ASSUME NEW p \in Ports, NEW q \in Ports, NEW s \in Sessions, Calls(p, s, q)
      PROVE  Board!Next
  <2>1. /\ AtPrompt(p) /\ type[q] = "NONE" /\ p # q /\ Begins(s, p, q)
        /\ mode'[p] = "SESSION" /\ active'[p] = s /\ SlotKept(p)
        /\ type'[q] = "TELNET_OUT" /\ mode'[q] = "IDLE" /\ OthersKept({p, q})
    BY <1>6 DEF Calls
  <2>2. TalkingOn'[p] = s /\ TalkingOn'[q] = 0 /\ \A x \in Ports \ {p, q} : Seen(x)
    BY <2>1, Talking, OthersSeen
  <2>3. Present' = Present \cup {q}
    <3>1. p \in Present' <=> p \in Present
      BY <2>1, Talking DEF SlotKept
    <3> QED BY <2>1, <2>2, <3>1, Talking, OneComes DEF Seen
  <2>4. TalkingOn' = [TalkingOn EXCEPT ![p] = s, ![q] = 0]
    BY <2>1, <2>2, TwoMove DEF Seen
  <2>5. Board!Call(s, p, q)
    BY <2>1, <2>3, <2>4, PromptIsUp, BeginsLeads, FreeIsNotTaken DEF Board!Call
  <2> QED BY <2>5 DEF Board!Next
<1>7. ASSUME NEW q \in Ports, NEW s \in Sessions, NEW c \in TcpSockets, Serves(c, s, q)
      PROVE  Board!Next
  <2> DEFINE t == TcpTarget[c]
  <2>1. /\ type[q] = "NONE" /\ Begins(s, q, t) /\ t \in Static
        /\ type'[q] = "TCP_IN" /\ mode'[q] = "SESSION" /\ active'[q] = s /\ OthersKept({q})
    BY <1>7, StaticAssumption DEF Serves
  <2> HIDE DEF t
  <2>2. q \notin Present /\ q # t /\ t \in Ports
    BY <2>1, FreeIsNotTaken, PortsSplit
  <2>3. TalkingOn'[q] = s /\ q \in Present' /\ \A x \in Ports \ {q} : Seen(x)
    BY <2>1, Talking, OthersSeen
  <2>4. Present' = Present \cup {q} /\ TalkingOn' = [TalkingOn EXCEPT ![q] = s]
    BY <2>3, OneComes, OneMoves DEF Seen
  <2>5. Board!Admit(s, q, t)
    BY <2>1, <2>2, <2>4, BeginsLeads DEF Board!Admit
  <2> QED BY <2>2, <2>5 DEF Board!Next
<1>8. ASSUME NEW q \in Ports, Accepts(q)
      PROVE  Board!Next
  <2>1. /\ type[q] = "NONE" /\ type'[q] = "TELNET_IN" /\ mode'[q] = "PREGREET"
        /\ OthersKept({q}) /\ UNCHANGED session
    BY <1>8 DEF Accepts
  <2>2. TalkingOn'[q] = 0 /\ q \in Present' /\ \A x \in Ports \ {q} : Seen(x)
    BY <2>1, Talking, OthersSeen
  <2>3. Present' = Present \cup {q} /\ TalkingOn' = [TalkingOn EXCEPT ![q] = 0]
    BY <2>2, OneComes, OneMoves DEF Seen
  <2>4. Board!Login(q)
    BY <2>1, <2>3, Talking DEF Board!Login, LineEnds
  <2> QED BY <2>4 DEF Board!Next
<1>9. ASSUME NEW p \in Ports, NEW D \in SUBSET Ports, NEW Z \in SUBSET Sessions, Ends(p, D, Z)
      PROVE  Board!Next
  <2> DEFINE gone == ({Board!To(l) : l \in Z} \cup (IF p \in D THEN {p} ELSE {})) \ Static
  <2>1. /\ D \subseteq Dynamic /\ CallsGo(p, D, Z) /\ \A x \in D \ {p} : PortGone(x)
        /\ \A z \in Z : session[z].parent = p
        /\ \A z \in Sessions : session'[z] = IF z \in Z THEN NoSession ELSE session[z]
        /\ OthersKept(D \cup {p})
        /\ p \in D => type'[p] = "NONE"
        /\ p \in Ports \ D => SlotKept(p)
        /\ mode'[p] = "SESSION" => active'[p] = 0
    BY <1>9 DEF Ends
  <2>2. \A z \in Z : Board!To(z) = session[z].target /\ session[z].target \in Ports
    BY <2>1, LineFacts, TargetKind, PortsSplit
  <2>3. gone = D
    <3>1. \A x \in gone : x \in D
      BY <2>1, <2>2, PortsSplit DEF CallsGo
    <3>2. \A x \in D : x \in gone
      BY <2>1, <2>2, PortsSplit DEF CallsGo
    <3> QED BY <3>1, <3>2
  <2> HIDE DEF gone
  <2>4. \A x \in Ports : x \in Present' <=> x \in Present /\ x \notin D
    <3>1. \A x \in D : type'[x] = "NONE"
      BY <2>1 DEF PortGone
    <3>2. \A x \in Ports \ D : type'[x] = type[x]
      BY <2>1 DEF OthersKept, PortKept, SlotKept
    <3> QED BY <3>1, <3>2, Talking
  <2>5. Present' = Present \ D
    BY <2>4 DEF Present
  <2>6. \A x \in Ports : TalkingOn'[x] = IF x = p \/ x \in D THEN 0 ELSE TalkingOn[x]
    <3>1. TalkingOn'[p] = 0
      BY <2>1, Talking
    <3>2. \A x \in D \ {p} : TalkingOn'[x] = 0
      BY <2>1, Talking DEF PortGone
    <3>3. \A x \in Ports \ (D \cup {p}) : TalkingOn'[x] = TalkingOn[x]
      BY <2>1, OthersSeen DEF Seen
    <3> QED BY <3>1, <3>2, <3>3
  <2>7. TalkingOn' = [x \in Ports |-> IF x = p \/ x \in D THEN 0 ELSE TalkingOn[x]]
    BY <2>6 DEF TalkingOn
  <2>8. LineEnds' = [l \in Sessions |-> IF l \in Z THEN Board!Free ELSE LineEnds[l]]
    BY <2>1 DEF LineEnds, NoSession, Board!Free
  <2>9. Z \in SUBSET Board!LinesOf(p)
    BY <2>1, LineFacts DEF Board!LinesOf
  <2>10. CASE p \in D
    <3>1. Board!Hangup(p, Z, TRUE)
      BY <2>3, <2>5, <2>7, <2>8, <2>10 DEF Board!Hangup, gone
    <3> QED BY <2>9, <3>1 DEF Board!Next
  <2>11. CASE p \notin D
    <3>1. Board!Hangup(p, Z, FALSE)
      BY <2>3, <2>5, <2>7, <2>8, <2>11 DEF Board!Hangup, gone
    <3> QED BY <2>9, <3>1 DEF Board!Next
  <2> QED BY <2>10, <2>11
<1> QED BY <1>1, <1>3, <1>4, <1>5, <1>6, <1>7, <1>8, <1>9 DEF Operation

LEMMA SilentStep ==
  ASSUME CircuitInv, SilentSlots, Operation
  PROVE  SilentSlots'
<1> SUFFICES ASSUME NEW q \in Ports, type'[q] = "NONE", mode'[q] = "SESSION"
             PROVE  active'[q] = 0
  BY DEF SilentSlots
<1>1. ASSUME PortKept(q) PROVE active'[q] = 0
  BY <1>1 DEF PortKept, SlotKept, SilentSlots
<1>2. CASE Waits
  BY <1>1, <1>2 DEF Waits, OthersKept
<1>3. ASSUME NEW p \in Ports, NEW m \in Modes, Turns(p, m) PROVE active'[q] = 0
  <2>1. CASE q # p
    BY <1>1, <1>3, <2>1 DEF Turns, OthersKept
  <2>2. CASE q = p
    <3>1. type[q] = "NONE" /\ active'[q] = active[q] /\ m = "SESSION"
      BY <1>3, <2>2 DEF Turns, SlotKept
    <3>2. mode[q] = "SESSION" \/ AtPrompt(q)
      BY <1>3, <2>2, <3>1 DEF Turns
    <3> QED BY <3>1, <3>2, PromptIsUp, Talking DEF SilentSlots
  <2> QED BY <2>1, <2>2
<1>4. ASSUME NEW p \in Ports, NEW t \in Ports, NEW s \in Sessions, Enters(p, s, t) \/ Calls(p, s, t)
      PROVE  active'[q] = 0
  <2>1. AtPrompt(p) /\ SlotKept(p) /\ (Calls(p, s, t) => type'[t] = "TELNET_OUT")
    BY <1>4 DEF Enters, Calls
  <2>2. type'[p] # "NONE"
    BY <2>1, PromptIsUp, Talking DEF SlotKept
  <2>3. PortKept(q)
    BY <1>4, <2>1, <2>2 DEF Enters, Calls, OthersKept
  <2> QED BY <1>1, <2>3
<1>5. ASSUME NEW x \in Ports, (\E s \in Sessions, c \in TcpSockets : Serves(c, s, x)) \/ Accepts(x)
      PROVE  active'[q] = 0
  BY <1>1, <1>5 DEF Serves, Accepts, OthersKept
<1>6. ASSUME NEW p \in Ports, NEW s \in Sessions, NEW m \in Modes, Picks(p, s, m)
      PROVE  active'[q] = 0
  <2>1. type[p] # "NONE"
    <3>1. CASE AtPrompt(p)
      BY <3>1, PromptIsUp, Talking
    <3>2. CASE mode[p] = "SESSION" /\ Live(active[p])
      BY <3>2, SizeAssumption DEF SilentSlots, Live, Sessions
    <3> QED BY <1>6, <3>1, <3>2 DEF Picks
  <2> QED BY <1>1, <1>6, <2>1 DEF Picks, SlotKept, OthersKept
<1>7. ASSUME NEW p \in Ports, NEW D \in SUBSET Ports, NEW Z \in SUBSET Sessions, Ends(p, D, Z)
      PROVE  active'[q] = 0
  <2>1. CASE q = p
    BY <1>7, <2>1 DEF Ends
  <2>2. CASE q \in D \ {p}
    BY <1>7, <2>2 DEF Ends, PortGone
  <2>3. CASE q \notin D \cup {p}
    BY <1>1, <1>7, <2>3 DEF Ends, OthersKept
  <2> QED BY <2>1, <2>2, <2>3
<1> QED BY <1>2, <1>3, <1>4, <1>5, <1>6, <1>7 DEF Operation

LEMMA BoardInit == Init => Board!Init
<1> SUFFICES ASSUME Init PROVE Board!Init
  OBVIOUS
<1>1. Present = Static
  BY PortsSplit, StaticAssumption DEF Init, Present, StaticTypes
<1>2. TalkingOn = [p \in Ports |-> 0]
  BY DEF Init, TalkingOn
<1>3. LineEnds = [l \in Sessions |-> Board!Free]
  BY DEF Init, LineEnds, NoSession, Board!Free
<1> QED BY <1>1, <1>2, <1>3 DEF Board!Init

(***************************************************************************)
(* The theorems.                                                           *)
(***************************************************************************)
\* Nothing depends on more than the variables.
LEMMA StutterStep ==
  ASSUME UNCHANGED vars
  PROVE  /\ OwnInv => OwnInv'
         /\ ListenerShares => ListenerShares'
         /\ IdleInv => IdleInv'
         /\ CrashInv => CrashInv'
<1> USE DEF vars
<1>1. (OwnInv => OwnInv') /\ (ListenerShares => ListenerShares')
  BY DEF OwnInv, SessionModeIsOwn, ModemCallIsOwn, ListenerShares, Live
<1>2. IdleInv => IdleInv'
  BY DEF IdleInv, IdleTerminalHasNoSession, CallerReturns
<1>3. CrashInv => CrashInv'
  BY DEF CrashInv, CallsFromBoot, QuietSlots, HostsStayOut, CrashNeedsLogout, DanglingActive
<1> QED BY <1>1, <1>2, <1>3

\* The session that a port's keys go to is live and the port's own.
LEMMA OwnAlways == Spec => [](CircuitInv /\ Listening /\ OwnInv)
<1>1. Init => OwnInv
  BY DEF Init, OwnInv, SessionModeIsOwn, ModemCallIsOwn
<1>2. CircuitInv /\ OwnInv /\ [Next \/ Halted]_vars => OwnInv'
  BY Operations, OwnStep, StutterStep DEF Halted
<1> QED BY <1>1, <1>2, CircuitsAlways, PTL DEF Spec

\* In every configuration, with slots and session objects reused at once, the
\* tasks, commands and connections of the server only do what a switchboard
\* may: no step ends lines of two users, leads a line elsewhere, joins a user to
\* a host that another user has, or moves a user to a line of somebody else.
THEOREM Switches == Spec => SwitchboardSpec
<1>1. Init => SilentSlots /\ Board!Init
  BY BoardInit DEF Init, SilentSlots
<1>2. CircuitInv /\ OwnInv /\ SilentSlots /\ [Next \/ Halted]_vars => SilentSlots'
  BY Operations, SilentStep DEF Halted, vars, SilentSlots
<1>3. CircuitInv /\ CircuitInv' /\ OwnInv /\ OwnInv' /\ SilentSlots /\ [Next \/ Halted]_vars
      => [Board!Next]_(Board!vars)
  <2> SUFFICES ASSUME CircuitInv, CircuitInv', OwnInv, OwnInv', SilentSlots, [Next \/ Halted]_vars
               PROVE  Board!Next \/ UNCHANGED Board!vars
    OBVIOUS
  <2>1. CASE Next
    BY <2>1, Operations, BoardSteps
  <2>2. CASE UNCHANGED vars
    BY <2>2 DEF vars, Board!vars, Present, LineEnds, TalkingOn
  <2> QED BY <2>1, <2>2 DEF Halted
<1> QED BY <1>1, <1>2, <1>3, OwnAlways, PTL DEF Spec, SwitchboardSpec, Board!Spec

\* In every configuration of ports, sessions and sockets, what a user types in
\* MODE_SESSION goes into a live session of the port's own (SessionModeIsOwn),
\* through connects, switches, calls that end and slots that are reused; where
\* a freed mode may be anything, or nowhere.
THEOREM SessionModes == Spec => []SessionModeIsOwn
<1>1. OwnInv => SessionModeIsOwn
  BY DEF OwnInv
<1> QED BY <1>1, OwnAlways, PTL

\* ATO and ATH never take a modem to another port's session or to a deleted one.
THEOREM ModemCalls == Spec => []ModemCallIsOwn
<1>1. OwnInv => ModemCallIsOwn
  BY DEF OwnInv
<1> QED BY <1>1, OwnAlways, PTL

\* No two users share a port; the one session besides a user's is that of the
\* port's raw TCP listener while it is connected.
THEOREM Users == Spec => []OneUserPerPort
<1>1. Init => ListenerShares
  BY DEF Init, ListenerShares, Live, NoSession
<1>2. CircuitInv /\ OwnInv /\ ListenerShares /\ [Next \/ Halted]_vars => ListenerShares'
  BY Operations, SharesStep, StutterStep DEF Halted
<1>3. ListenerShares => OneUserPerPort
  BY DEF ListenerShares, OneUserPerPort
<1> QED BY <1>1, <1>2, <1>3, OwnAlways, PTL DEF Spec

\* LOGOUT of a boot terminal leaves no session of it, and nothing else idles
\* one, as long as the struct todata that TO_CLOSE reads after delete_port is
\* not overwritten by a MODE_IDLE.
THEOREM IdleTerminals ==
  "IDLE" \notin FreedModes => (Spec => []IdleTerminalHasNoSession)
<1> SUFFICES ASSUME "IDLE" \notin FreedModes PROVE Spec => []IdleTerminalHasNoSession
  OBVIOUS
<1>1. Init => IdleInv
  <2> SUFFICES ASSUME Init PROVE IdleInv
    OBVIOUS
  <2>1. IdleTerminalHasNoSession
    BY PortsSplit DEF Init, IdleTerminalHasNoSession, NoSession
  <2>2. \A q \in Ports : type[q] # "TELNET_OUT"
    BY StaticAssumption DEF Init, StaticTypes
  <2> QED BY <2>1, <2>2 DEF IdleInv, CallerReturns
<1>2. /\ CircuitInv /\ CircuitInv' /\ OwnInv /\ IdleInv
      /\ [Next \/ Halted]_vars
      => IdleInv'
  BY Operations, IdleStep, StutterStep DEF Halted
<1>3. IdleInv => IdleTerminalHasNoSession
  BY DEF IdleInv
<1> QED BY <1>1, <1>2, <1>3, OwnAlways, PTL DEF Spec

\* A server without telnet logins crashes only after a LOGOUT in a session,
\* whatever its users, modems, listeners and called systems do.
THEOREM Crashes == NumTelnetSockets = 0 => (Spec => []CrashNeedsLogout)
<1> SUFFICES ASSUME NumTelnetSockets = 0 PROVE Spec => []CrashNeedsLogout
  OBVIOUS
<1>0. TelnetSockets = {}
  BY DEF TelnetSockets
<1>1. Init => CrashInv
  <2> SUFFICES ASSUME Init PROVE CrashInv
    OBVIOUS
  <2>1. \A q \in Ports : type[q] # "TELNET_OUT"
    BY StaticAssumption DEF Init, StaticTypes
  <2>2. QuietSlots /\ HostsStayOut /\ CrashNeedsLogout
    BY PortsSplit DEF Init, QuietSlots, HostsStayOut, CrashNeedsLogout
  <2> QED BY <2>1, <2>2 DEF CrashInv, CallsFromBoot
<1>2. /\ CircuitInv /\ CircuitInv' /\ OwnInv /\ CrashInv
      /\ [Next \/ Halted]_vars
      => CrashInv'
  BY <1>0, CrashStep, StutterStep DEF Halted
<1>3. CrashInv => CrashNeedsLogout
  BY DEF CrashInv
<1> QED BY <1>1, <1>2, <1>3, OwnAlways, PTL DEF Spec
=============================================================================
