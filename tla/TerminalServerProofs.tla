------------------------ MODULE TerminalServerProofs ------------------------
(***************************************************************************)
(* Type correctness of TerminalServer and the soundness of its sessions,   *)
(* for any number of ports, sessions and sockets.  Each lemma on an        *)
(* operation is about the data; the turn of the loop is added at the end.  *)
(***************************************************************************)
EXTENDS TerminalServer, MinMax, TLAPS

(***************************************************************************)
(* Type correctness.                                                       *)
(***************************************************************************)
\* The part of TypeOK that the operations change.
DataOK ==
  /\ type \in [Ports -> PortTypes]
  /\ mode \in [Ports -> Modes]
  /\ access \in [Ports -> AccessModes]
  /\ active \in [Ports -> 0..NumSessions]
  /\ todata \in [Ports -> [state : ToStates, session : 0..NumSessions,
                           mode_return : {"IDLE", "LOCAL"}]]
  /\ insock \in [Ports -> Nat]
  /\ session \in [Sessions -> [type : {"DELETED", "DIRECT"},
                               parent : 0..NumPorts, target : 0..NumPorts]]
  /\ telnet_in \in [TelnetSockets -> [state : TelnetInStates, port : 0..NumPorts]]
  /\ tcp_in \in [TcpSockets -> [state : TelnetInStates, port : 0..NumPorts,
                                session : 0..NumSessions]]
  /\ running \in BOOLEAN

\* What telnet_out_task makes of a connection state is a connection state.
LEMMA ToNextStates ==
  ASSUME NEW st \in ToStates
  PROVE  ToNext[st] \subseteq ToStates
BY DEF ToStates, ToNext

\* Changing one slot, or a set of slots, keeps the type of a table of ports.
LEMMA SetType ==
  ASSUME NEW D, NEW T, NEW f \in [D -> T], NEW p, NEW v \in T
  PROVE  Set(f, p, v) \in [D -> T]
BY DEF Set

LEMMA SetAllType ==
  ASSUME NEW T, NEW f \in [Ports -> T], NEW P, NEW v \in T
  PROVE  SetAll(f, P, v) \in [Ports -> T]
BY DEF SetAll

LEMMA SessionValues ==
  /\ NoSession \in [type : {"DELETED", "DIRECT"}, parent : 0..NumPorts, target : 0..NumPorts]
  /\ \A p, t \in Ports : Direct(p, t) \in [type : {"DELETED", "DIRECT"},
                                           parent : 0..NumPorts, target : 0..NumPorts]
  /\ NoToData \in [state : ToStates, session : 0..NumSessions, mode_return : {"IDLE", "LOCAL"}]
BY SizeAssumption DEF NoSession, Direct, Ports, NoToData, ToStates

\* The first free slot or object is one.
LEMMA FirstFree ==
  /\ FreePorts # {} => Min(FreePorts) \in FreePorts
  /\ FreeSessions # {} => Min(FreeSessions) \in FreeSessions
<1>1. FreePorts \in SUBSET Nat /\ FreeSessions \in SUBSET Nat
  BY SizeAssumption DEF FreePorts, FreeSessions, Ports, Sessions
<1> QED BY <1>1, MinIn

LEMMA QuietType ==
  ASSUME DataOK, Quiet \/ Fault
  PROVE  DataOK'
BY DEF DataOK, Quiet, Fault, portVars

LEMMA OnlyModeType ==
  ASSUME DataOK, NEW p, NEW m \in Modes, mode' = Set(mode, p, m), OnlyMode
  PROVE  DataOK'
<1>1. mode' \in [Ports -> Modes]
  BY SetType DEF DataOK
<1> QED BY <1>1 DEF DataOK, OnlyMode

\* One lemma per operation of the model.
LEMMA EnterType ==
  ASSUME DataOK, NEW p \in Ports, NEW t \in Ports, Enter(p, t)
  PROVE  DataOK'
<1> DEFINE s == Min(FreeSessions)
<1>1. s \in Sessions /\ s \in 0..NumSessions
  BY FirstFree, SizeAssumption DEF Enter, FreeSessions, Sessions
<1>2. session' = Set(session, s, Direct(p, t)) /\ active' = Set(active, p, s)
  BY DEF Enter
<1>3. session' \in [Sessions -> [type : {"DELETED", "DIRECT"},
                                 parent : 0..NumPorts, target : 0..NumPorts]]
  BY <1>2, SessionValues, SetType DEF DataOK
<1>4. active' \in [Ports -> 0..NumSessions]
  BY <1>1, <1>2, SetType DEF DataOK
<1>5. mode' \in [Ports -> Modes]
  BY SetType DEF DataOK, Enter, Modes
<1> QED BY <1>3, <1>4, <1>5 DEF DataOK, Enter

LEMMA DialType ==
  ASSUME DataOK, NEW p \in Ports, NEW ret \in {"IDLE", "LOCAL"}, Dial(p, ret)
  PROVE  DataOK'
<1> DEFINE s == Min(FreeSessions)
           q == Min(FreePorts)
           d == [state |-> "DNS_PRECHECK", session |-> s, mode_return |-> ret]
<1>1. s \in 0..NumSessions /\ q \in Ports
  BY FirstFree, SizeAssumption DEF Dial, FreeSessions, FreePorts, Sessions
<1>2. d \in [state : ToStates, session : 0..NumSessions, mode_return : {"IDLE", "LOCAL"}]
  BY <1>1 DEF ToStates
<1>3. /\ type' = Set(type, q, "TELNET_OUT")
      /\ access' = Set(access, q, "REMOTE")
      /\ todata' = Set(todata, q, d)
      /\ insock' = Set(insock, q, 0)
      /\ session' = Set(session, s, Direct(p, q))
      /\ active' = [active EXCEPT ![p] = s, ![q] = s]
      /\ mode' = [mode EXCEPT ![q] = "IDLE", ![p] = "SESSION"]
      /\ UNCHANGED <<telnet_in, tcp_in, running>>
  BY DEF Dial
<1>4. type' \in [Ports -> PortTypes] /\ access' \in [Ports -> AccessModes]
  BY <1>3, SetType DEF DataOK, PortTypes, AccessModes
<1>5. todata' \in [Ports -> [state : ToStates, session : 0..NumSessions,
                             mode_return : {"IDLE", "LOCAL"}]]
  BY <1>2, <1>3, SetType DEF DataOK
<1>6. insock' \in [Ports -> Nat]
  BY <1>3, SetType DEF DataOK
<1>7. session' \in [Sessions -> [type : {"DELETED", "DIRECT"},
                                 parent : 0..NumPorts, target : 0..NumPorts]]
  BY <1>1, <1>3, SessionValues, SetType DEF DataOK
<1>8. active' \in [Ports -> 0..NumSessions] /\ mode' \in [Ports -> Modes]
  BY <1>1, <1>3 DEF DataOK, Modes
<1> QED BY <1>3, <1>4, <1>5, <1>6, <1>7, <1>8 DEF DataOK

\* delete_port on any ports, with any modes of the others.
LEMMA DeletePortsType ==
  ASSUME DataOK, NEW D, NEW modes \in [Ports -> Modes], DeletePorts(D, modes)
  PROVE  /\ type' \in [Ports -> PortTypes] /\ mode' \in [Ports -> Modes]
         /\ access' \in [Ports -> AccessModes] /\ active' \in [Ports -> 0..NumSessions]
         /\ todata' \in [Ports -> [state : ToStates, session : 0..NumSessions,
                                   mode_return : {"IDLE", "LOCAL"}]]
         /\ insock' \in [Ports -> Nat]
<1>1. /\ "NONE" \in PortTypes /\ "IDLE" \in Modes /\ "LOCAL" \in AccessModes
      /\ 0 \in 0..NumSessions /\ 0 \in Nat
  BY SizeAssumption DEF PortTypes, Modes, AccessModes
<1> QED BY <1>1, SessionValues, SetAllType DEF DataOK, DeletePorts

LEMMA CloseSocketsType ==
  ASSUME DataOK, NEW Q, CloseSockets(Q)
  PROVE  /\ telnet_in' \in [TelnetSockets -> [state : TelnetInStates, port : 0..NumPorts]]
         /\ tcp_in' \in [TcpSockets -> [state : TelnetInStates, port : 0..NumPorts,
                                        session : 0..NumSessions]]
<1>1. ASSUME NEW k \in TelnetSockets
      PROVE  telnet_in'[k] \in [state : TelnetInStates, port : 0..NumPorts]
  <2>1. [state |-> "CLOSED", port |-> 0] \in [state : TelnetInStates, port : 0..NumPorts]
    BY SizeAssumption DEF TelnetInStates
  <2>2. telnet_in[k] \in [state : TelnetInStates, port : 0..NumPorts]
    BY DEF DataOK
  <2> QED BY <2>1, <2>2 DEF CloseSockets
<1>2. ASSUME NEW c \in TcpSockets
      PROVE  tcp_in'[c] \in [state : TelnetInStates, port : 0..NumPorts,
                             session : 0..NumSessions]
  <2>1. tcp_in[c] \in [state : TelnetInStates, port : 0..NumPorts, session : 0..NumSessions]
    BY DEF DataOK
  <2>2. [tcp_in[c] EXCEPT !.state = "DISCONNECTED"]
          \in [state : TelnetInStates, port : 0..NumPorts, session : 0..NumSessions]
    BY <2>1 DEF TelnetInStates
  <2> QED BY <2>1, <2>2 DEF CloseSockets
<1>3. telnet_in' = [k \in TelnetSockets |-> telnet_in'[k]] /\ tcp_in' = [c \in TcpSockets |-> tcp_in'[c]]
  BY DEF CloseSockets
<1> QED BY <1>1, <1>2, <1>3

LEMMA ClosePortType ==
  ASSUME DataOK, NEW p, ClosePort(p)
  PROVE  DataOK'
<1> DEFINE Q == {p} \cup {session[s].target : s \in SessionsOf(p)}
<1>1. /\ DeletePorts(Closable(Q), Set(mode, p, "IDLE")) /\ CloseSockets(Q)
      /\ session' = [s \in Sessions |-> IF s \in SessionsOf(p) THEN NoSession
                                                               ELSE session[s]]
      /\ UNCHANGED running
  BY DEF ClosePort
<1>2. Set(mode, p, "IDLE") \in [Ports -> Modes]
  BY SetType DEF DataOK, Modes
<1>3. session' \in [Sessions -> [type : {"DELETED", "DIRECT"},
                                 parent : 0..NumPorts, target : 0..NumPorts]]
  BY <1>1, SessionValues DEF DataOK
<1> HIDE DEF Q
<1> QED BY <1>1, <1>2, <1>3, DeletePortsType, CloseSocketsType DEF DataOK

LEMMA HangupType ==
  ASSUME DataOK, NEW p \in Ports, NEW s \in Sessions, Hangup(p, s)
  PROVE  DataOK'
<1> DEFINE D == Closable({session[s].target})
<1>1. /\ type'   = SetAll(type, D, "NONE")
      /\ mode'   = SetAll(mode, D, "IDLE")
      /\ access' = SetAll(access, D, "LOCAL")
      /\ active' = Set(SetAll(active, D, 0), p, 0)
      /\ todata' = SetAll(todata, D, NoToData)
      /\ insock' = SetAll(insock, D, 0)
      /\ CloseSockets({session[s].target})
      /\ session' = Set(session, s, NoSession)
      /\ UNCHANGED running
  BY DEF Hangup
<1>2. /\ "NONE" \in PortTypes /\ "IDLE" \in Modes /\ "LOCAL" \in AccessModes
      /\ 0 \in 0..NumSessions /\ 0 \in Nat
  BY SizeAssumption DEF PortTypes, Modes, AccessModes
<1> HIDE DEF D
<1>3. /\ type' \in [Ports -> PortTypes] /\ mode' \in [Ports -> Modes]
      /\ access' \in [Ports -> AccessModes] /\ insock' \in [Ports -> Nat]
  BY <1>1, <1>2, SetAllType DEF DataOK
<1>4. todata' \in [Ports -> [state : ToStates, session : 0..NumSessions,
                             mode_return : {"IDLE", "LOCAL"}]]
  BY <1>1, SessionValues, SetAllType DEF DataOK
<1>5. active' \in [Ports -> 0..NumSessions]
  <2>1. SetAll(active, D, 0) \in [Ports -> 0..NumSessions]
    BY <1>2, SetAllType DEF DataOK
  <2> QED BY <1>1, <1>2, <2>1, SetType
<1>6. session' \in [Sessions -> [type : {"DELETED", "DIRECT"},
                                 parent : 0..NumPorts, target : 0..NumPorts]]
  BY <1>1, SessionValues, SetType DEF DataOK
<1> QED BY <1>1, <1>3, <1>4, <1>5, <1>6, CloseSocketsType DEF DataOK

LEMMA ResumeType ==
  ASSUME DataOK, NEW p \in Ports, NEW s \in Sessions, resume_session(p, s)
  PROVE  DataOK'
<1>1. s \in 0..NumSessions
  BY SizeAssumption DEF Sessions
<1>2. active' \in [Ports -> 0..NumSessions] /\ mode' \in [Ports -> Modes]
  BY <1>1, SetType DEF DataOK, resume_session, Modes
<1> QED BY <1>2 DEF DataOK, resume_session

LEMMA SwitchType ==
  ASSUME DataOK, NEW p \in Ports, NEW m \in Modes, NEW s \in 0..NumSessions, Switch(p, m, s)
  PROVE  DataOK'
<1>1. CASE s = 0
  BY <1>1, QuietType DEF Switch
<1>2. CASE s # 0
  <2>1. /\ active' = Set(active, p, s) /\ mode' = Set(mode, p, m)
        /\ UNCHANGED <<type, access, todata, insock, session, telnet_in, tcp_in, running>>
    BY <1>2 DEF Switch
  <2>2. active' \in [Ports -> 0..NumSessions] /\ mode' \in [Ports -> Modes]
    BY <2>1, SetType DEF DataOK
  <2> QED BY <2>1, <2>2 DEF DataOK
<1> QED BY <1>1, <1>2

\* The switches pick sessions that exist.
LEMMA SwitchTargets ==
  ASSUME DataOK, NEW p \in Ports
  PROVE  Forward(p) \in 0..NumSessions /\ Backward(p) \in 0..NumSessions
<1>1. Sessions \subseteq 0..NumSessions /\ 0..NumSessions \subseteq Nat /\ NumSessions \in Nat
  BY SizeAssumption DEF Sessions
<1>2. Own(p) \in SUBSET Sessions /\ 0 \in 0..NumSessions
  BY SizeAssumption DEF Own
<1>3. ASSUME NEW S \in SUBSET Own(p), S # {}
      PROVE  Min(S) \in 0..NumSessions /\ Max(S) \in 0..NumSessions
  <2>1. S \in SUBSET Nat /\ S \in SUBSET (0..NumSessions)
    BY <1>1, <1>2
  <2> QED BY <1>1, <1>3, <2>1, MinIn, MaxIn
<1> QED BY <1>2, <1>3 DEF Forward, Backward

\* The commands of a terminal and of a modem.
LEMMA CommandType ==
  ASSUME DataOK, NEW p \in Ports, command_process(p) \/ modem_process(p)
  PROVE  DataOK'
<1>1. CASE Quiet \/ Fault
  BY <1>1, QuietType
<1>2. CASE \E t \in Ports : Enter(p, t)
  BY <1>2, EnterType
<1>3. CASE Dial(p, "LOCAL") \/ Dial(p, "IDLE")
  BY <1>3, DialType
<1>4. CASE \E s \in Sessions : resume_session(p, s)
  BY <1>4, ResumeType
<1>5. CASE \E s \in Sessions : Hangup(p, s)
  BY <1>5, HangupType
<1>6. CASE ClosePort(p)
  BY <1>6, ClosePortType
<1>7. CASE mode' = Set(mode, p, "SESSION") /\ OnlyMode
  BY <1>7, OnlyModeType DEF Modes
<1>8. CASE active[p] # 0 /\ Hangup(p, active[p])
  <2>1. active[p] \in Sessions
    BY <1>8, SizeAssumption DEF DataOK, Sessions
  <2> QED BY <1>8, <2>1, HangupType
<1> QED
  <2>1. CASE command_process(p)
    BY <2>1, <1>1, <1>2, <1>3, <1>4, <1>5, <1>6
    DEF command_process, connect_local, telnet, disconnect_session, logout, port_send_break
  <2>2. CASE modem_process(p)
    BY <2>2, <1>1, <1>2, <1>3, <1>7, <1>8
    DEF modem_process, modem_dial_telnet, modem_dial_port
  <2> QED BY <2>1, <2>2

LEMMA ServiceType ==
  ASSUME DataOK, NEW p \in Ports, Service(p)
  PROVE  DataOK'
<1>1. CASE Quiet \/ Fault
  BY <1>1, QuietType
<1>2. CASE \E m \in Modes : mode' = Set(mode, p, m) /\ OnlyMode
  BY <1>2, OnlyModeType
<1>3. CASE command_process(p) \/ modem_process(p)
  BY <1>3, CommandType
<1>4. CASE \E m \in Modes : Switch(p, m, Forward(p)) \/ Switch(p, m, Backward(p))
  BY <1>4, SwitchType, SwitchTargets
<1>5. CASE ServiceIdle(p) \/ ServicePregreet(p) \/ ServiceGreet(p)
  BY <1>5, <1>1, <1>2 DEF ServiceIdle, ServicePregreet, ServiceGreet, Modes
<1>6. CASE ServiceLocal(p)
  BY <1>6, <1>1, <1>3, Zenon DEF ServiceLocal
<1>7. CASE ServiceSession(p) \/ ServiceModem(p)
  <2>1. Escaped(p) \subseteq Modes /\ "LOCAL" \in Modes
    BY DEF Escaped, Modes
  <2> QED BY <1>7, <1>1, <1>2, <1>4, <2>1 DEF ServiceSession, ServiceModem
<1> QED BY <1>5, <1>6, <1>7 DEF Service

\* add_port for a socket.
LEMMA AddPortType ==
  ASSUME DataOK, NEW kind \in PortTypes, NEW k \in Nat, NEW m \in Modes, AddPort(kind, k, m)
  PROVE  /\ type' \in [Ports -> PortTypes] /\ mode' \in [Ports -> Modes]
         /\ access' \in [Ports -> AccessModes]
         /\ todata' \in [Ports -> [state : ToStates, session : 0..NumSessions,
                                   mode_return : {"IDLE", "LOCAL"}]]
         /\ insock' \in [Ports -> Nat]
         /\ Min(FreePorts) \in Ports
<1> DEFINE q == Min(FreePorts)
<1>1. /\ type' = Set(type, q, kind) /\ mode' = Set(mode, q, m)
      /\ access' = Set(access, q, "LOCAL") /\ todata' = Set(todata, q, NoToData)
      /\ insock' = Set(insock, q, k)
  BY DEF AddPort
<1>2. q \in Ports
  BY FirstFree DEF AddPort, FreePorts
<1> QED BY <1>1, <1>2, SetType, SessionValues DEF DataOK, AccessModes

LEMMA TelnetInType ==
  ASSUME DataOK, NEW k \in TelnetSockets, telnet_in_task(k)
  PROVE  DataOK'
<1> DEFINE T == [state : TelnetInStates, port : 0..NumPorts]
<1>0. k \in Nat /\ Ports \subseteq 0..NumPorts /\ 0 \in 0..NumPorts
  BY SizeAssumption DEF TelnetSockets, Ports
<1>1. CASE Quiet \/ Fault
  BY <1>1, QuietType
<1>2. CASE TelnetInListen(k) /\ ~Quiet
  <2>1. /\ AddPort("TELNET_IN", k, "PREGREET")
        /\ telnet_in' = [telnet_in EXCEPT ![k] = [state |-> "CONNECTED", port |-> Min(FreePorts)]]
        /\ UNCHANGED <<active, session, tcp_in, running>>
    BY <1>2 DEF TelnetInListen
  <2>2. "TELNET_IN" \in PortTypes /\ "PREGREET" \in Modes
    BY DEF PortTypes, Modes
  <2>3. [state |-> "CONNECTED", port |-> Min(FreePorts)] \in T
    BY <1>0, <2>1, <2>2, AddPortType DEF TelnetInStates
  <2>4. telnet_in' \in [TelnetSockets -> T]
    BY <2>1, <2>3 DEF DataOK
  <2> QED BY <1>0, <2>1, <2>2, <2>4, AddPortType DEF DataOK
<1>3. CASE TelnetInConnected(k)
  <2>1. telnet_in' \in [TelnetSockets -> T]
    BY <1>3 DEF TelnetInConnected, DataOK, TelnetInStates
  <2>2. mode' \in {mode, Set(mode, telnet_in[k].port, "LOCAL")}
    BY <1>3, Zenon DEF TelnetInConnected
  <2>3. mode' \in [Ports -> Modes]
    <3>1. mode \in [Ports -> Modes] /\ "LOCAL" \in Modes
      BY DEF DataOK, Modes
    <3>2. Set(mode, telnet_in[k].port, "LOCAL") \in [Ports -> Modes]
      BY <3>1, SetType
    <3> QED BY <2>2, <3>1, <3>2
  <2>4. running' \in BOOLEAN
    BY <1>3, Zenon DEF TelnetInConnected, DataOK
  <2> QED BY <1>3, <2>1, <2>3, <2>4 DEF TelnetInConnected, DataOK
<1>4. CASE TelnetInDisconnected(k) \/ TelnetInClosed(k)
  <2>1. \A st \in {"CLOSED", "LISTEN"} : [state |-> st, port |-> 0] \in T
    BY <1>0 DEF TelnetInStates
  <2>2. telnet_in' \in [TelnetSockets -> T]
    BY <1>4, <2>1 DEF TelnetInDisconnected, TelnetInClosed, DataOK
  <2>3. mode \in [Ports -> Modes]
    BY DEF DataOK
  <2>4. CASE TelnetInDisconnected(k)
    BY <2>2, <2>3, <2>4, DeletePortsType DEF TelnetInDisconnected, DataOK
  <2>5. CASE TelnetInClosed(k)
    BY <2>2, <2>5 DEF TelnetInClosed, DataOK, portVars
  <2> QED BY <1>4, <2>4, <2>5
<1> QED
  BY <1>1, <1>2, <1>3, <1>4 DEF telnet_in_task

LEMMA ToCloseType ==
  ASSUME DataOK, NEW q \in Ports, ToClose(q)
  PROVE  DataOK'
<1> DEFINE s == todata[q].session
           par == session[s].parent
<1>0. PICK m \in {todata[q].mode_return} \cup FreedModes :
        mode' = [mode EXCEPT ![q] = "IDLE", ![par] = m]
  BY DEF ToClose
<1>1. /\ type'   = Set(type, q, "NONE")
      /\ access' = Set(access, q, "LOCAL")
      /\ active' = [active EXCEPT ![par] = 0, ![q] = 0]
      /\ todata' = Set(todata, q, NoToData)
      /\ insock' = Set(insock, q, 0)
      /\ session' = Set(session, s, NoSession)
      /\ UNCHANGED <<telnet_in, tcp_in, running>>
  BY DEF ToClose
<1>2. m \in Modes /\ 0 \in 0..NumSessions
  BY SizeAssumption, StaticAssumption DEF DataOK, Modes
<1> HIDE DEF s, par
<1>3. mode' \in [Ports -> Modes] /\ active' \in [Ports -> 0..NumSessions]
  BY <1>0, <1>1, <1>2 DEF DataOK, Modes
<1>4. type' \in [Ports -> PortTypes] /\ access' \in [Ports -> AccessModes] /\ insock' \in [Ports -> Nat]
  BY <1>1, SetType DEF DataOK, PortTypes, AccessModes
<1>5. todata' \in [Ports -> [state : ToStates, session : 0..NumSessions,
                             mode_return : {"IDLE", "LOCAL"}]]
  BY <1>1, SetType, SessionValues DEF DataOK
<1>6. session' \in [Sessions -> [type : {"DELETED", "DIRECT"},
                                 parent : 0..NumPorts, target : 0..NumPorts]]
  BY <1>1, SetType, SessionValues DEF DataOK
<1> QED BY <1>1, <1>3, <1>4, <1>5, <1>6 DEF DataOK

LEMMA TelnetOutType ==
  ASSUME DataOK, NEW q \in Ports, telnet_out_task(q)
  PROVE  DataOK'
<1>1. CASE Quiet \/ Fault
  BY <1>1, QuietType
<1>2. CASE ToStep(q) /\ ~Fault
  <2>1. PICK st \in ToNext[todata[q].state] :
          /\ todata' = [todata EXCEPT ![q].state = st]
          /\ UNCHANGED <<type, mode, access, active, insock, session,
                         telnet_in, tcp_in, running>>
    BY <1>2 DEF ToStep
  <2>2. st \in ToStates
    BY ToNextStates DEF DataOK
  <2>3. todata' \in [Ports -> [state : ToStates, session : 0..NumSessions,
                               mode_return : {"IDLE", "LOCAL"}]]
    <3> DEFINE Record == [state : ToStates, session : 0..NumSessions,
                          mode_return : {"IDLE", "LOCAL"}]
    <3>1. todata \in [Ports -> Record]
      BY DEF DataOK
    <3>2. [todata[q] EXCEPT !.state = st] \in Record
      BY <2>2, <3>1
    <3>3. todata' = [todata EXCEPT ![q] = [todata[q] EXCEPT !.state = st]]
      BY <2>1
    <3> HIDE DEF Record
    <3>4. todata' \in [Ports -> Record]
      BY <3>1, <3>2, <3>3
    <3> QED BY <3>4 DEF Record
  <2> QED BY <2>1, <2>3 DEF DataOK
<1>3. CASE mode' = Set(mode, q, todata[q].mode_return) /\ OnlyMode
  <2>1. todata[q].mode_return \in Modes
    BY DEF DataOK, Modes
  <2> QED BY <1>3, <2>1, OnlyModeType
<1>4. CASE ToClose(q)
  BY <1>4, ToCloseType
<1> QED BY <1>1, <1>2, <1>3, <1>4 DEF telnet_out_task, ToBreak, BreakFaults

LEMMA TcpInType ==
  ASSUME DataOK, NEW c \in TcpSockets, tcp_in_task(c)
  PROVE  DataOK'
<1> DEFINE T == [state : TelnetInStates, port : 0..NumPorts, session : 0..NumSessions]
<1>0. c \in Nat /\ Ports \subseteq 0..NumPorts /\ TcpTarget[c] \in Ports
  BY SizeAssumption, StaticAssumption DEF TcpSockets, Ports, Static
<1>1. CASE Quiet
  BY <1>1, QuietType
<1>2. CASE TcpInClosed(c) /\ ~Quiet
  <2>1. /\ tcp_in' = [tcp_in EXCEPT ![c].state = "LISTEN"]
        /\ UNCHANGED <<portVars, session, telnet_in, running>>
    BY <1>2 DEF TcpInClosed
  <2>2. tcp_in' \in [TcpSockets -> T]
    BY <2>1 DEF DataOK, TelnetInStates
  <2> QED BY <2>1, <2>2 DEF DataOK, portVars
<1>3. CASE TcpInListen(c) /\ ~Quiet
  <2> DEFINE q == Min(FreePorts)
             s == Min(FreeSessions)
  <2>1. /\ AddPort("TCP_IN", c, "SESSION")
        /\ session' = Set(session, s, Direct(q, TcpTarget[c]))
        /\ active' = Set(active, q, s)
        /\ tcp_in' = [tcp_in EXCEPT ![c] = [state |-> "CONNECTED", port |-> q, session |-> s]]
        /\ UNCHANGED <<telnet_in, running>>
    BY <1>3 DEF TcpInListen
  <2>2. "TCP_IN" \in PortTypes /\ "SESSION" \in Modes
    BY DEF PortTypes, Modes
  <2>3. q \in Ports
    BY <1>0, <2>1, <2>2, AddPortType
  <2>4. s \in 0..NumSessions
    BY <1>3, FirstFree, SizeAssumption DEF TcpInListen, FreeSessions, Sessions
  <2>5. session' \in [Sessions -> [type : {"DELETED", "DIRECT"},
                                   parent : 0..NumPorts, target : 0..NumPorts]]
    BY <1>0, <2>1, <2>3, SessionValues, SetType DEF DataOK
  <2>6. active' \in [Ports -> 0..NumSessions]
    BY <2>1, <2>4, SetType DEF DataOK
  <2>7. [state |-> "CONNECTED", port |-> q, session |-> s] \in T
    BY <1>0, <2>3, <2>4 DEF TelnetInStates
  <2>8. tcp_in' \in [TcpSockets -> T]
    BY <2>1, <2>7 DEF DataOK
  <2> QED BY <1>0, <2>1, <2>2, <2>5, <2>6, <2>8, AddPortType DEF DataOK
<1>4. CASE TcpInConnected(c) /\ ~Quiet
  BY <1>4, ClosePortType DEF TcpInConnected
<1>5. CASE TcpInDisconnected(c)
  <2>1. mode \in [Ports -> Modes]
    BY DEF DataOK
  <2>2. tcp_in' \in [TcpSockets -> T]
    BY <1>5 DEF TcpInDisconnected, DataOK, TelnetInStates
  <2> QED BY <1>5, <2>1, <2>2, DeletePortsType DEF TcpInDisconnected, DataOK
<1> QED BY <1>1, <1>2, <1>3, <1>4, <1>5 DEF tcp_in_task

LEMMA CarrierType ==
  ASSUME DataOK, NEW p \in Static, CarrierRise(p)
  PROVE  DataOK'
BY OnlyModeType DEF CarrierRise, Modes

\* Every step of the loop and of the USB task keeps the data's type.
LEMMA NextType ==
  ASSUME DataOK, Next
  PROVE  DataOK'
<1>1. CASE \E p \in Ports : Service(p)
  BY <1>1, ServiceType
<1>2. CASE uart_task
  <2>1. Static \subseteq Ports
    BY SizeAssumption DEF Static, Ports
  <2>2. CASE Quiet \/ Fault
    BY <2>2, QuietType
  <2>3. CASE \E p \in Static : mode' = Set(mode, p, "LOCAL") /\ OnlyMode
    BY <2>3, OnlyModeType DEF Modes
  <2> QED BY <1>2, <2>2, <2>3 DEF uart_task, BreakLocal, BreakRemote
<1>3. CASE \E k \in TelnetSockets : telnet_in_task(k)
  BY <1>3, TelnetInType
<1>4. CASE \E q \in Dynamic : telnet_out_task(q)
  <2>1. Dynamic \subseteq Ports
    BY SizeAssumption DEF Dynamic, Ports
  <2> QED BY <1>4, <2>1, TelnetOutType
<1>5. CASE \E c \in TcpSockets : tcp_in_task(c)
  BY <1>5, TcpInType
<1>6. CASE \E p \in Static : CarrierRise(p)
  BY <1>6, CarrierType
<1> QED BY <1>1, <1>2, <1>3, <1>4, <1>5, <1>6 DEF Next, APP_Tasks

\* The cursor stays in the port list and the turn in the pass.
LEMMA NextTurn ==
  ASSUME cursor \in Ports, turn \in 0..(PassLength - 1), Next
  PROVE  cursor' \in Ports /\ turn' \in 0..(PassLength - 1)
<1>1. PassLength \in Nat \ {0}
  BY SizeAssumption DEF PassLength
<1>2. (turn + 1) % PassLength \in 0..(PassLength - 1)
  BY <1>1
<1>3. NextPort \in Ports
  BY SizeAssumption DEF NextPort, Ports
<1>4. CASE APP_Tasks
  <2>1. turn' = (turn + 1) % PassLength
    BY <1>4 DEF APP_Tasks, Service, uart_task, telnet_in_task, telnet_out_task, tcp_in_task, At
  <2>2. cursor' \in {cursor, NextPort}
    BY <1>4 DEF APP_Tasks, Service, uart_task, telnet_in_task, telnet_out_task, tcp_in_task
  <2> QED BY <1>2, <1>3, <2>1, <2>2
<1>5. CASE \E p \in Static : CarrierRise(p)
  BY <1>5 DEF CarrierRise
<1> QED BY <1>4, <1>5 DEF Next

(***************************************************************************)
(* Sessions, calls and sockets.                                            *)
(***************************************************************************)
\* The inductive invariant: LiveTarget needs OneSessionPerCall, so that no
\* session is left behind when a call's port is deleted, and SocketOwnsPort, so
\* that the tasks delete ports of their own only.
CircuitInv == /\ DataOK /\ PortKinds /\ SessionEnds
              /\ LiveTarget /\ OneSessionPerCall /\ SocketOwnsPort

LEMMA PortsSplit ==
  /\ Ports = Static \cup Dynamic /\ Static \cap Dynamic = {} /\ 0 \notin Ports
  /\ PortKinds => \A p \in Ports : type[p] \in {"NONE", "TELNET_IN", "TELNET_OUT", "TCP_IN"} => p \in Dynamic
<1>1. Ports = Static \cup Dynamic /\ Static \cap Dynamic = {} /\ 0 \notin Ports
  BY SizeAssumption DEF Ports, Static, Dynamic
<1> QED BY <1>1, StaticAssumption DEF PortKinds, StaticTypes

\* An operation that leaves the wiring alone.
LEMMA FrameCircuits ==
  ASSUME CircuitInv, DataOK',
         UNCHANGED <<type, access, insock, session, telnet_in, tcp_in>>,
         \A q \in Ports : todata'[q].session = todata[q].session
  PROVE  CircuitInv'
<1>1. PortKinds' /\ SessionEnds' /\ SocketOwnsPort'
  BY DEF CircuitInv, PortKinds, SessionEnds, SocketOwnsPort
<1>2. LiveTarget' /\ OneSessionPerCall'
  BY DEF CircuitInv, LiveTarget, Live, OneSessionPerCall
<1> QED BY <1>1, <1>2 DEF CircuitInv

LEMMA EnterCircuits ==
  ASSUME CircuitInv, NEW p \in Ports, NEW t \in Ports,
         type[t] # "NONE", ~Busy(t), access[t] # "LOCAL", p # t, Enter(p, t)
  PROVE  CircuitInv'
<1> DEFINE s == Min(FreeSessions)
<1>0. DataOK'
  BY EnterType DEF CircuitInv
<1>1. s \in Sessions /\ session[s].type = "DELETED"
  BY FirstFree DEF Enter, FreeSessions
<1>2. /\ session' = Set(session, s, Direct(p, t))
      /\ UNCHANGED <<type, access, todata, insock, telnet_in, tcp_in>>
  BY DEF Enter
<1>3. /\ session'[s] = Direct(p, t)
      /\ \A z \in Sessions : z # s => session'[z] = session[z]
  BY <1>1, <1>2 DEF Set, CircuitInv, DataOK
<1>4. PortKinds' /\ SocketOwnsPort'
  BY <1>2 DEF CircuitInv, PortKinds, SocketOwnsPort
<1>5. SessionEnds'
  BY <1>3 DEF CircuitInv, SessionEnds, Direct
<1>6. type[t] \in StaticTypes \cup {"TELNET_OUT"}
  BY PortsSplit, StaticAssumption DEF CircuitInv, PortKinds
<1>7. LiveTarget'
  BY <1>2, <1>3, <1>6 DEF CircuitInv, LiveTarget, Live, Direct
<1>8. session[s].target = 0 /\ 0 \notin Ports
  BY <1>1, PortsSplit DEF CircuitInv, SessionEnds, NoSession
<1>9. ASSUME NEW q \in Ports, type[q] = "TELNET_OUT"
      PROVE  /\ todata[q].session \in Sessions
             /\ \A z \in Sessions : session'[z].target = q <=> todata[q].session = z
  <2>1. /\ todata[q].session \in Sessions
        /\ \A z \in Sessions : session[z].target = q <=> todata[q].session = z
    BY <1>9 DEF CircuitInv, OneSessionPerCall
  <2>2. q # t
    BY <2>1 DEF Busy
  <2> QED BY <1>3, <1>8, <2>1, <2>2 DEF Direct
<1> QED BY <1>0, <1>2, <1>4, <1>5, <1>7, <1>9 DEF CircuitInv, OneSessionPerCall

LEMMA DialCircuits ==
  ASSUME CircuitInv, NEW p \in Ports, NEW ret \in {"IDLE", "LOCAL"}, type[p] # "NONE",
         Dial(p, ret)
  PROVE  CircuitInv'
<1> DEFINE s == Min(FreeSessions)
           q == Min(FreePorts)
<1>0. DataOK'
  BY DialType DEF CircuitInv
<1>1. s \in Sessions /\ session[s].type = "DELETED" /\ q \in Ports /\ type[q] = "NONE"
  BY FirstFree DEF Dial, FreeSessions, FreePorts
<1>2. /\ type' = Set(type, q, "TELNET_OUT")
      /\ access' = Set(access, q, "REMOTE")
      /\ todata' = Set(todata, q, [state |-> "DNS_PRECHECK", session |-> s, mode_return |-> ret])
      /\ insock' = Set(insock, q, 0)
      /\ session' = Set(session, s, Direct(p, q))
      /\ UNCHANGED <<telnet_in, tcp_in>>
  BY DEF Dial
<1> HIDE DEF s, q
<1>3. /\ session'[s] = Direct(p, q)
      /\ \A z \in Sessions : z # s => session'[z] = session[z]
  BY <1>1, <1>2 DEF Set, CircuitInv, DataOK
<1>4. /\ type'[q] = "TELNET_OUT" /\ access'[q] = "REMOTE" /\ todata'[q].session = s
      /\ \A x \in Ports : x # q => /\ type'[x] = type[x] /\ access'[x] = access[x]
                                   /\ todata'[x] = todata[x] /\ insock'[x] = insock[x]
  BY <1>1, <1>2 DEF Set, CircuitInv, DataOK
<1>5. q \in Dynamic
  BY <1>1, PortsSplit DEF CircuitInv
<1>6. PortKinds'
  BY <1>4, <1>5, PortsSplit DEF CircuitInv, PortKinds
<1>7. SessionEnds'
  BY <1>1, <1>3 DEF CircuitInv, SessionEnds, Direct
<1>8. \A z \in Sessions : session[z].target # q /\ session[s].target = 0 /\ 0 \notin Ports
  BY <1>1, PortsSplit DEF CircuitInv, SessionEnds, NoSession, LiveTarget, Live, StaticTypes
<1>9. LiveTarget'
  <2>1. ASSUME NEW z \in Sessions, session'[z].type = "DIRECT"
        PROVE  /\ session'[z].target \in Ports
               /\ type'[session'[z].target] \in StaticTypes \cup {"TELNET_OUT"}
               /\ access'[session'[z].target] # "LOCAL"
    <3>1. CASE z = s
      BY <1>1, <1>3, <1>4, <3>1 DEF Direct
    <3>2. CASE z # s
      BY <1>3, <1>4, <1>8, <2>1, <3>2 DEF CircuitInv, LiveTarget, Live
    <3> QED BY <3>1, <3>2
  <2> QED BY <2>1 DEF LiveTarget, Live
<1>10. OneSessionPerCall'
  <2>1. ASSUME NEW x \in Ports, type'[x] = "TELNET_OUT"
        PROVE  /\ todata'[x].session \in Sessions
               /\ \A z \in Sessions : session'[z].target = x <=> todata'[x].session = z
    <3>1. CASE x = q
      BY <1>1, <1>3, <1>4, <1>8, <3>1 DEF Direct
    <3>2. CASE x # q
      <4>1. /\ todata[x].session \in Sessions
            /\ \A z \in Sessions : session[z].target = x <=> todata[x].session = z
        BY <1>4, <2>1, <3>2 DEF CircuitInv, OneSessionPerCall
      <4> QED BY <1>1, <1>3, <1>4, <1>8, <3>2, <4>1 DEF Direct
    <3> QED BY <3>1, <3>2
  <2> QED BY <2>1 DEF OneSessionPerCall
<1>11. SocketOwnsPort'
  BY <1>1, <1>2, <1>4, PortsSplit DEF CircuitInv, SocketOwnsPort
<1> QED BY <1>0, <1>6, <1>7, <1>9, <1>10, <1>11 DEF CircuitInv

\* Ports D and sessions Z are deleted: no session to a deleted port is left,
\* and no call's session is deleted without its port.
LEMMA DeleteCircuits ==
  ASSUME CircuitInv, DataOK', SocketOwnsPort',
         NEW D \in SUBSET Dynamic, NEW Z \in SUBSET Sessions,
         \A x \in Ports : /\ type'[x] = IF x \in D THEN "NONE" ELSE type[x]
                          /\ access'[x] = IF x \in D THEN "LOCAL" ELSE access[x]
                          /\ x \notin D => todata'[x].session = todata[x].session,
         \A z \in Sessions : session'[z] = IF z \in Z THEN NoSession ELSE session[z],
         \A z \in Sessions : session[z].target \in D => z \in Z,
         \A z \in Z : session[z].target \in Ports /\ type[session[z].target] = "TELNET_OUT"
                        => session[z].target \in D
  PROVE  CircuitInv'
<1>1. PortKinds'
  BY PortsSplit DEF CircuitInv, PortKinds
<1>2. SessionEnds'
  BY DEF CircuitInv, SessionEnds
<1>3. LiveTarget'
  <2>1. ASSUME NEW z \in Sessions, session'[z].type = "DIRECT"
        PROVE  /\ session'[z].target \in Ports
               /\ type'[session'[z].target] \in StaticTypes \cup {"TELNET_OUT"}
               /\ access'[session'[z].target] # "LOCAL"
    <3>1. z \notin Z /\ session'[z] = session[z]
      BY <2>1 DEF NoSession
    <3> QED BY <2>1, <3>1 DEF CircuitInv, LiveTarget, Live
  <2> QED BY <2>1 DEF LiveTarget, Live
<1>4. OneSessionPerCall'
  <2>1. ASSUME NEW x \in Ports, type'[x] = "TELNET_OUT"
        PROVE  /\ todata'[x].session \in Sessions
               /\ \A z \in Sessions : session'[z].target = x <=> todata'[x].session = z
    <3>1. x \notin D /\ type[x] = "TELNET_OUT" /\ todata'[x].session = todata[x].session
      BY <2>1
    <3>2. /\ todata[x].session \in Sessions
          /\ \A z \in Sessions : session[z].target = x <=> todata[x].session = z
      BY <3>1 DEF CircuitInv, OneSessionPerCall
    <3>3. \A z \in Z : session[z].target # x
      BY <3>1
    <3>4. x # 0
      BY PortsSplit
    <3> QED BY <3>1, <3>2, <3>3, <3>4 DEF NoSession
  <2> QED BY <2>1 DEF OneSessionPerCall
<1> QED BY <1>1, <1>2, <1>3, <1>4 DEF CircuitInv

\* A live session's target is not the port of a socket; the target of a deleted
\* one is no port.
LEMMA TargetKind ==
  ASSUME CircuitInv, NEW s \in Sessions, session[s].target # 0 \/ session[s].parent # 0
  PROVE  /\ Live(s) /\ session[s].target \in Ports
         /\ type[session[s].target] \in StaticTypes \cup {"TELNET_OUT"}
<1>1. session[s].type = "DIRECT"
  BY DEF CircuitInv, SessionEnds, NoSession
<1> QED BY <1>1 DEF CircuitInv, LiveTarget, Live

LEMMA HangupCircuits ==
  ASSUME CircuitInv, NEW p \in Ports, NEW s \in Sessions, session[s].target # 0, Hangup(p, s)
  PROVE  CircuitInv'
<1> DEFINE t == session[s].target
           D == Closable({t})
           Z == {s}
<1>0. DataOK'
  BY HangupType DEF CircuitInv
<1>1. /\ type'   = SetAll(type, D, "NONE")
      /\ access' = SetAll(access, D, "LOCAL")
      /\ todata' = SetAll(todata, D, NoToData)
      /\ insock' = SetAll(insock, D, 0)
      /\ CloseSockets({t})
      /\ session' = Set(session, s, NoSession)
  BY DEF Hangup
<1>2. t \in Ports /\ type[t] \in {"SERIAL", "CDC", "TELNET_OUT"}
  BY TargetKind DEF StaticTypes
<1>3. D = (IF type[t] = "TELNET_OUT" THEN {t} ELSE {}) /\ D \in SUBSET Dynamic
  BY <1>2, PortsSplit DEF Closable, CircuitInv
<1>4. telnet_in' = telnet_in /\ tcp_in' = tcp_in
  BY <1>1, <1>2 DEF CloseSockets, CircuitInv, DataOK
<1> HIDE DEF D, Z
<1>5. \A x \in Ports : /\ type'[x] = IF x \in D THEN "NONE" ELSE type[x]
                       /\ access'[x] = IF x \in D THEN "LOCAL" ELSE access[x]
                       /\ x \notin D => todata'[x] = todata[x] /\ insock'[x] = insock[x]
  BY <1>1 DEF SetAll
<1>6. \A x \in D : type[x] = "TELNET_OUT"
  BY <1>3
<1>7. SocketOwnsPort'
  BY <1>4, <1>5, <1>6, PortsSplit DEF CircuitInv, SocketOwnsPort
<1>8. \A z \in Sessions : session'[z] = IF z \in Z THEN NoSession ELSE session[z]
  BY <1>1 DEF Set, CircuitInv, DataOK, Z
<1>9. \A z \in Sessions : session[z].target \in D => z \in Z
  BY <1>2, <1>3 DEF CircuitInv, OneSessionPerCall, Z
<1>10. Z \in SUBSET Sessions /\ \A z \in Z : type[session[z].target] = "TELNET_OUT"
                                                  => session[z].target \in D
  BY <1>3 DEF Z
<1>11. \A x \in Ports : /\ type'[x] = IF x \in D THEN "NONE" ELSE type[x]
                        /\ access'[x] = IF x \in D THEN "LOCAL" ELSE access[x]
                        /\ x \notin D => todata'[x].session = todata[x].session
  BY <1>5
<1> QED BY <1>0, <1>3, <1>7, <1>8, <1>9, <1>10, <1>11, DeleteCircuits

LEMMA ClosePortCircuits ==
  ASSUME CircuitInv, NEW p \in Ports, access[p] = "LOCAL", type[p] # "NONE", ClosePort(p)
  PROVE  CircuitInv'
<1> DEFINE Z == SessionsOf(p)
           Q == {p} \cup {session[s].target : s \in Z}
           D == Closable(Q)
<1>0. DataOK'
  BY ClosePortType DEF CircuitInv
<1>1. /\ type'   = SetAll(type, D, "NONE")
      /\ access' = SetAll(access, D, "LOCAL")
      /\ todata' = SetAll(todata, D, NoToData)
      /\ insock' = SetAll(insock, D, 0)
      /\ CloseSockets(Q)
      /\ session' = [s \in Sessions |-> IF s \in Z THEN NoSession ELSE session[s]]
  BY DEF ClosePort, DeletePorts
<1>2. \A s \in Z : /\ s \in Sessions /\ session[s].target \in Ports
                   /\ type[session[s].target] \in {"SERIAL", "CDC", "TELNET_OUT"}
  BY TargetKind, PortsSplit DEF SessionsOf, StaticTypes
<1>3. p \in Q /\ \A q \in Q : /\ q \in Ports
                              /\ q = p \/ \E s \in Z : q = session[s].target
                              /\ type[q] \in {"TELNET_IN", "TCP_IN"} => q = p
  BY <1>2
<1>4. \A s \in Z : session[s].target \in Q
  OBVIOUS
<1>5. D \in SUBSET Dynamic /\ D \subseteq Q
  BY <1>3, PortsSplit DEF Closable, CircuitInv
<1>6. \A q \in Q : q \in D <=> type[q] \in {"TELNET_OUT", "TELNET_IN"}
  BY DEF Closable
<1> HIDE DEF D, Q, Z
<1>7. \A x \in Ports : /\ type'[x] = IF x \in D THEN "NONE" ELSE type[x]
                       /\ access'[x] = IF x \in D THEN "LOCAL" ELSE access[x]
                       /\ x \notin D => todata'[x] = todata[x] /\ insock'[x] = insock[x]
  BY <1>1 DEF SetAll
<1>8. type[p] # "TELNET_OUT"
  BY PortsSplit DEF CircuitInv, PortKinds
<1>9. /\ \A k \in TelnetSockets : telnet_in'[k] =
           IF type[p] = "TELNET_IN" /\ insock[p] = k
           THEN [state |-> "CLOSED", port |-> 0] ELSE telnet_in[k]
      /\ \A c \in TcpSockets : tcp_in'[c] =
           IF type[p] = "TCP_IN" /\ insock[p] = c
           THEN [tcp_in[c] EXCEPT !.state = "DISCONNECTED"] ELSE tcp_in[c]
  BY <1>1, <1>3 DEF CloseSockets
<1>10. SocketOwnsPort'
  <2>1. ASSUME NEW k \in TelnetSockets, telnet_in'[k].state \in {"CONNECTED", "DISCONNECTED"}
        PROVE  /\ telnet_in'[k].port \in Dynamic /\ type'[telnet_in'[k].port] = "TELNET_IN"
               /\ insock'[telnet_in'[k].port] = k
    <3>1. telnet_in'[k] = telnet_in[k] /\ ~ (type[p] = "TELNET_IN" /\ insock[p] = k)
      BY <1>9, <2>1
    <3>2. /\ telnet_in[k].port \in Dynamic /\ type[telnet_in[k].port] = "TELNET_IN"
          /\ insock[telnet_in[k].port] = k
      BY <2>1, <3>1 DEF CircuitInv, SocketOwnsPort
    <3>3. telnet_in[k].port \notin D
      BY <1>3, <1>5, <3>1, <3>2
    <3> QED BY <1>7, <3>1, <3>2, <3>3, PortsSplit
  <2>2. ASSUME NEW c \in TcpSockets, tcp_in'[c].state \in {"CONNECTED", "DISCONNECTED"}
        PROVE  /\ tcp_in'[c].port \in Dynamic /\ type'[tcp_in'[c].port] = "TCP_IN"
               /\ insock'[tcp_in'[c].port] = c
    <3>1. tcp_in[c] \in [state : TelnetInStates, port : 0..NumPorts, session : 0..NumSessions]
      BY DEF CircuitInv, DataOK
    <3>2. tcp_in'[c].port = tcp_in[c].port
      BY <1>9, <3>1
    <3>3. /\ tcp_in[c].port \in Dynamic /\ type[tcp_in[c].port] = "TCP_IN"
          /\ insock[tcp_in[c].port] = c
      <4>1. CASE type[p] = "TCP_IN" /\ insock[p] = c
        BY <4>1, PortsSplit DEF CircuitInv, SocketOwnsPort
      <4>2. CASE ~ (type[p] = "TCP_IN" /\ insock[p] = c)
        <5>1. tcp_in[c].state \in {"CONNECTED", "DISCONNECTED"}
          BY <1>9, <2>2, <4>2
        <5> QED BY <5>1 DEF CircuitInv, SocketOwnsPort
      <4> QED BY <4>1, <4>2
    <3>4. tcp_in[c].port \notin D
      BY <1>5, <1>6, <3>3
    <3> QED BY <1>7, <3>2, <3>3, <3>4, PortsSplit
  <2>3. ASSUME NEW x \in Ports, type'[x] = "TELNET_IN"
        PROVE  \E k \in TelnetSockets : /\ insock'[x] = k /\ telnet_in'[k].port = x
                                        /\ telnet_in'[k].state \in {"CONNECTED", "DISCONNECTED"}
    <3>1. x \notin D /\ type[x] = "TELNET_IN" /\ insock'[x] = insock[x]
      BY <1>7, <2>3
    <3>2. PICK k \in TelnetSockets : /\ insock[x] = k /\ telnet_in[k].port = x
                                     /\ telnet_in[k].state \in {"CONNECTED", "DISCONNECTED"}
      BY <3>1 DEF CircuitInv, SocketOwnsPort
    <3>3. ~ (type[p] = "TELNET_IN" /\ insock[p] = k)
      <4>1. SUFFICES ASSUME type[p] = "TELNET_IN", insock[p] = k PROVE FALSE
        OBVIOUS
      <4>2. telnet_in[k].port = p
        BY <4>1 DEF CircuitInv, SocketOwnsPort
      <4> QED BY <1>3, <1>6, <3>1, <3>2, <4>1, <4>2
    <3> QED BY <1>9, <3>1, <3>2, <3>3
  <2>4. ASSUME NEW x \in Ports, type'[x] = "TCP_IN"
        PROVE  \E c \in TcpSockets : /\ insock'[x] = c /\ tcp_in'[c].port = x
                                     /\ tcp_in'[c].state \in {"CONNECTED", "DISCONNECTED"}
    <3>1. type[x] = "TCP_IN" /\ insock'[x] = insock[x]
      BY <1>7, <2>4
    <3>2. PICK c \in TcpSockets : /\ insock[x] = c /\ tcp_in[c].port = x
                                  /\ tcp_in[c].state \in {"CONNECTED", "DISCONNECTED"}
      BY <3>1 DEF CircuitInv, SocketOwnsPort
    <3>3. tcp_in[c] \in [state : TelnetInStates, port : 0..NumPorts, session : 0..NumSessions]
      BY DEF CircuitInv, DataOK
    <3> QED BY <1>9, <3>1, <3>2, <3>3
  <2> QED BY <2>1, <2>2, <2>3, <2>4 DEF SocketOwnsPort
<1>11. Z \in SUBSET Sessions /\ \A z \in Sessions : session'[z] = IF z \in Z THEN NoSession ELSE session[z]
  BY <1>1 DEF Z, SessionsOf
<1>12. \A z \in Sessions : session[z].target \in D => z \in Z
  <2>1. SUFFICES ASSUME NEW z \in Sessions, session[z].target \in D PROVE z \in Z
    OBVIOUS
  <2>2. CASE session[z].target = p
    BY <2>2 DEF Z, SessionsOf
  <2>3. CASE session[z].target # p
    <3>1. PICK s \in Z : session[z].target = session[s].target
      BY <1>3, <1>5, <2>1, <2>3
    <3>2. type[session[s].target] = "TELNET_OUT" /\ session[s].target \in Ports
      BY <1>2, <1>5, <1>6, <2>1, <3>1
    <3>3. z = s
      BY <1>2, <3>1, <3>2 DEF CircuitInv, OneSessionPerCall
    <3> QED BY <3>3
  <2> QED BY <2>2, <2>3
<1>13. \A z \in Z : type[session[z].target] = "TELNET_OUT" => session[z].target \in D
  BY <1>4, <1>6
<1> QED BY <1>0, <1>5, <1>7, <1>10, <1>11, <1>12, <1>13, DeleteCircuits

\* A new port for a socket: nothing is connected to it yet.
LEMMA AddPortWiring ==
  ASSUME CircuitInv, NEW kind \in {"TELNET_IN", "TCP_IN"}, NEW k \in Nat, NEW m \in Modes,
         AddPort(kind, k, m), NEW q, q = Min(FreePorts)
  PROVE  /\ q \in Dynamic /\ type[q] = "NONE"
         /\ type'[q] = kind /\ insock'[q] = k
         /\ \A x \in Ports : x # q => /\ type'[x] = type[x] /\ access'[x] = access[x]
                                      /\ todata'[x] = todata[x] /\ insock'[x] = insock[x]
         /\ \A z \in Sessions : session[z].target # q
         /\ PortKinds'
<1>1. q \in Ports /\ type[q] = "NONE"
  BY FirstFree DEF AddPort, FreePorts
<1>2. q \in Dynamic
  BY <1>1, PortsSplit DEF CircuitInv
<1>3. /\ type' = Set(type, q, kind) /\ access' = Set(access, q, "LOCAL")
      /\ todata' = Set(todata, q, NoToData) /\ insock' = Set(insock, q, k)
  BY DEF AddPort
<1>4. /\ type'[q] = kind /\ insock'[q] = k /\ access'[q] = "LOCAL"
      /\ \A x \in Ports : x # q => /\ type'[x] = type[x] /\ access'[x] = access[x]
                                   /\ todata'[x] = todata[x] /\ insock'[x] = insock[x]
  BY <1>1, <1>3 DEF Set, CircuitInv, DataOK
<1>5. \A z \in Sessions : session[z].target # q
  BY <1>1, TargetKind, PortsSplit DEF StaticTypes
<1>6. PortKinds'
  BY <1>2, <1>4, PortsSplit DEF CircuitInv, PortKinds
<1> QED BY <1>1, <1>2, <1>4, <1>5, <1>6

LEMMA TelnetAcceptCircuits ==
  ASSUME CircuitInv, DataOK', NEW k \in TelnetSockets, telnet_in[k].state = "LISTEN",
         AddPort("TELNET_IN", k, "PREGREET"),
         telnet_in' = [telnet_in EXCEPT ![k] = [state |-> "CONNECTED", port |-> Min(FreePorts)]],
         UNCHANGED <<session, tcp_in>>
  PROVE  CircuitInv'
<1> DEFINE q == Min(FreePorts)
<1>0. k \in Nat /\ "PREGREET" \in Modes
  BY DEF TelnetSockets, Modes
<1>1. /\ q \in Dynamic /\ type[q] = "NONE"
      /\ type'[q] = "TELNET_IN" /\ insock'[q] = k
      /\ \A x \in Ports : x # q => /\ type'[x] = type[x] /\ access'[x] = access[x]
                                   /\ todata'[x] = todata[x] /\ insock'[x] = insock[x]
      /\ \A z \in Sessions : session[z].target # q
      /\ PortKinds'
  BY <1>0, AddPortWiring
<1>2. /\ telnet_in'[k].state = "CONNECTED" /\ telnet_in'[k].port = q
      /\ \A j \in TelnetSockets : j # k => telnet_in'[j] = telnet_in[j]
  BY DEF CircuitInv, DataOK
<1> HIDE DEF q
<1>3. SessionEnds' /\ LiveTarget' /\ OneSessionPerCall'
  <2>1. SessionEnds' /\ LiveTarget'
    BY <1>1 DEF CircuitInv, SessionEnds, LiveTarget, Live
  <2>2. OneSessionPerCall'
    BY <1>1 DEF CircuitInv, OneSessionPerCall
  <2> QED BY <2>1, <2>2
<1>4. SocketOwnsPort'
  BY <1>1, <1>2, PortsSplit DEF CircuitInv, SocketOwnsPort
<1> QED BY <1>1, <1>3, <1>4 DEF CircuitInv

\* A dropped login: telnet_in_task deletes its own port and no other.
LEMMA TelnetDropCircuits ==
  ASSUME CircuitInv, DataOK', NEW k \in TelnetSockets, TelnetInDisconnected(k)
  PROVE  CircuitInv'
<1> DEFINE p == telnet_in[k].port
           D == {p}
           Z == {}
<1>1. p \in Dynamic /\ type[p] = "TELNET_IN" /\ insock[p] = k
  BY DEF TelnetInDisconnected, CircuitInv, SocketOwnsPort
<1>2. /\ type' = SetAll(type, D, "NONE") /\ access' = SetAll(access, D, "LOCAL")
      /\ todata' = SetAll(todata, D, NoToData) /\ insock' = SetAll(insock, D, 0)
      /\ telnet_in' = [telnet_in EXCEPT ![k] = [state |-> "CLOSED", port |-> 0]]
      /\ UNCHANGED <<session, tcp_in>>
  BY DEF TelnetInDisconnected, DeletePorts
<1>3. /\ telnet_in'[k].state = "CLOSED"
      /\ \A j \in TelnetSockets : j # k => telnet_in'[j] = telnet_in[j]
  BY <1>2 DEF CircuitInv, DataOK
<1>4. \A x \in D : x = p
  OBVIOUS
<1>5. D \in SUBSET Dynamic /\ p \in D
  BY <1>1
<1> HIDE DEF p, D, Z
<1>6. \A x \in Ports : /\ type'[x] = IF x \in D THEN "NONE" ELSE type[x]
                       /\ access'[x] = IF x \in D THEN "LOCAL" ELSE access[x]
                       /\ x \notin D => todata'[x] = todata[x] /\ insock'[x] = insock[x]
  BY <1>2 DEF SetAll
<1>7. SocketOwnsPort'
  BY <1>1, <1>2, <1>3, <1>4, <1>5, <1>6, PortsSplit DEF CircuitInv, SocketOwnsPort
<1>8. /\ Z \in SUBSET Sessions
      /\ \A z \in Sessions : session'[z] = IF z \in Z THEN NoSession ELSE session[z]
      /\ \A z \in Z : type[session[z].target] = "TELNET_OUT" => session[z].target \in D
  BY <1>2 DEF Z
<1>9. \A z \in Sessions : session[z].target \in D => z \in Z
  BY <1>1, <1>4, TargetKind, PortsSplit DEF StaticTypes
<1>10. \A x \in Ports : /\ type'[x] = IF x \in D THEN "NONE" ELSE type[x]
                        /\ access'[x] = IF x \in D THEN "LOCAL" ELSE access[x]
                        /\ x \notin D => todata'[x].session = todata[x].session
  BY <1>6
<1> QED BY <1>5, <1>7, <1>8, <1>9, <1>10, DeleteCircuits

\* A socket changes state without a port.
LEMMA SocketStateCircuits ==
  ASSUME CircuitInv, DataOK', UNCHANGED <<type, access, todata, insock, session>>,
         SocketOwnsPort'
  PROVE  CircuitInv'
BY DEF CircuitInv, PortKinds, SessionEnds, LiveTarget, Live, OneSessionPerCall

LEMMA ToCloseCircuits ==
  ASSUME CircuitInv, NEW q \in Ports, type[q] = "TELNET_OUT", ToClose(q)
  PROVE  CircuitInv'
<1> DEFINE s == todata[q].session
           D == {q}
           Z == {s}
<1>0. DataOK'
  BY ToCloseType DEF CircuitInv
<1>1. /\ type' = Set(type, q, "NONE") /\ access' = Set(access, q, "LOCAL")
      /\ todata' = Set(todata, q, NoToData) /\ insock' = Set(insock, q, 0)
      /\ session' = Set(session, s, NoSession)
      /\ UNCHANGED <<telnet_in, tcp_in>>
  BY DEF ToClose
<1>2. q \in Dynamic /\ s \in Sessions /\ \A z \in Sessions : session[z].target = q <=> z = s
  BY PortsSplit DEF CircuitInv, OneSessionPerCall
<1>3. /\ D \in SUBSET Dynamic /\ \A x : x \in D <=> x = q
      /\ Z \in SUBSET Sessions /\ \A z : z \in Z <=> z = s
  BY <1>2
<1> HIDE DEF s, D, Z
<1>4. \A x \in Ports : /\ type'[x] = IF x \in D THEN "NONE" ELSE type[x]
                       /\ access'[x] = IF x \in D THEN "LOCAL" ELSE access[x]
                       /\ x \notin D => todata'[x] = todata[x] /\ insock'[x] = insock[x]
  BY <1>1, <1>3 DEF Set, CircuitInv, DataOK
<1>5. \A z \in Sessions : session'[z] = IF z \in Z THEN NoSession ELSE session[z]
  BY <1>1, <1>3 DEF Set, CircuitInv, DataOK
<1>6. SocketOwnsPort'
  BY <1>1, <1>3, <1>4, PortsSplit DEF CircuitInv, SocketOwnsPort
<1>7. /\ \A z \in Sessions : session[z].target \in D => z \in Z
      /\ \A z \in Z : session[z].target \in D
  BY <1>2, <1>3
<1>8.  \A x \in Ports : /\ type'[x] = IF x \in D THEN "NONE" ELSE type[x]
                        /\ access'[x] = IF x \in D THEN "LOCAL" ELSE access[x]
                        /\ x \notin D => todata'[x].session = todata[x].session
  BY <1>4
<1> QED BY <1>0, <1>3, <1>5, <1>6, <1>7, <1>8, DeleteCircuits

LEMMA TcpAcceptCircuits ==
  ASSUME CircuitInv, DataOK', NEW c \in TcpSockets, TcpInListen(c), ~Quiet,
         access[TcpTarget[c]] = "REMOTE"
  PROVE  CircuitInv'
<1> DEFINE q == Min(FreePorts)
           s == Min(FreeSessions)
           t == TcpTarget[c]
<1>0. /\ c \in Nat /\ "SESSION" \in Modes /\ t \in Static /\ t \in Ports /\ 0 \notin Ports
      /\ type[t] \in StaticTypes
  BY StaticAssumption, PortsSplit DEF TcpSockets, Modes, CircuitInv, PortKinds
<1>1. /\ AddPort("TCP_IN", c, "SESSION")
      /\ session' = Set(session, s, Direct(q, t))
      /\ tcp_in' = [tcp_in EXCEPT ![c] = [state |-> "CONNECTED", port |-> q, session |-> s]]
      /\ tcp_in[c].state = "LISTEN" /\ UNCHANGED telnet_in
  BY DEF TcpInListen
<1>2. s \in Sessions /\ session[s].type = "DELETED" /\ session[s].target = 0
  BY FirstFree, PortsSplit DEF TcpInListen, FreeSessions, CircuitInv, SessionEnds, NoSession
<1>3. /\ q \in Dynamic /\ type[q] = "NONE"
      /\ type'[q] = "TCP_IN" /\ insock'[q] = c
      /\ \A x \in Ports : x # q => /\ type'[x] = type[x] /\ access'[x] = access[x]
                                   /\ todata'[x] = todata[x] /\ insock'[x] = insock[x]
      /\ \A z \in Sessions : session[z].target # q
      /\ PortKinds'
  BY <1>0, <1>1, AddPortWiring
<1>4. /\ tcp_in'[c].state = "CONNECTED" /\ tcp_in'[c].port = q
      /\ \A d \in TcpSockets : d # c => tcp_in'[d] = tcp_in[d]
  BY <1>1 DEF CircuitInv, DataOK
<1> HIDE DEF q, s, t
<1>5. /\ session'[s] = Direct(q, t)
      /\ \A z \in Sessions : z # s => session'[z] = session[z]
  BY <1>1, <1>2 DEF Set, CircuitInv, DataOK
<1>6. t # q /\ q \in Ports
  BY <1>0, <1>3, PortsSplit
<1>7. SessionEnds'
  BY <1>0, <1>2, <1>5, <1>6 DEF CircuitInv, SessionEnds, Direct
<1>8. LiveTarget'
  <2>1. ASSUME NEW z \in Sessions, session'[z].type = "DIRECT"
        PROVE  /\ session'[z].target \in Ports
               /\ type'[session'[z].target] \in StaticTypes \cup {"TELNET_OUT"}
               /\ access'[session'[z].target] # "LOCAL"
    <3>1. CASE z = s
      BY <1>0, <1>3, <1>5, <1>6, <3>1 DEF Direct, t
    <3>2. CASE z # s
      BY <1>3, <1>5, <2>1, <3>2 DEF CircuitInv, LiveTarget, Live
    <3> QED BY <3>1, <3>2
  <2> QED BY <2>1 DEF LiveTarget, Live
<1>9. OneSessionPerCall'
  <2>1. ASSUME NEW x \in Ports, type'[x] = "TELNET_OUT"
        PROVE  /\ todata'[x].session \in Sessions
               /\ \A z \in Sessions : session'[z].target = x <=> todata'[x].session = z
    <3>1. x # q /\ type[x] = "TELNET_OUT" /\ todata'[x] = todata[x]
      BY <1>3, <2>1
    <3>2. /\ todata[x].session \in Sessions
          /\ \A z \in Sessions : session[z].target = x <=> todata[x].session = z
      BY <3>1 DEF CircuitInv, OneSessionPerCall
    <3>3. x # t /\ x # 0
      BY <1>0, <3>1 DEF StaticTypes
    <3> QED BY <1>2, <1>5, <3>1, <3>2, <3>3 DEF Direct
  <2> QED BY <2>1 DEF OneSessionPerCall
<1>10. SocketOwnsPort'
  BY <1>1, <1>3, <1>4, PortsSplit DEF CircuitInv, SocketOwnsPort
<1> QED BY <1>3, <1>7, <1>8, <1>9, <1>10 DEF CircuitInv

\* The raw TCP port that is closed in one pass is deleted in the next.
LEMMA TcpDropCircuits ==
  ASSUME CircuitInv, DataOK', NEW c \in TcpSockets, TcpInDisconnected(c)
  PROVE  CircuitInv'
<1> DEFINE p == tcp_in[c].port
           D == {p}
           Z == {}
<1>1. p \in Dynamic /\ type[p] = "TCP_IN" /\ insock[p] = c
  BY DEF TcpInDisconnected, CircuitInv, SocketOwnsPort
<1>2. /\ type' = SetAll(type, D, "NONE") /\ access' = SetAll(access, D, "LOCAL")
      /\ todata' = SetAll(todata, D, NoToData) /\ insock' = SetAll(insock, D, 0)
      /\ tcp_in' = [tcp_in EXCEPT ![c].state = "CLOSED"]
      /\ UNCHANGED <<session, telnet_in>>
  BY DEF TcpInDisconnected, DeletePorts
<1>3. /\ tcp_in'[c].state = "CLOSED"
      /\ \A d \in TcpSockets : d # c => tcp_in'[d] = tcp_in[d]
  BY <1>2 DEF CircuitInv, DataOK
<1>4. \A x \in D : x = p
  OBVIOUS
<1>5. D \in SUBSET Dynamic /\ p \in D
  BY <1>1
<1> HIDE DEF p, D, Z
<1>6. \A x \in Ports : /\ type'[x] = IF x \in D THEN "NONE" ELSE type[x]
                       /\ access'[x] = IF x \in D THEN "LOCAL" ELSE access[x]
                       /\ x \notin D => todata'[x] = todata[x] /\ insock'[x] = insock[x]
  BY <1>2 DEF SetAll
<1>7. SocketOwnsPort'
  BY <1>1, <1>2, <1>3, <1>4, <1>5, <1>6, PortsSplit DEF CircuitInv, SocketOwnsPort
<1>8. /\ Z \in SUBSET Sessions
      /\ \A z \in Sessions : session'[z] = IF z \in Z THEN NoSession ELSE session[z]
      /\ \A z \in Z : type[session[z].target] = "TELNET_OUT" => session[z].target \in D
  BY <1>2 DEF Z
<1>9. \A z \in Sessions : session[z].target \in D => z \in Z
  BY <1>1, <1>4, TargetKind, PortsSplit DEF StaticTypes
<1>10. \A x \in Ports : /\ type'[x] = IF x \in D THEN "NONE" ELSE type[x]
                        /\ access'[x] = IF x \in D THEN "LOCAL" ELSE access[x]
                        /\ x \notin D => todata'[x].session = todata[x].session
  BY <1>6
<1> QED BY <1>5, <1>7, <1>8, <1>9, <1>10, DeleteCircuits

\* A listener is opened only for a REMOTE port, and that port stays REMOTE.
Listening ==
  \A c \in TcpSockets : tcp_in[c].state # "CLOSED" => StaticAccess[TcpTarget[c]] = "REMOTE"

LEMMA CloseSocketsListening ==
  ASSUME CircuitInv, Listening, NEW Q, Q \subseteq Ports, CloseSockets(Q)
  PROVE  Listening'
<1>1. ASSUME NEW c \in TcpSockets, tcp_in'[c].state # "CLOSED"
      PROVE  tcp_in[c].state # "CLOSED"
  <2>1. CASE \E q \in Q : type[q] = "TCP_IN" /\ insock[q] = c
    BY <2>1 DEF CircuitInv, SocketOwnsPort
  <2>2. CASE ~ \E q \in Q : type[q] = "TCP_IN" /\ insock[q] = c
    BY <1>1, <2>2 DEF CloseSockets
  <2> QED BY <2>1, <2>2
<1> QED BY <1>1 DEF Listening

\* Closing a call or a port never opens a listener.
LEMMA HangupListening ==
  ASSUME CircuitInv, Listening, NEW p \in Ports, NEW s \in Sessions, session[s].target # 0,
         Hangup(p, s)
  PROVE  Listening'
<1>1. {session[s].target} \subseteq Ports /\ CloseSockets({session[s].target})
  BY TargetKind DEF Hangup
<1> QED BY <1>1, CloseSocketsListening

LEMMA ClosePortListening ==
  ASSUME CircuitInv, Listening, NEW p \in Ports, ClosePort(p)
  PROVE  Listening'
<1> DEFINE Q == {p} \cup {session[s].target : s \in SessionsOf(p)}
<1>1. CloseSockets(Q)
  BY DEF ClosePort
<1>2. ASSUME NEW s \in SessionsOf(p)
      PROVE  session[s].target \in Ports
  <2>1. s \in Sessions /\ (session[s].target # 0 \/ session[s].parent # 0)
    BY PortsSplit DEF SessionsOf
  <2> QED BY <2>1, TargetKind
<1>3. Q \subseteq Ports
  BY <1>2
<1> HIDE DEF Q
<1> QED BY <1>1, <1>3, CloseSocketsListening

\* What each step keeps.
LEMMA FrameStep ==
  ASSUME CircuitInv, Listening, DataOK',
         UNCHANGED <<type, access, insock, session, telnet_in, tcp_in>>,
         \A q \in Ports : todata'[q].session = todata[q].session
  PROVE  CircuitInv' /\ Listening'
BY FrameCircuits DEF Listening

LEMMA QuietStep ==
  ASSUME CircuitInv, Listening, Quiet \/ Fault
  PROVE  CircuitInv' /\ Listening'
<1>1. DataOK'
  BY QuietType DEF CircuitInv
<1>2. UNCHANGED <<type, access, insock, session, telnet_in, tcp_in, todata>>
  BY DEF Quiet, Fault, portVars
<1> QED BY <1>1, <1>2, FrameStep

LEMMA OnlyModeStep ==
  ASSUME CircuitInv, Listening, NEW p, NEW m \in Modes, mode' = Set(mode, p, m), OnlyMode
  PROVE  CircuitInv' /\ Listening'
<1>1. DataOK'
  BY OnlyModeType DEF CircuitInv
<1>2. UNCHANGED <<type, access, insock, session, telnet_in, tcp_in, todata>>
  BY DEF OnlyMode
<1> QED BY <1>1, <1>2, FrameStep

\* The commands of an open LOCAL terminal and of a modem.
LEMMA CommandStep ==
  ASSUME CircuitInv, Listening, NEW p \in Ports,
         \/ access[p] = "LOCAL" /\ type[p] # "NONE" /\ command_process(p)
         \/ access[p] = "MODEM" /\ modem_process(p)
  PROVE  CircuitInv' /\ Listening'
<1>0. p # 0 /\ type[p] # "NONE"
  BY PortsSplit, StaticAssumption DEF CircuitInv, PortKinds, StaticTypes
<1>1. CASE Quiet \/ Fault
  BY <1>1, QuietStep
<1>2. CASE \E t \in Ports : /\ type[t] # "NONE" /\ ~Busy(t) /\ access[t] # "LOCAL" /\ p # t
                             /\ Enter(p, t)
  <2>1. UNCHANGED tcp_in
    BY <1>2 DEF Enter
  <2> QED BY <1>2, <2>1, EnterCircuits DEF Listening
<1>3. CASE Dial(p, "LOCAL") \/ Dial(p, "IDLE")
  <2>1. UNCHANGED tcp_in
    BY <1>3 DEF Dial
  <2> QED BY <1>0, <1>3, <2>1, DialCircuits DEF Listening
<1>4. CASE \E s \in Sessions : resume_session(p, s)
  <2>1. DataOK'
    BY <1>4, ResumeType DEF CircuitInv
  <2>2. UNCHANGED <<type, access, insock, session, telnet_in, tcp_in, todata>>
    BY <1>4 DEF resume_session
  <2> QED BY <2>1, <2>2, FrameStep
<1>5. CASE \E s \in Sessions : session[s].target # 0 /\ Hangup(p, s)
  BY <1>5, HangupCircuits, HangupListening
<1>6. CASE access[p] = "LOCAL" /\ type[p] # "NONE" /\ ClosePort(p)
  BY <1>6, ClosePortCircuits, ClosePortListening
<1>7. CASE mode' = Set(mode, p, "SESSION") /\ OnlyMode
  BY <1>7, OnlyModeStep DEF Modes
<1>8. ASSUME NEW s \in Sessions, disconnect_session(p, s)
      PROVE  session[s].target # 0 /\ Hangup(p, s)
  BY <1>0, <1>8, TargetKind, PortsSplit DEF disconnect_session
<1>9. ASSUME active[p] # 0, ~DanglingActive(p), Hangup(p, active[p])
      PROVE  \E s \in Sessions : session[s].target # 0 /\ Hangup(p, s)
  BY <1>9, SizeAssumption DEF DanglingActive, CircuitInv, DataOK, Sessions
<1>10. CASE access[p] = "LOCAL" /\ type[p] # "NONE" /\ command_process(p)
  BY <1>1, <1>2, <1>3, <1>4, <1>5, <1>6, <1>8, <1>10
  DEF command_process, connect_local, telnet, logout, port_send_break
<1>11. CASE access[p] = "MODEM" /\ modem_process(p)
  <2>1. ASSUME NEW t \in Ports, modem_dial_port(p, t)
        PROVE  /\ type[t] # "NONE" /\ ~Busy(t) /\ access[t] # "LOCAL" /\ p # t
               /\ Enter(p, t)
    BY <1>11, <2>1 DEF modem_dial_port
  <2> QED BY <1>1, <1>2, <1>3, <1>5, <1>7, <1>9, <1>11, <2>1
      DEF modem_process, modem_dial_telnet
<1> QED BY <1>10, <1>11

LEMMA ServiceStep ==
  ASSUME CircuitInv, Listening, NEW p \in Ports, Service(p)
  PROVE  CircuitInv' /\ Listening'
<1>1. CASE Quiet \/ Fault
  BY <1>1, QuietStep
<1>2. CASE \E m \in Modes : mode' = Set(mode, p, m) /\ OnlyMode
  BY <1>2, OnlyModeStep
<1>3. CASE \/ access[p] = "LOCAL" /\ type[p] # "NONE" /\ command_process(p)
           \/ access[p] = "MODEM" /\ modem_process(p)
  BY <1>3, CommandStep
<1>4. CASE \E m \in Modes, s \in 0..NumSessions : Switch(p, m, s)
  <2>1. DataOK'
    BY <1>4, SwitchType DEF CircuitInv
  <2>2. UNCHANGED <<type, access, insock, session, telnet_in, tcp_in, todata>>
    BY <1>4 DEF Switch, Fault, portVars
  <2> QED BY <2>1, <2>2, FrameStep
<1>5. CASE ServiceIdle(p) \/ ServicePregreet(p) \/ ServiceGreet(p)
  BY <1>5, <1>1, <1>2 DEF ServiceIdle, ServicePregreet, ServiceGreet, Modes
<1>6. CASE ServiceLocal(p)
  BY <1>6, <1>1, <1>3, Zenon DEF ServiceLocal
<1>7. CASE ServiceSession(p) \/ ServiceModem(p)
  <2>1. Forward(p) \in 0..NumSessions /\ Backward(p) \in 0..NumSessions
    BY SwitchTargets DEF CircuitInv
  <2>2. Escaped(p) \subseteq Modes /\ "LOCAL" \in Modes
    BY DEF Escaped, Modes
  <2> QED BY <1>7, <1>1, <1>2, <1>4, <2>1, <2>2 DEF ServiceSession, ServiceModem
<1> QED BY <1>5, <1>6, <1>7 DEF Service

LEMMA TelnetInStep ==
  ASSUME CircuitInv, Listening, NEW k \in TelnetSockets, telnet_in_task(k)
  PROVE  CircuitInv' /\ Listening'
<1>0. DataOK'
  BY TelnetInType DEF CircuitInv
<1>1. CASE Quiet \/ Fault
  BY <1>1, QuietStep
<1>2. CASE TelnetInListen(k) /\ ~Quiet
  BY <1>0, <1>2, TelnetAcceptCircuits DEF TelnetInListen, Listening
<1>3. CASE TelnetInConnected(k)
  <2>1. PICK st \in {"CONNECTED", "DISCONNECTED"} : telnet_in' = [telnet_in EXCEPT ![k].state = st]
    BY <1>3 DEF TelnetInConnected
  <2>2. /\ telnet_in'[k].state = st /\ telnet_in'[k].port = telnet_in[k].port
        /\ \A j \in TelnetSockets : j # k => telnet_in'[j] = telnet_in[j]
        /\ telnet_in[k].state = "CONNECTED"
        /\ UNCHANGED <<type, access, todata, insock, session, tcp_in>>
    BY <1>3, <2>1 DEF TelnetInConnected, CircuitInv, DataOK
  <2>3. SocketOwnsPort'
    BY <2>2 DEF CircuitInv, SocketOwnsPort
  <2> QED BY <1>0, <2>2, <2>3, SocketStateCircuits DEF Listening
<1>4. CASE TelnetInDisconnected(k)
  BY <1>0, <1>4, TelnetDropCircuits DEF TelnetInDisconnected, Listening
<1>5. CASE TelnetInClosed(k)
  <2>1. /\ telnet_in'[k].state = "LISTEN" /\ telnet_in[k].state = "CLOSED"
        /\ \A j \in TelnetSockets : j # k => telnet_in'[j] = telnet_in[j]
        /\ UNCHANGED <<portVars, session, tcp_in>>
    BY <1>5 DEF TelnetInClosed, CircuitInv, DataOK
  <2>2. SocketOwnsPort'
    BY <2>1 DEF CircuitInv, SocketOwnsPort, portVars
  <2> QED BY <1>0, <2>1, <2>2, SocketStateCircuits DEF Listening, portVars
<1> QED BY <1>1, <1>2, <1>3, <1>4, <1>5 DEF telnet_in_task, TelnetInListen

LEMMA TelnetOutStep ==
  ASSUME CircuitInv, Listening, NEW q \in Ports, telnet_out_task(q)
  PROVE  CircuitInv' /\ Listening'
<1>0. DataOK'
  BY TelnetOutType DEF CircuitInv
<1>1. CASE Quiet \/ Fault
  BY <1>1, QuietStep
<1>2. CASE ToStep(q) /\ ~Fault
  <2>1. PICK st : /\ todata' = [todata EXCEPT ![q].state = st]
                  /\ UNCHANGED <<type, mode, access, active, insock, session,
                                 telnet_in, tcp_in, running>>
    BY <1>2 DEF ToStep
  <2>2. \A x \in Ports : todata'[x].session = todata[x].session
    BY <2>1 DEF CircuitInv, DataOK
  <2> QED BY <1>0, <2>1, <2>2, FrameStep
<1>3. CASE mode' = Set(mode, q, todata[q].mode_return) /\ OnlyMode
  <2>1. todata[q].mode_return \in Modes
    BY DEF CircuitInv, DataOK, Modes
  <2> QED BY <1>3, <2>1, OnlyModeStep
<1>4. CASE type[q] = "TELNET_OUT" /\ ToClose(q)
  BY <1>4, ToCloseCircuits DEF ToClose, Listening
<1> QED BY <1>1, <1>2, <1>3, <1>4 DEF telnet_out_task, ToBreak, BreakFaults

LEMMA TcpInStep ==
  ASSUME CircuitInv, Listening, NEW c \in TcpSockets, tcp_in_task(c)
  PROVE  CircuitInv' /\ Listening'
<1>0. DataOK'
  BY TcpInType DEF CircuitInv
<1>1. CASE Quiet
  BY <1>1, QuietStep
<1>2. access[TcpTarget[c]] = StaticAccess[TcpTarget[c]]
  BY StaticAssumption DEF CircuitInv, PortKinds
<1>3. CASE TcpInClosed(c) /\ ~Quiet
  <2>1. /\ StaticAccess[TcpTarget[c]] = "REMOTE"
        /\ UNCHANGED <<portVars, session, telnet_in>>
        /\ tcp_in'[c].state = "LISTEN" /\ tcp_in[c].state = "CLOSED"
        /\ \A d \in TcpSockets : d # c => tcp_in'[d] = tcp_in[d]
    BY <1>2, <1>3 DEF TcpInClosed, CircuitInv, DataOK
  <2>2. SocketOwnsPort'
    BY <2>1 DEF CircuitInv, SocketOwnsPort, portVars
  <2> QED BY <1>0, <2>1, <2>2, SocketStateCircuits DEF Listening, portVars
<1>4. CASE TcpInListen(c) /\ ~Quiet
  <2>1. StaticAccess[TcpTarget[c]] = "REMOTE"
    BY <1>4 DEF TcpInListen, Listening
  <2>2. \A d \in TcpSockets : d # c => tcp_in'[d] = tcp_in[d]
    BY <1>4 DEF TcpInListen, CircuitInv, DataOK
  <2> QED BY <1>0, <1>2, <1>4, <2>1, <2>2, TcpAcceptCircuits DEF Listening
<1>5. CASE TcpInConnected(c) /\ ~Quiet
  <2> DEFINE p == tcp_in[c].port
  <2>1. p \in Dynamic /\ type[p] = "TCP_IN" /\ ClosePort(p)
    BY <1>5 DEF TcpInConnected, CircuitInv, SocketOwnsPort
  <2>2. p \in Ports /\ access[p] = "LOCAL"
    BY <2>1, PortsSplit DEF CircuitInv, PortKinds
  <2> HIDE DEF p
  <2> QED BY <2>1, <2>2, ClosePortCircuits, ClosePortListening
<1>6. CASE TcpInDisconnected(c)
  <2>1. \A d \in TcpSockets : d # c => tcp_in'[d] = tcp_in[d]
    BY <1>6 DEF TcpInDisconnected, CircuitInv, DataOK
  <2>2. tcp_in[c].state = "DISCONNECTED"
    BY <1>6 DEF TcpInDisconnected
  <2> QED BY <1>0, <1>6, <2>1, <2>2, TcpDropCircuits DEF Listening
<1> QED BY <1>1, <1>3, <1>4, <1>5, <1>6 DEF tcp_in_task

LEMMA NextStep ==
  ASSUME CircuitInv, Listening, Next
  PROVE  CircuitInv' /\ Listening'
<1>1. CASE \E p \in Ports : Service(p)
  BY <1>1, ServiceStep
<1>2. CASE uart_task
  <2>1. CASE Quiet \/ Fault
    BY <2>1, QuietStep
  <2>2. CASE \E p \in Static : mode' = Set(mode, p, "LOCAL") /\ OnlyMode
    BY <2>2, OnlyModeStep DEF Modes
  <2> QED BY <1>2, <2>1, <2>2 DEF uart_task, BreakLocal, BreakRemote
<1>3. CASE \E k \in TelnetSockets : telnet_in_task(k)
  BY <1>3, TelnetInStep
<1>4. CASE \E q \in Dynamic : telnet_out_task(q)
  BY <1>4, TelnetOutStep, PortsSplit
<1>5. CASE \E c \in TcpSockets : tcp_in_task(c)
  BY <1>5, TcpInStep
<1>6. CASE \E p \in Static : CarrierRise(p)
  BY <1>6, OnlyModeStep DEF CarrierRise, Modes
<1> QED BY <1>1, <1>2, <1>3, <1>4, <1>5, <1>6 DEF Next, APP_Tasks

\* The wiring of the tables is sound for ever.
LEMMA CircuitsAlways == Spec => [](CircuitInv /\ Listening)
<1>1. Init => CircuitInv /\ Listening
  <2> SUFFICES ASSUME Init PROVE CircuitInv /\ Listening
    OBVIOUS
  <2>1. DataOK
    <3>1. Static \subseteq Ports /\ 0 \in 0..NumPorts /\ 0 \in 0..NumSessions
      BY SizeAssumption DEF Static, Ports
    <3>2. type \in [Ports -> PortTypes] /\ access \in [Ports -> AccessModes]
      BY StaticAssumption DEF Init, PortTypes, AccessModes
    <3>3. /\ mode \in [Ports -> Modes] /\ active \in [Ports -> 0..NumSessions]
          /\ insock \in [Ports -> Nat] /\ running \in BOOLEAN
      BY <3>1 DEF Init, Modes
    <3>4. /\ todata \in [Ports -> [state : ToStates, session : 0..NumSessions,
                                   mode_return : {"IDLE", "LOCAL"}]]
          /\ session \in [Sessions -> [type : {"DELETED", "DIRECT"},
                                       parent : 0..NumPorts, target : 0..NumPorts]]
      BY SessionValues DEF Init
    <3>5. /\ telnet_in \in [TelnetSockets -> [state : TelnetInStates, port : 0..NumPorts]]
          /\ tcp_in \in [TcpSockets -> [state : TelnetInStates, port : 0..NumPorts,
                                        session : 0..NumSessions]]
      BY <3>1 DEF Init, TelnetInStates
    <3> QED BY <3>2, <3>3, <3>4, <3>5 DEF DataOK
  <2>2. PortKinds
    BY PortsSplit DEF Init, PortKinds
  <2>3. SessionEnds /\ LiveTarget
    BY DEF Init, SessionEnds, LiveTarget, Live, NoSession
  <2>4. \A p \in Ports : type[p] \notin {"TELNET_OUT", "TELNET_IN", "TCP_IN"}
    BY StaticAssumption DEF Init, StaticTypes
  <2>5. OneSessionPerCall /\ SocketOwnsPort /\ Listening
    BY <2>4 DEF Init, OneSessionPerCall, SocketOwnsPort, Listening
  <2> QED BY <2>1, <2>2, <2>3, <2>5 DEF CircuitInv
<1>2. CircuitInv /\ Listening /\ [Next \/ Halted]_vars => CircuitInv' /\ Listening'
  <2> SUFFICES ASSUME CircuitInv, Listening, [Next \/ Halted]_vars
               PROVE  CircuitInv' /\ Listening'
    OBVIOUS
  <2>1. CASE Next
    BY <2>1, NextStep
  <2>2. CASE UNCHANGED vars
    BY <2>2, QuietStep DEF vars, Quiet, portVars
  <2> QED BY <2>1, <2>2 DEF Halted
<1> QED BY <1>1, <1>2, PTL DEF Spec

\* The port list and the turns of the loop.
TurnOK == cursor \in Ports /\ turn \in 0..(PassLength - 1)

LEMMA TurnAlways == Spec => []TurnOK
<1>1. Init => TurnOK
  BY SizeAssumption DEF Init, TurnOK, Ports, PassLength
<1>2. TurnOK /\ [Next \/ Halted]_vars => TurnOK'
  BY NextTurn DEF TurnOK, Halted, vars, PassLength
<1> QED BY <1>1, <1>2, PTL DEF Spec

\* In every configuration of the server the tables keep their types: the ports
\* of the settings are never made into others, network ports take the dynamic
\* slots only, and a session object is empty or has two different ends, which
\* rests on the wiring of the tables.
THEOREM TypeCorrect == Spec => []TypeOK
<1>1. CircuitInv /\ TurnOK => TypeOK
  BY DEF CircuitInv, DataOK, TurnOK, TypeOK
<1> QED BY <1>1, CircuitsAlways, TurnAlways, PTL

\* In every configuration, whatever the order of events: no session leads to a
\* deleted slot or to a terminal, an outgoing call has the one session that ends
\* with it, and sockets and ports own each other.
THEOREM CircuitsSound == Spec => [](LiveTarget /\ OneSessionPerCall /\ SocketOwnsPort)
<1>1. CircuitInv => LiveTarget /\ OneSessionPerCall /\ SocketOwnsPort
  BY DEF CircuitInv
<1> QED BY <1>1, CircuitsAlways, PTL

(***************************************************************************)
(* No session is re-routed.                                                *)
(***************************************************************************)
\* A step keeps every session, deletes sessions, or fills a deleted object.
LEMMA SessionSteps ==
  ASSUME Next
  PROVE  \/ UNCHANGED session
         \/ \E Z : session' = [s \in Sessions |-> IF s \in Z THEN NoSession ELSE session[s]]
         \/ \E s : session' = Set(session, s, NoSession)
         \/ \E s \in FreeSessions : \E p, t : session' = Set(session, s, Direct(p, t))
<1> DEFINE Kept    == UNCHANGED session
           Closed  == \E Z : session' = [s \in Sessions |-> IF s \in Z THEN NoSession
                                                                         ELSE session[s]]
           Deleted == \E s : session' = Set(session, s, NoSession)
           Made    == \E s \in FreeSessions : \E p, t : session' = Set(session, s, Direct(p, t))
<1>1. ASSUME NEW p, ClosePort(p) PROVE Closed
  BY <1>1 DEF ClosePort
<1>2. ASSUME NEW p, NEW s, Hangup(p, s) PROVE Deleted
  BY <1>2 DEF Hangup
<1>3. ASSUME NEW p, NEW t, Enter(p, t) PROVE Made
  BY <1>3, FirstFree DEF Enter
<1>4. ASSUME NEW p, NEW r, Dial(p, r) PROVE Made
  BY <1>4, FirstFree DEF Dial
<1>5. ASSUME NEW q, ToClose(q) PROVE Deleted
  BY <1>5 DEF ToClose
<1>6. ASSUME NEW c, TcpInListen(c) PROVE Kept \/ Made
  BY <1>6, FirstFree DEF TcpInListen, Quiet
<1>7. ASSUME Quiet \/ Fault \/ OnlyMode PROVE Kept
  BY <1>7 DEF Quiet, Fault, OnlyMode
<1>8. ASSUME NEW p, NEW m, NEW s, resume_session(p, s) \/ Switch(p, m, s) PROVE Kept
  BY <1>7, <1>8 DEF resume_session, Switch
<1> HIDE DEF Kept, Closed, Deleted, Made
<1>9. ASSUME NEW p, command_process(p) \/ modem_process(p) PROVE Kept \/ Closed \/ Deleted \/ Made
  <2>1. CASE command_process(p)
    BY <2>1, <1>1, <1>2, <1>3, <1>4, <1>7, <1>8
    DEF command_process, connect_local, telnet, disconnect_session, logout, port_send_break
  <2>2. CASE modem_process(p)
    BY <2>2, <1>2, <1>3, <1>4, <1>7 DEF modem_process, modem_dial_telnet, modem_dial_port
  <2> QED BY <1>9, <2>1, <2>2
<1>10. ASSUME NEW p, Service(p) PROVE Kept \/ Closed \/ Deleted \/ Made
  <2>1. CASE ServiceIdle(p) \/ ServicePregreet(p) \/ ServiceGreet(p) \/ ServiceModem(p)
    BY <2>1, <1>7 DEF ServiceIdle, ServicePregreet, ServiceGreet, ServiceModem
  <2>2. CASE ServiceLocal(p)
    BY <2>2, <1>7, <1>9, Zenon DEF ServiceLocal
  <2>3. CASE ServiceSession(p)
    BY <2>3, <1>7, <1>8 DEF ServiceSession
  <2> QED BY <1>10, <2>1, <2>2, <2>3 DEF Service
<1>11. ASSUME NEW k, telnet_in_task(k) PROVE Kept
  BY <1>11, <1>7 DEF telnet_in_task, TelnetInListen, TelnetInConnected, TelnetInDisconnected,
                     TelnetInClosed, BreakLocal, BreakRemote, Kept
<1>12. ASSUME NEW q, telnet_out_task(q) PROVE Kept \/ Deleted
  <2>1. CASE Quiet \/ ToBreak(q)
    BY <2>1, <1>7 DEF ToBreak, BreakFaults
  <2>2. CASE ToStep(q)
    BY <2>2, <1>7 DEF ToStep, Kept
  <2>3. CASE ToClose(q)
    BY <2>3, <1>5
  <2> QED BY <1>12, <2>1, <2>2, <2>3 DEF telnet_out_task
<1>13. ASSUME NEW c, tcp_in_task(c) PROVE Kept \/ Closed \/ Made
  <2>1. CASE TcpInClosed(c) \/ TcpInDisconnected(c)
    BY <2>1, <1>7 DEF TcpInClosed, TcpInDisconnected, Kept
  <2>2. CASE TcpInListen(c) \/ TcpInConnected(c)
    BY <2>2, <1>1, <1>6, <1>7 DEF TcpInConnected
  <2> QED BY <1>13, <2>1, <2>2 DEF tcp_in_task
<1>14. ASSUME uart_task \/ \E p \in Static : CarrierRise(p) PROVE Kept
  BY <1>14, <1>7 DEF uart_task, BreakLocal, BreakRemote, CarrierRise
<1>15. Kept \/ Closed \/ Deleted \/ Made
  BY <1>10, <1>11, <1>12, <1>13, <1>14 DEF Next, APP_Tasks
<1> QED BY <1>15 DEF Kept, Closed, Deleted, Made

\* A call to another machine has one session, which ends with it, whatever
\* telnet_out_task, the modem and the prompt do in between.
THEOREM CallsSound == Spec => []OneSessionPerCall
<1> QED BY CircuitsSound, PTL

\* A network port and its socket point at each other: no task serves or
\* deletes a port that another socket has in the meantime.
THEOREM SocketsSound == Spec => []SocketOwnsPort
<1> QED BY CircuitsSound, PTL

\* A live session keeps both its ends until it is deleted, however its object,
\* its parent's slot or its target's slot are reused around it.
THEOREM NoRerouting == Spec => NeverRerouted
<1> DEFINE Kept == \A s \in Sessions : Live(s) => session'[s] \in {session[s], NoSession}
<1>1. DataOK /\ [Next \/ Halted]_vars => Kept
  <2> SUFFICES ASSUME DataOK, [Next \/ Halted]_vars, NEW s \in Sessions, Live(s)
               PROVE  session'[s] \in {session[s], NoSession}
    OBVIOUS
  <2>1. CASE UNCHANGED session
    BY <2>1
  <2>2. CASE \E Z : session' = [z \in Sessions |-> IF z \in Z THEN NoSession ELSE session[z]]
    BY <2>2
  <2>3. CASE \E z : session' = Set(session, z, NoSession)
    BY <2>3 DEF Set, DataOK
  <2>4. CASE \E z \in FreeSessions : \E p, t : session' = Set(session, z, Direct(p, t))
    BY <2>4 DEF Set, DataOK, FreeSessions, Live
  <2>5. CASE UNCHANGED vars \/ Halted
    BY <2>1, <2>5 DEF vars, Halted
  <2> QED BY <2>1, <2>2, <2>3, <2>4, <2>5, SessionSteps
<1>2. CircuitInv => DataOK
  BY DEF CircuitInv
<1>3. DataOK /\ [Next \/ Halted]_vars => [Kept]_vars
  BY <1>1
<1>4. Spec => [][Kept]_vars
  BY <1>2, <1>3, CircuitsAlways, PTL DEF Spec
<1> QED BY <1>4 DEF NeverRerouted
=============================================================================
