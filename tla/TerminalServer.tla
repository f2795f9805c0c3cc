--------------------------- MODULE TerminalServer ---------------------------
(***************************************************************************)
(* The main loop of the terminal server: the port table (port.c), the      *)
(* session table (session.c), the Local> commands that open and close      *)
(* sessions (session.c, telnet_out.c, command.c), the Hayes dialler        *)
(* (modem.c), and the three network tasks that create and delete ports     *)
(* (telnet_in.c, telnet_out.c, tcp_in.c), in the order APP_Tasks (app.c)   *)
(* runs them.                                                              *)
(*                                                                         *)
(* A port is a slot of the list "ports", which never shrinks: a deleted    *)
(* port is a slot of type PORT_NONE that add_port reuses.  A session is an *)
(* object of the list "sessions", reused in the same way.  Pointers are    *)
(* slot and object numbers, 0 is NULL.  Bytes are abstracted: a key press, *)
(* a command line or a network event is a choice of the step that reads    *)
(* it.                                                                     *)
(***************************************************************************)
EXTENDS Integers, FiniteSetsExt

CONSTANTS
  NumStatic,         \* ports made at boot, serial and USB: slots 1..NumStatic
  NumPorts,          \* bound: slots the port list may grow to
  NumSessions,       \* bound: objects the session list may grow to
  StaticType,        \* [1..NumStatic -> {"SERIAL", "CDC"}]
  StaticAccess,      \* access mode of the boot ports, from their settings
  NumTelnetSockets,  \* listening sockets of the telnet server
  NumTcpSockets,     \* raw TCP listeners
  TcpTarget,         \* [1..NumTcpSockets -> 1..NumStatic]
  FreedModes         \* modes a freed struct todata may hold (see ToClose)

Static        == 1..NumStatic
Ports         == 1..NumPorts
Dynamic       == (NumStatic + 1)..NumPorts
Sessions      == 1..NumSessions
TelnetSockets == 1..NumTelnetSockets
TcpSockets    == 1..NumTcpSockets

StaticTypes == {"SERIAL", "CDC"}
PortTypes   == StaticTypes \cup {"NONE", "TELNET_IN", "TELNET_OUT", "TCP_IN"}
Modes       == {"IDLE", "PREGREET", "GREET", "LOCAL", "SESSION", "MODEM"}
AccessModes == {"LOCAL", "REMOTE", "MODEM", "TU58"}

ASSUME SizeAssumption ==
  /\ NumStatic \in Nat \ {0}
  /\ NumPorts \in Nat /\ NumPorts >= NumStatic
  /\ NumSessions \in Nat
  /\ NumTelnetSockets \in Nat
  /\ NumTcpSockets \in Nat

ASSUME StaticAssumption ==
  /\ StaticType \in [Static -> StaticTypes]
  /\ StaticAccess \in [Static -> AccessModes]
  /\ TcpTarget \in [TcpSockets -> Static]
  /\ \A c, d \in TcpSockets : c # d => TcpTarget[c] # TcpTarget[d]
  /\ FreedModes \subseteq Modes

VARIABLES
  type, mode, access, active,   \* struct port: type, mode, access, active_session
  todata,                       \* struct todata of a TELNET_OUT port
  insock,                       \* data->socket of a TELNET_IN or TCP_IN port
  session,                      \* the session objects
  telnet_in, tcp_in,            \* the socket tables of telnet_in.c and tcp_in.c
  cursor,                       \* the port APP_Tasks services next
  turn,                         \* the part of the APP_Tasks pass that runs next
  running                       \* FALSE once the program has called or read NULL

portVars == <<type, mode, access, active, todata, insock>>
vars == <<type, mode, access, active, todata, insock, session, telnet_in,
          tcp_in, cursor, turn, running>>

(***************************************************************************)
(* Sessions and ports.                                                     *)
(***************************************************************************)
NoSession == [type |-> "DELETED", parent |-> 0, target |-> 0]
Direct(p, t) == [type |-> "DIRECT", parent |-> p, target |-> t]

Live(s) == s \in Sessions /\ session[s].type = "DIRECT"

\* Mutant: when every object is in use the table is recycled.
FreeSessions_Recycled ==
  LET deleted == {s \in Sessions : session[s].type = "DELETED"}
  IN  IF deleted = {} THEN Sessions ELSE deleted

FreeSessions == {s \in Sessions : session[s].type = "DELETED"}
FreePorts    == {p \in Ports : type[p] = "NONE"}

\* The TELNET client's connection states and what telnet_out_task may make
\* of each: results of DNS, mDNS, the stack and the clock are choices.
ToStates == {"DNS_PRECHECK", "START_DNS", "RUN_DNS", "BAD_HOST", "START_DNS2",
             "RUN_DNS2", "FOUND_HOST", "NOCONN", "BREAK", "CONNECTING",
             "CONNECT", "RUN", "CLOSE"}

\* Mutant: a name that is not found with the domain is looked up again.
ToNext_LookupLoops ==
          [DNS_PRECHECK |-> {"FOUND_HOST", "START_DNS"},
           START_DNS    |-> {"FOUND_HOST", "RUN_DNS"},
           RUN_DNS      |-> {"BREAK", "FOUND_HOST", "RUN_DNS", "START_DNS2"},
           START_DNS2   |-> {"FOUND_HOST", "RUN_DNS2"},
           RUN_DNS2     |-> {"BREAK", "FOUND_HOST", "RUN_DNS2", "START_DNS"},
           BAD_HOST     |-> {"CLOSE"},
           FOUND_HOST   |-> {"CLOSE", "CONNECTING"},
           CONNECTING   |-> {"BREAK", "NOCONN", "CONNECT", "CONNECTING"},
           NOCONN       |-> {"CLOSE"},
           BREAK        |-> {"CLOSE"},
           CONNECT      |-> {"RUN"},
           RUN          |-> {"RUN", "CLOSE"},
           CLOSE        |-> {"CLOSE"}]

ToNext == [DNS_PRECHECK |-> {"FOUND_HOST", "START_DNS"},
           START_DNS    |-> {"FOUND_HOST", "RUN_DNS"},
           RUN_DNS      |-> {"BREAK", "FOUND_HOST", "RUN_DNS", "START_DNS2"},
           START_DNS2   |-> {"FOUND_HOST", "RUN_DNS2"},
           RUN_DNS2     |-> {"BREAK", "FOUND_HOST", "RUN_DNS2", "BAD_HOST"},
           BAD_HOST     |-> {"CLOSE"},
           FOUND_HOST   |-> {"CLOSE", "CONNECTING"},
           CONNECTING   |-> {"BREAK", "NOCONN", "CONNECT", "CONNECTING"},
           NOCONN       |-> {"CLOSE"},
           BREAK        |-> {"CLOSE"},
           CONNECT      |-> {"RUN"},
           RUN          |-> {"RUN", "CLOSE"},
           CLOSE        |-> {"CLOSE"}]

NoToData == [state |-> "DNS_PRECHECK", session |-> 0, mode_return |-> "IDLE"]

Set(f, p, v) == [f EXCEPT ![p] = v]
SetAll(f, P, v) == [p \in Ports |-> IF p \in P THEN v ELSE f[p]]

\* delete_port on every port of D; "modes" is the mode of the other ports.
DeletePorts(D, modes) ==
  /\ type'   = SetAll(type, D, "NONE")
  /\ mode'   = SetAll(modes, D, "IDLE")
  /\ access' = SetAll(access, D, "LOCAL")
  /\ active' = SetAll(active, D, 0)
  /\ todata' = SetAll(todata, D, NoToData)
  /\ insock' = SetAll(insock, D, 0)

\* fn_close of every port of Q that has one: a TELNET_OUT or TELNET_IN port
\* is deleted at once, a TCP_IN port by the next pass of tcp_in_task.
Closable(Q) == {q \in Q : type[q] \in {"TELNET_OUT", "TELNET_IN"}}

\* Mutant: the socket of a telnet login is left open.
CloseSockets_TcpOnly(Q) ==
  /\ tcp_in' = [c \in TcpSockets |->
       IF \E q \in Q : type[q] = "TCP_IN" /\ insock[q] = c
       THEN [tcp_in[c] EXCEPT !.state = "DISCONNECTED"] ELSE tcp_in[c]]
  /\ UNCHANGED telnet_in

CloseSockets(Q) ==
  /\ telnet_in' = [k \in TelnetSockets |->
       IF \E q \in Q : type[q] = "TELNET_IN" /\ insock[q] = k
       THEN [state |-> "CLOSED", port |-> 0] ELSE telnet_in[k]]
  /\ tcp_in' = [c \in TcpSockets |->
       IF \E q \in Q : type[q] = "TCP_IN" /\ insock[q] = c
       THEN [tcp_in[c] EXCEPT !.state = "DISCONNECTED"] ELSE tcp_in[c]]

\* close_port: sessions with p at either end are destroyed, their targets and
\* then p itself are closed.  active_session of p is not cleared.
\* Mutant: only the sessions to the port are looked for.
SessionsOf_Target(p) == {s \in Sessions : session[s].target = p}

SessionsOf(p) == {s \in Sessions : session[s].parent = p \/ session[s].target = p}

ClosePort(p) ==
  LET Q == {p} \cup {session[s].target : s \in SessionsOf(p)}
  IN  /\ DeletePorts(Closable(Q), Set(mode, p, "IDLE"))
      /\ CloseSockets(Q)
      /\ session' = [s \in Sessions |-> IF s \in SessionsOf(p) THEN NoSession
                                                               ELSE session[s]]
      /\ UNCHANGED running

(***************************************************************************)
(* One pass of APP_Tasks: turn 0 services the port under the cursor, turn 1*)
(* runs uart_task, the turns after it run one socket or port each of       *)
(* telnet_in_task, telnet_out_task and tcp_in_task.                        *)
(***************************************************************************)
TelnetInTurn(k)  == 1 + k
TelnetOutTurn(p) == 1 + NumTelnetSockets + (p - NumStatic)
TcpInTurn(c)     == 1 + NumTelnetSockets + (NumPorts - NumStatic) + c
PassLength       == 2 + NumTelnetSockets + (NumPorts - NumStatic) + NumTcpSockets

\* Task "n" of the pass runs.
At(n) == running /\ turn = n /\ turn' = (turn + 1) % PassLength
\* Mutant: the end of the port list is not looked for.
NextPort_NoWrap == cursor + 1

NextPort == IF cursor = NumPorts THEN 1 ELSE cursor + 1

Fault == running' = FALSE /\ UNCHANGED <<portVars, session, telnet_in, tcp_in>>
Quiet == UNCHANGED <<portVars, session, telnet_in, tcp_in, running>>
OnlyMode == UNCHANGED <<type, access, active, todata, insock, session,
                        telnet_in, tcp_in, running>>

(***************************************************************************)
(* The Local> commands.                                                    *)
(***************************************************************************)
\* Port p gets a session to t that already is a port, and enters it.
Enter(p, t) ==
  /\ FreeSessions # {}
  /\ LET s == Min(FreeSessions)
     IN  /\ session' = Set(session, s, Direct(p, t))
         /\ active' = Set(active, p, s)
  /\ mode' = Set(mode, p, "SESSION")
  /\ UNCHANGED <<type, access, todata, insock, telnet_in, tcp_in, running>>

\* Mutant: the wrong end of the session is compared.
Busy_Parent(t) == \E s \in Sessions : session[s].parent = t

Busy(t) == \E s \in Sessions : session[s].target = t

connect_local(p, t) ==
  /\ type[t] # "NONE" /\ ~Busy(t) /\ access[t] # "LOCAL"
  /\ Enter(p, t)

\* TELNET, and ATDT: a new TELNET_OUT port, a session to it, and p enters it.
\* "ret" is the mode p gets back when the connection ends.
Dial(p, ret) ==
  /\ FreePorts # {} /\ FreeSessions # {}
  /\ LET q == Min(FreePorts)
         s == Min(FreeSessions)
     IN  /\ type' = Set(type, q, "TELNET_OUT")
         /\ access' = Set(access, q, "REMOTE")
         /\ todata' = Set(todata, q, [state |-> "DNS_PRECHECK", session |-> s,
                                      mode_return |-> ret])
         /\ insock' = Set(insock, q, 0)
         /\ session' = Set(session, s, Direct(p, q))
         /\ active' = [active EXCEPT ![p] = s, ![q] = s]
         /\ mode' = [mode EXCEPT ![q] = "IDLE", ![p] = "SESSION"]
  /\ UNCHANGED <<telnet_in, tcp_in, running>>

telnet(p) == Dial(p, "LOCAL")

\* Mutant: whose session it is is not checked.
resume_session_Any(p, s) ==
  /\ session[s].type = "DIRECT"
  /\ active' = Set(active, p, s)
  /\ mode' = Set(mode, p, "SESSION")
  /\ UNCHANGED <<type, access, todata, insock, session, telnet_in, tcp_in, running>>

resume_session(p, s) ==
  /\ session[s].parent = p
  /\ active' = Set(active, p, s)
  /\ mode' = Set(mode, p, "SESSION")
  /\ UNCHANGED <<type, access, todata, insock, session, telnet_in, tcp_in, running>>

\* The target of session s is closed and s deleted; p has no current session.
Hangup(p, s) ==
  LET t == session[s].target
  IN  /\ type'   = SetAll(type, Closable({t}), "NONE")
      /\ mode'   = SetAll(mode, Closable({t}), "IDLE")
      /\ access' = SetAll(access, Closable({t}), "LOCAL")
      /\ active' = Set(SetAll(active, Closable({t}), 0), p, 0)
      /\ todata' = SetAll(todata, Closable({t}), NoToData)
      /\ insock' = SetAll(insock, Closable({t}), 0)
      /\ CloseSockets({t})
      /\ session' = Set(session, s, NoSession)
      /\ UNCHANGED running

\* Mutant: the target is closed and the session object left as it is.
disconnect_session_KeepsObject(p, s) ==
  /\ session[s].parent = p
  /\ DeletePorts(Closable({session[s].target}), mode)
  /\ UNCHANGED <<session, telnet_in, tcp_in, running>>

disconnect_session(p, s) == session[s].parent = p /\ Hangup(p, s)

logout(p) == ClosePort(p)

\* A BREAK for the current session sets target->send_break: NULL once the
\* session object has been deleted.
DanglingActive(p) == active[p] # 0 /\ session[active[p]].target = 0

port_send_break(p) == DanglingActive(p) /\ Fault

command_process(p) ==
  \/ Quiet                          \* no complete line, or a command of no effect here
  \/ \E t \in Ports : connect_local(p, t)
  \/ telnet(p)
  \/ \E s \in Sessions : resume_session(p, s) \/ disconnect_session(p, s)
  \/ logout(p)
  \/ port_send_break(p)

(***************************************************************************)
(* The Hayes commands of a port in MODEM access mode: ATDT, ATDP, ATO, ATH.*)
(***************************************************************************)
modem_dial_telnet(p) == Dial(p, "IDLE")

modem_dial_port(p, t) ==
  /\ type[t] # "NONE" /\ ~Busy(t) /\ access[t] = "REMOTE"
  /\ Enter(p, t)

\* Mutants: ATH closes by close_port; ATH without a call is not refused.
modem_process_AthLogsOut(p) ==
  \/ Quiet
  \/ modem_dial_telnet(p)
  \/ active[p] # 0 /\ mode' = Set(mode, p, "SESSION") /\ OnlyMode
  \/ active[p] # 0 /\ ClosePort(p)

modem_process_AthUnchecked(p) ==
  \/ Quiet
  \/ modem_dial_telnet(p)
  \/ active[p] # 0 /\ mode' = Set(mode, p, "SESSION") /\ OnlyMode
  \/ IF active[p] = 0 THEN Fault ELSE Hangup(p, active[p])

modem_process(p) ==
  \/ Quiet
  \/ modem_dial_telnet(p)
  \/ \E t \in Ports : modem_dial_port(p, t)
  \/ active[p] # 0 /\ mode' = Set(mode, p, "SESSION") /\ OnlyMode
  \/ active[p] # 0 /\ (IF DanglingActive(p) THEN Fault ELSE Hangup(p, active[p]))

(***************************************************************************)
(* The port under the cursor, by its mode.                                 *)
(***************************************************************************)
ServiceIdle(p) ==
  /\ mode[p] = "IDLE"
  /\ \/ Quiet
     \/ /\ type[p] = "SERIAL" /\ access[p] = "LOCAL"        \* RETURN
        /\ mode' = Set(mode, p, "GREET") /\ OnlyMode
     \/ /\ type[p] = "SERIAL" /\ access[p] = "TU58"         \* INIT
        /\ mode' = Set(mode, p, "LOCAL") /\ OnlyMode

ServicePregreet(p) ==
  /\ mode[p] = "PREGREET"
  /\ \/ Quiet
     \/ mode' = Set(mode, p, "GREET") /\ OnlyMode           \* 500 ticks later

ServiceGreet(p) ==
  /\ mode[p] = "GREET"
  /\ IF access[p] = "LOCAL" THEN mode' = Set(mode, p, "LOCAL") /\ OnlyMode
                            ELSE Quiet

\* A deleted slot left in MODE_LOCAL prints a prompt through a NULL fn_yield.
ServiceLocal(p) ==
  /\ mode[p] = "LOCAL"
  /\ CASE access[p] = "LOCAL" -> IF type[p] = "NONE" THEN Quiet \/ Fault
                                                     ELSE command_process(p)
       [] access[p] = "MODEM" -> modem_process(p)
       [] OTHER               -> Quiet

\* The forward and backward switches go round the live sessions of p.
Own(p) == {s \in Sessions : session[s].type # "DELETED" /\ session[s].parent = p}

Forward(p) ==
  LET later == {s \in Own(p) : active[p] \in Own(p) /\ s > active[p]}
  IN  IF later # {} THEN Min(later) ELSE IF Own(p) # {} THEN Min(Own(p)) ELSE 0

Backward(p) ==
  LET earlier == {s \in Own(p) : active[p] \in Own(p) => s < active[p]}
  IN  IF earlier # {} THEN Max(earlier) ELSE IF Own(p) # {} THEN Max(Own(p)) ELSE 0

Switch(p, m, s) ==
  IF s = 0 THEN Fault
  ELSE /\ active' = Set(active, p, s)
       /\ mode' = Set(mode, p, m)
       /\ UNCHANGED <<type, access, todata, insock, session, telnet_in, tcp_in, running>>

\* +++ and 500 ticks take a modem out of the session; a key is read in any case.
Escaped(p) == {"SESSION"} \cup {m \in {"MODEM"} : access[p] = "MODEM"}

ServiceSession(p) ==
  /\ mode[p] = "SESSION"
  /\ \E m \in Escaped(p) :
       \/ mode' = Set(mode, p, m) /\ OnlyMode
       \/ /\ active[p] # 0 /\ Live(active[p]) /\ type[p] # "TCP_IN"   \* not PORT_RAW
          /\ \/ mode' = Set(mode, p, "LOCAL") /\ OnlyMode     \* local switch
             \/ Switch(p, m, Forward(p))
             \/ Switch(p, m, Backward(p))

ServiceModem(p) == mode[p] = "MODEM" /\ Quiet

Service(p) ==
  /\ At(0) /\ cursor = p /\ cursor' = NextPort
  /\ \/ ServiceIdle(p) \/ ServicePregreet(p) \/ ServiceGreet(p)
     \/ ServiceLocal(p) \/ ServiceSession(p) \/ ServiceModem(p)

(***************************************************************************)
(* The module tasks.                                                       *)
(***************************************************************************)
\* A BREAK from the terminal, by the port's break mode: LOCAL gives it the
\* prompt, REMOTE passes it to the current session's target.
BreakLocal(p)  == mode' = Set(mode, p, "LOCAL") /\ OnlyMode
BreakRemote(p) == DanglingActive(p) /\ Fault

uart_task ==
  /\ At(1) /\ UNCHANGED cursor
  /\ \/ Quiet
     \/ \E p \in Static : type[p] = "SERIAL" /\ (BreakLocal(p) \/ BreakRemote(p))

\* A CDC line whose carrier rises: the USB device task, at any time.
CarrierRise(p) ==
  /\ running /\ type[p] = "CDC"
  /\ mode' = Set(mode, p, "GREET")
  /\ OnlyMode /\ UNCHANGED <<cursor, turn>>

\* add_port(kind) for socket k: the first unused slot.
AddPort(kind, k, m) ==
  /\ FreePorts # {}
  /\ LET q == Min(FreePorts)
     IN  /\ type' = Set(type, q, kind)
         /\ mode' = Set(mode, q, m)
         /\ access' = Set(access, q, "LOCAL")
         /\ todata' = Set(todata, q, NoToData)
         /\ insock' = Set(insock, q, k)

TelnetInListen(k) ==
  /\ telnet_in[k].state = "LISTEN"
  /\ \/ Quiet
     \/ /\ AddPort("TELNET_IN", k, "PREGREET")
        /\ telnet_in' = [telnet_in EXCEPT ![k] = [state |-> "CONNECTED",
                                                  port |-> Min(FreePorts)]]
        /\ UNCHANGED <<active, session, tcp_in, running>>

\* A connection that is lost is read once more.
TelnetInConnected(k) ==
  LET p == telnet_in[k].port
  IN  /\ telnet_in[k].state = "CONNECTED"
      /\ \E st \in {"CONNECTED", "DISCONNECTED"} :
           telnet_in' = [telnet_in EXCEPT ![k].state = st]
      /\ \/ UNCHANGED <<mode, running>>
         \/ mode' = Set(mode, p, "LOCAL") /\ UNCHANGED running           \* BREAK_LOCAL
         \/ DanglingActive(p) /\ running' = FALSE /\ UNCHANGED mode      \* BREAK_REMOTE
      /\ UNCHANGED <<type, access, active, todata, insock, session, tcp_in>>

TelnetInDisconnected(k) ==
  /\ telnet_in[k].state = "DISCONNECTED"
  /\ DeletePorts({telnet_in[k].port}, mode)
  /\ telnet_in' = [telnet_in EXCEPT ![k] = [state |-> "CLOSED", port |-> 0]]
  /\ UNCHANGED <<session, tcp_in, running>>

TelnetInClosed(k) ==
  /\ telnet_in[k].state = "CLOSED"
  /\ telnet_in' = [telnet_in EXCEPT ![k] = [state |-> "LISTEN", port |-> 0]]
  /\ UNCHANGED <<portVars, session, tcp_in, running>>

telnet_in_task(k) ==
  /\ At(TelnetInTurn(k)) /\ UNCHANGED cursor
  /\ \/ TelnetInListen(k) \/ TelnetInConnected(k)
     \/ TelnetInDisconnected(k) \/ TelnetInClosed(k)

\* telnet_out_task on port q.  The messages of a connection made by TELNET go
\* to active_session->parent of q; those of ATDT to the port that dialled.
DialledByModem(q) == todata[q].mode_return = "IDLE"

\* Printing to the caller calls or reads NULL.
CallerLost(q) ==
  active[q] # 0 => ~DialledByModem(q) /\ session[active[q]].parent \in FreePorts

Prints == {"BAD_HOST", "FOUND_HOST", "NOCONN", "BREAK", "CONNECT"}

ToFaults(q) ==
  \/ todata[q].state \in Prints /\ ~DialledByModem(q) /\ CallerLost(q)
  \/ todata[q].state = "CONNECTING" /\ active[q] = 0

\* No free socket: "Unable to open socket" goes through active_session.
OpenFails(q, st) == todata[q].state = "FOUND_HOST" /\ st = "CLOSE"

ToStep(q) ==
  /\ todata[q].state # "CLOSE"
  /\ IF ToFaults(q) THEN Fault
     ELSE \E st \in ToNext[todata[q].state] :
            IF OpenFails(q, st) /\ active[q] = 0 THEN Fault
            ELSE /\ todata' = [todata EXCEPT ![q].state = st]
                 /\ UNCHANGED <<type, mode, access, active, insock, session,
                                telnet_in, tcp_in, running>>

\* IAC BREAK from the remote system, in a port set to local breaks.  TO_CLOSE
\* reads what is left in the socket, a BREAK too, but deletes the port itself.
BreakFaults(q) == ~DialledByModem(q) /\ CallerLost(q) /\ Fault

ToBreak(q) ==
  \/ todata[q].state \in {"RUN", "CLOSE"} /\ BreakFaults(q)
  \/ /\ todata[q].state = "RUN" /\ (DialledByModem(q) \/ ~CallerLost(q))
     /\ mode' = Set(mode, q, todata[q].mode_return) /\ OnlyMode

\* The caller's current session is cleared and its mode set back, whichever
\* session that is and whatever the slot of the caller holds by now.  The mode
\* is read from the struct todata that delete_port has just freed: it is still
\* there, unless another task was given the block in between (FreedModes).
ToClose(q) ==
  LET s == todata[q].session
      par == session[s].parent
  IN  /\ todata[q].state = "CLOSE"
      /\ s # 0 /\ par # 0              \* both set by Dial
      /\ type'   = Set(type, q, "NONE")
      /\ \E m \in {todata[q].mode_return} \cup FreedModes :
           mode' = [mode EXCEPT ![q] = "IDLE", ![par] = m]
      /\ access' = Set(access, q, "LOCAL")
      /\ active' = [active EXCEPT ![par] = 0, ![q] = 0]
      /\ todata' = Set(todata, q, NoToData)
      /\ insock' = Set(insock, q, 0)
      /\ session' = Set(session, s, NoSession)
      /\ UNCHANGED <<telnet_in, tcp_in, running>>

telnet_out_task(q) ==
  /\ At(TelnetOutTurn(q)) /\ UNCHANGED cursor
  /\ IF type[q] = "TELNET_OUT" THEN ToStep(q) \/ ToBreak(q) \/ ToClose(q)
                               ELSE Quiet

TcpInClosed(c) ==
  /\ tcp_in[c].state = "CLOSED"
  /\ IF access[TcpTarget[c]] = "REMOTE"
     THEN /\ tcp_in' = [tcp_in EXCEPT ![c].state = "LISTEN"]
          /\ UNCHANGED <<portVars, session, telnet_in, running>>
     ELSE Quiet

\* Whether the serial port has a session already is not looked at.
TcpInListen(c) ==
  /\ tcp_in[c].state = "LISTEN"
  /\ \/ Quiet
     \/ /\ FreeSessions # {}
        /\ AddPort("TCP_IN", c, "SESSION")
        /\ LET q == Min(FreePorts)
               s == Min(FreeSessions)
           IN  /\ session' = Set(session, s, Direct(q, TcpTarget[c]))
               /\ active' = Set(active, q, s)
               /\ tcp_in' = [tcp_in EXCEPT ![c] = [state |-> "CONNECTED",
                                                   port |-> q, session |-> s]]
        /\ UNCHANGED <<telnet_in, running>>

TcpInConnected(c) ==
  /\ tcp_in[c].state = "CONNECTED"
  /\ Quiet \/ ClosePort(tcp_in[c].port)

TcpInDisconnected(c) ==
  /\ tcp_in[c].state = "DISCONNECTED"
  /\ DeletePorts({tcp_in[c].port}, mode)
  /\ tcp_in' = [tcp_in EXCEPT ![c].state = "CLOSED"]
  /\ UNCHANGED <<session, telnet_in, running>>

tcp_in_task(c) ==
  /\ At(TcpInTurn(c)) /\ UNCHANGED cursor
  /\ \/ TcpInClosed(c) \/ TcpInListen(c)
     \/ TcpInConnected(c) \/ TcpInDisconnected(c)

(***************************************************************************)
(* The specification.  A pass never blocks, so the loop is weakly fair.    *)
(***************************************************************************)
Init ==
  /\ type   = [p \in Ports |-> IF p \in Static THEN StaticType[p] ELSE "NONE"]
  /\ mode   = [p \in Ports |-> "IDLE"]
  /\ access = [p \in Ports |-> IF p \in Static THEN StaticAccess[p] ELSE "LOCAL"]
  /\ active = [p \in Ports |-> 0]
  /\ todata = [p \in Ports |-> NoToData]
  /\ insock = [p \in Ports |-> 0]
  /\ session = [s \in Sessions |-> NoSession]
  /\ telnet_in = [k \in TelnetSockets |-> [state |-> "LISTEN", port |-> 0]]
  /\ tcp_in = [c \in TcpSockets |-> [state |-> "CLOSED", port |-> 0, session |-> 0]]
  /\ cursor = 1 /\ turn = 0 /\ running = TRUE

APP_Tasks ==
  \/ \E p \in Ports : Service(p)
  \/ uart_task
  \/ \E k \in TelnetSockets : telnet_in_task(k)
  \/ \E q \in Dynamic : telnet_out_task(q)
  \/ \E c \in TcpSockets : tcp_in_task(c)

Next ==
  \/ APP_Tasks
  \/ \E p \in Static : CarrierRise(p)

\* The program has crashed.
Halted == ~running /\ UNCHANGED vars

Spec == Init /\ [][Next \/ Halted]_vars

\* The loop of APP_Tasks runs for ever; the terminals, the network and the
\* clock need do nothing.
LoopFairness == WF_vars(APP_Tasks)

\* DNS gives an answer, a connection is made or 10 s pass (telnet_out.c:457).
Answered(q) ==
  /\ telnet_out_task(q)
  /\ todata[q].state \in {"RUN_DNS", "RUN_DNS2", "CONNECTING"}
  /\ todata'[q].state # todata[q].state

FairSpec == Spec /\ LoopFairness /\ \A q \in Dynamic : SF_vars(Answered(q))

(***************************************************************************)
(* Properties.                                                             *)
(***************************************************************************)
TelnetInStates == {"LISTEN", "CONNECTED", "DISCONNECTED", "CLOSED"}

\* The boot ports keep the type and access mode of their settings; the others
\* are made by the network tasks, an outgoing call REMOTE and the rest LOCAL.
PortKinds ==
  /\ \A p \in Static : type[p] = StaticType[p] /\ access[p] = StaticAccess[p]
  /\ \A p \in Dynamic : /\ type[p] \in {"NONE", "TELNET_IN", "TELNET_OUT", "TCP_IN"}
                        /\ type[p] = "TELNET_OUT" => access[p] = "REMOTE"
                        /\ type[p] # "TELNET_OUT" => access[p] = "LOCAL"

\* A session object is deleted and empty, or has two different ends.
SessionEnds ==
  \A s \in Sessions :
    \/ session[s] = NoSession
    \/ /\ session[s].type = "DIRECT"
       /\ session[s].parent \in Ports /\ session[s].target \in Ports
       /\ session[s].parent # session[s].target

\* Every variable has its type, the boot ports keep the type and access mode
\* their settings gave them, and a session is either deleted and empty or has
\* two different ends (struct session and delete_session, session.c).
TypeOK ==
  /\ type \in [Ports -> PortTypes]
  /\ mode \in [Ports -> Modes]
  /\ access \in [Ports -> AccessModes]
  /\ active \in [Ports -> 0..NumSessions]
  /\ todata \in [Ports -> [state : ToStates, session : 0..NumSessions,
                           mode_return : {"IDLE", "LOCAL"}]]
  /\ insock \in [Ports -> Nat]
  /\ session \in [Sessions -> [type : {"DELETED", "DIRECT"},
                               parent : 0..NumPorts, target : 0..NumPorts]]
  /\ telnet_in \in [TelnetSockets -> [state : TelnetInStates, port : 0..NumPorts]]
  /\ tcp_in \in [TcpSockets -> [state : TelnetInStates, port : 0..NumPorts,
                                session : 0..NumSessions]]
  /\ cursor \in Ports /\ turn \in 0..(PassLength - 1) /\ running \in BOOLEAN
  /\ PortKinds /\ SessionEnds

\* Whatever is connected, disconnected, logged out or dropped: the far end of
\* every live session is an open serial, USB or outgoing telnet port that is
\* not a terminal itself, so the data pump of MODE_SESSION (app.c) never moves
\* bytes into a deleted slot or another user's terminal.
LiveTarget ==
  \A s \in Sessions : Live(s) =>
    LET t == session[s].target
    IN  t \in Ports /\ type[t] \in StaticTypes \cup {"TELNET_OUT"} /\ access[t] # "LOCAL"

\* An outgoing connection has exactly one session, the one telnet_out_task
\* will delete with it (telnet_out.c:421-434): it is neither leaked nor closed
\* under another caller, although slots and session objects are reused.
OneSessionPerCall ==
  \A q \in Ports : type[q] = "TELNET_OUT" =>
    /\ todata[q].session \in Sessions
    /\ \A s \in Sessions : session[s].target = q <=> todata[q].session = s

\* A connected socket and its port know each other, and a network port always
\* has its socket: neither LOGOUT, nor a dropped connection, nor the reuse of
\* a slot leaves a socket with another connection's port.
SocketOwnsPort ==
  /\ \A k \in TelnetSockets :
       telnet_in[k].state \in {"CONNECTED", "DISCONNECTED"} =>
         LET p == telnet_in[k].port
         IN  p \in Dynamic /\ type[p] = "TELNET_IN" /\ insock[p] = k
  /\ \A c \in TcpSockets :
       tcp_in[c].state \in {"CONNECTED", "DISCONNECTED"} =>
         LET p == tcp_in[c].port
         IN  p \in Dynamic /\ type[p] = "TCP_IN" /\ insock[p] = c
  /\ \A p \in Ports :
       /\ type[p] = "TELNET_IN" =>
            \E k \in TelnetSockets : insock[p] = k /\ telnet_in[k].port = p
              /\ telnet_in[k].state \in {"CONNECTED", "DISCONNECTED"}
       /\ type[p] = "TCP_IN" =>
            \E c \in TcpSockets : insock[p] = c /\ tcp_in[c].port = p
              /\ tcp_in[c].state \in {"CONNECTED", "DISCONNECTED"}

\* A port in MODE_SESSION is in a live session of its own: what is typed there
\* goes where its user connected it, never into a session that was disconnected
\* or handed to another port.  Where a freed mode may be anything, the port may
\* be left in MODE_SESSION without a session, and its keys go nowhere.
SessionModeIsOwn ==
  \A p \in Ports : mode[p] = "SESSION" =>
    \/ Live(active[p]) /\ session[active[p]].parent = p
    \/ active[p] = 0 /\ "SESSION" \in FreedModes

\* The same of whatever a MODEM port would go back to by ATO or close by ATH.
ModemCallIsOwn ==
  \A p \in Ports : access[p] = "MODEM" /\ active[p] # 0 =>
    Live(active[p]) /\ session[active[p]].parent = p

\* connect_local and ATDP refuse a port in use (ERR_BUSY); the raw TCP listener
\* does not look.  Two sessions on one port are thus a user's and the one of
\* the connected listener of that port, never two users'.
OneUserPerPort ==
  \A s1, s2 \in Sessions :
    Live(s1) /\ Live(s2) /\ s1 # s2 /\ session[s1].target = session[s2].target =>
      \E c \in TcpSockets : /\ tcp_in[c].state = "CONNECTED"
                            /\ tcp_in[c].session \in {s1, s2}
                            /\ TcpTarget[c] = session[s1].target

\* A boot terminal is idle before its first login and after LOGOUT: it then
\* has no session left (command.c:60, session.c:82).
IdleTerminalHasNoSession ==
  \A p \in Static : access[p] = "LOCAL" /\ mode[p] = "IDLE" =>
    \A s \in Sessions : session[s].parent # p

\* Where nobody logs in by telnet, the program calls or reads through NULL only
\* after a LOGOUT: for a BREAK sent to the session that LOGOUT left current.
CrashNeedsLogout ==
  ~running => \E p \in Static : access[p] = "LOCAL" /\ DanglingActive(p)

\* A live session is deleted or stays as it is: it is never re-routed.
NeverRerouted ==
  [][\A s \in Sessions : Live(s) => session'[s] \in {session[s], NoSession}]_vars

\* The port table, the session table and the modes are a switchboard: what the
\* tasks and commands do to them, in any order and with slots and objects
\* reused at once, opens a line for one user, ends lines of one user, or moves
\* one user between lines of its own.  A port that is not in MODE_SESSION, or
\* has no current session there, talks on no line.
Present   == {p \in Ports : type[p] # "NONE"}
LineEnds  == [s \in Sessions |-> <<session[s].parent, session[s].target>>]
TalkingOn == [p \in Ports |-> IF mode[p] = "SESSION" THEN active[p] ELSE 0]

Board == INSTANCE Switchboard WITH
  Boot <- Static, Lines <- Sessions,
  up <- Present, ends <- LineEnds, on <- TalkingOn

SwitchboardSpec == Board!Spec

\* What HELP says, and the code does not keep to:
\* "A session is any connection between your current terminal and a local port
\* or remote system" (command_help.h:31-32).
SessionHasTerminal ==
  \A s \in Sessions : Live(s) => type[session[s].parent] # "NONE"

\* SEND BREAK "sends a BREAK signal to your currently connected session"
\* (command_help.h:165-169).
CurrentSessionIsLive ==
  \A p \in Ports : type[p] # "NONE" /\ mode[p] = "LOCAL" /\ active[p] # 0 =>
    Live(active[p])

\* CONNECT LOCAL: "The port you are trying to connect to must be in REMOTE
\* access mode" (command_help.h:49-54).
ConnectedPortIsRemote ==
  \A s \in Sessions : Live(s) => access[session[s].target] = "REMOTE"

\* A call is answered or given up: a TELNET_OUT port reaches TO_RUN or its slot
\* is freed in the end, whatever becomes of its caller meanwhile, unless the
\* program has crashed (telnet_out.c:307-499).
CallResolves ==
  \A q \in Dynamic :
    type[q] = "TELNET_OUT" ~> type[q] # "TELNET_OUT" \/ todata[q].state = "RUN" \/ ~running
=============================================================================
