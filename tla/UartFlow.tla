------------------------------ MODULE UartFlow ------------------------------
(***************************************************************************)
(* Flow control of one serial port (uart.c): the read and write buffers of *)
(* the port, the receive and transmit rings the UART interrupts fill and   *)
(* drain (plib_uart1.c), the watermarks that stop and start the peer, and  *)
(* the peer's own XON/XOFF or handshake line.                              *)
(*                                                                         *)
(* One pass of the main loop serves the port, which may read a byte and    *)
(* print an answer (port_printf), and then runs uart_task.  The interrupts *)
(* and the peer may step between any two of these.  Data bytes carry no    *)
(* value: a buffer that holds only data is its length.                     *)
(***************************************************************************)
EXTENDS Integers, Sequences, FiniteSets

CONSTANTS
  BufSize,    \* CIRCULAR_BUFFER_SIZE
  Watermark,  \* WATERMARK
  RxRing,     \* bytes the receive ring can hold
  TxRing,     \* bytes the transmit ring can hold
  Settings,   \* the FLOW settings used
  Burst,      \* bound: bytes that arrive between two calls of uart_transfer_data
  Slack,      \* data bytes the peer may still send once it knows it is held
  PrintLen    \* bound: bytes in one port_printf

Hardware == {"RTSCTS", "DTRDSR"}
Flows    == Hardware \cup {"NONE", "XONXOFF"}
Control  == {"XON", "XOFF"}
Bytes    == Control \cup {"data"}

low_water  == Watermark
high_water == BufSize - Watermark

ASSUME BufferAssumption ==
  /\ BufSize \in Nat /\ Watermark \in Nat
  /\ 2 * Watermark + 1 < BufSize
  /\ RxRing \in Nat \ {0} /\ TxRing \in Nat \ {0}

ASSUME PeerAssumption ==
  /\ Settings \subseteq Flows
  /\ Burst \in Nat /\ Slack \in Nat /\ PrintLen \in Nat

VARIABLES
  flow, paused,                \* struct uart_data
  stopped, waterlevel,         \* struct port
  readBuf, writeBuf,           \* bytes in its two stream buffers
  rxRing, txRing,              \* the rings of plib_uart1.c
  raised,                      \* [Hardware -> BOOLEAN]: the RTS or DTR pin is set
  attached,                    \* the port's input is wanted (FALSE: REMOTE, no session)
  pc, toPrint,                 \* where the main loop is; bytes port_printf has left
  busy,                        \* the peer has asked for silence
  peerOff, late,               \* the peer saw XOFF; bytes it sent since it was held
  fresh,                       \* bytes since the last uart_transfer_data
  mishap                       \* what has gone wrong: see Mishaps

vars == <<flow, paused, stopped, waterlevel, readBuf, writeBuf, rxRing, txRing,
          raised, attached, pc, toPrint, busy, peerOff, late, fresh, mishap>>

peerVars == <<busy, peerOff, late>>
lineVars == <<flow, raised, attached>>

\* overrun: the receive ring was full, a byte was dropped.  unsaid: the
\* transmit ring was full, an XON or XOFF was dropped.  unheard: an XON or
\* XOFF came while the input was not wanted.  garbled: one came while a break
\* was sent, with the receiver at half the rate.  stranded: the FLOW setting
\* was changed while either side held the other, or to one whose pin was set.
\* The model follows a port up to its first mishap, and no further.
Mishaps == {"none", "overrun", "unsaid", "unheard", "garbled", "stranded"}
Note(m, when) == mishap' = IF when THEN m ELSE "none"
Sound == mishap = "none"

\* The main loop is at place p.
At(p) == Sound /\ pc = p

Lesser(a, b) == IF a <= b THEN a ELSE b

\* The last word of a stream on whether to be silent, given the word before.
LastWord(ring, before) ==
  LET words == {i \in 1..Len(ring) : ring[i] \in Control}
  IN  IF words = {} THEN before
      ELSE \E i \in words : ring[i] = "XOFF" /\ \A j \in words : j <= i

PeerHeld == IF flow = "XONXOFF" THEN peerOff
            ELSE flow \in Hardware /\ raised[flow]

\* uart_can_tx
CanTx == CASE flow \in Hardware  -> ~busy
           [] flow = "XONXOFF"   -> ~paused
           [] OTHER              -> TRUE

(***************************************************************************)
(* uart_stop and uart_start.  fn_write drops what the ring has no room     *)
(* for, and nobody looks at its result.                                    *)
(***************************************************************************)
Unsaid(ring) == flow = "XONXOFF" /\ Len(ring) >= TxRing
\* Mutant: XON and XOFF jump the queue.
Say_Ahead(ring, word) ==
  IF flow = "XONXOFF" /\ Len(ring) < TxRing THEN <<word>> \o ring ELSE ring
Say(ring, word) ==
  IF flow = "XONXOFF" /\ Len(ring) < TxRing THEN Append(ring, word) ELSE ring
\* Mutant: the pin is set and never cleared.
Raise_ForGood(set) ==
  IF flow \in Hardware THEN [raised EXCEPT ![flow] = TRUE] ELSE raised
Raise(set) == IF flow \in Hardware THEN [raised EXCEPT ![flow] = set] ELSE raised

Restart_NoCrossing ==
  stopped /\ waterlevel > high_water /\ readBuf <= low_water
Restart == stopped /\ waterlevel > low_water /\ readBuf <= low_water

CheckWater ==
  /\ At("start")
  /\ pc' \in {"transfer", "drain"}   \* drain: somebody has set send_break
  /\ waterlevel' = readBuf
  /\ IF Restart
     THEN /\ stopped' = FALSE
          /\ txRing' = Say(txRing, "XON")
          /\ raised' = Raise(FALSE)
          /\ Note("unsaid", Unsaid(txRing))
     ELSE UNCHANGED <<stopped, txRing, raised, mishap>>
  /\ UNCHANGED <<flow, paused, readBuf, writeBuf, rxRing, attached, toPrint,
                 peerVars, fresh>>

(***************************************************************************)
(* uart_task with send_break set: it spins until the transmit ring is      *)
(* empty, sends one byte at half the rate, and spins until that has gone.  *)
(* Nothing is transferred meanwhile; the interrupts and the peer go on.    *)
(***************************************************************************)
StartBreak ==
  /\ At("drain") /\ txRing = <<>>
  /\ pc' = "break"
  /\ txRing' = <<"data">>
  /\ UNCHANGED <<flow, paused, stopped, waterlevel, readBuf, writeBuf, rxRing,
                 raised, attached, toPrint, peerVars, fresh, mishap>>

EndBreak ==
  /\ At("break") /\ txRing = <<>>
  /\ pc' = "transfer"
  /\ UNCHANGED <<flow, paused, stopped, waterlevel, readBuf, writeBuf, rxRing,
                 txRing, raised, attached, toPrint, peerVars, fresh, mishap>>

(***************************************************************************)
(* uart_transfer_data, called by uart_task and by port_printf (fn_yield).  *)
(***************************************************************************)
\* Mutant: the free space of the transmit ring is not asked for.
Moved_Unchecked == IF CanTx THEN writeBuf ELSE 0
Moved  == IF CanTx THEN Lesser(writeBuf, TxRing - Len(txRing)) ELSE 0
Loaded == txRing \o [i \in 1..Moved |-> "data"]
Batch  == SubSeq(rxRing, 1, Lesser(Len(rxRing), BufSize - readBuf))
Word(b) == flow = "XONXOFF" /\ b \in Control
Kept   == IF attached
          THEN Cardinality({i \in 1..Len(Batch) : ~Word(Batch[i])})
          ELSE 0

\* Mutants: any XOFF of the batch counts; an XON is taken for data.
Heard_AnyXoff ==
  IF attached /\ flow = "XONXOFF"
  THEN (\E i \in 1..Len(Batch) : Batch[i] = "XOFF") \/ LastWord(Batch, paused)
  ELSE paused
Heard ==
  IF attached /\ flow = "XONXOFF" THEN LastWord(Batch, paused) ELSE paused

\* Mutant: the stop looks at the level before the byte.
Crossed_TooLate == ~stopped /\ readBuf >= high_water
Crossed == ~stopped /\ readBuf < high_water /\ readBuf + Kept >= high_water

uart_transfer_data ==
  /\ Sound /\ pc \in {"yield", "transfer"}
  /\ pc' = IF pc = "transfer" THEN "service"
           ELSE IF toPrint > 0 THEN "print" ELSE "start"
  /\ writeBuf' = writeBuf - Moved
  /\ rxRing' = SubSeq(rxRing, Len(Batch) + 1, Len(rxRing))
  /\ readBuf' = readBuf + Kept
  /\ paused' = Heard
  /\ IF Crossed
     THEN /\ stopped' = TRUE
          /\ txRing' = Say(Loaded, "XOFF")
          /\ raised' = Raise(TRUE)
          /\ late' = IF flow \in Hardware THEN 0 ELSE late
     ELSE txRing' = Loaded /\ UNCHANGED <<stopped, raised, late>>
  /\ IF attached
     THEN Note("unsaid", Crossed /\ Unsaid(Loaded))
     ELSE Note("unheard", \E i \in 1..Len(Batch) : Word(Batch[i]))
  /\ fresh' = 0
  /\ UNCHANGED <<flow, waterlevel, attached, toPrint, busy, peerOff>>

(***************************************************************************)
(* The main loop's turn for the port.  Whoever reads it (the command       *)
(* interpreter, a session) takes at most one byte, and may print on it; a  *)
(* session may bring one byte from its other port.                         *)
(***************************************************************************)
Service(read) ==
  /\ At("service")
  /\ read => attached /\ readBuf > 0
  /\ readBuf' = IF read THEN readBuf - 1 ELSE readBuf
  /\ \E w \in 0..1 : writeBuf + w <= BufSize /\ writeBuf' = writeBuf + w
  /\ \E n \in 0..PrintLen :
       toPrint' = n /\ pc' = IF n > 0 THEN "print" ELSE "start"
  /\ UNCHANGED <<flow, paused, stopped, waterlevel, rxRing, txRing, raised,
                 attached, peerVars, fresh, mishap>>

port_printf ==
  /\ At("print")
  /\ pc' = "yield"
  /\ LET sent == Lesser(toPrint, BufSize - writeBuf)
     IN  /\ writeBuf' = writeBuf + sent
         /\ toPrint' = toPrint - sent
  /\ UNCHANGED <<flow, paused, stopped, waterlevel, readBuf, rxRing, txRing,
                 raised, attached, peerVars, fresh, mishap>>

\* A session of a REMOTE port opens or closes.
Attach ==
  /\ At("service")
  /\ attached' = ~attached
  /\ UNCHANGED <<flow, paused, stopped, waterlevel, readBuf, writeBuf, rxRing,
                 txRing, raised, pc, toPrint, peerVars, fresh, mishap>>

\* Nobody is held, nor about to be, and the pins of setting f say so.
Settled(f) ==
  /\ f \in Hardware => ~raised[f]
  /\ ~stopped /\ ~paused /\ ~busy /\ ~peerOff
  /\ \A i \in 1..Len(rxRing) : rxRing[i] = "data"
  /\ \A i \in 1..Len(txRing) : txRing[i] = "data"

\* SET PORT FLOW, typed at another port: neither pins nor flags are touched.
uart_set_flow ==
  /\ At("service")
  /\ \E f \in Settings \ {flow} :
       flow' = f /\ Note("stranded", ~Settled(f))
  /\ UNCHANGED <<paused, stopped, waterlevel, readBuf, writeBuf, rxRing, txRing,
                 raised, attached, pc, toPrint, peerVars, fresh>>

(***************************************************************************)
(* The wire: the interrupts of plib_uart1.c and a peer that uses the same  *)
(* FLOW setting.                                                           *)
(***************************************************************************)
Push(b) ==
  /\ fresh < Burst /\ fresh' = fresh + 1
  /\ rxRing' = IF Len(rxRing) < RxRing THEN Append(rxRing, b) ELSE rxRing
  /\ Note("overrun", Len(rxRing) >= RxRing)

PeerSends ==
  /\ Sound
  /\ IF PeerHeld THEN late < Slack /\ late' = late + 1 ELSE UNCHANGED late
  /\ Push("data")
  /\ UNCHANGED <<lineVars, paused, stopped, waterlevel, readBuf, writeBuf,
                 txRing, pc, toPrint, busy, peerOff>>

PeerWants(silence) ==
  /\ Sound /\ busy # silence /\ busy' = silence
  /\ \/ flow # "XONXOFF" /\ UNCHANGED <<fresh, rxRing, mishap>>
     \/ flow = "XONXOFF" /\ pc # "break" /\ Push(IF silence THEN "XOFF" ELSE "XON")
     \/ flow = "XONXOFF" /\ pc = "break" /\ mishap' = "garbled"
                          /\ UNCHANGED <<fresh, rxRing>>
  /\ UNCHANGED <<lineVars, paused, stopped, waterlevel, readBuf, writeBuf,
                 txRing, pc, toPrint, peerOff, late>>

TxInterrupt ==
  /\ Sound /\ txRing # <<>>
  /\ txRing' = Tail(txRing)
  /\ IF Head(txRing) \in Control
     THEN peerOff' = (Head(txRing) = "XOFF") /\ late' = 0
     ELSE UNCHANGED <<peerOff, late>>
  /\ UNCHANGED <<lineVars, paused, stopped, waterlevel, readBuf, writeBuf,
                 rxRing, pc, toPrint, busy, fresh, mishap>>

(***************************************************************************)
(* uart_boot has started every port: in XON/XOFF an XON is on its way.     *)
(***************************************************************************)
Init ==
  /\ flow \in Settings
  /\ txRing = IF flow = "XONXOFF" THEN <<"XON">> ELSE <<>>
  /\ rxRing = <<>> /\ readBuf = 0 /\ writeBuf = 0 /\ waterlevel = 0
  /\ paused = FALSE /\ stopped = FALSE /\ busy = FALSE /\ peerOff = FALSE
  /\ raised = [f \in Hardware |-> f = "DTRDSR" /\ flow # "DTRDSR"]
  /\ attached = TRUE
  /\ pc = "service" /\ toPrint = 0
  /\ late = 0 /\ fresh = 0 /\ mishap = "none"

Next ==
  \/ \E read \in BOOLEAN : Service(read)
  \/ port_printf
  \/ CheckWater \/ StartBreak \/ EndBreak \/ uart_transfer_data
  \/ Attach \/ uart_set_flow
  \/ PeerSends \/ TxInterrupt
  \/ \E silence \in BOOLEAN : PeerWants(silence)
  \/ ~Sound /\ UNCHANGED vars

Spec == Init /\ [][Next]_vars

\* The loop runs, the transmit interrupt fires, whoever reads the port gets
\* round to it.  Nothing is asked of the peer.
Fairness ==
  /\ WF_vars(\E read \in BOOLEAN : Service(read)) /\ WF_vars(port_printf)
  /\ WF_vars(CheckWater) /\ WF_vars(uart_transfer_data)
  /\ WF_vars(StartBreak) /\ WF_vars(EndBreak)
  /\ WF_vars(TxInterrupt)
  /\ SF_vars(Service(TRUE))

FairSpec == Spec /\ Fairness

(***************************************************************************)
(* Properties.                                                             *)
(***************************************************************************)
\* Every variable has its type and no buffer holds more than it can.
TypeOK ==
  /\ flow \in Settings
  /\ paused \in BOOLEAN /\ stopped \in BOOLEAN /\ attached \in BOOLEAN
  /\ busy \in BOOLEAN /\ peerOff \in BOOLEAN
  /\ readBuf \in 0..BufSize /\ writeBuf \in 0..BufSize
  /\ waterlevel \in 0..BufSize
  /\ rxRing \in Seq(Bytes) /\ Len(rxRing) <= RxRing
  /\ txRing \in Seq(Bytes) /\ Len(txRing) <= TxRing
  /\ raised \in [Hardware -> BOOLEAN]
  /\ pc \in {"service", "print", "yield", "start", "drain", "break", "transfer"}
  /\ toPrint \in 0..PrintLen
  /\ late \in Nat /\ fresh \in 0..Burst
  /\ mishap \in Mishaps

\* With a handshake line the watermarks stop the peer early enough: as long
\* as the burst of one pass and the bytes of a held peer fit behind the high
\* water mark and in the ring, no byte is dropped by the receive interrupt.
NoOverrun == flow \in Hardware => mishap # "overrun"

\* Under a handshake line the pin is set exactly while the buffer asks for it.
LineFollowsBuffer == flow \in Hardware /\ Sound
                       => raised[flow] = stopped

\* Under XON/XOFF the peer's idea of whether it may send and the port's never
\* part: the last word on its way, or already seen, is the port's own flag.
PeerKnows == flow = "XONXOFF" /\ Sound
               => LastWord(txRing, peerOff) = stopped

\* The other way round: what the port takes the peer to have asked for is
\* what the peer asked for last, apart from words still in the ring.
WeKnow == flow = "XONXOFF" /\ Sound
            => LastWord(rxRing, paused) = busy

\* A stopped port has its restart ahead: the level that uart_task compares
\* with is above low_water, so the crossing is still to come.
RestartAhead == stopped /\ pc # "start" /\ readBuf <= low_water
                  => waterlevel > low_water

\* port_printf spins on a port whose peer asked for silence, and the XON that
\* ends it cannot be read because nobody empties the read buffer meanwhile.
Deaf == toPrint > 0 /\ ~CanTx /\ readBuf = BufSize



\* A port under a handshake line keeps its peer waiting only while the read
\* buffer is filled, whatever FLOW it had before (command_help.h:376-380).
SetFlowTakesEffect == flow \in Hardware => (raised[flow] => stopped)
=============================================================================
