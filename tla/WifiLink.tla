------------------------------ MODULE WifiLink ------------------------------
(***************************************************************************)
(* The WiFi interface: the driver's state machine (wifi.c, run by the      *)
(* TCP/IP stack's task), the SPI link, and the bridge on the ESP32         *)
(* (wifi_bridge.c), where three tasks meet: the main loop, which answers   *)
(* the driver, the WiFi task, which hands in packets, and the event task,  *)
(* which reports that the station is connected or no longer is.            *)
(*                                                                         *)
(* The bridge answers a command in the transfer after it, out of two       *)
(* buffers it uses in turn.  A SEND and a WAIT state of the driver are one *)
(* step, the transfer.  The driver's delays are taken to outlast the       *)
(* bridge's loop; a transfer without one may find the bridge still busy.   *)
(***************************************************************************)
EXTENDS Integers, Sequences, SequencesExt

CONSTANTS
  Sizes,      \* the sizes of the packets from the network, in their order
  QueueSize,  \* the bridge's queue: 32
  MaxRx,      \* WIFI_MAX_RX_BUFFERS
  MaxTx,      \* bound: packets the stack sends
  MaxEvents   \* bound: status queries on the timer, transfers that fail and
              \* connections lost, together

ASSUME WifiAssumption ==
  /\ Sizes \in Seq(Nat \ {0})
  /\ QueueSize \in Nat \ {0} /\ MaxRx \in Nat \ {0}
  /\ MaxTx \in Nat /\ MaxEvents \in Nat

Packets == 1..Len(Sizes)
TooBig  == -1  \* any size that does not fit the driver's buffer
AnySize == {0, TooBig} \cup Range(Sizes)

None    == <<"none", 0>>
Content == {<<"blank", 0>>} \cup {<<"status", s>> : s \in AnySize}
             \cup {<<"packet", p>> : p \in Packets}
Command == {<<c, 0>> : c \in {"none", "mac", "ssid", "psk", "status",
                              "rpacket", "read"}}
             \cup {<<"wpacket", n>> : n \in 1..MaxTx}
Mishaps == {"missed", "replayed", "twice", "early", "unsignalled", "leaked",
            "overwritten", "aborted"}

VARIABLES
  st, afterStatus, nextsize,  \* mainState, afterStatus, phyStatus.nextsize
  inHand,          \* the packet in spibuf, 0 if it is none of them
  free, waiting,   \* lengths of rxFreePackets, rxWaitingForPickupPackets
  asked, begun, acked,  \* packets given to wifi_tx, taken up, and the last
                        \* one answered
  last,            \* the packet handed to the stack last
  cmd,             \* the bridge: the finished transfer it has to look at
  cur, tx,         \* the buffer last queued, the two buffers to be sent
  queue, int,      \* wifi_to_spi_queue, GPIO_INT
  loop,            \* where the main loop is
  mac, ssid, psk,  \* it was told the address, the network, the key
  state, link, trying,  \* wifi_status.state, .link, the attempt under way
  arriving,        \* wifi_l2_rx_cb has signalled and not queued yet
  taken,           \* packets queued so far
  sent,            \* the packet transmitted last
  events, mishaps

driverVars == <<st, afterStatus, nextsize, inHand, free, waiting, asked, begun,
                acked, last>>
spiVars    == <<cur, tx, queue, mac, ssid, psk, sent>>
joinVars   == <<state, link, trying>>
netVars    == <<arriving, taken>>
vars == <<driverVars, cmd, spiVars, int, loop, joinVars, netVars, events,
          mishaps>>

OutOfStep == {"missed", "replayed", "twice", "early", "aborted"}
InStep    == mishaps \cap OutOfStep = {}
At(s)     == InStep /\ st = s
LoopAt(s) == InStep /\ loop = s

Happens == events < MaxEvents /\ events' = events + 1

Note(m, when) == mishaps' = IF when THEN mishaps \cup {m} ELSE mishaps

(***************************************************************************)
(* The link.                                                               *)
(***************************************************************************)
Ready == cmd = None

Reached(c) == Ready /\ cmd' = c /\ UNCHANGED <<events, mishaps>>
Missed     == ~Ready /\ Note("missed", TRUE) /\ UNCHANGED <<cmd, events>>

\* The transfer is reported as failed, whether or not the bridge got it.
Failed(c) ==
  /\ Happens
  /\ \/ UNCHANGED cmd /\ Note("leaked", c[1] = "wpacket")
     \/ /\ Ready /\ cmd' = c
        /\ mishaps' = mishaps \cup (CASE c[1] = "wpacket" -> {"leaked"}
                                      [] c[1] = "rpacket" -> {"twice"}
                                      [] c[1] = "read"    -> {"replayed"}
                                      [] OTHER            -> {})

Send(c, done, failed) ==
  \/ (Reached(c) \/ Missed) /\ st' = done
  \/ Failed(c) /\ st' = failed

restOfBridge == <<spiVars, int, loop, joinVars, netVars>>
rxVars == <<afterStatus, nextsize, inHand, free, waiting, last>>
txVars == <<asked, begun, acked>>

(***************************************************************************)
(* wifi_tasks                                                              *)
(***************************************************************************)
\* The delay is over before the first attempt, and a second one follows a
\* failed transfer at once: the bridge may be busy with the first.
Configure(s, c, next) ==
  /\ At(s) /\ (Ready \/ cmd = <<c, 0>>)
  /\ Send(<<c, 0>>, next, s)
  /\ UNCHANGED <<rxVars, txVars, restOfBridge>>

SendMac  == Configure("SEND_MAC", "mac", "SEND_SSID")
SendSsid == Configure("SEND_SSID", "ssid", "SEND_PSK")
SendPsk  == Configure("SEND_PSK", "psk", "RUN")

PollStatus ==
  /\ At("RUN") /\ Happens
  /\ afterStatus' = "RUN" /\ st' = "SEND_STATUS"
  /\ UNCHANGED <<nextsize, inHand, free, waiting, last, txVars, cmd,
                 restOfBridge, mishaps>>

SeeInterrupt ==
  /\ At("RUN") /\ int = 0
  /\ st' = "START_READ"
  /\ UNCHANGED <<rxVars, txVars, cmd, restOfBridge, events, mishaps>>

StartRead ==
  /\ At("START_READ") /\ Ready
  /\ afterStatus' = "SEND_READ" /\ st' = "SEND_STATUS"
  /\ UNCHANGED <<nextsize, inHand, free, waiting, last, txVars, cmd,
                 restOfBridge, events, mishaps>>

SendStatus ==
  /\ At("SEND_STATUS")
  /\ Send(<<"status", 0>>, "GET_STATUS", "SEND_STATUS")
  /\ UNCHANGED <<rxVars, txVars, restOfBridge>>

\* What a buffer says when it is read as a status.
SizesIn(c) == CASE c[1] = "status" -> {c[2]}
                [] c[1] = "blank"  -> {0}
                [] c[1] = "packet" -> AnySize

GetStatus ==
  /\ At("GET_STATUS") /\ Ready
  /\ \/ Reached(<<"read", 0>>) /\ st' = afterStatus /\ nextsize' \in SizesIn(tx[cur])
     \/ Failed(<<"read", 0>>) /\ UNCHANGED <<st, nextsize>>
  /\ UNCHANGED <<afterStatus, inHand, free, waiting, last, txVars,
                 restOfBridge>>

SendRead ==
  /\ At("SEND_READ")
  /\ Send(<<"rpacket", 0>>, "GET_READ", "SEND_READ")
  /\ UNCHANGED <<rxVars, txVars, restOfBridge>>

\* The length in front of the packet is the one the status gave.
Fits(c) == \/ c[1] = "packet" /\ Sizes[c[2]] = nextsize
           \/ c[1] = "blank" /\ nextsize = 0

GetRead ==
  /\ At("GET_READ") /\ Ready
  /\ IF nextsize = TooBig
     THEN st' = "RUN" /\ UNCHANGED <<inHand, cmd, events, mishaps>>
     ELSE \/ /\ Reached(<<"read", 0>>)
             /\ st' = IF Fits(tx[cur]) THEN "QUEUE_READ" ELSE "RUN"
             /\ inHand' = IF Fits(tx[cur]) THEN tx[cur][2] ELSE 0
          \/ Failed(<<"read", 0>>) /\ UNCHANGED <<st, inHand>>
  /\ UNCHANGED <<afterStatus, nextsize, free, waiting, last, txVars,
                 restOfBridge>>

\* Mutant: a buffer is taken without looking whether there is one.
HaveBuffer_Unchecked == TRUE
HaveBuffer == free > 0

QueueRead ==
  /\ At("QUEUE_READ") /\ HaveBuffer
  /\ free' = free - 1 /\ waiting' = waiting + 1
  /\ last' = inHand /\ inHand' = 0
  /\ st' = "RUN"
  /\ UNCHANGED <<afterStatus, nextsize, txVars, cmd, restOfBridge, events,
                 mishaps>>

StartWrite ==
  /\ At("RUN") /\ int = 1 /\ begun < asked
  /\ begun' = begun + 1 /\ st' = "SEND_WRITE"
  /\ UNCHANGED <<rxVars, asked, acked, cmd, restOfBridge, events, mishaps>>

\* Mutant: a packet is acknowledged also when its transfer failed.
Answer_Always(ok) == acked' = begun
Answer(ok) == acked' = IF ok THEN begun ELSE acked

SendWrite ==
  /\ At("SEND_WRITE")
  /\ st' = "RUN"
  /\ \/ (Reached(<<"wpacket", begun>>) \/ Missed) /\ Answer(TRUE)
     \/ Failed(<<"wpacket", begun>>) /\ Answer(FALSE)
  /\ UNCHANGED <<rxVars, asked, begun, restOfBridge>>

\* The stack's calls: wifi_tx, wifi_rx, wifi_rx_packet_ack.
Booting == st \in {"SEND_MAC", "SEND_SSID", "SEND_PSK"}

\* The stack waits for wifi_status to say that the driver is ready.
StackSends ==
  /\ InStep /\ ~Booting
  /\ asked < MaxTx /\ asked' = asked + 1
  /\ UNCHANGED <<st, rxVars, begun, acked, cmd, restOfBridge, events,
                 mishaps>>

StackPicksUp ==
  /\ InStep /\ waiting > 0 /\ waiting' = waiting - 1
  /\ UNCHANGED <<st, afterStatus, nextsize, inHand, free, last, txVars,
                 cmd, restOfBridge, events, mishaps>>

\* Mutant: the buffer of a packet the stack is done with is not put back.
PutBack_Not == free' = free
PutBack == free' = free + 1

StackAcks ==
  /\ InStep /\ free + waiting < MaxRx
  /\ PutBack
  /\ UNCHANGED <<st, afterStatus, nextsize, inHand, waiting, last, txVars,
                 cmd, restOfBridge, events, mishaps>>

(***************************************************************************)
(* The bridge's main loop: the interrupt line, the transfer, the station.  *)
(***************************************************************************)
Check ==
  /\ LoopAt("check")
  /\ loop' = IF queue = <<>> THEN "raise" ELSE "serve"
  /\ UNCHANGED <<driverVars, cmd, spiVars, int, joinVars, netVars, events, mishaps>>

Raise ==
  /\ LoopAt("raise")
  /\ int' = 1 /\ loop' = "serve"
  /\ Note("unsignalled", queue # <<>> \/ arriving)
  /\ UNCHANGED <<driverVars, cmd, spiVars, joinVars, netVars, events>>

Other(b) == IF b = "A" THEN "B" ELSE "A"
NextSize == IF queue = <<>> THEN 0 ELSE Sizes[Head(queue)]

\* Mutant: the packet stays in the queue.
Receive_Peek == UNCHANGED queue
Receive == queue' = Tail(queue)

Reply ==
  CASE cmd[1] = "status" ->
         /\ tx' = [tx EXCEPT ![Other(cur)] = <<"status", NextSize>>]
         /\ UNCHANGED <<queue, mishaps>>
    [] cmd[1] = "rpacket" /\ queue # <<>> ->
         /\ tx' = [tx EXCEPT ![Other(cur)] = <<"packet", Head(queue)>>]
         /\ Receive
         /\ Note("early", nextsize # NextSize)
    [] OTHER -> UNCHANGED <<tx, queue, mishaps>>

\* Mutant: a connection that was refused or lost is not tried again.
Retry_Never == "DISCONNECTED"
Retry == "CONNECT"

\* esp_wifi_internal_tx refuses a packet without a link, and ESP_ERROR_CHECK
\* then restarts the ESP32, which the driver does not notice.
Abort ==
  /\ LoopAt("serve") /\ cmd[1] = "wpacket" /\ ~link
  /\ Note("aborted", TRUE)
  /\ UNCHANGED <<driverVars, cmd, spiVars, int, loop, joinVars, netVars, events>>

Serve ==
  /\ LoopAt("serve")
  /\ cmd[1] = "wpacket" => link
  /\ IF Ready THEN UNCHANGED <<cur, cmd, tx, queue, mishaps>>
     ELSE cur' = Other(cur) /\ cmd' = None /\ Reply
  /\ mac' = (mac \/ cmd[1] = "mac")
  /\ ssid' = (ssid \/ cmd[1] = "ssid")
  /\ psk' = (psk \/ cmd[1] = "psk")
  /\ sent' = IF cmd[1] = "wpacket" THEN cmd[2] ELSE sent
  /\ state' = CASE state = "IDLE" /\ ssid'   -> "CONNECT"
                [] state = "DISCONNECTED"    -> Retry
                [] OTHER                     -> state
  /\ trying' = IF state # "CONNECT" THEN trying
               ELSE IF psk' THEN "keyed" ELSE "bare"
  /\ loop' = IF state = "CONNECT" THEN "connecting" ELSE "check"
  /\ UNCHANGED <<driverVars, int, link, netVars, events>>

Connecting ==
  /\ LoopAt("connecting")
  /\ state' = "CONNECTING" /\ loop' = "check"
  /\ Note("overwritten", state = "DISCONNECTED")
  /\ UNCHANGED <<driverVars, cmd, spiVars, int, link, trying, netVars,
                 events>>

(***************************************************************************)
(* The event task and the WiFi task.                                       *)
(***************************************************************************)
Connected ==
  /\ InStep /\ trying = "keyed"
  /\ trying' = "no" /\ link' = TRUE /\ state' = "CONNECTED"
  /\ UNCHANGED <<driverVars, cmd, spiVars, int, loop, netVars, events,
                 mishaps>>

Disconnected ==
  /\ InStep
  /\ \/ trying # "no" /\ UNCHANGED events
     \/ link /\ Happens
  /\ trying' = "no" /\ link' = FALSE /\ state' = "DISCONNECTED"
  /\ UNCHANGED <<driverVars, cmd, spiVars, int, loop, netVars, mishaps>>

Signal ==
  /\ InStep /\ link /\ mac /\ ~arriving /\ taken < Len(Sizes)
  /\ arriving' = TRUE /\ int' = 0
  /\ UNCHANGED <<driverVars, cmd, spiVars, loop, joinVars, taken, events, mishaps>>

\* A packet that finds the queue full is dropped.
Enqueue ==
  /\ InStep /\ arriving /\ arriving' = FALSE
  /\ IF Len(queue) < QueueSize
     THEN queue' = Append(queue, taken + 1) /\ taken' = taken + 1
     ELSE UNCHANGED <<queue, taken>>
  /\ UNCHANGED <<driverVars, cmd, cur, tx, mac, ssid, psk, sent, int, loop,
                 joinVars, events, mishaps>>

Init ==
  /\ st = "SEND_MAC" /\ afterStatus = "RUN" /\ nextsize = 0 /\ inHand = 0
  /\ free = MaxRx /\ waiting = 0
  /\ asked = 0 /\ begun = 0 /\ acked = 0  /\ last = 0
  /\ cmd = None /\ cur = "A" /\ tx = [b \in {"A", "B"} |-> <<"blank", 0>>] /\ queue = <<>>
  /\ int = 1 /\ loop = "check"
  /\ mac = FALSE /\ ssid = FALSE /\ psk = FALSE
  /\ state = "IDLE" /\ link = FALSE /\ trying = "no" /\ arriving = FALSE
  /\ taken = 0 /\ sent = 0
  /\ events = 0 /\ mishaps = {}

Driver == \/ SendMac \/ SendSsid \/ SendPsk \/ PollStatus \/ SeeInterrupt
          \/ StartRead \/ SendStatus \/ GetStatus \/ SendRead \/ GetRead
          \/ QueueRead \/ StartWrite \/ SendWrite
Bridge == Check \/ Raise \/ Serve \/ Abort \/ Connecting

Next ==
  \/ Driver
  \/ StackSends \/ StackPicksUp \/ StackAcks
  \/ Bridge
  \/ Connected \/ Disconnected \/ Signal \/ Enqueue
  \/ ~InStep /\ UNCHANGED vars

Spec == Init /\ [][Next]_vars

\* Every task gets to run, the stack gives its buffers back, an attempt to
\* connect ends, and an access point that is tried again and again with the
\* right key lets the station in.
Fairness ==
  /\ WF_vars(Driver) /\ WF_vars(Bridge)
  /\ WF_vars(StackPicksUp) /\ WF_vars(StackAcks) /\ WF_vars(Enqueue)
  /\ WF_vars(trying = "bare" /\ Disconnected) /\ SF_vars(Connected)

FairSpec == Spec /\ Fairness

(***************************************************************************)
(* Properties.  A mishap is a weakness of the protocol between the two.    *)
(* The first five put them out of step, and the model ends there:          *)
(*   missed       a transfer found the bridge busy with the last one       *)
(*   replayed     a reply was read, reported as failed, and read again     *)
(*   twice        so was the command that takes a packet from the queue    *)
(*   early        a packet was taken whose size the driver did not know    *)
(*   aborted      the bridge restarted, and nobody tells it the network     *)
(* The others cost a packet or the connection:                             *)
(*   unsignalled  the interrupt was taken back with a packet queued        *)
(*   leaked       a packet of the stack was given up without an answer     *)
(*   overwritten  a disconnection was overwritten by WIFI_CONNECTING       *)
(***************************************************************************)
\* Every variable has its type, and there are no more buffers than there are.
TypeOK ==
  /\ st \in {"SEND_MAC", "SEND_SSID", "SEND_PSK", "RUN", "START_READ",
             "SEND_STATUS", "GET_STATUS", "SEND_READ", "GET_READ", "QUEUE_READ",
             "SEND_WRITE"}
  /\ afterStatus \in {"RUN", "SEND_READ"}
  /\ nextsize \in AnySize /\ inHand \in Packets \cup {0}
  /\ free \in 0..MaxRx /\ waiting \in 0..(MaxRx - free)
  /\ asked \in 0..MaxTx /\ begun \in 0..asked /\ acked \in 0..begun
  /\ last \in Packets \cup {0}
  /\ cmd \in Command /\ cur \in {"A", "B"} /\ tx \in [{"A", "B"} -> Content]
  /\ queue \in Seq(Packets) /\ Len(queue) <= QueueSize /\ int \in {0, 1}
  /\ loop \in {"check", "raise", "serve", "connecting"}
  /\ mac \in BOOLEAN /\ ssid \in BOOLEAN /\ psk \in BOOLEAN /\ link \in BOOLEAN
  /\ state \in {"IDLE", "CONNECT", "CONNECTING", "CONNECTED", "DISCONNECTED"}
  /\ trying \in {"no", "bare", "keyed"} /\ arriving \in BOOLEAN
  /\ taken \in 0..Len(Sizes) /\ sent \in 0..MaxTx
  /\ events \in 0..MaxEvents
  /\ mishaps \subseteq Mishaps

\* The packet on its way from the bridge's queue to the stack.
Moving == CASE st = "GET_READ" /\ tx[cur][1] = "packet" /\ Ready -> <<tx[cur][2]>>
            [] st = "QUEUE_READ" -> <<inHand>>
            [] OTHER -> <<>>

\* Whatever the driver and the bridge do between two transfers, the packets
\* handed to the stack, the one on its way and those in the bridge's queue are
\* the packets the bridge took from the network, each once and in order.
NothingLost ==
  InStep =>
    LET s == Moving \o queue
    IN  s = [i \in 1..(taken - last) |-> last + i]

\* A packet the stack is told was sent has gone out, or the bridge has it.
SentWhenAcked ==
  InStep => acked <= sent \/ cmd = <<"wpacket", acked>>

\* A packet in the bridge's queue gets to the stack.
PacketsRead ==
  \A p \in Packets :
    taken >= p ~> (last >= p \/ "unsignalled" \in mishaps \/ ~InStep)

\* A packet of the stack is answered.
TxAnswered ==
  \A n \in 1..MaxTx : asked >= n ~> (acked >= n \/ "leaked" \in mishaps \/ ~InStep)

\* The unit gets onto the network, also when the first attempt is made before
\* the key is there, and back onto it when it was dropped.
Joins == []<>(link \/ "overwritten" \in mishaps \/ ~InStep)
=============================================================================
