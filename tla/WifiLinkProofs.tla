--------------------------- MODULE WifiLinkProofs ---------------------------
(***************************************************************************)
(* The WiFi link, for any packets, queue and number of buffers: as long as *)
(* driver and bridge are in step, no packet from the network is lost,      *)
(* doubled or overtaken between the bridge's queue and the stack, and a    *)
(* packet the stack is told was sent has been.                             *)
(***************************************************************************)
EXTENDS WifiLink, SequenceTheorems, TLAPS

(***************************************************************************)
(* Types.                                                                  *)
(***************************************************************************)
\* TypeOK in parts.
DriverOK ==
  /\ st \in {"SEND_MAC", "SEND_SSID", "SEND_PSK", "RUN", "START_READ",
             "SEND_STATUS", "GET_STATUS", "SEND_READ", "GET_READ", "QUEUE_READ",
             "SEND_WRITE"}
  /\ afterStatus \in {"RUN", "SEND_READ"}
  /\ nextsize \in AnySize /\ inHand \in Packets \cup {0}
  /\ last \in Packets \cup {0}
BuffersOK ==
  /\ free \in 0..MaxRx /\ waiting \in 0..(MaxRx - free)
  /\ asked \in 0..MaxTx /\ begun \in 0..asked /\ acked \in 0..begun
LinkOK == cmd \in Command /\ cur \in {"A", "B"} /\ tx \in [{"A", "B"} -> Content]
QueueOK ==
  /\ queue \in Seq(Packets) /\ Len(queue) <= QueueSize
  /\ taken \in 0..Len(Sizes)
StationOK ==
  /\ int \in {0, 1} /\ loop \in {"check", "raise", "serve", "connecting"}
  /\ mac \in BOOLEAN /\ ssid \in BOOLEAN /\ psk \in BOOLEAN /\ link \in BOOLEAN
  /\ state \in {"IDLE", "CONNECT", "CONNECTING", "CONNECTED", "DISCONNECTED"}
  /\ trying \in {"no", "bare", "keyed"} /\ arriving \in BOOLEAN
CostsOK == sent \in 0..MaxTx /\ events \in 0..MaxEvents /\ mishaps \subseteq Mishaps

\* The driver only writes a packet it has taken up, and a packet is only
\* signalled while there is one to come.
TypeInv ==
  /\ DriverOK /\ BuffersOK /\ LinkOK /\ QueueOK /\ StationOK /\ CostsOK
  /\ st = "SEND_WRITE" => begun > 0
  /\ arriving => taken < Len(Sizes)

LEMMA TypeParts == TypeInv => TypeOK
BY DEF TypeInv, TypeOK, DriverOK, BuffersOK, LinkOK, QueueOK, StationOK, CostsOK

\* What a transfer can carry, and what it says when it is read back.
LEMMA Commands ==
  /\ \A c \in {"none", "mac", "ssid", "psk", "status", "rpacket", "read"} : <<c, 0>> \in Command
  /\ \A n \in 1..MaxTx : <<"wpacket", n>> \in Command
  /\ \A c \in Command : c[1] = "wpacket" => c[2] \in 1..MaxTx
  /\ None \in Command
BY DEF Command, None

LEMMA Contents ==
  /\ \A c \in Content : /\ SizesIn(c) \subseteq AnySize
                        /\ c[1] = "packet" => c[2] \in Packets
                        /\ c[1] = "blank" => c[2] = 0
  /\ \A s \in AnySize : <<"status", s>> \in Content
  /\ \A p \in Packets : <<"packet", p>> \in Content
  /\ <<"blank", 0>> \in Content
<1>1. 0 \in AnySize
  BY DEF AnySize
<1> QED BY <1>1 DEF Content, SizesIn

LEMMA NextSizes == QueueOK => NextSize \in AnySize
<1> SUFFICES ASSUME QueueOK, queue # <<>> PROVE Sizes[Head(queue)] \in AnySize
  BY DEF NextSize, AnySize
<1>1. Head(queue) \in 1..Len(Sizes)
  BY DEF QueueOK, Packets
<1>2. DOMAIN Sizes = 1..Len(Sizes)
  BY WifiAssumption
<1> QED BY <1>1, <1>2 DEF AnySize, Range

LEMMA TypeInit == Init => TypeInv
<1> SUFFICES ASSUME Init PROVE TypeInv
  OBVIOUS
<1> USE WifiAssumption
<1>1. DriverOK /\ BuffersOK
  BY DEF Init, DriverOK, BuffersOK, AnySize
<1>2. LinkOK
  BY Commands, Contents DEF Init, LinkOK
<1>3. QueueOK
  BY DEF Init, QueueOK
<1>4. StationOK
  BY DEF Init, StationOK
<1>5. CostsOK
  BY DEF Init, CostsOK
<1> QED BY <1>1, <1>2, <1>3, <1>4, <1>5 DEF Init, TypeInv

\* A transfer of a command brings that command to the bridge, or none.
LEMMA SendTypes ==
  ASSUME CostsOK, LinkOK, NEW c \in Command, NEW done, NEW failed, Send(c, done, failed)
  PROVE  /\ st' \in {done, failed}
         /\ cmd' \in Command
         /\ events' \in 0..MaxEvents /\ mishaps' \subseteq Mishaps
<1>1. st' \in {done, failed} /\ cmd' \in Command
  BY DEF Send, Reached, Missed, Failed, LinkOK
<1>2. events' \in 0..MaxEvents
  <2>1. events' = events \/ Happens
    BY Zenon DEF Send, Reached, Missed, Failed
  <2> QED BY <2>1, WifiAssumption DEF Happens, CostsOK
<1>3. mishaps' \subseteq Mishaps
  BY DEF Send, Reached, Missed, Failed, Note, CostsOK, Mishaps
<1> QED BY <1>1, <1>2, <1>3

LEMMA TypeStep == TypeInv /\ [Next]_vars => TypeInv'
<1> SUFFICES ASSUME DriverOK, BuffersOK, LinkOK, QueueOK, StationOK, CostsOK,
                    st = "SEND_WRITE" => begun > 0, arriving => taken < Len(Sizes),
                    [Next]_vars
             PROVE  TypeInv'
  BY DEF TypeInv
<1> USE WifiAssumption DEF At, LoopAt
<1>1. ASSUME UNCHANGED rxVars, UNCHANGED txVars, UNCHANGED restOfBridge,
             LinkOK', CostsOK', DriverOK', st' = "SEND_WRITE" => begun > 0
      PROVE  TypeInv'
  BY <1>1 DEF rxVars, txVars, restOfBridge, spiVars, joinVars, netVars, TypeInv,
              BuffersOK, QueueOK, StationOK
<1>2. CASE SendMac \/ SendSsid \/ SendPsk
  <2>1. PICK s \in {"SEND_MAC", "SEND_SSID", "SEND_PSK"}, c \in {"mac", "ssid", "psk"},
             next \in {"SEND_SSID", "SEND_PSK", "RUN"} : Configure(s, c, next)
    BY <1>2 DEF SendMac, SendSsid, SendPsk
  <2>2. <<c, 0>> \in Command /\ Send(<<c, 0>>, next, s) /\ UNCHANGED <<rxVars, txVars, restOfBridge>>
    BY <2>1, Commands DEF Configure
  <2>3. LinkOK' /\ CostsOK' /\ DriverOK' /\ st' # "SEND_WRITE"
    BY <2>2, SendTypes DEF LinkOK, CostsOK, DriverOK, restOfBridge, spiVars, rxVars
  <2> QED BY <1>1, <2>2, <2>3
<1>3. CASE SendStatus \/ SendRead
  <2>1. PICK c \in {"status", "rpacket"}, s \in {"SEND_STATUS", "SEND_READ"},
             next \in {"GET_STATUS", "GET_READ"} :
               Send(<<c, 0>>, next, s) /\ UNCHANGED <<rxVars, txVars, restOfBridge>>
    BY <1>3 DEF SendStatus, SendRead
  <2>2. <<c, 0>> \in Command
    BY Commands
  <2>3. LinkOK' /\ CostsOK' /\ DriverOK' /\ st' # "SEND_WRITE"
    BY <2>1, <2>2, SendTypes DEF LinkOK, CostsOK, DriverOK, restOfBridge, spiVars, rxVars
  <2> QED BY <1>1, <2>1, <2>3
<1>4. CASE PollStatus \/ SeeInterrupt \/ StartRead
  <2>1. LinkOK' /\ CostsOK' /\ DriverOK' /\ st' # "SEND_WRITE"
    BY <1>4 DEF PollStatus, SeeInterrupt, StartRead, Happens, LinkOK, CostsOK, DriverOK,
                rxVars, restOfBridge, spiVars
  <2>2. UNCHANGED <<free, waiting, txVars, restOfBridge>>
    BY <1>4 DEF PollStatus, SeeInterrupt, StartRead, rxVars
  <2>3. BuffersOK' /\ QueueOK'
    BY <2>2 DEF BuffersOK, QueueOK, txVars, restOfBridge, spiVars, netVars
  <2>4. StationOK' /\ UNCHANGED <<arriving, taken>>
    BY <2>2 DEF StationOK, restOfBridge, spiVars, joinVars, netVars
  <2> QED BY <2>1, <2>2, <2>3, <2>4 DEF TypeInv
<1>5. ASSUME Reached(<<"read", 0>>) \/ Failed(<<"read", 0>>)
      PROVE  cmd' \in Command /\ events' \in 0..MaxEvents /\ mishaps' \subseteq Mishaps
  <2>1. Send(<<"read", 0>>, st', st')
    BY <1>5 DEF Send
  <2> QED BY <2>1, Commands, SendTypes
<1>6. CASE GetStatus
  <2>1. cmd' \in Command /\ events' \in 0..MaxEvents /\ mishaps' \subseteq Mishaps
    BY <1>5, <1>6 DEF GetStatus
  <2>2. st' \in {st, afterStatus} /\ nextsize' \in AnySize
    BY <1>6, Contents DEF GetStatus, LinkOK, DriverOK
  <2>3. LinkOK' /\ CostsOK' /\ DriverOK' /\ st' # "SEND_WRITE"
    BY <1>6, <2>1, <2>2 DEF GetStatus, LinkOK, CostsOK, DriverOK, restOfBridge, spiVars
  <2>4. BuffersOK' /\ QueueOK' /\ StationOK' /\ UNCHANGED <<arriving, taken>>
    BY <1>6 DEF GetStatus, BuffersOK, QueueOK, StationOK,
                txVars, restOfBridge, spiVars, joinVars, netVars
  <2> QED BY <2>3, <2>4 DEF TypeInv
<1>7. CASE GetRead
  <2>1. cmd' \in Command /\ events' \in 0..MaxEvents /\ mishaps' \subseteq Mishaps
    BY <1>5, <1>7 DEF GetRead, LinkOK, CostsOK
  <2>2. st' \in {st, "RUN", "QUEUE_READ"} /\ inHand' \in Packets \cup {0}
    BY <1>7, Contents DEF GetRead, LinkOK, DriverOK, Fits
  <2>3. LinkOK' /\ CostsOK' /\ DriverOK' /\ st' # "SEND_WRITE"
    BY <1>7, <2>1, <2>2 DEF GetRead, LinkOK, CostsOK, DriverOK, restOfBridge, spiVars
  <2>4. BuffersOK' /\ QueueOK' /\ StationOK' /\ UNCHANGED <<arriving, taken>>
    BY <1>7 DEF GetRead, BuffersOK, QueueOK, StationOK,
                txVars, restOfBridge, spiVars, joinVars, netVars
  <2> QED BY <2>3, <2>4 DEF TypeInv
<1>8. CASE QueueRead
  <2>1. LinkOK' /\ CostsOK' /\ DriverOK' /\ st' # "SEND_WRITE" /\ BuffersOK'
    BY <1>8 DEF QueueRead, HaveBuffer, LinkOK, CostsOK, DriverOK, BuffersOK, txVars,
                restOfBridge, spiVars
  <2>2. QueueOK' /\ StationOK' /\ UNCHANGED <<arriving, taken>>
    BY <1>8 DEF QueueRead, QueueOK, StationOK, restOfBridge, spiVars, joinVars, netVars
  <2> QED BY <2>1, <2>2 DEF TypeInv
<1>9. CASE StartWrite \/ StackSends \/ StackPicksUp \/ StackAcks
  <2>1. LinkOK' /\ CostsOK' /\ DriverOK'
    BY <1>9 DEF StartWrite, StackSends, StackPicksUp, StackAcks, LinkOK, CostsOK, DriverOK,
                rxVars, restOfBridge, spiVars
  <2>2. BuffersOK' /\ (st' = "SEND_WRITE" => begun' > 0)
    <3>1. free \in 0..MaxRx /\ waiting \in 0..(MaxRx - free) /\ MaxRx \in Nat /\ MaxTx \in Nat
          /\ asked \in 0..MaxTx /\ begun \in 0..asked /\ acked \in 0..begun
      BY DEF BuffersOK
    <3>2. CASE StartWrite
      <4>1. begun' = begun + 1 /\ begun < asked /\ UNCHANGED <<free, waiting, asked, acked>>
        BY <3>2 DEF StartWrite, rxVars
      <4> QED BY <3>1, <4>1 DEF BuffersOK
    <3>3. CASE StackSends
      <4>1. asked' = asked + 1 /\ asked < MaxTx /\ UNCHANGED <<st, free, waiting, begun, acked>>
        BY <3>3 DEF StackSends, rxVars
      <4> QED BY <3>1, <4>1 DEF BuffersOK
    <3>4. CASE StackPicksUp \/ StackAcks
      <4>1. UNCHANGED <<st, asked, begun, acked>>
        BY <3>4 DEF StackPicksUp, StackAcks, txVars
      <4>2. \/ waiting > 0 /\ waiting' = waiting - 1 /\ free' = free
            \/ free + waiting < MaxRx /\ free' = free + 1 /\ waiting' = waiting
        BY <3>4 DEF StackPicksUp, StackAcks, PutBack
      <4> QED BY <3>1, <4>1, <4>2 DEF BuffersOK
    <3> QED BY <1>9, <3>2, <3>3, <3>4
  <2>3. QueueOK' /\ StationOK' /\ UNCHANGED <<arriving, taken>>
    BY <1>9 DEF StartWrite, StackSends, StackPicksUp, StackAcks, QueueOK, StationOK,
                restOfBridge, spiVars, joinVars, netVars
  <2> QED BY <2>1, <2>2, <2>3 DEF TypeInv
<1>10. CASE SendWrite
  <2>1. st = "SEND_WRITE" /\ begun \in 1..MaxTx /\ <<"wpacket", begun>> \in Command
    BY <1>10, Commands DEF SendWrite, BuffersOK
  <2>2. Send(<<"wpacket", begun>>, "RUN", "RUN") /\ st' = "RUN" /\ UNCHANGED <<asked, begun>>
        /\ acked' \in {acked, begun}
    BY <1>10 DEF SendWrite, Send, Answer
  <2>3. cmd' \in Command /\ events' \in 0..MaxEvents /\ mishaps' \subseteq Mishaps
    BY <2>1, <2>2, SendTypes
  <2>4. LinkOK' /\ CostsOK' /\ DriverOK' /\ BuffersOK'
    BY <1>10, <2>2, <2>3 DEF SendWrite, LinkOK, CostsOK, DriverOK, BuffersOK, rxVars,
                             restOfBridge, spiVars
  <2>5. QueueOK' /\ StationOK' /\ UNCHANGED <<arriving, taken>>
    BY <1>10 DEF SendWrite, QueueOK, StationOK, restOfBridge, spiVars, joinVars, netVars
  <2> QED BY <2>2, <2>4, <2>5 DEF TypeInv
<1>11. ASSUME UNCHANGED driverVars, LinkOK', QueueOK', StationOK', CostsOK',
              arriving' => taken' < Len(Sizes)
       PROVE  TypeInv'
  BY <1>11 DEF driverVars, TypeInv, DriverOK, BuffersOK
<1>12. CASE Check \/ Raise \/ Abort \/ Connecting \/ Connected \/ Disconnected
  <2>1. UNCHANGED <<driverVars, cmd, spiVars, arriving, taken>>
    BY <1>12 DEF Check, Raise, Abort, Connecting, Connected, Disconnected, netVars
  <2>2. events' \in 0..MaxEvents
    <3>1. events' = events \/ Happens
      BY <1>12, Zenon DEF Check, Raise, Abort, Connecting, Connected, Disconnected
    <3> QED BY <3>1 DEF Happens, CostsOK
  <2>3. mishaps' \subseteq Mishaps
    BY <1>12 DEF Check, Raise, Abort, Connecting, Connected, Disconnected, Note, CostsOK, Mishaps
  <2>4. StationOK'
    <3>1. int' \in {int, 1} /\ loop' \in {loop, "raise", "serve", "check"}
          /\ state' \in {state, "CONNECTING", "CONNECTED", "DISCONNECTED"}
          /\ trying' \in {trying, "no"}
      BY <1>12 DEF Check, Raise, Abort, Connecting, Connected, Disconnected, joinVars
    <3>2. link' \in BOOLEAN
      BY <1>12 DEF Check, Raise, Abort, Connecting, Connected, Disconnected, joinVars, StationOK
    <3>3. mac' \in BOOLEAN /\ ssid' \in BOOLEAN /\ psk' \in BOOLEAN /\ arriving' \in BOOLEAN
      BY <2>1 DEF StationOK, spiVars
    <3>4. int' \in {0, 1} /\ loop' \in {"check", "raise", "serve", "connecting"}
      BY <3>1 DEF StationOK
    <3>5. state' \in {"IDLE", "CONNECT", "CONNECTING", "CONNECTED", "DISCONNECTED"}
          /\ trying' \in {"no", "bare", "keyed"}
      BY <3>1 DEF StationOK
    <3> QED BY <3>2, <3>3, <3>4, <3>5 DEF StationOK
  <2> QED BY <1>11, <2>1, <2>2, <2>3, <2>4 DEF LinkOK, QueueOK, CostsOK, spiVars
<1>13. CASE Signal
  BY <1>11, <1>13 DEF Signal, LinkOK, QueueOK, StationOK, CostsOK, spiVars, joinVars
<1>14. CASE Enqueue
  <2>1. taken + 1 \in Packets /\ taken + 1 \in 0..Len(Sizes)
    BY <1>14 DEF Enqueue, Packets, QueueOK
  <2>2. QueueOK'
    <3>1. CASE Len(queue) < QueueSize
      <4>1. queue' = Append(queue, taken + 1) /\ taken' = taken + 1
        BY <1>14, <3>1 DEF Enqueue
      <4>2. Append(queue, taken + 1) \in Seq(Packets)
            /\ Len(Append(queue, taken + 1)) = Len(queue) + 1
        BY <2>1 DEF QueueOK
      <4> QED BY <2>1, <3>1, <4>1, <4>2 DEF QueueOK
    <3>2. CASE ~(Len(queue) < QueueSize)
      BY <1>14, <3>2 DEF Enqueue, QueueOK
    <3> QED BY <3>1, <3>2
  <2>3. LinkOK' /\ CostsOK' /\ UNCHANGED driverVars
    BY <1>14 DEF Enqueue, LinkOK, CostsOK
  <2>4. StationOK' /\ ~arriving'
    BY <1>14 DEF Enqueue, StationOK, joinVars
  <2> QED BY <1>11, <2>2, <2>3, <2>4
<1>15. CASE Serve
  <2>1. cmd' \in Command /\ cur' \in {"A", "B"} /\ Other(cur) \in {"A", "B"}
    BY <1>15, Commands DEF Serve, LinkOK, Other
  <2>2. tx' \in [{"A", "B"} -> Content] /\ queue' \in Seq(Packets) /\ Len(queue') <= QueueSize
        /\ mishaps' \subseteq Mishaps
    <3>1. CASE Ready
      BY <1>15, <3>1 DEF Serve, LinkOK, QueueOK, CostsOK
    <3>2. CASE ~Ready /\ cmd[1] = "status"
      BY <1>15, <2>1, <3>2, NextSizes, Contents DEF Serve, Reply, LinkOK, QueueOK, CostsOK
    <3>3. CASE ~Ready /\ cmd[1] = "rpacket" /\ queue # <<>>
      <4>1. Head(queue) \in Packets /\ Tail(queue) \in Seq(Packets) /\ Len(Tail(queue)) <= QueueSize
        BY <3>3 DEF QueueOK
      <4> QED BY <1>15, <2>1, <3>3, <4>1, Contents
              DEF Serve, Reply, Receive, LinkOK, CostsOK, Note, Mishaps
    <3>4. CASE ~Ready /\ cmd[1] # "status" /\ ~(cmd[1] = "rpacket" /\ queue # <<>>)
      BY <1>15, <3>4 DEF Serve, Reply, LinkOK, QueueOK, CostsOK
    <3> QED BY <3>1, <3>2, <3>3, <3>4
  <2>3. sent' \in 0..MaxTx /\ events' = events
    BY <1>15, Commands DEF Serve, LinkOK, CostsOK
  <2>4. StationOK'
    <3>1. state' \in {state, "CONNECT"}
      BY <1>15, Zenon DEF Serve, Retry
    <3>2. mac' \in BOOLEAN /\ ssid' \in BOOLEAN /\ psk' \in BOOLEAN
      BY <1>15 DEF Serve, StationOK
    <3>3. trying' \in {trying, "keyed", "bare"} /\ loop' \in {"connecting", "check"}
      BY <1>15 DEF Serve
    <3>4. UNCHANGED <<int, link, arriving>>
      BY <1>15 DEF Serve, netVars
    <3> QED BY <3>1, <3>2, <3>3, <3>4 DEF StationOK
  <2>5. UNCHANGED <<driverVars, arriving, taken>>
    BY <1>15 DEF Serve, netVars
  <2> QED BY <1>11, <2>1, <2>2, <2>3, <2>4, <2>5 DEF LinkOK, QueueOK, CostsOK
<1>16. CASE UNCHANGED vars
  BY <1>11, <1>16 DEF vars, spiVars, joinVars, netVars, LinkOK, QueueOK, StationOK, CostsOK
<1> QED
  BY <1>2, <1>3, <1>4, <1>6, <1>7, <1>8, <1>9, <1>10, <1>12, <1>13, <1>14, <1>15, <1>16
  DEF Next, Driver, Bridge

\* No buffer of the link holds more than it can, there are never more receive
\* buffers than the driver made, and no packet is answered that was not sent.
THEOREM LinkTypes == Spec => []TypeOK
BY TypeInit, TypeStep, TypeParts, PTL DEF Spec

(***************************************************************************)
(* The exchange of commands and replies.                                   *)
(***************************************************************************)
\* Which command the bridge still has to look at, and which reply the driver
\* will read next, in each state of the driver that waits for one.
Exchange ==
  InStep =>
    /\ cmd[1] = "rpacket" => st = "GET_READ"
    /\ st = "GET_STATUS" =>
         \/ cmd = <<"status", 0>>
         \/ Ready /\ tx[cur][1] = "status"
    /\ st = "SEND_READ" =>
         \/ cmd = <<"read", 0>> /\ tx[cur][1] = "status"
         \/ Ready /\ tx[Other(cur)][1] = "status"
    /\ st = "GET_READ" =>
         \/ cmd = <<"rpacket", 0>> /\ tx[Other(cur)][1] = "status"
         \/ Ready /\ tx[cur][1] = "status"
         \/ Ready /\ tx[cur][1] = "packet" /\ Sizes[tx[cur][2]] = nextsize

\* A transfer that keeps the two in step was seen by both, or by the driver as
\* failed.
LEMMA SendInStep ==
  ASSUME NEW c, NEW done, NEW failed, Send(c, done, failed), InStep'
  PROVE  \/ Ready /\ cmd' = c /\ st' = done
         \/ cmd' = cmd /\ st' = failed
         \/ Ready /\ cmd' = c /\ st' = failed /\ c[1] \notin {"rpacket", "read"}
<1>1. ~Missed
  BY DEF Missed, Note, InStep, OutOfStep
<1>2. ASSUME Failed(c)
      PROVE  cmd' = cmd \/ (Ready /\ cmd' = c /\ c[1] \notin {"rpacket", "read"})
  BY <1>2 DEF Failed, InStep, OutOfStep
<1> QED BY <1>1, <1>2 DEF Send, Reached

\* The same for a reply that is read.
LEMMA ReadInStep ==
  ASSUME Failed(<<"read", 0>>), InStep'
  PROVE  cmd' = cmd
BY DEF Failed, InStep, OutOfStep

LEMMA ServeExchange ==
  ASSUME TypeInv, Exchange, Serve, InStep'
  PROVE  Exchange'
<1>1. InStep /\ UNCHANGED <<st, nextsize>>
  BY DEF Serve, LoopAt, driverVars
<1>2. cur \in {"A", "B"} /\ Other(cur) \in {"A", "B"} /\ Other(Other(cur)) = cur
      /\ Other(cur) # cur /\ tx \in [{"A", "B"} -> Content]
  BY DEF TypeInv, LinkOK, Other
<1>3. CASE Ready
  <2>1. UNCHANGED <<cur, cmd, tx>>
    BY <1>3 DEF Serve
  <2> QED BY <1>1, <2>1 DEF Exchange, Ready
<1>4. CASE ~Ready
  <2>1. cur' = Other(cur) /\ cmd' = None /\ Reply
    BY <1>4 DEF Serve
  <2>2. CASE st = "GET_STATUS"
    <3>1. cmd[1] = "status"
      BY <1>1, <1>4, <2>2 DEF Exchange
    <3>2. tx' = [tx EXCEPT ![Other(cur)] = <<"status", NextSize>>]
      BY <2>1, <3>1, Zenon DEF Reply
    <3>3. tx'[cur'][1] = "status"
      BY <1>2, <2>1, <3>2
    <3> QED BY <1>1, <2>1, <2>2, <3>3 DEF Exchange, Ready, None
  <2>3. CASE st = "SEND_READ"
    <3>1. cmd = <<"read", 0>> /\ tx[cur][1] = "status"
      BY <1>1, <1>4, <2>3 DEF Exchange
    <3>2. tx' = tx
      BY <2>1, <3>1 DEF Reply
    <3>3. tx'[Other(cur')][1] = "status"
      BY <1>2, <2>1, <3>1, <3>2
    <3> QED BY <1>1, <2>1, <2>3, <3>3 DEF Exchange, Ready, None
  <2>4. CASE st = "GET_READ"
    <3>1. cmd[1] = "rpacket" /\ tx[Other(cur)][1] = "status"
      BY <1>1, <1>4, <2>4 DEF Exchange
    <3>2. CASE queue = <<>>
      <4>1. tx' = tx
        BY <2>1, <3>1, <3>2 DEF Reply
      <4>2. tx'[cur'][1] = "status"
        BY <2>1, <3>1, <4>1
      <4> QED BY <1>1, <2>1, <2>4, <4>2 DEF Exchange, Ready, None
    <3>3. CASE queue # <<>>
      <4>1. tx' = [tx EXCEPT ![Other(cur)] = <<"packet", Head(queue)>>]
            /\ Note("early", nextsize # NextSize)
        BY <2>1, <3>1, <3>3, Zenon DEF Reply
      <4>2. tx'[cur'] = <<"packet", Head(queue)>>
        BY <1>2, <2>1, <4>1
      <4>3. nextsize = Sizes[Head(queue)]
        BY <3>3, <4>1 DEF Note, InStep, OutOfStep, NextSize
      <4>4. tx'[cur'][1] = "packet" /\ Sizes[tx'[cur'][2]] = nextsize'
        BY <1>1, <4>2, <4>3
      <4> QED BY <1>1, <2>1, <2>4, <4>4 DEF Exchange, Ready, None
    <3> QED BY <3>2, <3>3
  <2>5. CASE st \notin {"GET_STATUS", "SEND_READ", "GET_READ"}
    BY <1>1, <2>1, <2>5 DEF Exchange, None
  <2> QED BY <2>2, <2>3, <2>4, <2>5
<1> QED BY <1>3, <1>4

LEMMA ExchangeStep == TypeInv /\ Exchange /\ [Next]_vars => Exchange'
<1> SUFFICES ASSUME TypeInv, Exchange, [Next]_vars, InStep' PROVE Exchange'
  BY DEF Exchange
<1> USE DEF At, LoopAt
<1>1. ASSUME InStep, UNCHANGED <<st, nextsize, cmd, cur, tx>> PROVE Exchange'
  BY <1>1 DEF Exchange, Ready
<1>2. CASE SendMac \/ SendSsid \/ SendPsk
  <2>1. PICK s \in {"SEND_MAC", "SEND_SSID", "SEND_PSK"}, c \in {"mac", "ssid", "psk"},
             next \in {"SEND_SSID", "SEND_PSK", "RUN"} : Configure(s, c, next)
    BY <1>2 DEF SendMac, SendSsid, SendPsk
  <2>2. /\ InStep /\ cmd \in {None, <<c, 0>>} /\ cmd' \in {cmd, <<c, 0>>}
        /\ st = s /\ st' \in {s, next}
    BY <2>1, SendInStep DEF Configure, Ready
  <2> QED BY <2>2 DEF Exchange, Ready, None
<1>3. CASE PollStatus \/ SeeInterrupt \/ StartRead
  <2>1. InStep /\ st \in {"RUN", "START_READ"} /\ cmd' = cmd /\ st' \in {"SEND_STATUS", "START_READ"}
    BY <1>3 DEF PollStatus, SeeInterrupt, StartRead
  <2> QED BY <2>1 DEF Exchange
<1>4. CASE SendStatus
  <2>1. /\ InStep /\ st = "SEND_STATUS"
        /\ \/ st' = "GET_STATUS" /\ cmd' = <<"status", 0>>
           \/ st' = "SEND_STATUS" /\ cmd' \in {cmd, <<"status", 0>>}
    BY <1>4, SendInStep DEF SendStatus
  <2> QED BY <2>1 DEF Exchange
<1>5. CASE GetStatus
  <2>1. InStep /\ st = "GET_STATUS" /\ Ready /\ UNCHANGED <<cur, tx>>
    BY <1>5 DEF GetStatus, restOfBridge, spiVars
  <2>2. CASE Failed(<<"read", 0>>) /\ UNCHANGED <<st, nextsize>>
    BY <1>1, <2>1, <2>2, ReadInStep
  <2>3. CASE Reached(<<"read", 0>>) /\ st' = afterStatus
    <3>1. cmd' = <<"read", 0>> /\ st' \in {"RUN", "SEND_READ"}
      BY <2>3 DEF Reached, TypeInv, DriverOK
    <3>2. tx'[cur'][1] = "status"
      BY <2>1 DEF Exchange, Ready, None
    <3> QED BY <3>1, <3>2 DEF Exchange
  <2> QED BY <1>5, <2>2, <2>3 DEF GetStatus
<1>6. CASE SendRead
  <2>1. /\ InStep /\ st = "SEND_READ" /\ UNCHANGED <<cur, tx, nextsize>>
        /\ \/ st' = "GET_READ" /\ cmd' = <<"rpacket", 0>> /\ Ready
           \/ st' = "SEND_READ" /\ cmd' = cmd
    BY <1>6, SendInStep DEF SendRead, restOfBridge, spiVars, rxVars
  <2>2. CASE st' = "SEND_READ" /\ cmd' = cmd
    BY <1>1, <2>1, <2>2
  <2>3. CASE st' = "GET_READ" /\ cmd' = <<"rpacket", 0>> /\ Ready
    <3>1. tx'[Other(cur')][1] = "status"
      BY <2>1, <2>3 DEF Exchange, Ready, None
    <3> QED BY <2>3, <3>1 DEF Exchange
  <2> QED BY <2>1, <2>2, <2>3
<1>7. CASE GetRead
  <2>1. InStep /\ st = "GET_READ" /\ Ready /\ UNCHANGED <<cur, tx, nextsize>>
    BY <1>7 DEF GetRead, restOfBridge, spiVars
  <2>2. CASE st' = st /\ Failed(<<"read", 0>>)
    BY <1>1, <2>1, <2>2, ReadInStep
  <2>3. CASE st' \in {"RUN", "QUEUE_READ"} /\ cmd' \in {cmd, <<"read", 0>>}
    BY <2>1, <2>3 DEF Exchange, Ready, None
  <2> QED BY <1>7, <2>2, <2>3 DEF GetRead, Reached
<1>8. CASE QueueRead \/ StartWrite
  <2>1. InStep /\ st # "GET_READ" /\ cmd' = cmd /\ st' \in {"RUN", "SEND_WRITE"}
    BY <1>8 DEF QueueRead, StartWrite
  <2> QED BY <2>1 DEF Exchange
<1>9. CASE SendWrite
  <2>1. InStep /\ st = "SEND_WRITE" /\ st' = "RUN" /\ cmd' \in {cmd, <<"wpacket", begun>>}
    BY <1>9 DEF SendWrite, Reached, Missed, Failed
  <2> QED BY <2>1 DEF Exchange
<1>10. CASE StackSends \/ StackPicksUp \/ StackAcks \/ Check \/ Raise \/ Abort \/ Connecting
            \/ Connected \/ Disconnected \/ Signal \/ Enqueue
  <2>1. InStep /\ UNCHANGED <<st, nextsize, cmd, cur, tx>>
    BY <1>10 DEF StackSends, StackPicksUp, StackAcks, Check, Raise, Abort, Connecting, Connected,
                 Disconnected, Signal, Enqueue, driverVars, restOfBridge, spiVars, rxVars
  <2> QED BY <1>1, <2>1
<1>11. CASE UNCHANGED vars
  BY <1>1, <1>11 DEF vars, driverVars, spiVars, InStep
<1> QED
  BY <1>2, <1>3, <1>4, <1>5, <1>6, <1>7, <1>8, <1>9, <1>10, <1>11, ServeExchange
  DEF Next, Driver, Bridge

(***************************************************************************)
(* Packets from the network.                                               *)
(***************************************************************************)
\* NothingLost, place by place: the packet on its way follows the one handed
\* to the stack last, and the queue follows both.
InOrder ==
  InStep =>
    /\ taken = last + Len(Moving) + Len(queue)
    /\ \A i \in 1..Len(Moving) : Moving[i] = last + i
    /\ \A i \in 1..Len(queue) : queue[i] = last + Len(Moving) + i

\* At most one packet is on its way.
LEMMA MovingIs ==
  ASSUME TypeInv
  PROVE  /\ Moving = <<>> \/ \E p \in Packets \cup {0} : Moving = <<p>>
         /\ st \notin {"GET_READ", "QUEUE_READ"} => Moving = <<>>
         /\ ~Ready /\ st = "GET_READ" => Moving = <<>>
         /\ st = "QUEUE_READ" => Moving = <<inHand>>
         /\ Ready /\ st = "GET_READ" =>
              Moving = IF tx[cur][1] = "packet" THEN <<tx[cur][2]>> ELSE <<>>
<1>1. tx[cur] \in Content /\ inHand \in Packets \cup {0}
  BY DEF TypeInv, LinkOK, DriverOK
<1>2. tx[cur][1] = "packet" => tx[cur][2] \in Packets
  BY <1>1, Contents
<1> QED BY <1>1, <1>2 DEF Moving

LEMMA OrderKept ==
  ASSUME InOrder, InStep, Moving' = Moving, UNCHANGED <<queue, taken, last>>
  PROVE  InOrder'
BY DEF InOrder

LEMMA InOrderInit == Init => InOrder
<1> SUFFICES ASSUME Init PROVE InOrder
  OBVIOUS
<1>1. Moving = <<>>
  BY DEF Init, Moving
<1> QED BY <1>1 DEF Init, InOrder

\* The reply to a command that takes a packet from the queue is that packet.
LEMMA ServeOrder ==
  ASSUME TypeInv, TypeInv', Exchange, InOrder, Serve, InStep'
  PROVE  InOrder'
<1>1. InStep /\ UNCHANGED <<st, nextsize, last, taken, inHand>>
  BY DEF Serve, LoopAt, driverVars, netVars
<1>2. CASE Ready
  <2>1. UNCHANGED <<cur, cmd, tx, queue>>
    BY <1>2 DEF Serve
  <2>2. Moving' = Moving
    BY <1>1, <2>1 DEF Moving, Ready
  <2> QED BY <1>1, <2>1, <2>2, OrderKept
<1>3. CASE ~Ready
  <2>1. cur' = Other(cur) /\ cmd' = None /\ Reply
    BY <1>3 DEF Serve
  <2>2. cur \in {"A", "B"} /\ Other(cur) \in {"A", "B"} /\ tx \in [{"A", "B"} -> Content]
        /\ queue \in Seq(Packets)
    BY DEF TypeInv, LinkOK, Other, QueueOK
  <2>3. CASE cmd[1] # "rpacket"
    <3>1. st # "GET_READ"
      BY <1>1, <1>3, <2>3 DEF Exchange
    <3>2. queue' = queue
      BY <2>1, <2>3, Zenon DEF Reply
    <3>3. Moving' = Moving
      BY <1>1, <3>1 DEF Moving
    <3> QED BY <1>1, <3>2, <3>3, OrderKept
  <2>4. CASE cmd[1] = "rpacket"
    <3>1. st = "GET_READ" /\ tx[Other(cur)][1] = "status"
      BY <1>1, <1>3, <2>4 DEF Exchange
    <3>2. Moving = <<>>
      BY <1>3, <3>1, MovingIs
    <3>3. Ready' /\ st' = "GET_READ"
      BY <1>1, <2>1, <3>1 DEF Ready
    <3>4. CASE queue = <<>>
      <4>1. tx' = tx /\ queue' = queue
        BY <2>1, <2>4, <3>4 DEF Reply
      <4>2. Moving' = <<>>
        BY <2>1, <3>1, <3>3, <4>1 DEF Moving
      <4> QED BY <1>1, <3>2, <4>1, <4>2, OrderKept
    <3>5. CASE queue # <<>>
      <4>1. tx' = [tx EXCEPT ![Other(cur)] = <<"packet", Head(queue)>>] /\ queue' = Tail(queue)
        BY <2>1, <2>4, <3>5, Zenon DEF Reply, Receive
      <4>2. tx'[cur'] = <<"packet", Head(queue)>>
        BY <2>1, <2>2, <4>1
      <4>3. Moving' = <<Head(queue)>>
        BY <3>3, <4>2 DEF Moving
      <4>4. /\ Head(queue) = queue[1] /\ Len(queue) \in Nat /\ Len(queue) >= 1
            /\ Len(Tail(queue)) = Len(queue) - 1
            /\ \A i \in 1..(Len(queue) - 1) : Tail(queue)[i] = queue[i + 1]
        BY <2>2, <3>5
      <4>5. Len(Moving') = 1 /\ \A i \in 1..Len(Moving') : Moving'[i] = Head(queue)
        BY <4>3
      <4>6. last \in Nat /\ taken \in Nat
        BY WifiAssumption DEF TypeInv, DriverOK, QueueOK, Packets
      <4>7. /\ taken = last + Len(queue) /\ \A i \in 1..Len(queue) : queue[i] = last + i
        BY <1>1, <3>2, <4>4, <4>6 DEF InOrder
      <4> DEFINE h == Head(queue)
                 v == Tail(queue)
      <4>8. h = queue[1] /\ Len(v) = Len(queue) - 1 /\ \A i \in 1..Len(v) : v[i] = queue[i + 1]
        BY <4>4
      <4> HIDE DEF h, v
      <4>9. taken = last + 1 + Len(v) /\ h = last + 1
        BY <4>4, <4>6, <4>7, <4>8
      <4>10. \A i \in 1..Len(v) : v[i] = last + 1 + i
        <5> TAKE i \in 1..Len(v)
        <5>1. i + 1 \in 1..Len(queue)
          BY <4>4, <4>8
        <5>2. v[i] = last + (i + 1)
          BY <4>7, <4>8, <5>1
        <5> QED BY <4>6, <5>2
      <4> HIDE DEF Moving
      <4>11. taken' = last' + Len(Moving') + Len(queue')
        BY <1>1, <4>1, <4>5, <4>9 DEF v
      <4>12. \A i \in 1..Len(Moving') : Moving'[i] = last' + i
        BY <1>1, <4>5, <4>9 DEF h
      <4>13. \A i \in 1..Len(queue') : queue'[i] = last' + Len(Moving') + i
        BY <1>1, <4>1, <4>5, <4>10 DEF v
      <4> QED BY <4>11, <4>12, <4>13 DEF InOrder
    <3> QED BY <3>4, <3>5
  <2> QED BY <2>3, <2>4
<1> QED BY <1>2, <1>3

\* A reply that holds a packet is taken, whatever else the driver finds there.
LEMMA GetReadOrder ==
  ASSUME TypeInv, TypeInv', Exchange, InOrder, GetRead, InStep'
  PROVE  InOrder'
<1>1. /\ InStep /\ st = "GET_READ" /\ Ready
      /\ UNCHANGED <<cur, tx, queue, nextsize, last, taken>>
  BY DEF GetRead, At, restOfBridge, spiVars, netVars
<1>2. tx[cur] \in Content /\ tx[cur][1] \in {"packet", "status"}
      /\ (tx[cur][1] = "packet" => Sizes[tx[cur][2]] = nextsize /\ tx[cur][2] \in Packets)
  BY <1>1, Contents DEF TypeInv, LinkOK, Exchange, Ready, None
<1>3. tx[cur][1] = "packet" => nextsize # TooBig
  BY <1>2, WifiAssumption DEF Packets, TooBig
<1>4. Moving = IF tx[cur][1] = "packet" THEN <<tx[cur][2]>> ELSE <<>>
  BY <1>1, MovingIs
<1>5. Fits(tx[cur]) <=> tx[cur][1] = "packet"
  BY <1>2 DEF Fits
<1>6. CASE st' = st /\ Failed(<<"read", 0>>)
  <2>1. cmd' = cmd
    BY <1>6, ReadInStep
  <2>2. Moving' = Moving
    BY <1>1, <1>6, <2>1 DEF Moving, Ready
  <2> QED BY <1>1, <2>2, OrderKept
<1>7. CASE st' = "RUN" /\ tx[cur][1] # "packet"
  <2>1. Moving' = <<>> /\ Moving = <<>>
    BY <1>4, <1>7 DEF Moving
  <2> QED BY <1>1, <2>1, OrderKept
<1>8. CASE st' = "QUEUE_READ" /\ inHand' = tx[cur][2] /\ tx[cur][1] = "packet"
  <2>1. Moving' = <<tx[cur][2]>> /\ Moving = <<tx[cur][2]>>
    BY <1>4, <1>8 DEF Moving
  <2> QED BY <1>1, <2>1, OrderKept
<1> QED BY <1>3, <1>5, <1>6, <1>7, <1>8 DEF GetRead

LEMMA InOrderStep == TypeInv /\ TypeInv' /\ Exchange /\ InOrder /\ [Next]_vars => InOrder'
<1> SUFFICES ASSUME TypeInv, TypeInv', Exchange, InOrder, [Next]_vars, InStep' PROVE InOrder'
  BY DEF InOrder
<1> USE DEF At, LoopAt
<1>1. ASSUME InStep, st \notin {"GET_READ", "QUEUE_READ"}, st' \notin {"GET_READ", "QUEUE_READ"},
             UNCHANGED <<queue, taken, last>>
      PROVE  InOrder'
  <2>1. Moving = <<>> /\ Moving' = <<>>
    BY <1>1 DEF Moving
  <2> QED BY <1>1, <2>1, OrderKept
<1>2. CASE SendMac \/ SendSsid \/ SendPsk
  <2>1. PICK s \in {"SEND_MAC", "SEND_SSID", "SEND_PSK"}, c \in {"mac", "ssid", "psk"},
             next \in {"SEND_SSID", "SEND_PSK", "RUN"} : Configure(s, c, next)
    BY <1>2 DEF SendMac, SendSsid, SendPsk
  <2>2. InStep /\ st = s /\ st' \in {s, next} /\ UNCHANGED <<queue, taken, last>>
    BY <2>1, SendInStep DEF Configure, restOfBridge, spiVars, netVars, rxVars
  <2> QED BY <1>1, <2>2
<1>3. CASE PollStatus \/ SeeInterrupt \/ StartRead \/ StartWrite \/ SendWrite
  <2>1. /\ InStep /\ st \in {"RUN", "START_READ", "SEND_WRITE"}
        /\ st' \in {"SEND_STATUS", "START_READ", "SEND_WRITE", "RUN"}
        /\ UNCHANGED <<queue, taken, last>>
    BY <1>3 DEF PollStatus, SeeInterrupt, StartRead, StartWrite, SendWrite,
                restOfBridge, spiVars, netVars, rxVars
  <2> QED BY <1>1, <2>1
<1>4. CASE SendStatus \/ GetStatus
  <2>1. /\ InStep /\ st \in {"SEND_STATUS", "GET_STATUS"}
        /\ st' \in {"SEND_STATUS", "GET_STATUS", "RUN", "SEND_READ"}
        /\ UNCHANGED <<queue, taken, last>>
    BY <1>4 DEF SendStatus, GetStatus, Send, restOfBridge, spiVars, netVars, rxVars,
                TypeInv, DriverOK
  <2> QED BY <1>1, <2>1
<1>5. CASE SendRead
  <2>1. InStep /\ st = "SEND_READ" /\ UNCHANGED <<queue, taken, last>>
    BY <1>5 DEF SendRead, restOfBridge, spiVars, netVars, rxVars
  <2>2. st' = "SEND_READ" \/ (st' = "GET_READ" /\ cmd' = <<"rpacket", 0>>)
    BY <1>5, SendInStep DEF SendRead
  <2>3. Moving = <<>> /\ Moving' = <<>>
    BY <2>1, <2>2 DEF Moving, Ready, None
  <2> QED BY <2>1, <2>3, OrderKept
<1>6. CASE QueueRead
  <2>1. /\ InStep /\ st = "QUEUE_READ" /\ st' = "RUN" /\ UNCHANGED <<queue, taken>>
        /\ last' = inHand
    BY <1>6 DEF QueueRead, restOfBridge, spiVars, netVars
  <2>2. Len(Moving) = 1 /\ Moving[1] = inHand /\ Len(Moving') = 0
    BY <2>1 DEF Moving
  <2>3. last \in Nat /\ taken \in Nat /\ Len(queue) \in Nat
    BY WifiAssumption DEF TypeInv, DriverOK, QueueOK, Packets
  <2>4. /\ taken = last + 1 + Len(queue) /\ inHand = last + 1
        /\ \A i \in 1..Len(queue) : queue[i] = last + 1 + i
    BY <2>1, <2>2 DEF InOrder
  <2> QED BY <2>1, <2>2, <2>3, <2>4 DEF InOrder
<1>7. ASSUME InStep, UNCHANGED <<st, inHand, cmd, cur, tx, queue, taken, last>> PROVE InOrder'
  <2>1. Moving' = Moving
    BY <1>7 DEF Moving, Ready
  <2> QED BY <1>7, <2>1, OrderKept
<1>8. CASE StackSends \/ StackPicksUp \/ StackAcks \/ Check \/ Raise \/ Abort \/ Connecting
           \/ Connected \/ Disconnected \/ Signal
  <2>1. InStep /\ UNCHANGED <<st, inHand, cmd, cur, tx, queue, taken, last>>
    BY <1>8 DEF StackSends, StackPicksUp, StackAcks, Check, Raise, Abort, Connecting, Connected,
                Disconnected, Signal, driverVars, restOfBridge, spiVars, rxVars, netVars
  <2> QED BY <1>7, <2>1
<1>9. CASE Enqueue
  <2>1. InStep /\ UNCHANGED <<st, inHand, cmd, cur, tx, last>>
    BY <1>9 DEF Enqueue, driverVars
  <2>2. CASE Len(queue) < QueueSize
    <3>1. queue' = Append(queue, taken + 1) /\ taken' = taken + 1
      BY <1>9, <2>2 DEF Enqueue
    <3>2. Moving' = Moving
      BY <2>1 DEF Moving, Ready
    <3>3. queue \in Seq(Packets) /\ Len(queue) \in Nat /\ taken \in Nat /\ last \in Nat
      BY WifiAssumption DEF TypeInv, DriverOK, QueueOK, Packets
    <3>4. Len(Moving) \in Nat
      BY MovingIs
    <3>5. /\ Len(queue') = Len(queue) + 1
          /\ \A i \in 1..Len(queue) : queue'[i] = queue[i]
          /\ queue'[Len(queue) + 1] = taken + 1
      BY <3>1, <3>3
    <3> QED BY <2>1, <3>1, <3>2, <3>3, <3>4, <3>5 DEF InOrder
  <2>3. CASE ~(Len(queue) < QueueSize)
    BY <1>7, <1>9, <2>1, <2>3 DEF Enqueue
  <2> QED BY <2>2, <2>3
<1>10. CASE UNCHANGED vars
  BY <1>7, <1>10 DEF vars, driverVars, spiVars, netVars, InStep
<1> QED
  BY <1>2, <1>3, <1>4, <1>5, <1>6, <1>8, <1>9, <1>10, ServeOrder, GetReadOrder
  DEF Next, Driver, Bridge

\* Place by place is what NothingLost says of the sequence.
LEMMA InOrderIsNothingLost == TypeInv /\ InOrder => NothingLost
<1> SUFFICES ASSUME TypeInv, InOrder, InStep
             PROVE  Moving \o queue = [i \in 1..(taken - last) |-> last + i]
  BY DEF NothingLost
<1> DEFINE m == Moving
           s == m \o queue
           r == [i \in 1..(taken - last) |-> last + i]
<1>1. last \in Nat /\ taken \in Nat /\ queue \in Seq(Nat) /\ Len(queue) \in Nat
  BY WifiAssumption DEF TypeInv, DriverOK, QueueOK, Packets
<1>2. m \in Seq(Nat) /\ Len(m) \in Nat
  <2>1. \A p \in Packets \cup {0} : <<p>> \in Seq(Nat)
    BY DEF Packets
  <2>2. <<>> \in Seq(Nat)
    OBVIOUS
  <2>3. Moving \in Seq(Nat)
    BY <2>1, <2>2, MovingIs, Zenon
  <2> QED BY <2>3
<1>3. /\ taken = last + Len(m) + Len(queue)
      /\ \A i \in 1..Len(m) : m[i] = last + i
      /\ \A i \in 1..Len(queue) : queue[i] = last + Len(m) + i
  BY DEF InOrder
<1> HIDE DEF m
<1>4. /\ s \in Seq(Nat) /\ Len(s) = Len(m) + Len(queue)
      /\ \A i \in 1..Len(s) : s[i] = IF i <= Len(m) THEN m[i] ELSE queue[i - Len(m)]
  BY <1>1, <1>2, ConcatProperties
<1> HIDE DEF s
<1>5. taken - last \in Nat /\ taken - last = Len(s)
  BY <1>1, <1>2, <1>3, <1>4
<1>6. r \in Seq(Nat) /\ Len(r) = Len(s) /\ \A i \in 1..Len(s) : r[i] = last + i
  BY <1>1, <1>5
<1>7. \A i \in 1..Len(s) : s[i] = last + i
  <2> TAKE i \in 1..Len(s)
  <2>1. CASE i <= Len(m)
    <3>1. i \in 1..Len(m) /\ s[i] = m[i]
      BY <1>2, <1>4, <2>1
    <3> QED BY <1>3, <3>1
  <2>2. CASE i > Len(m)
    <3>1. i - Len(m) \in 1..Len(queue) /\ s[i] = queue[i - Len(m)]
      BY <1>1, <1>2, <1>4, <2>2
    <3> QED BY <1>1, <1>2, <1>3, <2>2, <3>1
  <2> QED BY <1>2, <2>1, <2>2
<1> HIDE DEF r
<1>8. s = r
  BY <1>4, <1>6, <1>7, SeqEqual
<1> QED BY <1>8 DEF s, m, r

LEMMA ExchangeInit == Init => Exchange
BY DEF Init, Exchange, None

\* Between the bridge's queue and the stack no packet is lost, doubled or
\* overtaken, for any sizes and any queue, as long as the two are in step.
THEOREM PacketsInOrder == Spec => []NothingLost
BY TypeInit, TypeStep, ExchangeInit, ExchangeStep, InOrderInit, InOrderStep,
   InOrderIsNothingLost, PTL DEF Spec

(***************************************************************************)
(* Packets of the stack.                                                   *)
(***************************************************************************)
\* The packet the bridge still has to look at is no older than the last one
\* the stack was answered for.
Acks ==
  InStep =>
    /\ cmd[1] = "wpacket" => acked <= cmd[2]
    /\ acked <= sent \/ cmd = <<"wpacket", acked>>

LEMMA AcksStep == TypeInv /\ Acks /\ [Next]_vars => Acks'
<1> SUFFICES ASSUME TypeInv, Acks, [Next]_vars, InStep' PROVE Acks'
  BY DEF Acks
<1> USE DEF At, LoopAt
<1>1. acked \in Nat /\ begun \in Nat /\ acked <= begun /\ sent \in Nat
      /\ (cmd[1] = "wpacket" => cmd[2] \in Nat)
  BY WifiAssumption, Commands DEF TypeInv, BuffersOK, LinkOK, CostsOK
<1>2. ASSUME InStep, UNCHANGED <<acked, sent>>,
             cmd' = cmd \/ (Ready /\ cmd'[1] # "wpacket")
      PROVE  Acks'
  <2>1. Ready => acked <= sent
    BY <1>2 DEF Acks, Ready, None
  <2> QED BY <1>2, <2>1 DEF Acks
<1>3. CASE SendMac \/ SendSsid \/ SendPsk \/ SendStatus \/ SendRead
  <2>1. PICK c \in {"mac", "ssid", "psk", "status", "rpacket"} : \E done, failed :
               InStep /\ Send(<<c, 0>>, done, failed) /\ UNCHANGED <<txVars, restOfBridge>>
    BY <1>3 DEF SendMac, SendSsid, SendPsk, SendStatus, SendRead, Configure
  <2>2. cmd' = cmd \/ (Ready /\ cmd' = <<c, 0>>)
    BY <2>1, SendInStep
  <2> QED BY <1>2, <2>1, <2>2 DEF txVars, restOfBridge, spiVars
<1>4. CASE GetStatus \/ GetRead
  <2>1. InStep /\ UNCHANGED <<acked, sent>> /\ Ready /\ (cmd' = cmd \/ cmd' = <<"read", 0>>)
    BY <1>4 DEF GetStatus, GetRead, Reached, Failed, txVars, restOfBridge, spiVars
  <2> QED BY <1>2, <2>1
<1>5. CASE SendWrite
  <2>1. InStep /\ sent' = sent /\ begun' = begun
    BY <1>5 DEF SendWrite, restOfBridge, spiVars
  <2>2. CASE Reached(<<"wpacket", begun>>) /\ acked' = begun
    <3>1. cmd' = <<"wpacket", begun>>
      BY <2>2 DEF Reached
    <3> QED BY <1>1, <2>2, <3>1 DEF Acks
  <2>3. CASE Failed(<<"wpacket", begun>>) /\ acked' = acked
    <3>1. CASE cmd' = cmd
      BY <1>2, <2>1, <2>3, <3>1
    <3>2. CASE Ready /\ cmd' = <<"wpacket", begun>>
      <4>1. acked <= sent
        BY <2>1, <3>2 DEF Acks, Ready, None
      <4> QED BY <1>1, <2>1, <2>3, <3>2, <4>1 DEF Acks
    <3> QED BY <2>3, <3>1, <3>2 DEF Failed
  <2>4. ~Missed
    BY DEF Missed, Note, InStep, OutOfStep
  <2> QED BY <1>5, <2>2, <2>3, <2>4 DEF SendWrite, Answer
<1>6. CASE Serve
  <2>1. InStep /\ acked' = acked
    BY <1>6 DEF Serve, driverVars
  <2>2. CASE cmd[1] = "wpacket"
    <3>1. sent' = cmd[2] /\ cmd' = None
      BY <1>6, <2>2 DEF Serve, Ready, None
    <3>2. acked <= cmd[2]
      BY <2>1, <2>2 DEF Acks
    <3> QED BY <2>1, <3>1, <3>2 DEF Acks, None
  <2>3. CASE cmd[1] # "wpacket"
    <3>1. sent' = sent /\ (cmd' = cmd \/ cmd' = None)
      BY <1>6, <2>3 DEF Serve
    <3>2. acked <= sent
      BY <2>1, <2>3 DEF Acks
    <3> QED BY <2>1, <2>3, <3>1, <3>2 DEF Acks, None
  <2> QED BY <2>2, <2>3
<1>7. CASE PollStatus \/ SeeInterrupt \/ StartRead \/ StartWrite \/ QueueRead \/ StackSends
           \/ StackPicksUp \/ StackAcks \/ Check \/ Raise \/ Abort \/ Connecting
           \/ Connected \/ Disconnected \/ Signal \/ Enqueue
  <2>1. InStep /\ UNCHANGED <<acked, sent, cmd>>
    BY <1>7 DEF PollStatus, SeeInterrupt, StartRead, StartWrite, QueueRead, StackSends,
                StackPicksUp, StackAcks, Check, Raise, Abort, Connecting, Connected,
                Disconnected, Signal, Enqueue, driverVars, restOfBridge, spiVars, txVars
  <2> QED BY <1>2, <2>1
<1>8. CASE UNCHANGED vars
  BY <1>2, <1>8 DEF vars, driverVars, spiVars, InStep
<1> QED
  BY <1>3, <1>4, <1>5, <1>6, <1>7, <1>8 DEF Next, Driver, Bridge

\* No packet is acknowledged to the stack that the bridge has not sent or is
\* not about to send, as long as the two are in step.
THEOREM AcksAreTrue == Spec => []SentWhenAcked
<1>1. Init => Acks
  BY DEF Init, Acks, None
<1>2. Acks => SentWhenAcked
  BY DEF Acks, SentWhenAcked
<1> QED BY <1>1, <1>2, TypeInit, TypeStep, AcksStep, PTL DEF Spec
=============================================================================
