--------------------------- MODULE UartFlowProofs ---------------------------
(***************************************************************************)
(* Flow control of a serial port, for any buffer, ring and watermark: the  *)
(* pin and the flags of uart.c follow the buffer, the two sides never part *)
(* about who is held, a held peer's restart is never behind it, and with a *)
(* handshake line no byte is lost.                                         *)
(***************************************************************************)
EXTENDS UartFlow, MinMax, FiniteSetTheorems, SequenceTheorems

(***************************************************************************)
(* The last word of a stream.                                              *)
(***************************************************************************)
\* Without a word in the stream the word before it counts.
LEMMA LastNone ==
  ASSUME NEW ring \in Seq(Bytes), \A i \in 1..Len(ring) : ring[i] \notin Control, NEW b
  PROVE  LastWord(ring, b) = b
BY DEF LastWord

\* A word with none behind it is the last.
LEMMA LastIs ==
  ASSUME NEW ring \in Seq(Bytes), NEW b, NEW k \in 1..Len(ring), ring[k] \in Control,
         \A j \in 1..Len(ring) : j > k => ring[j] \notin Control
  PROVE  LastWord(ring, b) = (ring[k] = "XOFF")
<1> DEFINE words == {i \in 1..Len(ring) : ring[i] \in Control}
<1>1. k \in words /\ \A j \in words : j <= k
  OBVIOUS
<1>2. \A i \in words : (\A j \in words : j <= i) => i = k
  BY <1>1
<1>3. (\E i \in words : ring[i] = "XOFF" /\ \A j \in words : j <= i) <=> ring[k] = "XOFF"
  BY <1>1, <1>2
<1>4. LastWord(ring, b) = (\E i \in words : ring[i] = "XOFF" /\ \A j \in words : j <= i)
  BY <1>1 DEF LastWord
<1> HIDE DEF words
<1> QED BY <1>3, <1>4

\* A stream has no word or a last one.
LEMMA LastExists ==
  ASSUME NEW ring \in Seq(Bytes)
  PROVE  \/ \A i \in 1..Len(ring) : ring[i] \notin Control
         \/ \E k \in 1..Len(ring) : /\ ring[k] \in Control
                                    /\ \A j \in 1..Len(ring) : j > k => ring[j] \notin Control
<1> DEFINE words == {i \in 1..Len(ring) : ring[i] \in Control}
<1>1. CASE words = {}
  BY <1>1
<1>2. CASE words # {}
  <2>1. Len(ring) \in Nat /\ words \in SUBSET (0..Len(ring))
    OBVIOUS
  <2> DEFINE k == Max(words)
  <2>2. k \in words /\ \A y \in words : y <= k
    <3> HIDE DEF words
    <3> QED BY <1>2, <2>1, MaxIn
  <2> HIDE DEF k
  <2>3. k \in 1..Len(ring) /\ ring[k] \in Control
    BY <2>2
  <2>4. \A j \in 1..Len(ring) : j > k => ring[j] \notin Control
    BY <2>2, <2>3
  <2> QED BY <2>3, <2>4
<1> QED BY <1>1, <1>2

\* What LastWord makes of a stream in two parts is what it makes of the second
\* after what it makes of the first.
LEMMA LastConcat ==
  ASSUME NEW r \in Seq(Bytes), NEW s \in Seq(Bytes), NEW b
  PROVE  LastWord(r \o s, b) = LastWord(s, LastWord(r, b))
<1> DEFINE t == r \o s
<1>1. /\ t \in Seq(Bytes) /\ Len(r) \in Nat /\ Len(s) \in Nat /\ Len(t) = Len(r) + Len(s)
      /\ \A i \in 1..Len(r) : t[i] = r[i]
      /\ \A i \in 1..Len(s) : t[Len(r) + i] = s[i]
      /\ \A i \in 1..Len(t) : i > Len(r) => i - Len(r) \in 1..Len(s) /\ t[i] = s[i - Len(r)]
  OBVIOUS
<1> HIDE DEF t
<1>2. CASE \A i \in 1..Len(s) : s[i] \notin Control
  <2>1. LastWord(s, LastWord(r, b)) = LastWord(r, b)
    BY <1>2, LastNone
  <2>2. CASE \A i \in 1..Len(r) : r[i] \notin Control
    <3>1. \A i \in 1..Len(t) : t[i] \notin Control
      <4> TAKE i \in 1..Len(t)
      <4>1. CASE i <= Len(r)
        BY <1>1, <2>2, <4>1
      <4>2. CASE i > Len(r)
        BY <1>1, <1>2, <4>2
      <4> QED BY <1>1, <4>1, <4>2
    <3>2. LastWord(t, b) = b /\ LastWord(r, b) = b
      BY <1>1, <2>2, <3>1, LastNone
    <3> QED BY <2>1, <3>2 DEF t
  <2>3. ASSUME NEW k \in 1..Len(r), r[k] \in Control,
               \A j \in 1..Len(r) : j > k => r[j] \notin Control
        PROVE  LastWord(t, b) = LastWord(s, LastWord(r, b))
    <3>1. k \in 1..Len(t) /\ t[k] = r[k] /\ t[k] \in Control
      BY <1>1, <2>3
    <3>2. \A j \in 1..Len(t) : j > k => t[j] \notin Control
      <4> TAKE j \in 1..Len(t)
      <4> HAVE j > k
      <4>1. CASE j <= Len(r)
        BY <1>1, <2>3, <4>1
      <4>2. CASE j > Len(r)
        BY <1>1, <1>2, <4>2
      <4> QED BY <1>1, <4>1, <4>2
    <3>3. LastWord(t, b) = (t[k] = "XOFF")
      BY <1>1, <3>1, <3>2, LastIs
    <3>4. LastWord(r, b) = (r[k] = "XOFF")
      BY <2>3, LastIs
    <3> QED BY <2>1, <3>1, <3>3, <3>4
  <2> QED BY <2>2, <2>3, LastExists DEF t
<1>3. ASSUME NEW k \in 1..Len(s), s[k] \in Control,
             \A j \in 1..Len(s) : j > k => s[j] \notin Control
      PROVE  LastWord(t, b) = LastWord(s, LastWord(r, b))
  <2>1. Len(r) + k \in 1..Len(t) /\ t[Len(r) + k] = s[k] /\ t[Len(r) + k] \in Control
    BY <1>1, <1>3
  <2>2. \A j \in 1..Len(t) : j > Len(r) + k => t[j] \notin Control
    <3> TAKE j \in 1..Len(t)
    <3> HAVE j > Len(r) + k
    <3>1. j > Len(r) /\ j - Len(r) > k
      BY <1>1
    <3>2. j - Len(r) \in 1..Len(s) /\ t[j] = s[j - Len(r)]
      BY <1>1, <3>1
    <3> QED BY <1>3, <3>1, <3>2
  <2>3. LastWord(t, b) = (t[Len(r) + k] = "XOFF")
    BY <1>1, <2>1, <2>2, LastIs
  <2>4. LastWord(s, LastWord(r, b)) = (s[k] = "XOFF")
    BY <1>3, LastIs
  <2> QED BY <2>1, <2>3, <2>4
<1> QED BY <1>2, <1>3, LastExists DEF t

\* A word at the end of a ring is its last, and data says nothing.
LEMMA LastAppend ==
  ASSUME NEW r \in Seq(Bytes), NEW w \in Bytes, NEW b
  PROVE  LastWord(Append(r, w), b) = IF w \in Control THEN w = "XOFF" ELSE LastWord(r, b)
<1> DEFINE s == <<w>>
<1>1. Append(r, w) = r \o s /\ s \in Seq(Bytes) /\ Len(s) = 1 /\ s[1] = w
  OBVIOUS
<1> HIDE DEF s
<1>2. LastWord(Append(r, w), b) = LastWord(s, LastWord(r, b))
  <2>1. s \in Seq(Bytes) /\ Append(r, w) = r \o s
    BY <1>1
  <2>2. LastWord(r \o s, b) = LastWord(s, LastWord(r, b))
    BY <2>1, LastConcat, Zenon
  <2> QED BY <2>1, <2>2, Zenon
<1>3. CASE w \in Control
  <2>1. 1 \in 1..Len(s) /\ s[1] \in Control /\ \A j \in 1..Len(s) : j > 1 => s[j] \notin Control
    BY <1>1, <1>3
  <2>2. LastWord(s, LastWord(r, b)) = (s[1] = "XOFF")
    BY <1>1, <2>1, LastIs
  <2> QED BY <1>1, <1>2, <1>3, <2>2
<1>4. CASE w \notin Control
  <2>1. \A i \in 1..Len(s) : s[i] \notin Control
    BY <1>1, <1>4
  <2>2. LastWord(s, LastWord(r, b)) = LastWord(r, b)
    BY <1>1, <2>1, LastNone
  <2> QED BY <1>2, <1>4, <2>2
<1> QED BY <1>3, <1>4

\* What uart_start and uart_stop say is the last word, and data changes nothing.
LEMMA LastIsSaid ==
  ASSUME NEW r \in Seq(Bytes), NEW b
  PROVE  /\ LastWord(Append(r, "XON"), b) = FALSE
         /\ LastWord(Append(r, "XOFF"), b) = TRUE
         /\ LastWord(Append(r, "data"), b) = LastWord(r, b)
<1>1. "XON" \in Bytes /\ "XOFF" \in Bytes /\ "data" \in Bytes
  BY DEF Bytes, Control
<1>2. LastWord(Append(r, "XON"), b) = IF "XON" \in Control THEN "XON" = "XOFF" ELSE LastWord(r, b)
  BY ONLY <1>1, LastAppend, r \in Seq(Bytes), Zenon
<1>3. LastWord(Append(r, "XOFF"), b) = IF "XOFF" \in Control THEN "XOFF" = "XOFF" ELSE LastWord(r, b)
  BY ONLY <1>1, LastAppend, r \in Seq(Bytes), Zenon
<1>4. LastWord(Append(r, "data"), b) = IF "data" \in Control THEN "data" = "XOFF" ELSE LastWord(r, b)
  BY ONLY <1>1, LastAppend, r \in Seq(Bytes), Zenon
<1> QED BY <1>2, <1>3, <1>4 DEF Control

\* Data behind a ring leaves its last word alone.
LEMMA LastData ==
  ASSUME NEW r \in Seq(Bytes), NEW n \in Nat, NEW b
  PROVE  LastWord(r \o [i \in 1..n |-> "data"], b) = LastWord(r, b)
<1> DEFINE s == [i \in 1..n |-> "data"]
<1>1. s \in Seq(Bytes) /\ \A i \in 1..Len(s) : s[i] \notin Control
  BY DEF Bytes, Control
<1> HIDE DEF s
<1>2. LastWord(r \o s, b) = LastWord(r, b)
  BY <1>1, LastConcat, LastNone
<1> QED BY <1>2 DEF s

\* The first byte of a ring is taken out.
LEMMA LastTail ==
  ASSUME NEW r \in Seq(Bytes), r # <<>>, NEW b
  PROVE  LastWord(r, b) = LastWord(Tail(r), IF Head(r) \in Control THEN Head(r) = "XOFF" ELSE b)
<1> DEFINE w == Head(r)
           v == Tail(r)
           e == <<>>
           s == <<w>>
<1>1. w \in Bytes /\ v \in Seq(Bytes) /\ r = s \o v /\ s \in Seq(Bytes)
  OBVIOUS
<1>2. e \in Seq(Bytes) /\ Append(e, w) = s /\ \A i \in 1..Len(e) : e[i] \notin Control
  OBVIOUS
<1> HIDE DEF e, s, w, v
<1>3. LastWord(e, b) = b
  BY <1>2, LastNone
<1>4. LastWord(s, b) = IF w \in Control THEN w = "XOFF" ELSE LastWord(e, b)
  <2>1. LastWord(Append(e, w), b) = IF w \in Control THEN w = "XOFF" ELSE LastWord(e, b)
    BY <1>1, <1>2, LastAppend, ZenonT(30)
  <2> QED BY <1>2, <2>1, Zenon
<1>5. LastWord(r, b) = LastWord(v, LastWord(s, b))
  <2>1. LastWord(s \o v, b) = LastWord(v, LastWord(s, b))
    BY <1>1, LastConcat, ZenonT(30)
  <2> QED BY <1>1, <2>1, Zenon
<1> QED BY <1>3, <1>4, <1>5, Zenon DEF w, v

\* The first n bytes of a ring are taken out.
LEMMA LastSplit ==
  ASSUME NEW r \in Seq(Bytes), NEW n \in 0..Len(r), NEW b
  PROVE  LastWord(r, b) = LastWord(SubSeq(r, n + 1, Len(r)), LastWord(SubSeq(r, 1, n), b))
<1> DEFINE s == SubSeq(r, 1, n)
           v == SubSeq(r, n + 1, Len(r))
<1>1. /\ s \in Seq(Bytes) /\ Len(s) = n /\ \A i \in 1..n : s[i] = r[i]
      /\ Len(r) \in Nat /\ n \in Nat
  OBVIOUS
<1>2. /\ v \in Seq(Bytes) /\ Len(v) = Len(r) - n
      /\ \A i \in 1..(Len(r) - n) : v[i] = r[n + i]
  OBVIOUS
<1> HIDE DEF s, v
<1>3. /\ s \o v \in Seq(Bytes) /\ Len(s \o v) = Len(r)
      /\ \A i \in 1..Len(r) : (s \o v)[i] = IF i <= n THEN s[i] ELSE v[i - n]
  BY <1>1, <1>2
<1>4. \A i \in 1..Len(r) : (s \o v)[i] = r[i]
  BY <1>1, <1>2, <1>3
<1>5. s \o v = r
  BY <1>3, <1>4, SeqEqual
<1>6. LastWord(s \o v, b) = LastWord(v, LastWord(s, b))
  BY <1>1, <1>2, LastConcat, Zenon
<1> QED BY <1>5, <1>6 DEF s, v

(***************************************************************************)
(* What uart_transfer_data moves.                                          *)
(***************************************************************************)
\* TypeOK in parts.
FlagsOK ==
  /\ flow \in Settings
  /\ paused \in BOOLEAN /\ stopped \in BOOLEAN /\ attached \in BOOLEAN
  /\ busy \in BOOLEAN /\ peerOff \in BOOLEAN
  /\ raised \in [Hardware -> BOOLEAN]
RingsOK ==
  /\ rxRing \in Seq(Bytes) /\ Len(rxRing) <= RxRing
  /\ txRing \in Seq(Bytes) /\ Len(txRing) <= TxRing
CountsOK ==
  /\ readBuf \in 0..BufSize /\ writeBuf \in 0..BufSize
  /\ waterlevel \in 0..BufSize
  /\ pc \in {"service", "print", "yield", "start", "drain", "break", "transfer"}
  /\ toPrint \in 0..PrintLen
  /\ late \in Nat /\ fresh \in 0..Burst
  /\ mishap \in Mishaps

\* The write buffer gives the transmit ring no more than it has room for.
LEMMA LoadedFits ==
  ASSUME RingsOK, CountsOK
  PROVE  /\ Moved \in 0..writeBuf
         /\ Loaded \in Seq(Bytes) /\ Len(Loaded) <= TxRing
         /\ \A b : LastWord(Loaded, b) = LastWord(txRing, b)
<1>1. Moved \in Nat /\ Moved <= writeBuf /\ Moved <= TxRing - Len(txRing)
  BY BufferAssumption DEF Moved, Lesser, RingsOK, CountsOK
<1>2. [i \in 1..Moved |-> "data"] \in Seq(Bytes) /\ Len([i \in 1..Moved |-> "data"]) = Moved
  BY <1>1 DEF Bytes
<1>3. Loaded \in Seq(Bytes) /\ Len(Loaded) = Len(txRing) + Moved
  <2> DEFINE s == [i \in 1..Moved |-> "data"]
  <2>1. s \in Seq(Bytes) /\ Len(s) = Moved /\ Loaded = txRing \o s /\ txRing \in Seq(Bytes)
    BY <1>2 DEF Loaded, RingsOK
  <2> HIDE DEF s
  <2>2. txRing \o s \in Seq(Bytes) /\ Len(txRing \o s) = Len(txRing) + Len(s)
    BY <2>1, ConcatProperties
  <2> QED BY <2>1, <2>2, Zenon
<1>4. \A b : LastWord(Loaded, b) = LastWord(txRing, b)
  BY <1>1, LastData DEF Loaded, RingsOK
<1> QED BY <1>1, <1>3, <1>4, BufferAssumption DEF RingsOK, CountsOK

\* The receive ring gives the read buffer no more than it has room for.
LEMMA BatchFits ==
  ASSUME RingsOK, CountsOK
  PROVE  /\ Batch \in Seq(Bytes) /\ Len(Batch) = Lesser(Len(rxRing), BufSize - readBuf)
         /\ Len(Batch) \in 0..Len(rxRing) /\ Len(Batch) <= BufSize - readBuf
         /\ Batch = SubSeq(rxRing, 1, Len(Batch))
         /\ Kept \in 0..Len(Batch)
         /\ ~attached => Kept = 0
         /\ attached /\ flow # "XONXOFF" => Kept = Len(Batch)
<1> DEFINE n == Lesser(Len(rxRing), BufSize - readBuf)
<1>1. n \in Nat /\ n <= Len(rxRing) /\ n <= BufSize - readBuf /\ n \in 0..Len(rxRing)
  BY BufferAssumption DEF Lesser, RingsOK, CountsOK
<1> HIDE DEF n
<1>2. Batch = SubSeq(rxRing, 1, n)
  BY DEF Batch, n
<1>3. Batch \in Seq(Bytes) /\ Len(Batch) = n
  BY <1>1, <1>2 DEF RingsOK
<1>4. Kept \in 0..n
  <2> DEFINE S == {i \in 1..Len(Batch) : ~Word(Batch[i])}
  <2>1. IsFiniteSet(1..n) /\ Cardinality(1..n) = n
    BY <1>1, FS_Interval
  <2>2. S \subseteq 1..n
    BY <1>3
  <2> HIDE DEF S
  <2>3. Cardinality(S) \in Nat /\ Cardinality(S) <= n
    BY <2>1, <2>2, FS_Subset, FS_CardinalityType
  <2> QED BY <1>1, <2>3 DEF Kept, S
<1>5. ASSUME attached, flow # "XONXOFF" PROVE Kept = n
  <2>1. {i \in 1..Len(Batch) : ~Word(Batch[i])} = 1..n
    BY <1>3, <1>5 DEF Word
  <2>2. Cardinality(1..n) = n
    BY <1>1, FS_Interval
  <2> QED BY <1>5, <2>1, <2>2 DEF Kept
<1>6. ~attached => Kept = 0
  BY DEF Kept
<1> QED BY <1>1, <1>2, <1>3, <1>4, <1>5, <1>6 DEF n

\* A word said is Boolean if the one before it is.
LEMMA LastBoolean ==
  ASSUME NEW ring \in Seq(Bytes), NEW b \in BOOLEAN
  PROVE  LastWord(ring, b) \in BOOLEAN
BY DEF LastWord

\* uart_stop and uart_start, in XON/XOFF: a word fits in the ring or is dropped.
LEMMA SayFits ==
  ASSUME NEW r \in Seq(Bytes), Len(r) <= TxRing, NEW w \in Bytes
  PROVE  Say(r, w) \in Seq(Bytes) /\ Len(Say(r, w)) <= TxRing
<1>1. CASE flow = "XONXOFF" /\ Len(r) < TxRing
  <2>1. Append(r, w) \in Seq(Bytes) /\ Len(Append(r, w)) = Len(r) + 1
    OBVIOUS
  <2> QED BY <1>1, <2>1, BufferAssumption DEF Say
<1>2. CASE ~(flow = "XONXOFF" /\ Len(r) < TxRing)
  BY <1>2 DEF Say
<1> QED BY <1>1, <1>2

\* uart_stop and uart_start, with a handshake line: only the pin of the port's
\* own setting moves.
LEMMA RaiseOwn ==
  ASSUME FlagsOK, NEW set \in BOOLEAN
  PROVE  /\ Raise(set) \in [Hardware -> BOOLEAN]
         /\ \A f \in Hardware : Raise(set)[f] = IF f = flow THEN set ELSE raised[f]
BY DEF Raise, FlagsOK

(***************************************************************************)
(* Types.                                                                  *)
(***************************************************************************)
LEMMA TypeParts == TypeOK <=> FlagsOK /\ RingsOK /\ CountsOK
BY DEF TypeOK, FlagsOK, RingsOK, CountsOK

LEMMA TypeInit == Init => TypeOK
<1> SUFFICES ASSUME Init PROVE TypeOK
  OBVIOUS
<1>1. FlagsOK
  BY DEF Init, FlagsOK
<1>2. RingsOK
  <2>1. rxRing = <<>> /\ (txRing = <<"XON">> \/ txRing = <<>>)
    BY DEF Init
  <2>2. <<"XON">> \in Seq(Bytes) /\ Len(<<"XON">>) = 1 /\ <<>> \in Seq(Bytes) /\ Len(<<>>) = 0
    BY DEF Bytes, Control
  <2>3. rxRing \in Seq(Bytes) /\ txRing \in Seq(Bytes)
    BY <2>1, <2>2, Zenon
  <2>4. Len(rxRing) = 0 /\ (Len(txRing) = 1 \/ Len(txRing) = 0)
    BY <2>1, <2>2, Zenon
  <2> QED BY <2>3, <2>4, BufferAssumption DEF RingsOK
<1>3. CountsOK
  BY BufferAssumption, PeerAssumption DEF Init, CountsOK, Mishaps
<1> QED BY <1>1, <1>2, <1>3, TypeParts

LEMMA TypeStep == TypeOK /\ [Next]_vars => TypeOK'
<1> SUFFICES ASSUME FlagsOK, RingsOK, CountsOK, [Next]_vars
             PROVE  FlagsOK' /\ RingsOK' /\ CountsOK'
  BY TypeParts DEF TypeOK, FlagsOK, RingsOK, CountsOK
<1> USE BufferAssumption, PeerAssumption
<1>1. ASSUME NEW read \in BOOLEAN, Service(read) PROVE FlagsOK' /\ RingsOK' /\ CountsOK'
  <2>1. FlagsOK' /\ RingsOK'
    BY <1>1 DEF Service, peerVars, FlagsOK, RingsOK
  <2>2. CountsOK'
    BY <1>1 DEF Service, At, peerVars, CountsOK
  <2> QED BY <2>1, <2>2
<1>2. CASE port_printf
  <2>1. FlagsOK' /\ RingsOK'
    BY <1>2 DEF port_printf, peerVars, FlagsOK, RingsOK
  <2>2. CountsOK'
    BY <1>2 DEF port_printf, peerVars, CountsOK, Lesser
  <2> QED BY <2>1, <2>2
<1>3. CASE CheckWater
  <2>1. "XON" \in Bytes
    BY DEF Bytes, Control
  <2>2. RingsOK'
    BY <1>3, <2>1, SayFits DEF CheckWater, RingsOK
  <2>3. FlagsOK'
    BY <1>3, RaiseOwn DEF CheckWater, FlagsOK, peerVars
  <2>4. CountsOK'
    BY <1>3 DEF CheckWater, CountsOK, peerVars, Note, Mishaps
  <2> QED BY <2>2, <2>3, <2>4
<1>4. CASE uart_transfer_data
  <2>1. "XOFF" \in Bytes
    BY DEF Bytes, Control
  <2>2. RingsOK'
    <3>1. txRing' \in Seq(Bytes) /\ Len(txRing') <= TxRing
      BY <1>4, <2>1, LoadedFits, SayFits DEF uart_transfer_data
    <3>2. rxRing' \in Seq(Bytes) /\ Len(rxRing') = Len(rxRing) - Len(Batch)
      <4>1. rxRing' = SubSeq(rxRing, Len(Batch) + 1, Len(rxRing))
        BY <1>4 DEF uart_transfer_data
      <4>2. Len(Batch) \in 0..Len(rxRing)
        BY BatchFits
      <4> QED BY <4>1, <4>2 DEF RingsOK
    <3>3. Len(Batch) \in Nat
      BY BatchFits
    <3> QED BY <3>1, <3>2, <3>3 DEF RingsOK
  <2>3. FlagsOK'
    <3>1. paused' \in BOOLEAN
      BY <1>4, BatchFits, LastBoolean DEF uart_transfer_data, Heard, FlagsOK
    <3> QED BY <1>4, <3>1, RaiseOwn DEF uart_transfer_data, FlagsOK
  <2>4. CountsOK'
    <3>1. readBuf' \in 0..BufSize /\ writeBuf' \in 0..BufSize
      <4>1. readBuf' = readBuf + Kept /\ writeBuf' = writeBuf - Moved
        BY <1>4 DEF uart_transfer_data
      <4>2. /\ Len(Batch) \in Nat /\ Len(Batch) <= BufSize - readBuf
            /\ Kept \in 0..Len(Batch) /\ Moved \in 0..writeBuf
        BY BatchFits, LoadedFits
      <4> QED BY <4>1, <4>2 DEF CountsOK
    <3>2. late' \in Nat /\ fresh' \in 0..Burst
      <4>1. (late' = 0 \/ late' = late) /\ fresh' = 0
        BY <1>4, Zenon DEF uart_transfer_data
      <4> QED BY <4>1 DEF CountsOK
    <3>3. mishap' \in Mishaps
      BY <1>4 DEF uart_transfer_data, Note, Mishaps
    <3>4. pc' \in {"service", "print", "yield", "start", "drain", "break", "transfer"}
      BY <1>4, Zenon DEF uart_transfer_data
    <3> QED BY <1>4, <3>1, <3>2, <3>3, <3>4 DEF uart_transfer_data, CountsOK
  <2> QED BY <2>2, <2>3, <2>4
<1>5. CASE Attach
  BY <1>5 DEF Attach, peerVars, FlagsOK, RingsOK, CountsOK
<1>6. CASE uart_set_flow
  <2>1. FlagsOK' /\ RingsOK'
    BY <1>6 DEF uart_set_flow, peerVars, FlagsOK, RingsOK
  <2>2. CountsOK'
    BY <1>6 DEF uart_set_flow, peerVars, CountsOK, Note, Mishaps
  <2> QED BY <2>1, <2>2
<1>7. ASSUME NEW b \in Bytes, Push(b)
      PROVE  /\ rxRing' \in Seq(Bytes) /\ Len(rxRing') <= RxRing
             /\ fresh' \in 0..Burst /\ mishap' \in Mishaps
  <2>1. Append(rxRing, b) \in Seq(Bytes) /\ Len(Append(rxRing, b)) = Len(rxRing) + 1
    BY DEF RingsOK
  <2> QED BY <1>7, <2>1 DEF Push, RingsOK, CountsOK, Note, Mishaps
<1>8. CASE PeerSends
  <2>1. "data" \in Bytes
    BY DEF Bytes
  <2>2. FlagsOK' /\ RingsOK'
    BY <1>7, <1>8, <2>1 DEF PeerSends, lineVars, FlagsOK, RingsOK
  <2>3. CountsOK'
    BY <1>7, <1>8, <2>1 DEF PeerSends, CountsOK
  <2> QED BY <2>2, <2>3
<1>9. CASE TxInterrupt
  <2>1. Tail(txRing) \in Seq(Bytes) /\ Len(Tail(txRing)) <= TxRing
    BY <1>9 DEF TxInterrupt, RingsOK
  <2>2. FlagsOK' /\ RingsOK'
    BY <1>9, <2>1 DEF TxInterrupt, lineVars, FlagsOK, RingsOK
  <2>3. CountsOK'
    BY <1>9 DEF TxInterrupt, CountsOK
  <2> QED BY <2>2, <2>3
<1>10. ASSUME NEW silence \in BOOLEAN, PeerWants(silence) PROVE FlagsOK' /\ RingsOK' /\ CountsOK'
  <2>1. "XON" \in Bytes /\ "XOFF" \in Bytes
    BY DEF Bytes, Control
  <2>2. FlagsOK'
    BY <1>10 DEF PeerWants, lineVars, FlagsOK
  <2>3. CASE flow = "XONXOFF" /\ pc # "break"
    <3>1. Push(IF silence THEN "XOFF" ELSE "XON")
      BY <1>10, <2>3 DEF PeerWants
    <3>2. RingsOK'
      BY <1>7, <1>10, <2>1, <3>1 DEF PeerWants, RingsOK
    <3>3. CountsOK'
      BY <1>7, <1>10, <2>1, <3>1 DEF PeerWants, CountsOK
    <3> QED BY <2>2, <3>2, <3>3
  <2>4. CASE flow # "XONXOFF"
    BY <1>10, <2>2, <2>4 DEF PeerWants, RingsOK, CountsOK
  <2>5. CASE flow = "XONXOFF" /\ pc = "break"
    BY <1>10, <2>2, <2>5 DEF PeerWants, RingsOK, CountsOK, Mishaps
  <2> QED BY <2>3, <2>4, <2>5
<1>11. CASE StartBreak
  <2>1. txRing' \in Seq(Bytes) /\ Len(txRing') = 1
    BY <1>11 DEF StartBreak, Bytes
  <2>2. FlagsOK' /\ RingsOK'
    BY <1>11, <2>1, BufferAssumption DEF StartBreak, peerVars, FlagsOK, RingsOK
  <2>3. CountsOK'
    BY <1>11 DEF StartBreak, CountsOK, peerVars
  <2> QED BY <2>2, <2>3
<1>12. CASE EndBreak
  BY <1>12 DEF EndBreak, peerVars, FlagsOK, RingsOK, CountsOK
<1>13. CASE UNCHANGED vars
  BY <1>13 DEF vars, FlagsOK, RingsOK, CountsOK
<1> QED BY <1>1, <1>2, <1>3, <1>4, <1>5, <1>6, <1>8, <1>9, <1>10, <1>11, <1>12, <1>13
        DEF Next

\* No buffer or ring of the port ever holds more than it can, whatever their
\* sizes and whatever the peer does.
THEOREM FlowTypes == Spec => []TypeOK
BY TypeInit, TypeStep, PTL DEF Spec

(***************************************************************************)
(* The pin follows the buffer.                                             *)
(***************************************************************************)
LEMMA LineInit == Init => LineFollowsBuffer
BY DEF Init, LineFollowsBuffer, Hardware

\* Only uart_start, uart_stop and SET PORT FLOW touch the pin, the flag or the
\* setting that names the pin.
LEMMA LineStep == TypeOK /\ LineFollowsBuffer /\ [Next]_vars => LineFollowsBuffer'
<1> SUFFICES ASSUME FlagsOK, LineFollowsBuffer, [Next]_vars, flow' \in Hardware, Sound'
             PROVE  raised'[flow'] = stopped'
  BY TypeParts DEF LineFollowsBuffer
<1>1. ASSUME Sound, UNCHANGED <<flow, stopped, raised>> PROVE raised'[flow'] = stopped'
  BY <1>1 DEF LineFollowsBuffer
<1>2. CASE CheckWater
  <2>1. CASE Restart
    BY <1>2, <2>1, RaiseOwn DEF CheckWater
  <2>2. CASE ~Restart
    BY <1>1, <1>2, <2>2 DEF CheckWater, At
  <2> QED BY <2>1, <2>2
<1>3. CASE uart_transfer_data
  <2>1. CASE Crossed
    <3>1. raised' = Raise(TRUE) /\ stopped' = TRUE /\ flow' = flow
      BY <1>3, <2>1, Zenon DEF uart_transfer_data
    <3> QED BY <3>1, RaiseOwn
  <2>2. CASE ~Crossed
    BY <1>1, <1>3, <2>2, Zenon DEF uart_transfer_data
  <2> QED BY <2>1, <2>2
<1>4. CASE uart_set_flow
  <2>1. Settled(flow') /\ UNCHANGED <<stopped, raised>>
    BY <1>4 DEF uart_set_flow, Note, Sound
  <2> QED BY <2>1 DEF Settled, FlagsOK
<1>5. CASE UNCHANGED vars
  BY <1>1, <1>5 DEF vars, Sound
<1>6. ASSUME ~uart_set_flow, ~CheckWater, ~uart_transfer_data, Next, ~UNCHANGED vars
      PROVE  Sound /\ UNCHANGED <<flow, stopped, raised>>
  BY <1>6 DEF Next, Service, port_printf, StartBreak, EndBreak, Attach, PeerSends,
              TxInterrupt, PeerWants, At, lineVars
<1> QED BY <1>1, <1>2, <1>3, <1>4, <1>5, <1>6

\* With RTS/CTS or DTR/DSR the peer's pin is set exactly while the port is
\* stopped, up to the first mishap.
THEOREM PinFollowsBuffer == Spec => []LineFollowsBuffer
BY TypeInit, TypeStep, LineInit, LineStep, PTL DEF Spec

(***************************************************************************)
(* XON/XOFF: neither side is mistaken about the other.                     *)
(***************************************************************************)
LEMMA PeerInit == Init => PeerKnows
<1> SUFFICES ASSUME Init, flow = "XONXOFF" PROVE LastWord(txRing, peerOff) = stopped
  BY DEF PeerKnows
<1>1. <<>> \in Seq(Bytes) /\ "XON" \in Bytes /\ "XON" \in Control /\ txRing = Append(<<>>, "XON")
  BY DEF Init, Bytes, Control
<1>2. LastWord(txRing, peerOff) = ("XON" = "XOFF")
  BY <1>1, LastAppend, Zenon
<1> QED BY <1>2 DEF Init

\* The last word on its way is the port's own flag after every step that does
\* not lose one.
LEMMA PeerStep == TypeOK /\ PeerKnows /\ [Next]_vars => PeerKnows'
<1> SUFFICES ASSUME FlagsOK, RingsOK, CountsOK, PeerKnows, [Next]_vars,
                    flow' = "XONXOFF", Sound'
             PROVE  LastWord(txRing', peerOff') = stopped'
  BY TypeParts DEF PeerKnows
<1>1. ASSUME Sound, UNCHANGED <<flow, stopped, txRing, peerOff>>
      PROVE  LastWord(txRing', peerOff') = stopped'
  BY <1>1 DEF PeerKnows
<1>2. "XON" \in Bytes /\ "XOFF" \in Bytes /\ "XON" \in Control /\ "XOFF" \in Control
  BY DEF Bytes, Control
<1>3. CASE CheckWater
  <2>1. CASE Restart
    <3>1. txRing' = Append(txRing, "XON") /\ stopped' = FALSE
      BY <1>3, <2>1, BufferAssumption
      DEF CheckWater, Note, Sound, Unsaid, Say, RingsOK
    <3>2. txRing \in Seq(Bytes)
      BY DEF RingsOK
    <3>3. LastWord(Append(txRing, "XON"), peerOff') = FALSE
      BY <3>2, LastIsSaid, Zenon
    <3> QED BY <3>1, <3>3
  <2>2. CASE ~Restart
    BY <1>1, <1>3, <2>2 DEF CheckWater, At, peerVars
  <2> QED BY <2>1, <2>2
<1>4. CASE uart_transfer_data
  <2>1. Sound /\ flow = "XONXOFF" /\ peerOff' = peerOff
    BY <1>4, Zenon DEF uart_transfer_data
  <2>2. Loaded \in Seq(Bytes) /\ Len(Loaded) \in Nat /\ LastWord(Loaded, peerOff) = stopped
    BY <2>1, LoadedFits DEF PeerKnows
  <2>3. CASE Crossed
    <3>1. attached
      BY <2>3, BatchFits, BufferAssumption DEF Crossed, CountsOK, high_water
    <3>2. mishap' = IF Crossed /\ Unsaid(Loaded) THEN "unsaid" ELSE "none"
      BY <1>4, <3>1, Zenon DEF uart_transfer_data, Note
    <3>3. Len(Loaded) < TxRing
      BY <2>1, <2>2, <2>3, <3>2, BufferAssumption DEF Unsaid, Sound
    <3>4. txRing' = Append(Loaded, "XOFF") /\ stopped' = TRUE
      BY <1>4, <2>1, <2>3, <3>3, Zenon DEF uart_transfer_data, Say
    <3>5. LastWord(Append(Loaded, "XOFF"), peerOff') = ("XOFF" = "XOFF")
      BY <1>2, <2>2, LastAppend, Zenon
    <3> QED BY <3>4, <3>5
  <2>4. CASE ~Crossed
    <3>1. txRing' = Loaded /\ stopped' = stopped
      BY <1>4, <2>4, Zenon DEF uart_transfer_data
    <3> QED BY <2>1, <2>2, <3>1
  <2> QED BY <2>3, <2>4
<1>5. CASE uart_set_flow
  <2>1. Settled(flow') /\ UNCHANGED <<stopped, txRing, peerOff>>
    BY <1>5 DEF uart_set_flow, Note, Sound, peerVars
  <2>2. \A i \in 1..Len(txRing) : txRing[i] \notin Control
    BY <2>1 DEF Settled, Control
  <2>3. LastWord(txRing, peerOff) = peerOff
    BY <2>2, LastNone DEF RingsOK
  <2> QED BY <2>1, <2>3 DEF Settled, FlagsOK
<1>6. CASE TxInterrupt
  <2>1. Sound /\ flow = "XONXOFF" /\ stopped' = stopped /\ txRing # <<>> /\ txRing' = Tail(txRing)
    BY <1>6 DEF TxInterrupt, lineVars
  <2>2. peerOff' = IF Head(txRing) \in Control THEN Head(txRing) = "XOFF" ELSE peerOff
    BY <1>6, Zenon DEF TxInterrupt
  <2>3. LastWord(txRing, peerOff) = LastWord(Tail(txRing), peerOff')
    BY <2>1, <2>2, LastTail, Zenon DEF RingsOK
  <2> QED BY <2>1, <2>3, Zenon DEF PeerKnows
<1>7. CASE UNCHANGED vars
  BY <1>1, <1>7 DEF vars, Sound
<1>8. CASE StartBreak
  <2>1. Sound /\ UNCHANGED <<flow, stopped, peerOff>> /\ txRing = <<>>
        /\ txRing' = Append(txRing, "data")
    BY <1>8 DEF StartBreak, At, peerVars
  <2>2. txRing \in Seq(Bytes)
    BY DEF RingsOK
  <2>3. LastWord(Append(txRing, "data"), peerOff) = LastWord(txRing, peerOff)
    BY <2>2, LastIsSaid, Zenon
  <2> QED BY <2>1, <2>3, Zenon DEF PeerKnows
<1>9. ASSUME ~uart_set_flow, ~CheckWater, ~uart_transfer_data, ~TxInterrupt, ~StartBreak,
             Next, ~UNCHANGED vars
      PROVE  Sound /\ UNCHANGED <<flow, stopped, txRing, peerOff>>
  BY <1>9 DEF Next, Service, port_printf, EndBreak, Attach, PeerSends, PeerWants, At,
              lineVars, peerVars
<1> QED BY <1>1, <1>3, <1>4, <1>5, <1>6, <1>7, <1>8, <1>9

\* The peer is told: the last XON or XOFF on its way, or the last it saw, is
\* the port's own flag, up to the first word dropped.
THEOREM PeerIsTold == Spec => []PeerKnows
BY TypeInit, TypeStep, PeerInit, PeerStep, PTL DEF Spec

LEMMA WeInit == Init => WeKnow
<1> SUFFICES ASSUME Init PROVE LastWord(rxRing, paused) = busy
  BY DEF WeKnow
<1>1. rxRing \in Seq(Bytes) /\ \A i \in 1..Len(rxRing) : rxRing[i] \notin Control
  BY DEF Init
<1> QED BY <1>1, LastNone DEF Init

\* What the peer asked for last is the flag, or in the ring, after every step
\* that does not drop it.
LEMMA WeStep == TypeOK /\ WeKnow /\ [Next]_vars => WeKnow'
<1> SUFFICES ASSUME FlagsOK, RingsOK, CountsOK, WeKnow, [Next]_vars,
                    flow' = "XONXOFF", Sound'
             PROVE  LastWord(rxRing', paused') = busy'
  BY TypeParts DEF WeKnow
<1>1. ASSUME Sound, UNCHANGED <<flow, paused, rxRing, busy>>
      PROVE  LastWord(rxRing', paused') = busy'
  BY <1>1 DEF WeKnow
<1>2. "XON" \in Bytes /\ "XOFF" \in Bytes /\ "XON" \in Control /\ "XOFF" \in Control
      /\ "data" \in Bytes /\ "data" \notin Control
  BY DEF Bytes, Control
<1>3. CASE uart_transfer_data
  <2>1. /\ Sound /\ flow = "XONXOFF" /\ busy' = busy /\ paused' = Heard
        /\ rxRing' = SubSeq(rxRing, Len(Batch) + 1, Len(rxRing))
    BY <1>3, Zenon DEF uart_transfer_data
  <2>2. Heard = LastWord(Batch, paused)
    <3>1. CASE attached
      BY <2>1, <3>1 DEF Heard
    <3>2. CASE ~attached
      <4>1. \A i \in 1..Len(Batch) : ~Word(Batch[i])
        BY <1>3, <3>2 DEF uart_transfer_data, Note, Sound
      <4>2. \A i \in 1..Len(Batch) : Batch[i] \notin Control
        BY <2>1, <4>1, Zenon DEF Word
      <4> QED BY <3>2, <4>2, BatchFits, LastNone, Zenon DEF Heard
    <3> QED BY <3>1, <3>2
  <2>3. LastWord(rxRing, paused) = LastWord(SubSeq(rxRing, Len(Batch) + 1, Len(rxRing)),
                                           LastWord(SubSeq(rxRing, 1, Len(Batch)), paused))
    BY BatchFits, LastSplit, Zenon DEF RingsOK
  <2>4. Batch = SubSeq(rxRing, 1, Len(Batch))
    BY BatchFits, Zenon
  <2> QED BY <2>1, <2>2, <2>3, <2>4, Zenon DEF WeKnow
<1>4. CASE uart_set_flow
  <2>1. Settled(flow') /\ UNCHANGED <<paused, rxRing, busy>>
    BY <1>4 DEF uart_set_flow, Note, Sound, peerVars
  <2>2. \A i \in 1..Len(rxRing) : rxRing[i] \notin Control
    BY <2>1 DEF Settled, Control
  <2>3. LastWord(rxRing, paused) = paused
    BY <2>2, LastNone DEF RingsOK
  <2> QED BY <2>1, <2>3 DEF Settled, FlagsOK
<1>5. ASSUME NEW b \in Bytes, Push(b)
      PROVE  rxRing' = Append(rxRing, b)
  BY <1>5, BufferAssumption DEF Push, Note, Sound, RingsOK
<1>6. CASE PeerSends
  <2>1. Sound /\ flow = "XONXOFF" /\ paused' = paused /\ busy' = busy /\ rxRing' = Append(rxRing, "data")
    BY <1>2, <1>5, <1>6 DEF PeerSends, lineVars
  <2>2. rxRing \in Seq(Bytes)
    BY DEF RingsOK
  <2>3. LastWord(Append(rxRing, "data"), paused) = LastWord(rxRing, paused)
    BY <2>2, LastIsSaid, Zenon
  <2> QED BY <2>1, <2>3, Zenon DEF WeKnow
<1>7. ASSUME NEW silence \in BOOLEAN, PeerWants(silence) PROVE LastWord(rxRing', paused') = busy'
  <2> DEFINE w == IF silence THEN "XOFF" ELSE "XON"
  <2>1. w \in Bytes /\ w \in Control /\ (w = "XOFF") = silence
    BY <1>2
  <2>2. busy' = silence /\ paused' = paused /\ Push(w)
    BY <1>2, <1>7 DEF PeerWants, lineVars, Sound
  <2> HIDE DEF w
  <2>3. rxRing' = Append(rxRing, w)
    BY <1>5, <2>1, <2>2
  <2>4. LastWord(Append(rxRing, w), paused') = (w = "XOFF")
    BY <2>1, LastAppend, Zenon DEF RingsOK
  <2> QED BY <2>1, <2>2, <2>3, <2>4
<1>8. CASE UNCHANGED vars
  BY <1>1, <1>8 DEF vars, Sound
<1>9. CASE CheckWater \/ StartBreak \/ EndBreak \/ TxInterrupt \/ port_printf \/ Attach
           \/ (\E read \in BOOLEAN : Service(read))
  <2>1. Sound /\ UNCHANGED <<flow, paused, rxRing, busy>>
    BY <1>9 DEF Service, port_printf, Attach, CheckWater, StartBreak, EndBreak, TxInterrupt,
                At, lineVars, peerVars
  <2> QED BY <1>1, <2>1
<1> QED BY <1>3, <1>4, <1>6, <1>7, <1>8, <1>9 DEF Next

\* The port knows what its peer asked for last, up to the first XON or XOFF it
\* drops or throws away unread.
THEOREM PeerIsHeard == Spec => []WeKnow
BY TypeInit, TypeStep, WeInit, WeStep, PTL DEF Spec

(***************************************************************************)
(* A stopped port starts again: what RestartAhead needs of the place the   *)
(* loop is at.                                                             *)
(***************************************************************************)
\* After the batch of uart_task the level is still above the mark that
\* uart_task looked for, and one byte is read before it looks again.
RestartInv ==
  stopped =>
    /\ pc \in {"drain", "break", "transfer", "service"} => readBuf > low_water
    /\ pc \in {"drain", "break", "transfer"} => waterlevel > low_water
    /\ \/ waterlevel > low_water
       \/ readBuf > low_water + (IF pc = "service" THEN 1 ELSE 0)

LEMMA RestartStep == TypeOK /\ RestartInv /\ [Next]_vars => RestartInv'
<1> SUFFICES ASSUME RingsOK, CountsOK, RestartInv, [Next]_vars, stopped' PROVE RestartInv'
  BY TypeParts DEF RestartInv
<1> USE BufferAssumption DEF low_water
<1>1. ASSUME UNCHANGED <<stopped, pc, readBuf, waterlevel>> PROVE RestartInv'
  BY <1>1 DEF RestartInv
<1>2. ASSUME NEW read \in BOOLEAN, Service(read) PROVE RestartInv'
  <2>1. /\ pc = "service" /\ pc' \in {"print", "start"}
        /\ stopped' = stopped /\ waterlevel' = waterlevel
        /\ readBuf' = readBuf \/ readBuf' = readBuf - 1
    BY <1>2 DEF Service, At
  <2> QED BY <2>1 DEF RestartInv, CountsOK
<1>3. CASE port_printf
  BY <1>3 DEF port_printf, At, RestartInv, CountsOK
<1>4. CASE CheckWater
  <2>1. /\ pc = "start" /\ pc' \in {"transfer", "drain"}
        /\ waterlevel' = readBuf /\ readBuf' = readBuf
        /\ ~Restart /\ stopped' = stopped
    BY <1>4 DEF CheckWater, At
  <2> QED BY <2>1 DEF Restart, RestartInv, CountsOK
<1>5. CASE uart_transfer_data
  <2>1. /\ (pc = "transfer" /\ pc' = "service") \/ (pc = "yield" /\ pc' \in {"print", "start"})
        /\ waterlevel' = waterlevel /\ readBuf' = readBuf + Kept
    BY <1>5 DEF uart_transfer_data
  <2>2. Kept \in Nat
    BY BatchFits
  <2>3. CASE Crossed
    <3>1. readBuf' >= BufSize - Watermark
      BY <2>1, <2>3 DEF Crossed, high_water
    <3> QED BY <2>1, <2>2, <3>1 DEF RestartInv, CountsOK
  <2>4. CASE ~Crossed
    <3>1. stopped' = stopped
      BY <1>5, <2>4, Zenon DEF uart_transfer_data
    <3> QED BY <2>1, <2>2, <3>1 DEF RestartInv, CountsOK
  <2> QED BY <2>3, <2>4
<1>6. CASE Attach \/ uart_set_flow \/ PeerSends \/ TxInterrupt
           \/ (\E silence \in BOOLEAN : PeerWants(silence)) \/ UNCHANGED vars
  BY <1>1, <1>6 DEF Attach, uart_set_flow, PeerSends, TxInterrupt, PeerWants, vars
<1>7. CASE StartBreak \/ EndBreak
  <2>1. /\ UNCHANGED <<stopped, readBuf, waterlevel>>
        /\ \/ pc = "drain" /\ pc' = "break"
           \/ pc = "break" /\ pc' = "transfer"
    BY <1>7 DEF StartBreak, EndBreak, At
  <2> QED BY <2>1 DEF RestartInv
<1> QED BY <1>2, <1>3, <1>4, <1>5, <1>6, <1>7 DEF Next

\* A port that stopped its peer has the crossing that starts it again ahead,
\* wherever the loop is and whatever it printed meanwhile.
THEOREM RestartComes == Spec => []RestartAhead
<1>1. Init => RestartInv
  BY DEF Init, RestartInv
<1>2. TypeOK /\ RestartInv => RestartAhead
  BY BufferAssumption DEF TypeOK, RestartInv, RestartAhead, low_water
<1> QED BY <1>1, <1>2, TypeInit, TypeStep, RestartStep, PTL DEF Spec

(***************************************************************************)
(* A handshake line loses nothing.                                         *)
(***************************************************************************)
\* What is in the receive ring came since it was last emptied, or from a peer
\* that is held; a ring with more in it stands behind a read buffer that is
\* not about to start the peer.  With a handshake line no XON or XOFF is ever on
\* its way to the peer.
Handshake ==
  /\ txRing \in Seq({"data"})
  /\ stopped => Len(rxRing) <= late

RoomInv ==
  /\ late <= Slack
  /\ ~stopped => readBuf < high_water /\ Len(rxRing) <= fresh
  /\ \/ Len(rxRing) <= fresh
     \/ readBuf > low_water + (IF pc = "service" THEN 1 ELSE 0)
  /\ flow \in Hardware /\ Sound => Handshake

\* The sizes fit: the burst of a pass goes behind the high water mark and into
\* the ring, and so do the bytes of a held peer.  A port that also knows
\* other settings may come to the handshake with a ring as full as it gets.
RoomEnough ==
  /\ Burst <= Watermark + 1 /\ Burst <= RxRing /\ Slack <= RxRing
  /\ \/ RxRing < high_water
     \/ Settings \subseteq Hardware /\ Slack < high_water

\* What the ring of a stopped port may hold fits behind low_water.
LEMMA Backlog ==
  ASSUME RoomEnough, TypeOK, RoomInv, Sound, stopped
  PROVE  Len(rxRing) < high_water
<1> USE BufferAssumption, PeerAssumption
<1>1. Len(rxRing) \in Nat /\ Len(rxRing) <= RxRing /\ flow \in Settings /\ late \in Nat
  BY DEF TypeOK
<1>2. high_water \in Int
  BY DEF high_water
<1>3. CASE RxRing < high_water
  BY <1>1, <1>2, <1>3
<1>4. CASE Settings \subseteq Hardware /\ Slack < high_water
  <2>1. Len(rxRing) <= late /\ late <= Slack
    BY <1>1, <1>4 DEF RoomInv, Handshake
  <2> QED BY <1>1, <1>2, <1>4, <2>1
<1> QED BY <1>3, <1>4 DEF RoomEnough

LEMMA RoomTransfer ==
  ASSUME RoomEnough, TypeOK, RoomInv, uart_transfer_data
  PROVE  RoomInv'
<1> USE BufferAssumption, PeerAssumption DEF low_water, high_water
<1>1. FlagsOK /\ RingsOK /\ CountsOK /\ Sound
  BY TypeParts DEF uart_transfer_data
<1>2. Len(rxRing) \in Nat
  BY <1>1 DEF RingsOK
<1> DEFINE n == Len(Batch)
<1>3. /\ readBuf' = readBuf + Kept /\ fresh' = 0 /\ flow' = flow
      /\ rxRing' = SubSeq(rxRing, n + 1, Len(rxRing))
      /\ Crossed => stopped' = TRUE /\ (flow \in Hardware => late' = 0)
      /\ Crossed => late' = 0 \/ late' = late
      /\ ~Crossed => stopped' = stopped /\ late' = late
  BY <1>1, Zenon DEF uart_transfer_data
<1>4. /\ n \in Nat /\ n = Lesser(Len(rxRing), BufSize - readBuf) /\ Kept \in 0..n
  BY <1>1, BatchFits
<1>5. Len(rxRing') = Len(rxRing) - n
  BY <1>1, <1>3, <1>4 DEF RingsOK, Lesser
<1>6. ASSUME flow \in Hardware PROVE txRing' \in Seq({"data"})
  <2>1. Moved \in Nat /\ txRing \in Seq({"data"})
    BY <1>1, <1>6, LoadedFits DEF RoomInv, Handshake, CountsOK
  <2>2. Loaded \in Seq({"data"})
    <3> DEFINE c == [i \in 1..Moved |-> "data"]
    <3>1. c \in Seq({"data"}) /\ Loaded = txRing \o c
      BY <2>1 DEF Loaded
    <3> HIDE DEF c
    <3> QED BY <2>1, <3>1, ConcatProperties
  <2>3. flow # "XONXOFF"
    BY <1>6 DEF Hardware
  <2> QED BY <2>2, <2>3, Zenon DEF uart_transfer_data, Say
<1> HIDE DEF n
<1>7. late' <= Slack /\ late \in Nat /\ late' \in Nat
  BY <1>1, <1>3 DEF RoomInv, CountsOK
<1>8. CASE ~stopped
  <2>1. Len(rxRing) <= BufSize - readBuf
    BY <1>1, <1>2, <1>8 DEF RoomInv, RoomEnough, CountsOK
  <2>2. Len(rxRing') = 0
    BY <1>1, <1>2, <1>4, <1>5, <2>1 DEF Lesser, CountsOK
  <2>3. ~stopped' => readBuf' < BufSize - Watermark
    BY <1>1, <1>3, <1>4, <1>8 DEF RoomInv, Crossed, CountsOK
  <2>4. flow \in Hardware => Handshake'
    <3>1. Len(rxRing') <= late'
      BY <1>7, <2>2
    <3> QED BY <1>6, <3>1 DEF Handshake
  <2>5. Len(rxRing') <= fresh'
    <3>1. fresh' = 0
      BY <1>3, Zenon
    <3> QED BY ONLY <2>2, <3>1
  <2> QED BY <1>3, <1>7, <2>3, <2>4, <2>5 DEF RoomInv
<1>9. CASE stopped
  <2>1. stopped' = stopped /\ late' = late
    BY <1>3, <1>9 DEF Crossed
  <2>2. Len(rxRing) < BufSize - Watermark
    BY <1>1, <1>9, Backlog
  <2>3. Len(rxRing') = 0 \/ readBuf' > Watermark + 1
    <3>1. CASE Len(rxRing) <= BufSize - readBuf
      BY <1>1, <1>2, <1>4, <1>5, <3>1 DEF Lesser, CountsOK
    <3>2. CASE Len(rxRing) > BufSize - readBuf
      <4>1. readBuf > Watermark + 1
        BY <1>1, <1>2, <2>2, <3>2 DEF CountsOK
      <4> QED BY <1>1, <1>3, <1>4, <4>1 DEF CountsOK
    <3> QED BY <1>1, <1>2, <3>1, <3>2 DEF CountsOK
  <2>4. readBuf' \in Nat
    BY <1>1, <1>3, <1>4 DEF CountsOK
  <2>5. flow \in Hardware => Handshake'
    <3>1. ASSUME flow \in Hardware PROVE Len(rxRing') <= late'
      <4>1. Len(rxRing) <= late
        BY <1>1, <1>9, <3>1 DEF RoomInv, Handshake
      <4> QED BY <1>2, <1>4, <1>5, <1>7, <2>1, <4>1
    <3> QED BY <1>6, <3>1 DEF Handshake
  <2>6. \/ Len(rxRing') <= fresh'
        \/ readBuf' > Watermark + (IF pc' = "service" THEN 1 ELSE 0)
    <3>1. fresh' = 0
      BY <1>3, Zenon
    <3> QED BY BufferAssumption, <2>3, <2>4, <3>1
  <2> QED BY <1>3, <1>7, <1>9, <2>1, <2>5, <2>6 DEF RoomInv
<1> QED BY <1>8, <1>9

\* A byte that comes finds room, if it comes over a handshake line.
LEMMA RoomPeerSends ==
  ASSUME RoomEnough, TypeOK, LineFollowsBuffer, RoomInv, PeerSends
  PROVE  RoomInv' /\ NoOverrun'
<1> USE BufferAssumption, PeerAssumption DEF low_water, high_water
<1>1. FlagsOK /\ RingsOK /\ CountsOK /\ Sound
  BY TypeParts DEF PeerSends
<1>2. Len(rxRing) \in Nat /\ late \in Nat /\ fresh \in Nat
  BY <1>1 DEF RingsOK, CountsOK
<1>3. /\ UNCHANGED <<flow, stopped, readBuf, txRing, pc>> /\ fresh < Burst /\ fresh' = fresh + 1
      /\ rxRing' = IF Len(rxRing) < RxRing THEN Append(rxRing, "data") ELSE rxRing
      /\ mishap' = IF Len(rxRing) >= RxRing THEN "overrun" ELSE "none"
      /\ PeerHeld => late < Slack /\ late' = late + 1
      /\ ~PeerHeld => late' = late
  BY Zenon DEF PeerSends, Push, Note, lineVars
<1>4. Len(rxRing') \in Nat /\ Len(rxRing') <= Len(rxRing) + 1
  BY <1>1, <1>2, <1>3 DEF RingsOK
<1>5. late' <= Slack
  BY <1>2, <1>3 DEF RoomInv
<1>6. flow \in Hardware => (PeerHeld <=> stopped)
  BY <1>1 DEF PeerHeld, LineFollowsBuffer, Hardware, FlagsOK
<1>7. ASSUME flow \in Hardware PROVE Len(rxRing) < RxRing /\ Handshake'
  <2>1. CASE stopped
    <3>1. Len(rxRing) <= late /\ late < Slack /\ late' = late + 1
      BY <1>1, <1>3, <1>6, <1>7, <2>1 DEF RoomInv, Handshake
    <3>2. Len(rxRing) < RxRing
      BY <1>2, <3>1 DEF RoomEnough
    <3>3. Len(rxRing') <= late'
      BY <1>2, <1>4, <3>1
    <3> QED BY <1>1, <1>3, <1>7, <3>2, <3>3 DEF RoomInv, Handshake
  <2>2. CASE ~stopped
    <3>1. Len(rxRing) < RxRing
      BY <1>2, <1>3, <2>2 DEF RoomInv, RoomEnough
    <3> QED BY <1>1, <1>3, <1>7, <2>2, <3>1 DEF RoomInv, Handshake
  <2> QED BY <2>1, <2>2
<1>8. NoOverrun'
  <2>1. flow \in Hardware => ~(Len(rxRing) >= RxRing)
    BY <1>2, <1>7
  <2> QED BY <1>3, <2>1 DEF NoOverrun
<1>9. RoomInv'
  <2>1. ~stopped' => readBuf' < BufSize - Watermark /\ Len(rxRing') <= fresh'
    BY <1>2, <1>3, <1>4 DEF RoomInv
  <2>2. \/ Len(rxRing') <= fresh'
        \/ readBuf' > Watermark + (IF pc' = "service" THEN 1 ELSE 0)
    BY <1>2, <1>3, <1>4 DEF RoomInv
  <2> QED BY <1>3, <1>5, <1>7, <2>1, <2>2 DEF RoomInv
<1> QED BY <1>8, <1>9

LEMMA RoomStep ==
  ASSUME RoomEnough, TypeOK, LineFollowsBuffer, RoomInv, NoOverrun, [Next]_vars
  PROVE  RoomInv' /\ NoOverrun'
<1> USE BufferAssumption, PeerAssumption DEF low_water, high_water
<1>1. FlagsOK /\ RingsOK /\ CountsOK
  BY TypeParts
<1>2. Len(rxRing) \in Nat
  BY <1>1 DEF RingsOK
<1>3. ASSUME UNCHANGED <<flow, late, stopped, readBuf, rxRing, txRing, fresh, pc, mishap>>
      PROVE  RoomInv' /\ NoOverrun'
  BY <1>3 DEF RoomInv, Handshake, NoOverrun, Sound
<1>4. ASSUME NEW read \in BOOLEAN, Service(read) PROVE RoomInv' /\ NoOverrun'
  <2>1. /\ pc = "service" /\ pc' \in {"print", "start"}
        /\ UNCHANGED <<flow, stopped, rxRing, txRing, late, fresh, mishap>>
        /\ readBuf' = readBuf \/ readBuf' = readBuf - 1
    BY <1>4 DEF Service, At, peerVars
  <2>2. NoOverrun'
    BY <2>1 DEF NoOverrun
  <2> QED BY <1>1, <1>2, <2>1, <2>2 DEF RoomInv, Handshake, Sound, CountsOK
<1>5. CASE port_printf
  <2>1. /\ pc = "print" /\ pc' = "yield"
        /\ UNCHANGED <<flow, stopped, readBuf, rxRing, txRing, late, fresh, mishap>>
    BY <1>5 DEF port_printf, At, peerVars
  <2> QED BY <2>1 DEF RoomInv, Handshake, NoOverrun, Sound
<1>6. CASE CheckWater
  <2>1. /\ pc = "start" /\ pc' \in {"transfer", "drain"} /\ Sound
        /\ UNCHANGED <<flow, readBuf, rxRing, late, fresh>>
        /\ flow \in Hardware => txRing' = txRing
        /\ IF Restart THEN stopped' = FALSE /\ readBuf <= Watermark ELSE stopped' = stopped
        /\ mishap' # "overrun"
    BY <1>6 DEF CheckWater, At, peerVars, Say, Hardware, Note, Restart, Sound
  <2>2. Handshake /\ flow \in Hardware => Handshake'
    BY <2>1 DEF Handshake, Restart
  <2> QED BY <1>1, <1>2, <2>1, <2>2 DEF RoomInv, NoOverrun, CountsOK
<1>7. CASE uart_transfer_data
  <2>1. mishap' # "overrun"
    BY <1>7 DEF uart_transfer_data, Note
  <2> QED BY <1>7, <2>1, RoomTransfer DEF NoOverrun
<1>8. CASE Attach
  BY <1>3, <1>8 DEF Attach, peerVars
<1>9. CASE uart_set_flow
  <2>1. /\ Sound /\ UNCHANGED <<late, stopped, readBuf, rxRing, txRing, fresh, pc>>
        /\ mishap' = IF ~Settled(flow') THEN "stranded" ELSE "none"
    BY <1>9 DEF uart_set_flow, At, peerVars, Note
  <2>2. NoOverrun'
    BY <2>1 DEF NoOverrun
  <2>3. Sound' => Handshake'
    <3> SUFFICES ASSUME Sound' PROVE Handshake'
      OBVIOUS
    <3>1. ~stopped /\ \A i \in 1..Len(txRing) : txRing[i] = "data"
      BY <2>1 DEF Sound, Settled
    <3>2. txRing \in Seq({"data"})
      <4>1. txRing \in Seq(Bytes)
        BY <1>1 DEF RingsOK
      <4> QED BY <3>1, <4>1
    <3> QED BY <2>1, <3>1, <3>2 DEF Handshake
  <2> QED BY <2>1, <2>2, <2>3 DEF RoomInv
<1>10. CASE PeerSends
  BY <1>10, RoomPeerSends
<1>11. CASE TxInterrupt
  <2>1. UNCHANGED <<flow, stopped, readBuf, rxRing, fresh, pc, mishap>> /\ Sound
    BY <1>11 DEF TxInterrupt, lineVars
  <2>2. txRing # <<>> /\ txRing' = Tail(txRing)
    BY <1>11 DEF TxInterrupt
  <2>3. late' = late \/ late' = 0
    BY <1>11, Zenon DEF TxInterrupt
  <2>4. Handshake /\ flow \in Hardware => Handshake'
    <3> SUFFICES ASSUME Handshake PROVE Handshake'
      OBVIOUS
    <3>1. Head(txRing) = "data" /\ txRing' \in Seq({"data"})
      BY <2>2 DEF Handshake
    <3>2. late' = late
      BY <1>11, <3>1, Zenon DEF TxInterrupt, Control
    <3> QED BY <2>1, <3>1, <3>2 DEF Handshake
  <2> QED BY <2>1, <2>3, <2>4 DEF RoomInv, NoOverrun
<1>12. ASSUME NEW silence \in BOOLEAN, PeerWants(silence) PROVE RoomInv' /\ NoOverrun'
  <2>1. UNCHANGED <<flow, late, stopped, readBuf, txRing, pc>> /\ Sound
    BY <1>12 DEF PeerWants, lineVars
  <2>2. CASE flow = "XONXOFF" /\ pc # "break"
    <3>1. /\ fresh' = fresh + 1 /\ fresh \in Nat
          /\ \E b \in Control : rxRing' = IF Len(rxRing) < RxRing THEN Append(rxRing, b) ELSE rxRing
      BY <1>1, <1>12, <2>2 DEF PeerWants, Push, Control, CountsOK
    <3>2. Len(rxRing') \in Nat /\ Len(rxRing') <= Len(rxRing) + 1
      BY <1>1, <1>2, <3>1 DEF RingsOK, Bytes
    <3>3. flow' \notin Hardware
      BY <2>1, <2>2 DEF Hardware
    <3> QED BY <1>2, <2>1, <3>1, <3>2, <3>3 DEF RoomInv, NoOverrun
  <2>3. CASE flow # "XONXOFF"
    <3>1. UNCHANGED <<fresh, rxRing, mishap>>
      BY <1>12, <2>3 DEF PeerWants
    <3> QED BY <1>3, <2>1, <3>1
  <2>4. CASE flow = "XONXOFF" /\ pc = "break"
    <3>1. UNCHANGED <<fresh, rxRing>> /\ mishap' = "garbled"
      BY <1>12, <2>4 DEF PeerWants
    <3>2. flow' \notin Hardware
      BY <2>1, <2>4 DEF Hardware
    <3> QED BY <2>1, <3>1, <3>2 DEF RoomInv, NoOverrun
  <2> QED BY <2>2, <2>3, <2>4
<1>13. CASE StartBreak
  <2>1. /\ Sound /\ UNCHANGED <<flow, late, stopped, readBuf, rxRing, fresh, mishap>>
        /\ pc = "drain" /\ pc' = "break" /\ txRing' \in Seq({"data"})
    BY <1>13 DEF StartBreak, At, peerVars
  <2> QED BY <2>1 DEF RoomInv, Handshake, NoOverrun, Sound
<1>14. CASE EndBreak
  <2>1. /\ UNCHANGED <<flow, late, stopped, readBuf, rxRing, txRing, fresh, mishap>>
        /\ pc = "break" /\ pc' = "transfer"
    BY <1>14 DEF EndBreak, At, peerVars
  <2> QED BY <2>1 DEF RoomInv, Handshake, NoOverrun, Sound
<1>15. CASE UNCHANGED vars
  BY <1>3, <1>15 DEF vars
<1> QED BY <1>4, <1>5, <1>6, <1>7, <1>8, <1>9, <1>10, <1>11, <1>12, <1>13, <1>14, <1>15
        DEF Next

\* With a handshake line, and buffers that fit the burst of one pass and what a
\* held peer still sends, the receive interrupt never drops a byte.
THEOREM HandshakeLosesNothing == RoomEnough => (Spec => []NoOverrun)
<1> SUFFICES ASSUME RoomEnough PROVE Spec => []NoOverrun
  OBVIOUS
<1>1. Init => RoomInv /\ NoOverrun
  <2> SUFFICES ASSUME Init PROVE RoomInv /\ NoOverrun
    OBVIOUS
  <2>1. rxRing = <<>> /\ readBuf = 0 /\ late = 0 /\ fresh = 0 /\ stopped = FALSE /\ mishap = "none"
    BY DEF Init
  <2>2. flow \in Hardware => txRing = <<>>
    BY DEF Init, Hardware
  <2>3. Len(rxRing) = 0 /\ (flow \in Hardware => Handshake)
    <3>1. <<>> \in Seq({"data"}) /\ Len(<<>>) = 0
      OBVIOUS
    <3>2. ~stopped /\ rxRing = <<>>
      BY <2>1
    <3> QED BY <2>2, <3>1, <3>2, Zenon DEF Handshake
  <2> QED BY <2>1, <2>3, BufferAssumption, PeerAssumption
          DEF RoomInv, NoOverrun, low_water, high_water
<1>2. TypeOK /\ LineFollowsBuffer /\ RoomInv /\ NoOverrun /\ [Next]_vars => RoomInv' /\ NoOverrun'
  BY RoomStep
<1> QED BY <1>1, <1>2, TypeInit, TypeStep, LineInit, LineStep, PTL DEF Spec
=============================================================================
