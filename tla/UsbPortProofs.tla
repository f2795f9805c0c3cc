---------------------------- MODULE UsbPortProofs ----------------------------
(***************************************************************************)
(* One USB port with buffers and packets of any size: the transfers are    *)
(* never lost or doubled, and the reader sees the bytes that finished      *)
(* reads report, each once and in order (ByteStream).                      *)
(***************************************************************************)
EXTENDS UsbPort, SequenceTheorems, TLAPS

(***************************************************************************)
(* The inductive invariants.                                               *)
(***************************************************************************)
\* Where a read can be: the flag and the request exclude each other, neither
\* is there before the first read or while the next one is being started, and
\* after a forgotten packet there is never one again.
ReadInv ==
  /\ ~(readIrp /\ read_complete)
  /\ pc \in {"boot", "bootRead", "resubmit"} => ~readIrp /\ ~read_complete
  /\ Served /\ pc \notin {"boot", "bootRead", "resubmit"} => readIrp \/ read_complete
  /\ pc \in {"boot", "bootRead"} => Served
  /\ pc = "bootClear" /\ ~Served => ~readIrp /\ ~read_complete
  /\ mishap = "forgotten" => /\ ~readIrp /\ ~read_complete
                             /\ pc \notin {"bootClear", "resubmit"}

\* Where a write can be.
WriteInv ==
  /\ writeIrp \/ pc = "submit" => write_running
  /\ pc = "submit" => ~writeIrp
  /\ Served /\ write_running => writeIrp \/ pc = "submit"

\* Number i of the bytes of s, when the last of them is number "upto".
Ends(s, upto) == \A i \in 1..Len(s) : s[i] = upto - Len(s) + i

\* The write buffer holds the bytes written last, the packet under way the
\* ones before them, and the host has had none of either.
OutInv ==
  /\ Ends(writeBuf, written) /\ Len(writeBuf) <= written
  /\ hostGot <= written - Len(writeBuf)
  /\ writeIrp \/ pc = "submit" =>
       /\ outPacket # <<>>
       /\ Len(outPacket) + Len(writeBuf) <= written
       /\ Ends(outPacket, written - Len(writeBuf))
       /\ hostGot <= written - Len(writeBuf) - Len(outPacket)

Inv == TypeOK /\ ReadInv /\ WriteInv /\ OutInv

(***************************************************************************)
(* Pieces of sequences, and runs of numbers.                               *)
(***************************************************************************)
LEMMA Piece ==
  ASSUME NEW S, NEW s \in Seq(S), NEW i \in Nat \ {0}, NEW j \in Nat,
         j <= Len(s)
  PROVE  /\ SubSeq(s, i, j) \in Seq(S)
         /\ Len(SubSeq(s, i, j)) = IF i <= j THEN j - i + 1 ELSE 0
         /\ \A k \in 1..Len(SubSeq(s, i, j)) : SubSeq(s, i, j)[k] = s[i + k - 1]
<1>1. \A k \in i..j : s[k] \in S
  BY ElementOfSeq
<1>2. /\ SubSeq(s, i, j) \in Seq(S)
      /\ Len(SubSeq(s, i, j)) = IF i <= j THEN j - i + 1 ELSE 0
      /\ \A k \in 1..j - i + 1 : SubSeq(s, i, j)[k] = s[i + k - 1]
  BY <1>1, SubSeqProperties
<1> QED BY <1>2

LEMMA Beginning ==
  ASSUME NEW S, NEW s \in Seq(S), NEW j \in Nat, j <= Len(s)
  PROVE  /\ SubSeq(s, 1, j) \in Seq(S)
         /\ Len(SubSeq(s, 1, j)) = j
         /\ \A k \in 1..Len(SubSeq(s, 1, j)) : SubSeq(s, 1, j)[k] = s[k]
<1>1. \A k \in 1..j : s[k] \in S
  BY ElementOfSeq
<1>2. /\ SubSeq(s, 1, j) \in Seq(S)
      /\ Len(SubSeq(s, 1, j)) = IF 1 <= j THEN j - 1 + 1 ELSE 0
      /\ \A k \in 1..j - 1 + 1 : SubSeq(s, 1, j)[k] = s[1 + k - 1]
  BY <1>1, SubSeqProperties
<1> QED BY <1>2

LEMMA NumbersType ==
  ASSUME NEW S, NEW from \in Int, NEW n \in Nat, \A i \in 1..n : from + i \in S
  PROVE  /\ Numbers(from, n) \in Seq(S)
         /\ Len(Numbers(from, n)) = n
         /\ \A i \in 1..n : Numbers(from, n)[i] = from + i
  BY DEF Numbers

(***************************************************************************)
(* Types, in three parts.                                                  *)
(***************************************************************************)
Flags ==
  /\ configured \in BOOLEAN /\ endpoint \in BOOLEAN /\ plugged \in BOOLEAN
  /\ readIrp \in BOOLEAN /\ writeIrp \in BOOLEAN
  /\ read_complete \in BOOLEAN /\ write_running \in BOOLEAN

Buffers ==
  /\ packet \in Seq(0..MaxIn) /\ Len(packet) <= PacketSize
  /\ outPacket \in Seq(1..MaxOut) /\ Len(outPacket) <= PacketSize
  /\ readBuf \in Seq(0..MaxIn) /\ Len(readBuf) <= BufSize
  /\ writeBuf \in Seq(1..MaxOut) /\ Len(writeBuf) <= BufSize

Scalars ==
  /\ pos \in 0..PacketSize
  /\ pc \in {"boot", "bootRead", "bootClear", "loop", "write", "submit", "read",
             "resubmit"}
  /\ hostSent \in 0..MaxIn /\ out \in 0..MaxIn
  /\ written \in 0..MaxOut /\ hostGot \in 0..MaxOut
  /\ mishap \in Mishaps

LEMMA TypeParts ==
  /\ TypeOK <=> Flags /\ Buffers /\ Scalars
  /\ TypeOK' <=> Flags' /\ Buffers' /\ Scalars'
  BY DEF TypeOK, Flags, Buffers, Scalars

LEMMA InitInv == Init => Inv
<1> SUFFICES ASSUME Init PROVE Inv
  OBVIOUS
<1> USE SizeAssumption DEF Init
<1>1. /\ <<>> \in Seq(0..MaxIn) /\ <<>> \in Seq(1..MaxOut)
      /\ Len(<<>>) = 0
  OBVIOUS
<1>2. Flags
  BY DEF Flags
<1>3. Buffers
  BY <1>1 DEF Buffers
<1>4. Scalars
  BY DEF Scalars, Mishaps
<1>5. ReadInv
  BY DEF ReadInv, Served
<1>6. WriteInv
  BY DEF WriteInv
<1>7. OutInv
  BY <1>1 DEF OutInv, Ends
<1> QED BY <1>2, <1>3, <1>4, <1>5, <1>6, <1>7, TypeParts DEF Inv

LEMMA TakeOutType == Inv /\ TakeOut => TypeOK'
<1> SUFFICES ASSUME Inv, TakeOut PROVE TypeOK'
  OBVIOUS
<1> USE SizeAssumption DEF Inv, TakeOut, busVars, inVars, userVars, outVars
<1>1. Flags'
  BY TypeParts DEF Flags
<1>2. Scalars'
  BY TypeParts DEF Scalars
<1>3. Buffers'
  <2> USE DEF Buffers
  <2>1. CASE ~CanWrite
    BY <2>1, TypeParts
  <2>2. CASE CanWrite
    <3> DEFINE a == Lesser(Len(writeBuf), PacketSize)
               s == SubSeq(writeBuf, 1, a)
               t == SubSeq(writeBuf, a + 1, Len(writeBuf))
    <3>1. outPacket' = s /\ writeBuf' = t
      BY <2>2
    <3>2. /\ a \in Nat /\ a <= Len(writeBuf) /\ a <= PacketSize
          /\ writeBuf \in Seq(1..MaxOut) /\ Len(writeBuf) \in Nat
      BY TypeParts DEF Lesser
    <3> HIDE DEF a
    <3>3. s \in Seq(1..MaxOut) /\ Len(s) <= PacketSize
      BY <3>2, Piece
    <3>4. /\ t \in Seq(1..MaxOut)
          /\ Len(t) = IF a + 1 <= Len(writeBuf) THEN Len(writeBuf) - a ELSE 0
      BY <3>2, Piece
    <3> HIDE DEF s, t
    <3> QED BY <3>1, <3>2, <3>3, <3>4, TypeParts
  <2> QED BY <2>1, <2>2
<1> QED BY <1>1, <1>2, <1>3, TypeParts

\* The bytes MoveIn moves.
LEMMA Moved ==
  ASSUME Inv, MoveIn, ~(read_complete /\ PacketDone)
  PROVE  \E n \in Nat :
           LET s == SubSeq(packet, pos + 1, pos + n)
           IN  /\ readBuf' = readBuf \o s /\ pos' = pos + n
               /\ s \in Seq(0..MaxIn) /\ Len(s) = n
               /\ readBuf \o s \in Seq(0..MaxIn)
               /\ Len(readBuf \o s) = Len(readBuf) + n
               /\ n <= BufSize - Len(readBuf)
               /\ pos + n <= PacketSize
               /\ read_complete => pos + n <= Len(packet)
               /\ ~read_complete => n = 0
<1> USE SizeAssumption DEF Inv
<1> DEFINE n == IF read_complete THEN Lesser(Len(packet) - pos, Room) ELSE 0
           s == SubSeq(packet, pos + 1, pos + n)
<1>1. readBuf' = readBuf \o s /\ pos' = pos + n
  BY DEF MoveIn
<1>2. /\ packet \in Seq(0..MaxIn) /\ Len(packet) \in 0..PacketSize
      /\ readBuf \in Seq(0..MaxIn) /\ Len(readBuf) \in 0..BufSize
      /\ pos \in 0..PacketSize
  BY TypeParts DEF Buffers, Scalars
<1>3. /\ n \in Nat /\ n <= BufSize - Len(readBuf) /\ pos + n <= PacketSize
      /\ read_complete => pos + n <= Len(packet)
      /\ ~read_complete => n = 0
  BY <1>2 DEF Lesser, Room, PacketDone
<1> HIDE DEF n
<1>4. s \in Seq(0..MaxIn) /\ Len(s) = n
  <2>1. CASE n > 0
    <3>1. pos + 1 \in Nat \ {0} /\ pos + n \in Nat /\ pos + n <= Len(packet)
      BY <1>2, <1>3, <2>1
    <3> QED BY <3>1, <1>2, <1>3, <2>1, Piece
  <2>2. CASE n = 0
    <3>1. pos + 1 \in Int /\ pos + n \in Int /\ pos + n < pos + 1
      BY <1>2, <2>2
    <3>2. s = <<>>
      BY <3>1, SubSeqEmpty
    <3> HIDE DEF s
    <3> QED BY <3>2, <2>2
  <2> QED BY <2>1, <2>2, <1>3
<1> HIDE DEF s
<1>5. readBuf \o s \in Seq(0..MaxIn) /\ Len(readBuf \o s) = Len(readBuf) + n
  BY <1>2, <1>4, ConcatProperties
<1> USE DEF s
<1> QED BY <1>1, <1>3, <1>4, <1>5

LEMMA MoveInType == Inv /\ MoveIn => TypeOK'
<1> SUFFICES ASSUME Inv, MoveIn PROVE TypeOK'
  OBVIOUS
<1> USE SizeAssumption DEF Inv, busVars, inVars, userVars, outVars
<1>1. Flags'
  BY TypeParts DEF Flags, MoveIn
<1>2. CASE read_complete /\ PacketDone
  <2>1. Scalars'
    BY <1>2, TypeParts DEF Scalars, MoveIn
  <2>2. Buffers'
    BY <1>2, TypeParts DEF Buffers, MoveIn
  <2> QED BY <1>1, <2>1, <2>2, TypeParts
<1>3. CASE ~(read_complete /\ PacketDone)
  <2>1. PICK n \in Nat :
          LET s == SubSeq(packet, pos + 1, pos + n)
          IN  /\ readBuf' = readBuf \o s /\ pos' = pos + n
              /\ readBuf \o s \in Seq(0..MaxIn)
              /\ Len(readBuf \o s) = Len(readBuf) + n
              /\ n <= BufSize - Len(readBuf)
              /\ pos + n <= PacketSize
    BY <1>3, Moved
  <2>2. pc' = "loop"
    BY <1>3 DEF MoveIn
  <2>3. readBuf' \in Seq(0..MaxIn) /\ Len(readBuf') <= BufSize
    BY <2>1, TypeParts DEF Buffers
  <2>4. pos' \in 0..PacketSize
    <3>1. pos \in 0..PacketSize /\ PacketSize \in Nat
      BY SizeAssumption, TypeParts DEF Scalars
    <3>2. pos' = pos + n /\ pos + n <= PacketSize
      BY <2>1
    <3> QED BY <3>1, <3>2
  <2>5. Scalars'
    BY <2>2, <2>4, TypeParts DEF Scalars, MoveIn
  <2>6. Buffers'
    BY <2>3, TypeParts DEF Buffers, MoveIn
  <2> QED BY <1>1, <2>5, <2>6, TypeParts
<1> QED BY <1>2, <1>3

\* The bytes the host sends.
LEMMA Sent ==
  ASSUME Inv, HostSends
  PROVE  \E n \in Nat :
           /\ n <= PacketSize /\ hostSent + n <= MaxIn
           /\ hostSent' = hostSent + n /\ packet' = Numbers(hostSent, n)
           /\ packet' \in Seq(0..MaxIn) /\ Len(packet') = n
<1> USE SizeAssumption
<1>1. hostSent \in 0..MaxIn
  BY TypeParts DEF Inv, Scalars
<1>2. PICK n \in 0..Lesser(PacketSize, MaxIn - hostSent) :
        packet' = Numbers(hostSent, n) /\ hostSent' = hostSent + n
  BY DEF HostSends, ReadComplete
<1>3. n \in Nat /\ n <= PacketSize /\ hostSent + n <= MaxIn
  BY <1>1 DEF Lesser
<1>4. Numbers(hostSent, n) \in Seq(0..MaxIn) /\ Len(Numbers(hostSent, n)) = n
  <2>1. \A i \in 1..n : hostSent + i \in 1..MaxIn
    BY <1>1, <1>3
  <2> QED BY <1>1, <1>3, <2>1, NumbersType
<1> QED BY <1>2, <1>3, <1>4

LEMMA HostSendsType == Inv /\ HostSends => TypeOK'
<1> SUFFICES ASSUME Inv, HostSends PROVE TypeOK'
  OBVIOUS
<1> USE SizeAssumption, TypeParts
    DEF Inv, HostSends, ReadComplete, busVars, inVars, userVars, outVars
<1>1. Flags'
  BY DEF Flags
<1>2. PICK n \in Nat :
        /\ n <= PacketSize /\ hostSent + n <= MaxIn
        /\ hostSent' = hostSent + n
        /\ packet' \in Seq(0..MaxIn) /\ Len(packet') = n
  BY Sent
<1>3. Buffers'
  BY <1>2 DEF Buffers
<1>4. Scalars'
  BY <1>2 DEF Scalars
<1> QED BY <1>1, <1>3, <1>4

LEMMA NextType == Inv /\ [Next]_vars => TypeOK'
<1> SUFFICES ASSUME Inv, [Next]_vars PROVE TypeOK'
  OBVIOUS
<1> USE SizeAssumption
    DEF Inv, TypeOK, Mishaps, Note, Served, busVars, inVars, outVars, userVars
<1>1. CASE TakeOut
  BY <1>1, TakeOutType
<1>2. CASE MoveIn
  BY <1>2, MoveInType
<1>3. CASE HostSends
  BY <1>3, HostSendsType
<1>4. CASE ReadByte
  BY <1>4, HeadTailProperties DEF ReadByte
<1>5. CASE WriteByte
  BY <1>5, AppendProperties DEF WriteByte
<1>6. CASE HostTakes
  <2>1. outPacket # <<>> /\ Len(outPacket) \in 1..Len(outPacket)
    BY <1>6 DEF HostTakes, OutInv
  <2>2. Last(outPacket) \in 1..MaxOut
    BY <2>1, ElementOfSeq DEF Last
  <2>3. Flags'
    BY <1>6, TypeParts DEF HostTakes, WriteComplete, Flags
  <2>4. Buffers'
    BY <1>6, TypeParts DEF HostTakes, Buffers
  <2>5. Scalars'
    BY <1>6, <2>2, TypeParts DEF HostTakes, Scalars
  <2> QED BY <2>3, <2>4, <2>5, TypeParts
<1>7. CASE Reset
  <2>1. /\ packet' = packet \/ packet' = <<>>
        /\ pos' = pos \/ pos' = 0
    BY <1>7 DEF Reset, Cancelled, ReadComplete
  <2>2. <<>> \in Seq(0..MaxIn) /\ Len(<<>>) = 0
    OBVIOUS
  <2>3. read_complete' \in BOOLEAN /\ readIrp' \in BOOLEAN
    BY <1>7 DEF Reset, Cancelled, ReadComplete
  <2>4. write_running' \in BOOLEAN
    BY <1>7 DEF Reset, WriteComplete
  <2>5. Flags'
    BY <1>7, <2>3, <2>4, TypeParts DEF Reset, Flags
  <2>6. Buffers'
    <3>1. packet' \in Seq(0..MaxIn) /\ Len(packet') <= PacketSize
      <4>1. CASE packet' = packet
        BY <4>1, TypeParts DEF Buffers
      <4>2. CASE packet' = <<>>
        BY <4>2, <2>2
      <4> QED BY <2>1, <4>1, <4>2
    <3> QED BY <1>7, <3>1, TypeParts DEF Reset, Buffers
  <2>7. Scalars'
    BY <1>7, <2>1, TypeParts DEF Reset, Scalars
  <2> QED BY <2>5, <2>6, <2>7, TypeParts
<1>8. CASE BootWait \/ BootRead \/ BootClear
  <2>1. Flags'
    BY <1>8, TypeParts DEF BootWait, BootRead, BootClear, Flags
  <2>2. Buffers'
    BY <1>8, TypeParts DEF BootWait, BootRead, BootClear, Buffers
  <2>3. Scalars'
    BY <1>8, TypeParts DEF BootWait, BootRead, BootClear, Scalars
  <2> QED BY <2>1, <2>2, <2>3, TypeParts
<1>9. CASE usb_task \/ fn_yield \/ SubmitWrite \/ SubmitRead
  <2>1. Flags'
    BY <1>9, TypeParts DEF usb_task, fn_yield, Enter, SubmitWrite, SubmitRead, Flags
  <2>2. Buffers'
    BY <1>9, TypeParts DEF usb_task, fn_yield, Enter, SubmitWrite, SubmitRead, Buffers
  <2>3. Scalars'
    BY <1>9, TypeParts DEF usb_task, fn_yield, Enter, SubmitWrite, SubmitRead, Scalars
  <2> QED BY <2>1, <2>2, <2>3, TypeParts
<1>10. CASE PowerRemoved
  <2>1. Flags'
    BY <1>10, TypeParts DEF PowerRemoved, Flags
  <2>2. Buffers' /\ Scalars'
    BY <1>10, TypeParts DEF PowerRemoved, inVars, outVars, userVars, Buffers, Scalars
  <2> QED BY <2>1, <2>2, TypeParts
<1>12. CASE SetConfiguration
  BY <1>12 DEF SetConfiguration
<1>13. CASE Configured
  BY <1>13 DEF Configured
<1>14. CASE ReadTerminated
  <2>1. /\ packet' \in Seq(0..MaxIn) /\ Len(packet') = PacketSize
        /\ pos' = 0 /\ read_complete' = TRUE /\ readIrp' = FALSE
    BY <1>14 DEF ReadTerminated, ReadComplete
  <2>2. Flags'
    BY <1>14, <2>1, TypeParts DEF ReadTerminated, Flags
  <2>3. Buffers'
    BY <1>14, <2>1, TypeParts DEF ReadTerminated, Buffers
  <2>4. Scalars'
    BY <1>14, <2>1, TypeParts DEF ReadTerminated, Scalars
  <2> QED BY <2>2, <2>3, <2>4, TypeParts
<1>15. CASE WriteTerminated
  <2>1. Flags'
    BY <1>15, TypeParts DEF WriteTerminated, WriteComplete, Flags
  <2>2. Buffers'
    BY <1>15, TypeParts DEF WriteTerminated, Buffers
  <2>3. Scalars'
    BY <1>15, TypeParts DEF WriteTerminated, Scalars
  <2> QED BY <2>1, <2>2, <2>3, TypeParts
<1>11. CASE UNCHANGED vars
  BY <1>11 DEF vars
<1> QED BY <1>1, <1>2, <1>3, <1>4, <1>5, <1>6, <1>7, <1>8, <1>9, <1>10, <1>11,
        <1>12, <1>13, <1>14, <1>15 DEF Next, Loop

(***************************************************************************)
(* Reads and writes.                                                       *)
(***************************************************************************)
LEMMA NextRead == Inv /\ [Next]_vars => ReadInv'
<1> SUFFICES ASSUME Inv, [Next]_vars PROVE ReadInv'
  OBVIOUS
<1>1. ReadInv /\ readIrp \in BOOLEAN /\ endpoint \in BOOLEAN
      /\ read_complete \in BOOLEAN /\ mishap \in Mishaps
  BY TypeParts DEF Inv, Flags, Scalars
<1> USE <1>1 DEF ReadInv, Mishaps, Note, Served, busVars, inVars, outVars, userVars
<1>2. CASE BootWait
  BY <1>2 DEF BootWait
<1>3. CASE BootRead
  BY <1>3 DEF BootRead
<1>4. CASE BootClear
  BY <1>4 DEF BootClear
<1>5. CASE usb_task \/ fn_yield
  BY <1>5 DEF usb_task, fn_yield, Enter
<1>6. CASE TakeOut
  BY <1>6 DEF TakeOut
<1>7. CASE SubmitWrite
  BY <1>7 DEF SubmitWrite
<1>8. CASE MoveIn
  BY <1>8 DEF MoveIn
<1>9. CASE SubmitRead
  BY <1>9 DEF SubmitRead
<1>10. CASE ReadByte \/ WriteByte
  BY <1>10 DEF ReadByte, WriteByte
<1>11. CASE HostSends
  BY <1>11 DEF HostSends, ReadComplete
<1>12. CASE HostTakes
  BY <1>12 DEF HostTakes
<1>13. CASE Reset
  BY <1>13 DEF Reset, Cancelled, ReadComplete
<1>14. CASE PowerRemoved \/ SetConfiguration \/ Configured
  BY <1>14 DEF PowerRemoved, SetConfiguration, Configured
<1>15. CASE UNCHANGED vars
  BY <1>15 DEF vars
<1>16. CASE ReadTerminated
  BY <1>16 DEF ReadTerminated, ReadComplete
<1>17. CASE WriteTerminated
  BY <1>17 DEF WriteTerminated
<1> QED BY <1>2, <1>3, <1>4, <1>5, <1>6, <1>7, <1>8, <1>9, <1>10, <1>11, <1>12,
           <1>13, <1>14, <1>15, <1>16, <1>17 DEF Next, Loop

LEMMA NextWrite == Inv /\ [Next]_vars => WriteInv'
<1> SUFFICES ASSUME Inv, [Next]_vars PROVE WriteInv'
  OBVIOUS
<1>1. WriteInv /\ writeIrp \in BOOLEAN /\ endpoint \in BOOLEAN
      /\ write_running \in BOOLEAN /\ mishap \in Mishaps
  BY TypeParts DEF Inv, Flags, Scalars
<1> USE <1>1 DEF WriteInv, Mishaps, Note, Served, busVars, inVars, outVars, userVars
<1>2. CASE BootWait \/ BootRead \/ BootClear
  BY <1>2 DEF BootWait, BootRead, BootClear
<1>3. CASE usb_task \/ fn_yield
  BY <1>3 DEF usb_task, fn_yield, Enter
<1>4. CASE TakeOut
  BY <1>4 DEF TakeOut, CanWrite
<1>5. CASE SubmitWrite
  BY <1>5 DEF SubmitWrite
<1>6. CASE MoveIn \/ SubmitRead
  BY <1>6 DEF MoveIn, SubmitRead
<1>7. CASE ReadByte \/ WriteByte
  BY <1>7 DEF ReadByte, WriteByte
<1>8. CASE HostSends
  BY <1>8 DEF HostSends
<1>9. CASE HostTakes
  BY <1>9 DEF HostTakes, WriteComplete
<1>10. CASE Reset
  BY <1>10 DEF Reset, WriteComplete
<1>11. CASE PowerRemoved \/ SetConfiguration \/ Configured
  BY <1>11 DEF PowerRemoved, SetConfiguration, Configured
<1>12. CASE UNCHANGED vars
  BY <1>12 DEF vars
<1>13. CASE ReadTerminated
  BY <1>13 DEF ReadTerminated
<1>14. CASE WriteTerminated
  BY <1>14 DEF WriteTerminated, WriteComplete
<1> QED BY <1>2, <1>3, <1>4, <1>5, <1>6, <1>7, <1>8, <1>9, <1>10, <1>11, <1>12,
           <1>13, <1>14 DEF Next, Loop

(***************************************************************************)
(* The bytes on their way out.                                             *)
(***************************************************************************)
\* What leaves the bytes and the host's last alone, and starts no write.
LEMMA OutFrame ==
  ASSUME OutInv, UNCHANGED <<outPacket, writeBuf, written, hostGot>>,
         writeIrp' \/ pc' = "submit" => writeIrp \/ pc = "submit"
  PROVE  OutInv'
  BY DEF OutInv, Ends

LEMMA OutTypes ==
  ASSUME Inv
  PROVE  /\ writeBuf \in Seq(1..MaxOut) /\ Len(writeBuf) \in Nat
         /\ outPacket \in Seq(1..MaxOut) /\ Len(outPacket) \in Nat
         /\ written \in Nat /\ hostGot \in Nat
  BY SizeAssumption, TypeParts DEF Inv, Buffers, Scalars

LEMMA TakeOutOut == Inv /\ TakeOut => OutInv'
<1> SUFFICES ASSUME Inv, TakeOut PROVE OutInv'
  OBVIOUS
<1>1. CASE ~CanWrite
  BY <1>1, OutFrame DEF Inv, TakeOut, outVars, userVars
<1>2. CASE CanWrite
  <2> DEFINE a == Lesser(Len(writeBuf), PacketSize)
             s == SubSeq(writeBuf, 1, a)
             t == SubSeq(writeBuf, a + 1, Len(writeBuf))
  <2>1. outPacket' = s /\ writeBuf' = t /\ UNCHANGED <<written, hostGot>>
    BY <1>2 DEF TakeOut, userVars
  <2>2. writeBuf # <<>> /\ Len(writeBuf) > 0
    BY <1>2, OutTypes DEF CanWrite
  <2>3. a \in Nat \ {0} /\ a <= Len(writeBuf)
    BY <2>2, OutTypes, SizeAssumption DEF Lesser
  <2> HIDE DEF a
  <2>4. /\ Len(s) = a /\ s \in Seq(1..MaxOut)
        /\ \A i \in 1..Len(s) : s[i] = writeBuf[i]
    <3>1. a \in Nat /\ a <= Len(writeBuf) /\ writeBuf \in Seq(1..MaxOut)
      BY <2>3, OutTypes
    <3> QED BY <3>1, Beginning
  <2>5. /\ Len(t) = Len(writeBuf) - a
        /\ \A i \in 1..Len(t) : t[i] = writeBuf[a + 1 + i - 1]
    <3>1. a + 1 \in Nat \ {0} /\ Len(writeBuf) \in Nat
      BY <2>3, OutTypes
    <3> QED BY <2>3, <3>1, OutTypes, Piece
  <2> HIDE DEF s, t
  <2>6. /\ \A i \in 1..Len(writeBuf) : writeBuf[i] = written - Len(writeBuf) + i
        /\ Len(writeBuf) <= written /\ hostGot <= written - Len(writeBuf)
    BY DEF Inv, OutInv, Ends
  <2>7. \A i \in 1..Len(s) : s[i] = written - Len(t) - Len(s) + i
    <3> TAKE i \in 1..Len(s)
    <3>1. i \in 1..Len(writeBuf)
      BY <2>3, <2>4, OutTypes
    <3>2. s[i] = written - Len(writeBuf) + i
      BY <3>1, <2>4, <2>6
    <3> QED BY <3>2, <2>3, <2>4, <2>5, OutTypes
  <2>8. \A i \in 1..Len(t) : t[i] = written - Len(t) + i
    BY <2>3, <2>5, <2>6, OutTypes
  <2>9. s # <<>>
    BY <2>3, <2>4
  <2>10. /\ Len(t) <= written /\ hostGot <= written - Len(t)
         /\ Len(s) + Len(t) <= written
         /\ hostGot <= written - Len(t) - Len(s)
    BY <2>3, <2>4, <2>5, <2>6, OutTypes
  <2> QED BY <2>1, <2>7, <2>8, <2>9, <2>10 DEF OutInv, Ends
<1> QED BY <1>1, <1>2

LEMMA WriteByteOut == Inv /\ WriteByte => OutInv'
<1> SUFFICES ASSUME Inv, WriteByte PROVE OutInv'
  OBVIOUS
<1>1. /\ written' = written + 1 /\ writeBuf' = Append(writeBuf, written + 1)
      /\ written + 1 \in 1..MaxOut
      /\ UNCHANGED <<outPacket, hostGot, writeIrp, pc>>
  BY OutTypes, SizeAssumption DEF WriteByte
<1>2. /\ Len(writeBuf') = Len(writeBuf) + 1
      /\ \A i \in 1..Len(writeBuf) : writeBuf'[i] = writeBuf[i]
      /\ writeBuf'[Len(writeBuf) + 1] = written + 1
  BY <1>1, OutTypes, AppendProperties
<1>3. Ends(writeBuf', written')
  BY <1>1, <1>2, OutTypes DEF Inv, OutInv, Ends
<1>4. /\ Len(writeBuf') <= written'
      /\ written' - Len(writeBuf') = written - Len(writeBuf)
  BY <1>1, <1>2, OutTypes DEF Inv, OutInv
<1>5. writeIrp \/ pc = "submit" => Len(outPacket) + Len(writeBuf') <= written'
  BY <1>1, <1>2, OutTypes DEF Inv, OutInv
<1> QED BY <1>1, <1>3, <1>4, <1>5 DEF Inv, OutInv, Ends

LEMMA HostTakesOut == Inv /\ HostTakes => OutInv'
<1> SUFFICES ASSUME Inv, HostTakes PROVE OutInv'
  OBVIOUS
<1>1. /\ writeIrp /\ ~writeIrp' /\ pc' # "submit"
      /\ hostGot' = outPacket[Len(outPacket)]
      /\ UNCHANGED <<outPacket, writeBuf, written>>
  BY DEF Inv, WriteInv, HostTakes, Last
<1>2. Len(outPacket) \in 1..Len(outPacket)
  BY <1>1, OutTypes DEF Inv, OutInv
<1>3. hostGot' = written - Len(writeBuf)
  BY <1>1, <1>2, OutTypes DEF Inv, OutInv, Ends
<1> QED BY <1>1, <1>3, OutTypes DEF Inv, OutInv, Ends

LEMMA NextOut == Inv /\ [Next]_vars => OutInv'
<1> SUFFICES ASSUME Inv, [Next]_vars PROVE OutInv'
  OBVIOUS
<1>1. OutInv /\ WriteInv
  BY DEF Inv
<1> USE <1>1, OutFrame DEF busVars, inVars, outVars, userVars
<1>2. CASE BootWait \/ BootRead \/ BootClear
  BY <1>2 DEF BootWait, BootRead, BootClear
<1>3. CASE usb_task \/ fn_yield
  BY <1>3 DEF usb_task, fn_yield, Enter
<1>4. CASE TakeOut
  BY <1>4, TakeOutOut
<1>5. CASE SubmitWrite
  BY <1>5 DEF SubmitWrite
<1>6. CASE MoveIn \/ SubmitRead
  BY <1>6 DEF MoveIn, SubmitRead
<1>7. CASE ReadByte
  BY <1>7 DEF ReadByte
<1>8. CASE WriteByte
  BY <1>8, WriteByteOut
<1>9. CASE HostSends
  BY <1>9 DEF HostSends
<1>10. CASE HostTakes
  BY <1>10, HostTakesOut
<1>11. CASE Reset
  BY <1>11 DEF Reset
<1>12. CASE PowerRemoved \/ SetConfiguration \/ Configured
  BY <1>12 DEF PowerRemoved, SetConfiguration, Configured
<1>13. CASE UNCHANGED vars
  BY <1>13 DEF vars
<1>14. CASE ReadTerminated \/ WriteTerminated
  BY <1>14 DEF ReadTerminated, WriteTerminated
<1> QED BY <1>2, <1>3, <1>4, <1>5, <1>6, <1>7, <1>8, <1>9, <1>10, <1>11, <1>12,
           <1>13, <1>14 DEF Next, Loop

LEMMA InvSound == Spec => []Inv
<1>1. Inv /\ [Next]_vars => Inv'
  BY NextType, NextRead, NextWrite, NextOut DEF Inv
<1> QED BY <1>1, InitInv, PTL DEF Spec

(***************************************************************************)
(* Theorems.                                                               *)
(***************************************************************************)
\* With buffers and packets of any size, no stream buffer of usb.c is
\* overfilled and no copy reads past the bytes of a packet.
THEOREM UsbTypeCorrect == Spec => []TypeOK
<1>1. Inv => TypeOK
  BY DEF Inv
<1> QED BY <1>1, InvSound, PTL

\* usb.c always has exactly one of a read about to be started, a read
\* outstanding and a finished one to look at.
THEOREM ReadSound == Spec => []OneRead
<1>1. Inv => OneRead
  BY TypeParts DEF Inv, ReadInv, OneRead, Flags, Served
<1> QED BY <1>1, InvSound, PTL

\* write_running of usb.c is up exactly while a write is about to be started
\* or outstanding.
THEOREM WriteSound == Spec => []OneWrite
<1>1. Inv => OneWrite
  BY TypeParts DEF Inv, WriteInv, OneWrite, Flags
<1> QED BY <1>1, InvSound, PTL

\* The write_buffer of a USB port is not touched while the controller sends
\* it, and no byte is lost or sent twice.
THEOREM OutSound == Spec => []OutIntact
<1>1. Inv => OutIntact
  <2> SUFFICES ASSUME Inv, writeIrp \/ pc = "submit"
               PROVE  LET s == outPacket \o writeBuf
                      IN  /\ s = Numbers(written - Len(s), Len(s))
                          /\ hostGot <= written - Len(s)
    BY DEF OutIntact
  <2> DEFINE s == outPacket \o writeBuf
             k == written - Len(s)
  <2>1. /\ s \in Seq(1..MaxOut) /\ Len(s) = Len(outPacket) + Len(writeBuf)
        /\ \A i \in 1..Len(outPacket) + Len(writeBuf) :
             s[i] = IF i <= Len(outPacket) THEN outPacket[i]
                                           ELSE writeBuf[i - Len(outPacket)]
    BY OutTypes, ConcatProperties
  <2> HIDE DEF s
  <2>2. /\ \A i \in 1..Len(outPacket) :
             outPacket[i] = written - Len(writeBuf) - Len(outPacket) + i
        /\ \A i \in 1..Len(writeBuf) : writeBuf[i] = written - Len(writeBuf) + i
        /\ Len(outPacket) + Len(writeBuf) <= written
        /\ hostGot <= written - Len(writeBuf) - Len(outPacket)
    BY DEF Inv, OutInv, Ends
  <2>3. \A i \in 1..Len(s) : s[i] = k + i
    <3> TAKE i \in 1..Len(s)
    <3>1. CASE i <= Len(outPacket)
      <4>1. i \in 1..Len(outPacket) /\ s[i] = outPacket[i]
        BY <2>1, <3>1, OutTypes
      <4>2. outPacket[i] = written - Len(writeBuf) - Len(outPacket) + i
        BY <2>2, <4>1
      <4> QED BY <2>1, <4>1, <4>2, OutTypes
    <3>2. CASE i > Len(outPacket)
      <4>1. i - Len(outPacket) \in 1..Len(writeBuf) /\ ~(i <= Len(outPacket))
        BY <2>1, <3>2, OutTypes
      <4>2. s[i] = writeBuf[i - Len(outPacket)]
        BY <2>1, <4>1
      <4>3. writeBuf[i - Len(outPacket)]
              = written - Len(writeBuf) + (i - Len(outPacket))
        BY <2>2, <4>1
      <4> QED BY <2>1, <4>2, <4>3, OutTypes
    <3> QED BY <3>1, <3>2, <2>1, OutTypes
  <2>4. /\ k \in Int /\ Len(s) \in Nat /\ hostGot <= k
        /\ \A i \in 1..Len(s) : k + i \in 1..MaxOut
    <3>1. written \in 0..MaxOut
      BY TypeParts DEF Inv, Scalars
    <3> QED BY <2>1, <2>2, <3>1, OutTypes, SizeAssumption
  <2> HIDE DEF k
  <2>5. /\ Numbers(k, Len(s)) \in Seq(1..MaxOut)
        /\ Len(Numbers(k, Len(s))) = Len(s)
        /\ \A i \in 1..Len(s) : Numbers(k, Len(s))[i] = k + i
    BY <2>4, NumbersType
  <2>6. s = Numbers(k, Len(s))
    BY <2>1, <2>3, <2>5, SeqEqual
  <2> QED BY <2>4, <2>6 DEF s, k
<1> QED BY <1>1, InvSound, PTL

(***************************************************************************)
(* The reader sees the host's bytes (ByteStream).                          *)
(***************************************************************************)
LEMMA TailOfConcat ==
  ASSUME NEW S, NEW s \in Seq(S), NEW t \in Seq(S), s # <<>>
  PROVE  /\ s \o t # <<>>
         /\ Head(s \o t) = Head(s)
         /\ Tail(s \o t) = Tail(s) \o t
<1> DEFINE u == s \o t
<1>1. /\ u \in Seq(S) /\ Len(u) = Len(s) + Len(t)
      /\ \A i \in 1..Len(s) + Len(t) :
           u[i] = IF i <= Len(s) THEN s[i] ELSE t[i - Len(s)]
  BY ConcatProperties
<1>2. Len(s) \in Nat \ {0} /\ Len(t) \in Nat
  BY EmptySeq
<1> HIDE DEF u
<1>3. u # <<>> /\ u[1] = s[1]
  BY <1>1, <1>2
<1>4. Head(u) = u[1] /\ Head(s) = s[1]
  OBVIOUS
<1>5. /\ Tail(u) \in Seq(S) /\ Len(Tail(u)) = Len(u) - 1
      /\ \A i \in 1..Len(Tail(u)) : Tail(u)[i] = u[i + 1]
  BY <1>1, <1>3, HeadTailProperties
<1>6. /\ Tail(s) \in Seq(S) /\ Len(Tail(s)) = Len(s) - 1
      /\ \A i \in 1..Len(Tail(s)) : Tail(s)[i] = s[i + 1]
  BY HeadTailProperties
<1> DEFINE v == Tail(s)
<1> HIDE DEF v
<1>7. v \in Seq(S) /\ Len(v) = Len(s) - 1 /\ \A i \in 1..Len(v) : v[i] = s[i + 1]
  BY <1>6 DEF v
<1>8. /\ v \o t \in Seq(S) /\ Len(v \o t) = Len(v) + Len(t)
      /\ \A i \in 1..Len(v) + Len(t) :
           (v \o t)[i] = IF i <= Len(v) THEN v[i] ELSE t[i - Len(v)]
  BY <1>7, ConcatProperties
<1>9. Len(Tail(u)) = Len(v \o t)
  BY <1>1, <1>2, <1>5, <1>7, <1>8
<1>10. \A i \in 1..Len(Tail(u)) : Tail(u)[i] = (v \o t)[i]
  <2> TAKE i \in 1..Len(Tail(u))
  <2>1. i + 1 \in 1..Len(s) + Len(t) /\ i \in 1..Len(v) + Len(t)
    BY <1>1, <1>2, <1>5, <1>7
  <2>2. Tail(u)[i] = IF i + 1 <= Len(s) THEN s[i + 1] ELSE t[i + 1 - Len(s)]
    BY <1>1, <1>5, <2>1
  <2>3. (v \o t)[i] = IF i <= Len(v) THEN v[i] ELSE t[i - Len(v)]
    BY <1>8, <2>1
  <2> QED BY <1>2, <1>7, <2>1, <2>2, <2>3
<1>11. Tail(u) = v \o t
  BY <1>5, <1>8, <1>9, <1>10, SeqEqual
<1> QED BY <1>3, <1>4, <1>11 DEF u, v

LEMMA PrefixOfConcat ==
  ASSUME NEW S, NEW s \in Seq(S), NEW t \in Seq(S)
  PROVE  /\ Len(s) <= Len(s \o t)
         /\ SubSeq(s, 1, Len(s)) = SubSeq(s \o t, 1, Len(s))
         /\ t # <<>> => s # s \o t
<1> DEFINE u == s \o t
<1>1. /\ u \in Seq(S) /\ Len(u) = Len(s) + Len(t)
      /\ \A i \in 1..Len(s) + Len(t) :
           u[i] = IF i <= Len(s) THEN s[i] ELSE t[i - Len(s)]
  BY ConcatProperties
<1>2. Len(s) \in Nat /\ Len(t) \in Nat /\ (t # <<>> => Len(t) > 0)
  BY EmptySeq
<1> HIDE DEF u
<1>3. /\ SubSeq(s, 1, Len(s)) \in Seq(S) /\ Len(SubSeq(s, 1, Len(s))) = Len(s)
      /\ \A k \in 1..Len(s) : SubSeq(s, 1, Len(s))[k] = s[k]
  BY <1>2, Beginning
<1>4. /\ SubSeq(u, 1, Len(s)) \in Seq(S) /\ Len(SubSeq(u, 1, Len(s))) = Len(s)
      /\ \A k \in 1..Len(s) : SubSeq(u, 1, Len(s))[k] = u[k]
  BY <1>1, <1>2, Beginning
<1>5. \A k \in 1..Len(s) : u[k] = s[k]
  BY <1>1, <1>2
<1>6. SubSeq(s, 1, Len(s)) = SubSeq(u, 1, Len(s))
  BY <1>3, <1>4, <1>5, SeqEqual
<1> QED BY <1>1, <1>2, <1>6 DEF u

LEMMA QueueTypes ==
  ASSUME Inv
  PROVE  /\ readBuf \in Seq(0..MaxIn) /\ packet \in Seq(0..MaxIn)
         /\ Len(packet) \in Nat /\ pos \in Nat /\ Unread \in Seq(0..MaxIn)
<1>1. /\ readBuf \in Seq(0..MaxIn) /\ packet \in Seq(0..MaxIn)
      /\ Len(packet) \in Nat /\ pos \in Nat
  BY SizeAssumption, TypeParts DEF Inv, Buffers, Scalars
<1>2. SubSeq(packet, pos + 1, Len(packet)) \in Seq(0..MaxIn)
  <2>1. pos + 1 \in Nat \ {0} /\ Len(packet) <= Len(packet)
    BY <1>1
  <2> QED BY <1>1, <2>1, Piece
<1>3. <<>> \in Seq(0..MaxIn)
  OBVIOUS
<1> QED BY <1>1, <1>2, <1>3 DEF Unread

\* What leaves the bytes where they are leaves the stream as it is.
LEMMA StreamFrame ==
  ASSUME UNCHANGED <<readBuf, packet, pos, out>>,
         (read_complete' \/ mishap' = "forgotten")
           <=> (read_complete \/ mishap = "forgotten")
  PROVE  UNCHANGED Stream!vars
  BY DEF Stream!vars, Unread

LEMMA MoveInMaps == Inv /\ MoveIn => UNCHANGED Stream!vars
<1> SUFFICES ASSUME Inv, MoveIn PROVE UNCHANGED Stream!vars
  OBVIOUS
<1>1. UNCHANGED <<packet, out, mishap>>
  BY DEF MoveIn, userVars
<1>2. read_complete => mishap # "forgotten"
  BY DEF Inv, ReadInv
<1>3. CASE read_complete /\ PacketDone
  <2>1. SubSeq(packet, pos + 1, Len(packet)) = <<>>
    <3>1. pos + 1 \in Int /\ Len(packet) \in Int /\ Len(packet) < pos + 1
      BY <1>3, QueueTypes DEF PacketDone
    <3> QED BY <3>1, SubSeqEmpty
  <2>2. Unread = <<>> /\ Unread' = <<>> /\ readBuf' = readBuf
    BY <1>1, <1>2, <1>3, <2>1 DEF MoveIn, Unread
  <2> QED BY <1>1, <2>2 DEF Stream!vars
<1>4. CASE ~(read_complete /\ PacketDone)
  <2>1. PICK n \in Nat :
          LET s == SubSeq(packet, pos + 1, pos + n)
          IN  /\ readBuf' = readBuf \o s /\ pos' = pos + n
              /\ s \in Seq(0..MaxIn) /\ Len(s) = n
              /\ read_complete => pos + n <= Len(packet)
              /\ ~read_complete => n = 0
    BY <1>4, Moved
  <2> DEFINE s == SubSeq(packet, pos + 1, pos + n)
  <2>2. UNCHANGED read_complete
    BY <1>4 DEF MoveIn
  <2>3. CASE read_complete
    <3>1. /\ pos + 1 \in 1..Len(packet) + 1
          /\ pos + n \in (pos + 1) - 1..Len(packet)
          /\ Len(packet) \in pos + n..Len(packet)
      <4>1. pos + n <= Len(packet)
        BY <2>1, <2>3
      <4> QED BY <4>1, QueueTypes
    <3>2. s \o SubSeq(packet, pos + n + 1, Len(packet))
            = SubSeq(packet, pos + 1, Len(packet))
      BY <3>1, QueueTypes, ConcatAdjacentSubSeq
    <3>3. Unread = s \o Unread'
      BY <1>1, <2>1, <2>2, <2>3, <3>2 DEF Unread
    <3>4. Unread' \in Seq(0..MaxIn)
      <4>1. SubSeq(packet, pos + n + 1, Len(packet)) \in Seq(0..MaxIn)
        <5>1. pos + n + 1 \in Nat \ {0} /\ Len(packet) <= Len(packet)
          BY QueueTypes
        <5> QED BY <5>1, QueueTypes, Piece
      <4> QED BY <1>1, <2>1, <2>2, <2>3, <4>1 DEF Unread
    <3>5. (readBuf \o s) \o Unread' = readBuf \o (s \o Unread')
      <4>1. s \in Seq(0..MaxIn)
        BY <2>1
      <4>2. readBuf \in Seq(0..MaxIn)
        BY QueueTypes
      <4> HIDE DEF s
      <4> QED BY <3>4, <4>1, <4>2, ConcatAssociative
    <3> QED BY <1>1, <2>1, <3>3, <3>5 DEF Stream!vars
  <2>4. CASE ~read_complete
    <3>1. pos + 1 \in Int /\ pos + n \in Int /\ pos + n < pos + 1 /\ pos' = pos
      BY <2>1, <2>4, QueueTypes
    <3>2. s = <<>>
      BY <3>1, SubSeqEmpty
    <3>3. readBuf' = readBuf
      BY <2>1, <3>2, QueueTypes, ConcatEmptySeq
    <3> QED BY <1>1, <2>2, <3>1, <3>3, StreamFrame
  <2> QED BY <2>3, <2>4
<1> QED BY <1>3, <1>4

\* A read that ends adds what it reports to the stream.
LEMMA ReadCompleteMaps ==
  ASSUME Inv, readIrp, read_complete', pos' = 0, UNCHANGED <<readBuf, out, mishap>>,
         packet' \in Seq(0..MaxIn)
  PROVE  Stream!Next \/ UNCHANGED Stream!vars
<1>1. Unread = <<>>
  BY DEF Inv, ReadInv, Unread
<1>2. Unread' = packet'
  <2>1. pos' + 1 = 1
    OBVIOUS
  <2>2. SubSeq(packet', 1, Len(packet')) = packet'
    BY SubSeqFull
  <2> QED BY <2>1, <2>2 DEF Unread
<1>3. readBuf \o Unread = readBuf /\ readBuf \in Seq(0..MaxIn)
  BY <1>1, QueueTypes, ConcatEmptySeq
<1>4. CASE packet' = <<>>
  BY <1>1, <1>2, <1>4 DEF Stream!vars
<1>5. CASE packet' # <<>>
  <2>1. /\ Len(readBuf) <= Len(readBuf \o packet')
        /\ SubSeq(readBuf, 1, Len(readBuf))
             = SubSeq(readBuf \o packet', 1, Len(readBuf))
        /\ readBuf # readBuf \o packet'
    BY <1>3, <1>5, PrefixOfConcat
  <2>2. Stream!Send
    BY <1>2, <1>3, <2>1 DEF Stream!Send, Stream!IsPrefix
  <2> QED BY <2>2 DEF Stream!Next
<1> QED BY <1>4, <1>5

LEMMA HostSendsMaps == Inv /\ HostSends => Stream!Next \/ UNCHANGED Stream!vars
<1> SUFFICES ASSUME Inv, HostSends PROVE Stream!Next \/ UNCHANGED Stream!vars
  OBVIOUS
<1>1. readIrp /\ read_complete' /\ pos' = 0 /\ UNCHANGED <<readBuf, out, mishap>>
  BY DEF HostSends, ReadComplete
<1>2. packet' \in Seq(0..MaxIn)
  BY Sent
<1> QED BY <1>1, <1>2, ReadCompleteMaps

LEMMA ReadTerminatedMaps ==
  Inv /\ ReadTerminated => Stream!Next \/ UNCHANGED Stream!vars
<1> SUFFICES ASSUME Inv, ReadTerminated PROVE Stream!Next \/ UNCHANGED Stream!vars
  OBVIOUS
<1>1. readIrp /\ read_complete' /\ pos' = 0 /\ UNCHANGED <<readBuf, out, mishap>>
  BY DEF ReadTerminated, ReadComplete, userVars
<1>2. packet' \in Seq(0..MaxIn)
  BY SizeAssumption DEF ReadTerminated, ReadComplete
<1> QED BY <1>1, <1>2, ReadCompleteMaps

LEMMA NextStream == Inv /\ [Next]_vars => [Stream!Next]_(Stream!vars)
<1> SUFFICES ASSUME Inv, [Next]_vars
             PROVE  Stream!Next \/ UNCHANGED Stream!vars
  OBVIOUS
<1> USE StreamFrame DEF busVars, inVars, outVars, userVars, Note, Served
<1>1. CASE BootWait \/ BootRead
  BY <1>1 DEF BootWait, BootRead
<1>2. CASE BootClear
  BY <1>2 DEF BootClear, Inv, ReadInv
<1>3. CASE usb_task \/ fn_yield
  BY <1>3 DEF usb_task, fn_yield, Enter
<1>4. CASE TakeOut
  BY <1>4 DEF TakeOut
<1>5. CASE SubmitWrite \/ SubmitRead
  BY <1>5 DEF SubmitWrite, SubmitRead
<1>6. CASE MoveIn
  BY <1>6, MoveInMaps
<1>7. CASE ReadByte
  <2>1. Unread' = Unread
    BY <1>7 DEF ReadByte, Unread
  <2>2. /\ readBuf \o Unread # <<>>
        /\ Head(readBuf \o Unread) = Head(readBuf)
        /\ Tail(readBuf \o Unread) = Tail(readBuf) \o Unread
    BY <1>7, QueueTypes, TailOfConcat DEF ReadByte
  <2>3. Stream!Receive
    BY <1>7, <2>1, <2>2 DEF ReadByte, Stream!Receive
  <2> QED BY <2>3 DEF Stream!Next
<1>8. CASE WriteByte
  BY <1>8 DEF WriteByte
<1>9. CASE HostSends
  BY <1>9, HostSendsMaps
<1>10. CASE HostTakes
  BY <1>10 DEF HostTakes
<1>11. CASE Reset
  <2>1. CASE readIrp
    <3>1. /\ read_complete' /\ packet' = <<>> /\ pos' = 0
          /\ UNCHANGED <<readBuf, out>>
      BY <1>11, <2>1 DEF Reset, Cancelled, ReadComplete
    <3>2. Unread = <<>>
      BY <2>1 DEF Inv, ReadInv, Unread
    <3>3. SubSeq(<<>>, 0 + 1, Len(<<>>)) = <<>>
      BY SubSeqEmpty
    <3>4. Unread' = <<>>
      BY <3>1, <3>3 DEF Unread
    <3> QED BY <3>1, <3>2, <3>4 DEF Stream!vars
  <2>2. CASE ~readIrp
    BY <1>11, <2>2 DEF Reset, Cancelled
  <2> QED BY <2>1, <2>2
<1>12. CASE PowerRemoved \/ SetConfiguration \/ Configured
  BY <1>12 DEF PowerRemoved, SetConfiguration, Configured
<1>13. CASE UNCHANGED vars
  BY <1>13 DEF vars
<1>14. CASE ReadTerminated
  BY <1>14, ReadTerminatedMaps
<1>15. CASE WriteTerminated
  BY <1>15 DEF WriteTerminated
<1> QED BY <1>1, <1>2, <1>3, <1>4, <1>5, <1>6, <1>7, <1>8, <1>9, <1>10, <1>11,
           <1>12, <1>13, <1>14, <1>15 DEF Next, Loop

\* Across packets, full buffers, resets, halts and unplugged cables, the reader
\* of a USB port gets the bytes that finished reads report, once and in order.
THEOREM UsbStream == Spec => StreamSpec
<1>1. Init => Stream!Init
  BY DEF Init, Stream!Init, Unread
<1>2. Spec => []([Stream!Next]_(Stream!vars))
  BY InvSound, NextStream, PTL DEF Spec
<1> QED BY <1>1, <1>2, PTL DEF Spec, StreamSpec, Stream!Spec
=============================================================================
