------------------------------ MODULE UsbPort -------------------------------
(***************************************************************************)
(* One USB serial port (usb.c).  The main loop moves bytes between the     *)
(* port's stream buffers and the two transfer buffers, and starts a read   *)
(* or a write with USB_DEVICE_CDC_Read and _Write.  The USB interrupt ends *)
(* them, by calling the event handlers of usb.c between any two steps of   *)
(* the loop: a read has filled its buffer, a write is done, the host has   *)
(* reset the bus, the cable is out, the host has configured the device.    *)
(*                                                                         *)
(* Bytes are numbered as they are sent, so that a lost or repeated byte    *)
(* shows.                                                                  *)
(***************************************************************************)
EXTENDS Integers, Sequences, SequencesExt

CONSTANTS
  BufSize,     \* size of the port's stream buffers
  PacketSize,  \* USB_BUFFER_SIZE
  MaxIn,       \* bound: bytes the host sends
  MaxOut       \* bound: bytes written to the port

ASSUME SizeAssumption ==
  /\ BufSize \in Nat \ {0} /\ PacketSize \in Nat \ {0}
  /\ MaxIn \in Nat /\ MaxOut \in Nat

Mishaps == {"none", "terminated", "forgotten", "refused"}

VARIABLES
  configured,      \* usb_is_configured
  endpoint,        \* the CDC layer has the endpoints configured
  plugged,         \* the cable is in
  readIrp,         \* a read is outstanding
  writeIrp,        \* a write is outstanding
  read_complete, packet, pos,  \* usb_data: the flag, read_buffer up to its
                               \* length, read_data_pos
  write_running,   \* the count of the semaphore
  outPacket,       \* data->write_buffer
  readBuf, writeBuf,
  pc,              \* where the main loop is in usb.c
  hostSent,        \* the number of the last byte the host sent
  out,             \* the byte read from the port last
  written,         \* the number of the last byte written to the port
  hostGot,         \* the last byte the host received
  mishap           \* what has gone wrong: see Mishaps

busVars  == <<configured, endpoint, plugged>>
inVars   == <<read_complete, packet, pos, readBuf>>
outVars  == <<write_running, outPacket, writeBuf>>
userVars == <<hostSent, out, written, hostGot>>
vars == <<busVars, readIrp, writeIrp, inVars, outVars, pc, userVars, mishap>>

Lesser(a, b) == IF a <= b THEN a ELSE b
Numbers(from, n) == [i \in 1..n |-> from + i]

\* forgotten: USB_Initialize cleared the flag of a read that was quick.
\* refused: the CDC layer took no transfer, because the bus was reset under it,
\* and nobody looks at the result.  terminated: the host has ended a write by
\* halting its endpoint, and the bytes are gone; a graver mishap replaces it.
Served == mishap \in {"none", "terminated"}
Note(m, when) == mishap' = IF when /\ Served THEN m ELSE mishap

(***************************************************************************)
(* USB_Initialize: wait for the host, start the first read, then clear a   *)
(* flag that the read may have set already.                                *)
(***************************************************************************)
BootWait ==
  /\ pc = "boot" /\ configured
  /\ pc' = "bootRead"
  /\ UNCHANGED <<busVars, readIrp, writeIrp, inVars, outVars, userVars, mishap>>

BootRead ==
  /\ pc = "bootRead"
  /\ pc' = "bootClear"
  /\ readIrp' = endpoint
  /\ Note("refused", ~endpoint)
  /\ UNCHANGED <<busVars, writeIrp, inVars, outVars, userVars>>

BootClear ==
  /\ pc = "bootClear"
  /\ pc' = "loop"
  /\ read_complete' = FALSE
  /\ Note("forgotten", read_complete)
  /\ UNCHANGED <<busVars, readIrp, writeIrp, packet, pos, readBuf, outVars,
                 userVars>>

(***************************************************************************)
(* usb_transfer_data, called by usb_task when the device is configured and *)
(* by port_printf (fn_yield) whether it is or not.                         *)
(***************************************************************************)
Enter ==
  /\ pc = "loop"
  /\ pc' = "write"
  /\ UNCHANGED <<busVars, readIrp, writeIrp, inVars, outVars, userVars, mishap>>

usb_task == configured /\ Enter
fn_yield == ~configured /\ Enter

\* Mutant: a new write is prepared while the last one is under way.
CanWrite_Always == writeBuf # <<>>
CanWrite == ~write_running /\ writeBuf # <<>>

TakeOut ==
  /\ pc = "write"
  /\ IF CanWrite
     THEN LET a == Lesser(Len(writeBuf), PacketSize)
          IN  /\ outPacket' = SubSeq(writeBuf, 1, a)
              /\ writeBuf' = SubSeq(writeBuf, a + 1, Len(writeBuf))
              /\ write_running' = TRUE
              /\ pc' = "submit"
     ELSE pc' = "read" /\ UNCHANGED outVars
  /\ UNCHANGED <<busVars, readIrp, writeIrp, inVars, userVars, mishap>>

SubmitWrite ==
  /\ pc = "submit"
  /\ pc' = "read"
  /\ writeIrp' = endpoint
  /\ Note("refused", ~endpoint)
  /\ UNCHANGED <<busVars, readIrp, inVars, outVars, userVars>>

\* Mutants: the next read is started once bytes were moved, without looking
\* at how many found room; one byte too early.
PacketDone_Handed == pos > 0 \/ packet = <<>>
PacketDone_Short  == pos + 1 >= Len(packet)
PacketDone == pos >= Len(packet)

\* Mutant: the room in the read buffer is taken to be its size.
Room_Size == BufSize
Room == BufSize - Len(readBuf)

MoveIn ==
  /\ pc = "read"
  /\ IF read_complete /\ PacketDone
     THEN /\ read_complete' = FALSE /\ pos' = 0
          /\ pc' = "resubmit"
          /\ UNCHANGED readBuf
     ELSE /\ LET n == IF read_complete
                      THEN Lesser(Len(packet) - pos, Room)
                      ELSE 0
             IN  /\ readBuf' = readBuf \o SubSeq(packet, pos + 1, pos + n)
                 /\ pos' = pos + n
          /\ pc' = "loop"
          /\ UNCHANGED read_complete
  /\ UNCHANGED <<busVars, readIrp, writeIrp, packet, outVars, userVars, mishap>>

SubmitRead ==
  /\ pc = "resubmit"
  /\ pc' = "loop"
  /\ readIrp' = endpoint
  /\ Note("refused", ~endpoint)
  /\ UNCHANGED <<busVars, writeIrp, inVars, outVars, userVars>>

(***************************************************************************)
(* The rest of the main loop reads and writes the port byte by byte.       *)
(***************************************************************************)
ReadByte ==
  /\ pc = "loop" /\ readBuf # <<>>
  /\ out' = Head(readBuf) /\ readBuf' = Tail(readBuf)
  /\ UNCHANGED <<busVars, readIrp, writeIrp, read_complete, packet, pos, outVars,
                 pc, hostSent, written, hostGot, mishap>>

WriteByte ==
  /\ pc = "loop" /\ Len(writeBuf) < BufSize /\ written < MaxOut
  /\ written' = written + 1 /\ writeBuf' = Append(writeBuf, written + 1)
  /\ UNCHANGED <<busVars, readIrp, writeIrp, inVars, write_running, outPacket,
                 pc, hostSent, out, hostGot, mishap>>

(***************************************************************************)
(* The interrupt: APP_USBDeviceCDCEventHandler and APP_USBDeviceEventHandler *)
(***************************************************************************)
ReadComplete(bytes) ==
  readIrp' = FALSE /\ read_complete' = TRUE /\ packet' = bytes /\ pos' = 0

HostSends ==
  /\ plugged /\ endpoint /\ readIrp
  /\ \E n \in 0..Lesser(PacketSize, MaxIn - hostSent) :
       ReadComplete(Numbers(hostSent, n)) /\ hostSent' = hostSent + n
  /\ UNCHANGED <<busVars, writeIrp, readBuf, outVars, pc, out, written, hostGot,
                 mishap>>

\* The host halts the endpoint of a read, or clears the halt: usb.c takes the
\* handler's status for success and its length, still the whole buffer, for
\* data.  The stale bytes are numbered 0.
ReadTerminated ==
  /\ plugged /\ endpoint /\ readIrp
  /\ ReadComplete([i \in 1..PacketSize |-> 0])
  /\ UNCHANGED <<busVars, writeIrp, readBuf, outVars, pc, userVars, mishap>>

\* Mutant: the end of a write is not noticed when the port is being served.
WriteComplete_Missed == write_running' = (pc = "read" /\ write_running)
WriteComplete == write_running' = FALSE

HostTakes ==
  /\ plugged /\ endpoint /\ writeIrp
  /\ writeIrp' = FALSE
  /\ WriteComplete
  /\ hostGot' = Last(outPacket)
  /\ UNCHANGED <<busVars, readIrp, inVars, outPacket, writeBuf, pc, hostSent,
                 out, written, mishap>>

\* The same for the endpoint of a write.
WriteTerminated ==
  /\ plugged /\ endpoint /\ writeIrp
  /\ writeIrp' = FALSE
  /\ WriteComplete
  /\ mishap' = IF mishap = "none" THEN "terminated" ELSE mishap
  /\ UNCHANGED <<busVars, readIrp, inVars, outPacket, writeBuf, pc, userVars>>

\* The cable is pulled: transfers under way stay where they are.
PowerRemoved ==
  /\ plugged
  /\ plugged' = FALSE /\ configured' = FALSE
  /\ UNCHANGED <<endpoint, readIrp, writeIrp, inVars, outVars, pc, userVars,
                 mishap>>

\* Mutant: the flag of a cancelled read is not set.
Cancelled_Quietly ==
  /\ readIrp' = FALSE
  /\ UNCHANGED <<read_complete, packet, pos>>
Cancelled == IF readIrp THEN ReadComplete(<<>>)
             ELSE UNCHANGED <<readIrp, read_complete, packet, pos>>

\* The host resets the bus, or takes back its SET_CONFIGURATION: the CDC layer
\* cancels the transfers, whose handlers run with an error and no bytes.
Reset ==
  /\ plugged' = TRUE /\ endpoint' = FALSE /\ configured' = FALSE
  /\ <<plugged, endpoint, configured>> # <<TRUE, FALSE, FALSE>>
  /\ Cancelled
  /\ writeIrp' = FALSE
  /\ IF writeIrp THEN WriteComplete ELSE UNCHANGED write_running
  /\ UNCHANGED <<outPacket, writeBuf, readBuf, pc, userVars, mishap>>

\* SET_CONFIGURATION: the endpoints first, the application's event after.
SetConfiguration ==
  /\ plugged /\ ~endpoint
  /\ endpoint' = TRUE
  /\ UNCHANGED <<configured, plugged, readIrp, writeIrp, inVars, outVars, pc,
                 userVars, mishap>>

Configured ==
  /\ plugged /\ endpoint /\ ~configured
  /\ configured' = TRUE
  /\ UNCHANGED <<endpoint, plugged, readIrp, writeIrp, inVars, outVars, pc,
                 userVars, mishap>>

Init ==
  /\ configured = FALSE /\ endpoint = FALSE /\ plugged = TRUE
  /\ readIrp = FALSE /\ writeIrp = FALSE
  /\ read_complete = FALSE /\ packet = <<>> /\ pos = 0
  /\ write_running = FALSE /\ outPacket = <<>>
  /\ readBuf = <<>> /\ writeBuf = <<>>
  /\ pc = "boot"
  /\ hostSent = 0 /\ out = 0 /\ written = 0 /\ hostGot = 0
  /\ mishap = "none"

Loop == usb_task \/ fn_yield \/ TakeOut \/ SubmitWrite \/ MoveIn \/ SubmitRead

Next ==
  \/ BootWait \/ BootRead \/ BootClear
  \/ Loop \/ ReadByte \/ WriteByte
  \/ HostSends \/ HostTakes \/ ReadTerminated \/ WriteTerminated
  \/ PowerRemoved \/ Reset \/ SetConfiguration \/ Configured

Spec == Init /\ [][Next]_vars

\* The loop goes round, whoever reads the port gets round to it, and a host
\* that has configured the device takes what it is sent.
Fairness ==
  /\ WF_vars(BootWait) /\ WF_vars(BootRead) /\ WF_vars(BootClear)
  /\ WF_vars(usb_task) /\ WF_vars(TakeOut) /\ WF_vars(SubmitWrite)
  /\ WF_vars(MoveIn) /\ WF_vars(SubmitRead)
  /\ SF_vars(ReadByte)
  /\ WF_vars(HostTakes)

FairSpec == Spec /\ Fairness

(***************************************************************************)
(* Properties.                                                             *)
(***************************************************************************)
\* Every variable has its type and no buffer holds more than it can.
TypeOK ==
  /\ configured \in BOOLEAN /\ endpoint \in BOOLEAN /\ plugged \in BOOLEAN
  /\ readIrp \in BOOLEAN /\ writeIrp \in BOOLEAN
  /\ read_complete \in BOOLEAN /\ write_running \in BOOLEAN
  /\ packet \in Seq(0..MaxIn) /\ Len(packet) <= PacketSize
  /\ outPacket \in Seq(1..MaxOut) /\ Len(outPacket) <= PacketSize
  /\ pos \in 0..PacketSize
  /\ readBuf \in Seq(0..MaxIn) /\ Len(readBuf) <= BufSize
  /\ writeBuf \in Seq(1..MaxOut) /\ Len(writeBuf) <= BufSize
  /\ pc \in {"boot", "bootRead", "bootClear", "loop", "write", "submit", "read",
             "resubmit"}
  /\ hostSent \in 0..MaxIn /\ out \in 0..MaxIn
  /\ written \in 0..MaxOut /\ hostGot \in 0..MaxOut
  /\ mishap \in Mishaps

\* Reading never stops: there is always exactly one of a read that has not
\* started yet, a read outstanding, and a finished one to be looked at, also
\* across resets and halts, which end the read through its own handler.
OneRead ==
  Served =>
    \/ pc \in {"boot", "bootRead", "resubmit"} /\ ~readIrp /\ ~read_complete
    \/ pc \notin {"boot", "bootRead", "resubmit"} /\ readIrp # read_complete

\* write_running is up exactly while a write is about to start or outstanding:
\* up for longer the port is mute, up for less its buffer is overwritten.
OneWrite == Served =>
              write_running = (writeIrp \/ pc = "submit")

\* The bytes of a write under way and those waiting behind it are the last
\* ones written to the port, none missing and none twice.
OutIntact ==
  writeIrp \/ pc = "submit" =>
    LET s == outPacket \o writeBuf
    IN  s = Numbers(written - Len(s), Len(s)) /\ hostGot <= written - Len(s)

Unread == IF read_complete \/ mishap = "forgotten"
          THEN SubSeq(packet, pos + 1, Len(packet)) ELSE <<>>

\* What the port's reader gets is the stream of what the reads report: the
\* bytes the host sent, and the stale ones of a terminated read between them.
Stream == INSTANCE ByteStream WITH queue <- readBuf \o Unread, out <- out
StreamSpec == Stream!Spec

\* A byte the device took from the host is read in the end, as long as the
\* host keeps the device configured.
InputRead ==
  \A n \in 1..MaxIn :
    n \in Range(readBuf \o Unread) ~> (out = n \/ ~configured \/ ~Served)

\* A byte in the write buffer reaches the host in the end, likewise.
OutputSent ==
  \A n \in 1..MaxOut :
    n \in Range(writeBuf) ~> (hostGot >= n \/ ~configured \/ mishap # "none")
=============================================================================
