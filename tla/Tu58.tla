-------------------------------- MODULE Tu58 --------------------------------
(***************************************************************************)
(* A port in TU58 access mode (tu58.c): a tape drive of two units for the  *)
(* computer on the serial line.  The computer (external) follows the       *)
(* protocol and starts again with an INIT when an answer does not come;    *)
(* meanwhile an operator mounts tapes (MOUNT, tapes.c).                    *)
(*                                                                         *)
(* Data moves in chunks of 128 bytes.  On the line a packet is two tokens, *)
(* its flag and the rest; a token that is lost stands for any lost byte of *)
(* it.                                                                     *)
(***************************************************************************)
EXTENDS Integers, Sequences, SequencesExt

CONSTANTS
  Ops,        \* what the computer asks for
  Folded,     \* the operations whose packet has a checksum of 8000H or more
  Tapes,
  Block,      \* chunks of a block: 4
  TapeSize,   \* chunks of a tape
  OutSize,    \* tokens the port's write buffer holds
  MaxOps,     \* bound: operations
  MaxEvents   \* bound: lost tokens and MOUNTs together

Units   == {0, 1}
Handles == 1..2
Chunks  == 0..TapeSize - 1

ASSUME Tu58Assumption ==
  /\ Ops \subseteq [code : {"NOP", "READ", "WRITE", "BOOT"}, unit : Units,
                    block : Nat, count : Nat]
  /\ Folded \subseteq Ops
  /\ {Block, TapeSize, OutSize} \subseteq Nat \ {0} /\ Block <= TapeSize
  /\ MaxOps \in Nat /\ MaxEvents \in Nat
  \* The computer writes something, and not past the end of the tape.
  /\ \A o \in Ops : o.code = "WRITE" =>
       o.count > 0 /\ o.block * Block + o.count <= TapeSize
  \* A bootstrap is of the first block.
  /\ \A o \in Ops : o.code = "BOOT" => o.block = 0

VARIABLES
  d,           \* data->state; "asleep" is MODE_IDLE of the port
  drive, command, progress, status,
  behind,      \* bufpos is not 0 when a packet begins
  pos,         \* pos[drive], while bootstrapping
  packet, next_state,  \* buffer and where to go once it is sent
  file,        \* the units' handles, 0 for SYS_FS_HANDLE_INVALID
  open,        \* the file system: what each handle has open
  tape,        \* the tapes' contents
  mounted,     \* what the operator knows to be mounted
  inbox, outbox,       \* the line, and the port's buffers
  computer, op, k, got,  \* what it waits for, its operation, chunks sent or
                         \* received
  n,           \* operations so far
  expect,      \* what the computer knows to be on the tapes
  events, mishap

driveVars == <<drive, command, progress, status, behind, pos, packet, next_state>>
fileVars  == <<file, open, mounted>>
hostVars  == <<computer, op, k, got, n, expect>>
vars == <<d, driveVars, fileVars, tape, inbox, outbox, hostVars, events, mishap>>

Mishaps == {"none", "misread", "garbled", "endless", "noTape",
            "aliased", "freed", "swapped"}
Sound   == mishap = "none"
Note(m, when) == mishap' = IF when THEN m ELSE mishap
Happens == events < MaxEvents /\ events' = events + 1

None     == "none"
Unknown  == <<"unknown">>
Nothing  == [code |-> "NOP", unit |-> 0, block |-> 0, count |-> 0]

\* What a packet leaves behind whose rest was not what it should be; its unit
\* may be any byte, and is not looked at before a unit is named again.
Stray  == 2
Broken == [code |-> "BROKEN", unit |-> Stray, block |-> 0, count |-> 0]

(***************************************************************************)
(* The drive.                                                              *)
(***************************************************************************)
At(s)   == Sound /\ d = s
Takes(s) == At(s) /\ inbox # <<>> /\ inbox' = Tail(inbox)
Token   == Head(inbox)

\* port_write_byte drops a byte that finds the buffer full.
Put(t) == outbox' = IF Len(outbox) < OutSize THEN Append(outbox, t) ELSE outbox
Continue == <<"continue">>

Reached(u) == IF file[u] = 0 THEN None ELSE open[file[u]]

\* What keeps unit u from working on the tape the operator mounted there.
Trouble(u) == IF mounted[u] = None THEN "noTape"
              ELSE IF Reached(u) # mounted[u] THEN "aliased" ELSE None
Touch(u) == Note(Trouble(u), Trouble(u) # None)

\* The first INIT only takes the port out of MODE_IDLE (app.c).
Wake ==
  /\ Takes("asleep")
  /\ d' = IF Token = <<"init">> THEN "IDLE" ELSE "asleep"
  /\ UNCHANGED <<driveVars, fileVars, tape, outbox, hostVars, events, mishap>>

Idle ==
  /\ Takes("IDLE")
  /\ IF Token = <<"init">> THEN Put(Continue) /\ d' = "WAIT_COMMAND"
                           ELSE UNCHANGED <<d, outbox>>
  /\ UNCHANGED <<driveVars, fileVars, tape, hostVars, events, mishap>>

WaitCommand ==
  /\ Takes("WAIT_COMMAND")
  /\ IF Token = <<"init">> THEN Put(Continue) ELSE UNCHANGED outbox
  /\ d' = CASE Token = <<"boot">>    -> "START_BOOTSTRAP"
            [] Token = <<"DATA">>    -> "GET_WRITE"
            [] Token = <<"COMMAND">> -> "GET_COMMAND"
            [] OTHER                 -> d
  /\ behind' = (behind \/ Token = <<"COMMAND">>)
  /\ Note("misread", Token[1] \in {"chunk", "do", "unit"})
  /\ UNCHANGED <<drive, command, progress, status, pos, packet, next_state,
                 fileVars, tape, hostVars, events>>

StartBootstrap ==
  /\ Takes("START_BOOTSTRAP")
  /\ IF Token[1] # "unit"
     THEN mishap' = "misread" /\ UNCHANGED <<d, drive, pos>>
     ELSE /\ drive' = Token[2]
          /\ pos' = 0
          /\ d' = IF file[Token[2]] = 0 THEN "WAIT_COMMAND" ELSE "RUN_BOOTSTRAP"
          /\ UNCHANGED mishap
  /\ UNCHANGED <<command, progress, status, behind, packet, next_state, fileVars,
                 tape, outbox, hostVars, events>>

RunBootstrap ==
  /\ At("RUN_BOOTSTRAP") /\ Len(outbox) < OutSize
  /\ Touch(drive)
  /\ IF Trouble(drive) # None THEN UNCHANGED <<d, pos, outbox>>
     ELSE /\ outbox' = Append(outbox, <<"raw", tape[Reached(drive)][pos]>>)
          /\ pos' = pos + 1
          /\ d' = IF pos' >= Block THEN "WAIT_COMMAND" ELSE d
  /\ UNCHANGED <<drive, command, progress, status, behind, packet, next_state,
                 fileVars, tape, inbox, hostVars, events>>

GetCommand ==
  /\ Takes("GET_COMMAND")
  /\ command' = IF Token[1] = "do" THEN Token[2] ELSE Broken
  /\ drive' = command'.unit
  /\ d' = "EXEC_COMMAND"
  /\ UNCHANGED <<progress, status, behind, pos, packet, next_state, fileVars,
                 tape, outbox, hostVars, events, mishap>>

\* Mutants: progress is left from the operation before; so is bufpos.
StartAt_Last == progress
StartAt == 0

Behind_Left == behind
Behind == FALSE

Execute ==
  \/ /\ command.code = "NOP"
     /\ d' = "START_ENDPACKET" /\ status' = "NORMAL"
     /\ UNCHANGED <<progress, behind, outbox>>
  \/ /\ command.code = "READ"
     /\ d' = "READ_DATA" /\ progress' = StartAt
     /\ UNCHANGED <<status, behind, outbox>>
  \/ /\ command.code = "WRITE"
     /\ d' = "WAIT_COMMAND" /\ progress' = StartAt /\ behind' = Behind
     /\ Put(Continue)
     /\ UNCHANGED status

\* Mutant: the drive waits for the rest of a packet with a wrong checksum.
Rejected_Not == "GET_COMMAND"
Rejected == "WAIT_COMMAND"

\* The checksum is compared after ~ and 0 - have made x + 1 of an x of 8000H or
\* more, so such a packet is refused like a broken one.
ExecCommand ==
  /\ At("EXEC_COMMAND")
  /\ IF command = Broken \/ command \in Folded
     THEN d' = Rejected /\ UNCHANGED <<progress, behind, status, outbox>>
     ELSE Execute
  /\ UNCHANGED <<drive, command, pos, packet, next_state, fileVars, tape, inbox,
                 hostVars, events, mishap>>

Here == command.block * Block + progress

\* Past the end is an error; at the end FileRead returns 0 and the drive
\* sends empty packets for ever.
ReadData ==
  /\ At("READ_DATA")
  /\ IF progress >= command.count \/ Here > TapeSize
     THEN /\ d' = "START_ENDPACKET"
          /\ status' = IF progress >= command.count THEN "NORMAL" ELSE "PARTIAL"
          /\ UNCHANGED <<progress, packet, next_state, mishap>>
     ELSE IF Here = TapeSize \/ Trouble(drive) # None
     THEN /\ mishap' = IF Trouble(drive) # None THEN Trouble(drive) ELSE "endless"
          /\ UNCHANGED <<d, status, progress, packet, next_state>>
     ELSE /\ packet' = <<"data", tape[Reached(drive)][Here]>>
          /\ progress' = progress + 1
          /\ d' = "SEND_PACKET" /\ next_state' = "READ_DATA"
          /\ UNCHANGED <<status, mishap>>
  /\ UNCHANGED <<drive, command, behind, pos, fileVars, tape, inbox, outbox,
                 hostVars, events>>

\* Mutant: the room in the port's buffer is not looked at.
Write_Anyway == outbox' = Append(outbox, packet)
Write == Len(outbox) < OutSize /\ outbox' = Append(outbox, packet)

SendPacket ==
  /\ At("SEND_PACKET")
  /\ Write
  /\ behind' = TRUE
  /\ d' = next_state
  /\ UNCHANGED <<drive, command, progress, status, pos, packet, next_state,
                 fileVars, tape, inbox, hostVars, events, mishap>>

StartEndpacket ==
  /\ At("START_ENDPACKET")
  /\ packet' = <<"end", status>> /\ progress' = 0
  /\ d' = "SEND_PACKET" /\ next_state' = "WAIT_COMMAND"
  /\ UNCHANGED <<drive, command, status, behind, pos, fileVars, tape, inbox,
                 outbox, hostVars, events, mishap>>

\* Whatever completes the packet, the buffer is written: the checksum is not
\* looked at.  With bufpos left behind it holds an older packet.
GetWrite ==
  /\ Takes("GET_WRITE")
  /\ LET bad == IF Token[1] # "chunk" THEN "garbled" ELSE Trouble(drive)
     IN  IF bad # None
         THEN mishap' = bad /\ UNCHANGED <<d, tape, progress, status, outbox>>
         ELSE /\ tape' = [tape EXCEPT ![Reached(drive)][Here] =
                         IF behind THEN <<"stale">> ELSE Token[2]]
              /\ progress' = progress + 1
              /\ IF progress' >= command.count
                 THEN d' = "START_ENDPACKET" /\ status' = "NORMAL" /\ UNCHANGED outbox
                 ELSE d' = "WAIT_COMMAND" /\ Put(Continue) /\ UNCHANGED status
              /\ UNCHANGED mishap
  /\ behind' = FALSE
  /\ UNCHANGED <<drive, command, pos, packet, next_state, fileVars, hostVars,
                 events>>

(***************************************************************************)
(* tu58_mount.  The old tape is dismounted first, which closes its handle  *)
(* and keeps it, and frees its name and keeps that too.  A file that is    *)
(* too big is refused only after that, and so is one that does not open.   *)
(***************************************************************************)
Dismounted(u) == IF file[u] = 0 THEN open ELSE [open EXCEPT ![file[u]] = None]

Busy == computer # "ready" \/ inbox # <<>>

\* The next dismount frees the name again.
Freed(u) == file[u] # 0 /\ mounted[u] = None

\* What a MOUNT may do to the drive besides; a double free may do no harm.
Mounting(u) ==
  /\ Sound /\ Happens
  /\ mishap' \in {IF Busy THEN "swapped" ELSE mishap}
                  \cup (IF Freed(u) THEN {"freed"} ELSE {})
  /\ UNCHANGED <<d, driveVars, tape, inbox, outbox, hostVars>>

MountTape(u, t) ==
  LET h == Min({i \in Handles : Dismounted(u)[i] = None})
  IN  /\ Mounting(u)
      /\ t \notin Range(Dismounted(u)) \cup {mounted[1 - u]}
      /\ open' = [Dismounted(u) EXCEPT ![h] = t]
      /\ file' = [file EXCEPT ![u] = h]
      /\ mounted' = [mounted EXCEPT ![u] = t]

MountTooBig(u) ==
  /\ Mounting(u)
  /\ file[u] # 0
  /\ open' = Dismounted(u)
  /\ mounted' = [mounted EXCEPT ![u] = None]
  /\ UNCHANGED file

MountUnopened(u) ==
  /\ Mounting(u)
  /\ file[u] # 0
  /\ open' = Dismounted(u)
  /\ file' = [file EXCEPT ![u] = 0]
  /\ mounted' = [mounted EXCEPT ![u] = None]

(***************************************************************************)
(* The computer.                                                           *)
(***************************************************************************)
Start ==
  /\ Sound /\ computer = "start" /\ computer' = "init"
  /\ inbox' = Append(inbox, <<"init">>)
  /\ UNCHANGED <<d, driveVars, fileVars, tape, outbox, op, k, got, n, expect,
                 events, mishap>>

\* The chunks of its tape that operation o is about.
Span(o) == o.block * Block .. o.block * Block + o.count - 1

Begin(o) ==
  /\ Sound /\ computer = "ready" /\ n < MaxOps
  /\ n' = n + 1 /\ op' = o /\ k' = 0 /\ got' = <<>>
  /\ computer' = o.code
  /\ inbox' = inbox \o IF o.code = "BOOT" THEN <<<<"boot">>, <<"unit", o.unit>>>>
                                          ELSE <<<<"COMMAND">>, <<"do", o>>>>
  /\ expect' = [t \in Tapes |-> [c \in Chunks |->
       IF o.code = "WRITE" /\ mounted[o.unit] = t /\ c \in Span(o)
       THEN Unknown ELSE expect[t][c]]]
  /\ UNCHANGED <<d, driveVars, fileVars, tape, outbox, events, mishap>>

Answer == Head(outbox)
Normal == <<"end", "NORMAL">>
Written(c) == <<"new", n, c - op.block * Block>>

Receive ==
  /\ Sound /\ outbox # <<>> /\ outbox' = Tail(outbox)
  /\ got' = IF \/ computer = "READ" /\ Answer[1] = "data"
               \/ computer = "BOOT" /\ Answer[1] = "raw"
            THEN Append(got, Answer[2]) ELSE got
  /\ computer' = IF \/ computer = "init" /\ Answer = Continue
                    \/ computer = "BOOT" /\ Len(got') = Block
                    \/ computer \in {"READ", "WRITE", "NOP"} /\ Answer[1] = "end"
                 THEN "ready" ELSE computer
  /\ IF computer = "WRITE" /\ Answer = Continue /\ k < op.count
     THEN /\ k' = k + 1
          /\ inbox' = inbox \o <<<<"DATA">>, <<"chunk", <<"new", n, k>>>>>>
     ELSE UNCHANGED <<k, inbox>>
  /\ expect' = IF computer = "WRITE" /\ Answer = Normal
               THEN [expect EXCEPT ![mounted[op.unit]] = [c \in Chunks |->
                       IF c \in Span(op) THEN Written(c) ELSE @[c]]]
               ELSE expect
  /\ UNCHANGED <<d, driveVars, fileVars, tape, op, n, events, mishap>>

\* Its timeout is longer than the drive ever takes.
Silent == inbox = <<>> /\ outbox = <<>>
          /\ d \in {"asleep", "IDLE", "WAIT_COMMAND", "START_BOOTSTRAP",
                    "GET_COMMAND", "GET_WRITE"}

Timeout ==
  /\ Sound /\ Silent /\ computer \notin {"start", "ready"}
  /\ computer' = "start"
  /\ UNCHANGED <<d, driveVars, fileVars, tape, inbox, outbox, op, k, got, n,
                 expect, events, mishap>>

\* Bytes are lost on the line, either way.
Lose ==
  /\ Sound /\ Happens
  /\ \/ inbox # <<>> /\ inbox' = Tail(inbox) /\ UNCHANGED outbox
     \/ outbox # <<>> /\ outbox' = Tail(outbox) /\ UNCHANGED inbox
  /\ UNCHANGED <<d, driveVars, fileVars, tape, hostVars, mishap>>

Original == [t \in Tapes |-> [c \in Chunks |-> <<"was", t, c>>]]

Init ==
  /\ d = "asleep" /\ drive = 0 /\ command = Nothing /\ progress = 0
  /\ status = "NORMAL" /\ behind = FALSE /\ pos = 0
  /\ packet = Continue /\ next_state = "WAIT_COMMAND"
  /\ tape = Original /\ expect = Original
  /\ \E t \in Tapes :
       /\ mounted = [u \in Units |-> IF u = 0 THEN t ELSE None]
       /\ open = [h \in Handles |-> IF h = 1 THEN t ELSE None]
  /\ file = [u \in Units |-> IF u = 0 THEN 1 ELSE 0]
  /\ inbox = <<>> /\ outbox = <<>>
  /\ computer = "start" /\ op = Nothing /\ k = 0 /\ got = <<>> /\ n = 0
  /\ events = 0 /\ mishap = "none"

Drive == \/ Wake \/ Idle \/ WaitCommand \/ StartBootstrap \/ RunBootstrap
         \/ GetCommand \/ ExecCommand \/ ReadData \/ SendPacket
         \/ StartEndpacket \/ GetWrite

Next ==
  \/ Drive
  \/ \E u \in Units, t \in Tapes : MountTape(u, t)
  \/ \E u \in Units : MountTooBig(u) \/ MountUnopened(u)
  \/ \E o \in Ops : Begin(o)
  \/ Start \/ Receive \/ Timeout \/ Lose
  \/ (~Sound \/ computer = "ready") /\ UNCHANGED vars

Spec == Init /\ [][Next]_vars

\* The main loop comes round to the port, and the computer reads what it is
\* sent and loses patience.
FairSpec == /\ Spec
            /\ WF_vars(Drive) /\ WF_vars(Start) /\ WF_vars(Receive) /\ WF_vars(Timeout)

(***************************************************************************)
(* Properties, up to the first mishap:                                     *)
(*   misread   bytes of a broken packet were taken for commands            *)
(*   garbled   the packet was completed by what came after it, and written *)
(*   endless   a read came to the end of the tape, and never ends          *)
(*   noTape    the unit had no tape, and the operation reports success     *)
(*   aliased   the unit's old handle has become another unit's tape        *)
(*   freed     a name was freed twice, and the heap is no longer sound     *)
(*   swapped   a MOUNT while the computer was using the drive              *)
(***************************************************************************)
\* What a chunk of a tape may hold, what the drive may say, and the computer.
Marks    == {<<"stale">>} \cup ({"was"} \X Tapes \X Chunks)
              \cup ({"new"} \X (0..MaxOps) \X Nat)
Answers  == {Continue} \cup ({"end"} \X {"NORMAL", "PARTIAL"})
              \cup ({"data", "raw"} \X Marks)
Requests == {<<"init">>, <<"boot">>, <<"DATA">>, <<"COMMAND">>}
              \cup ({"unit"} \X Units) \cup ({"do"} \X Ops)
              \cup ({"chunk"} \X Marks)

\* Every variable has its type, what is on the line and on the tapes included,
\* and the drive sends no more than fits.
TypeOK ==
  /\ d \in {"asleep", "IDLE", "WAIT_COMMAND", "START_BOOTSTRAP", "RUN_BOOTSTRAP",
            "GET_COMMAND", "EXEC_COMMAND", "READ_DATA", "SEND_PACKET",
            "START_ENDPACKET", "GET_WRITE"}
  /\ drive \in Units \cup {Stray} /\ command \in Ops \cup {Nothing, Broken}
  /\ progress \in 0..TapeSize /\ status \in {"NORMAL", "PARTIAL"}
  /\ behind \in BOOLEAN /\ pos \in 0..Block
  /\ packet \in Answers /\ next_state \in {"WAIT_COMMAND", "READ_DATA"}
  /\ file \in [Units -> Handles \cup {0}]
  /\ open \in [Handles -> Tapes \cup {None}]
  /\ mounted \in [Units -> Tapes \cup {None}]
  /\ tape \in [Tapes -> [Chunks -> Marks]]
  /\ inbox \in Seq(Requests)
  /\ outbox \in Seq(Answers) /\ Len(outbox) <= OutSize
  /\ computer \in {"start", "init", "ready", "READ", "WRITE", "BOOT", "NOP"}
  /\ op \in Ops \cup {Nothing} /\ k \in 0..op.count /\ got \in Seq(Marks)
  /\ n \in 0..MaxOps
  /\ expect \in [Tapes -> [Chunks -> Marks \cup {Unknown}]]
  /\ events \in 0..MaxEvents /\ mishap \in Mishaps

\* What the drive has acknowledged stays on the tape: no later operation, lost
\* byte, repeated INIT or MOUNT changes a chunk that was written, or one that
\* was never written, in any tape.
TapesKept == \A t \in Tapes, c \in Chunks : expect[t][c] \in {Unknown, tape[t][c]}

\* A read that ends well, and a bootstrap, deliver what is on the tape the
\* operator mounted, chunk by chunk.
Ended == \/ computer = "READ" /\ Answer = Normal /\ Len(got) = op.count
         \/ computer = "BOOT"

ReadIsTrue == [][computer' = "ready" /\ Ended =>
  \A i \in DOMAIN got' :
    expect[mounted[op.unit]][op.block * Block + i - 1] \in {Unknown, got'[i]}]_vars

\* Whatever was lost on the line, the computer gets the drive's attention back.
Served == []<>(computer = "ready" \/ ~Sound)
=============================================================================
