----------------------------- MODULE Tu58Proofs -----------------------------
(***************************************************************************)
(* The tape drive, for any tapes, operations and buffer: up to the first   *)
(* mishap drive and computer never lose each other, and what the drive has *)
(* acknowledged, or was never asked to write, stays on the tapes.          *)
(***************************************************************************)
EXTENDS Tu58, MinMax, SequenceTheorems

(***************************************************************************)
(* Types.                                                                  *)
(***************************************************************************)
\* A stray unit stays where no unit is looked at.
DriveOK ==
  /\ d \in {"asleep", "IDLE", "WAIT_COMMAND", "START_BOOTSTRAP", "RUN_BOOTSTRAP",
            "GET_COMMAND", "EXEC_COMMAND", "READ_DATA", "SEND_PACKET",
            "START_ENDPACKET", "GET_WRITE"}
  /\ drive \in Units \cup {Stray} /\ command \in Ops \cup {Nothing, Broken}
  /\ progress \in 0..TapeSize /\ status \in {"NORMAL", "PARTIAL"}
  /\ behind \in BOOLEAN /\ pos \in 0..Block
  /\ next_state \in {"WAIT_COMMAND", "READ_DATA"} /\ packet \in Answers
  /\ drive = Stray => d \in {"EXEC_COMMAND", "WAIT_COMMAND", "START_BOOTSTRAP",
                             "GET_COMMAND", "GET_WRITE"}

\* An open handle belongs to a unit.
FilesOK ==
  /\ file \in [Units -> Handles \cup {0}]
  /\ open \in [Handles -> Tapes \cup {None}]
  /\ mounted \in [Units -> Tapes \cup {None}]
  /\ \A h \in Handles : open[h] # None => \E u \in Units : file[u] = h

DataOK ==
  /\ tape \in [Tapes -> [Chunks -> Marks]]
  /\ expect \in [Tapes -> [Chunks -> Marks \cup {Unknown}]]
  /\ got \in Seq(Marks)

LineOK == outbox \in Seq(Answers) /\ Len(outbox) <= OutSize

HostOK ==
  /\ computer \in {"start", "init", "ready", "READ", "WRITE", "BOOT", "NOP"}
  /\ op \in Ops \cup {Nothing} /\ k \in 0..op.count
  /\ n \in 0..MaxOps /\ events \in 0..MaxEvents /\ mishap \in Mishaps

TypeInv == DriveOK /\ FilesOK /\ DataOK /\ LineOK /\ HostOK

LEMMA TypeParts == TypeInv /\ inbox \in Seq(Requests) => TypeOK
BY DEF TypeInv, TypeOK, DriveOK, FilesOK, DataOK, LineOK, HostOK

(***************************************************************************)
(* Who waits for whom.                                                     *)
(***************************************************************************)
Waiting == {"asleep", "IDLE", "WAIT_COMMAND", "START_BOOTSTRAP", "GET_COMMAND", "GET_WRITE"}
Quiet == inbox = <<>> /\ outbox = <<>>
Do    == <<"do", op>>
Unit  == <<"unit", op.unit>>
Chunk == <<"chunk", <<"new", n, k - 1>>>>

Initing ==
  \/ d \in Waiting /\ outbox = <<>> /\ inbox \in {<<>>, <<<<"init">>>>}
  \/ d = "WAIT_COMMAND" /\ inbox = <<>> /\ outbox = <<Continue>>
  \/ d = "EXEC_COMMAND" /\ Quiet /\ command = Broken

\* The drive has not begun with the command yet.
Asked ==
  /\ outbox = <<>>
  /\ \/ d = "WAIT_COMMAND" /\ inbox \in {<<>>, <<Do>>, <<<<"COMMAND">>, Do>>}
     \/ d = "GET_COMMAND" /\ inbox \in {<<>>, <<Do>>}
     \/ d = "EXEC_COMMAND" /\ inbox = <<>> /\ command = op /\ drive = op.unit

\* The drive has the last word, the end packet.
Answering ==
  /\ inbox = <<>>
  /\ d \in {"READ_DATA", "SEND_PACKET", "START_ENDPACKET", "WAIT_COMMAND"}
  /\ d = "SEND_PACKET" => \/ next_state = "READ_DATA" /\ packet[1] = "data"
                          \/ next_state = "WAIT_COMMAND" /\ packet[1] = "end"
  /\ \A i \in 1..Len(outbox) :
       \/ outbox[i][1] = "data"
       \/ outbox[i][1] = "end" /\ i = Len(outbox) /\ d = "WAIT_COMMAND"

\* The first m chunks of the operation are on the tape.
OnTape(m) ==
  \A t \in Tapes : mounted[op.unit] = t =>
    \A i \in 0..m - 1 : tape[t][op.block * Block + i] = <<"new", n, i>>

\* Chunk by chunk: the computer is one ahead, or waits for the chunk after.
Writing ==
  /\ command = op /\ drive = op.unit /\ ~behind
  /\ OnTape(progress)
  /\ \/ d = "WAIT_COMMAND" /\ Quiet
     \/ /\ d = "WAIT_COMMAND" /\ inbox = <<>> /\ outbox = <<Continue>>
        /\ progress = k /\ k < op.count
     \/ /\ outbox = <<>> /\ k > 0 /\ progress = k - 1
        /\ \/ d = "WAIT_COMMAND" /\ inbox \in {<<Chunk>>, <<<<"DATA">>, Chunk>>}
           \/ d = "GET_WRITE" /\ inbox \in {<<>>, <<Chunk>>}

Bootstrapping ==
  \/ /\ outbox = <<>> /\ got = <<>>
     /\ \/ d = "WAIT_COMMAND" /\ inbox \in {<<Unit>>, <<<<"boot">>, Unit>>}
        \/ d = "START_BOOTSTRAP" /\ inbox \in {<<>>, <<Unit>>}
  \/ /\ inbox = <<>>
     /\ \/ d = "RUN_BOOTSTRAP" /\ pos < Block /\ Len(got) + Len(outbox) <= pos
        \/ d = "WAIT_COMMAND" /\ Len(got) + Len(outbox) <= Block

Phase ==
  /\ computer = "start" => Quiet /\ d \in Waiting
  /\ computer = "init" => Initing
  /\ computer = "ready" => Quiet /\ d = "WAIT_COMMAND"
  /\ computer \in {"READ", "NOP"} => Asked \/ Answering
  /\ computer = "WRITE" => \/ Asked /\ k = 0
                           \/ Writing
                           \/ Answering /\ OnTape(op.count)
  /\ computer = "BOOT" => Bootstrapping

\* The computer keeps to its operation, and does not know what is on the chunks
\* it is writing.
Engaged ==
  /\ computer \in {"READ", "WRITE", "BOOT", "NOP"} => op \in Ops /\ op.code = computer
  /\ computer = "WRITE" => \A t \in Tapes : mounted[op.unit] = t =>
                             \A c \in Span(op) : expect[t][c] = Unknown

Talk == Sound => Phase /\ Engaged

Inv == TypeInv /\ Talk /\ TapesKept

(***************************************************************************)
(* Lines of one and two tokens, and what is said on them.                  *)
(***************************************************************************)
LEMMA Tokens ==
  ASSUME NEW a, NEW b
  PROVE  /\ Head(<<a>>) = a /\ Tail(<<a>>) = <<>> /\ <<a>> # <<>> /\ Len(<<a>>) = 1 /\ <<a>>[1] = a
         /\ Head(<<a, b>>) = a /\ Tail(<<a, b>>) = <<b>> /\ <<a, b>> # <<>>
         /\ Append(<<>>, a) = <<a>> /\ <<>> \o <<a, b>> = <<a, b>>
OBVIOUS

LEMMA AnswerWords ==
  /\ \A a \in Answers : /\ a[1] \in {"continue", "end", "data", "raw"}
                        /\ a[1] \in {"data", "raw"} => a[2] \in Marks
                        /\ a[1] = "continue" <=> a = Continue
  /\ Continue \in Answers /\ \A s \in {"NORMAL", "PARTIAL"} : <<"end", s>> \in Answers
  /\ \A m \in Marks : <<"data", m>> \in Answers /\ <<"raw", m>> \in Answers
BY DEF Answers, Continue

LEMMA MarkIs ==
  /\ <<"stale">> \in Marks
  /\ \A t \in Tapes, c \in Chunks : <<"was", t, c>> \in Marks
  /\ \A i \in 0..MaxOps, j \in Nat : <<"new", i, j>> \in Marks
BY DEF Marks

\* The computer writes within the tape.
LEMMA SpanOnTape ==
  ASSUME NEW o \in Ops, o.code = "WRITE"
  PROVE  /\ o.block * Block \in Nat /\ o.count \in Nat /\ o.count > 0
         /\ o.block * Block + o.count <= TapeSize
         /\ Span(o) \subseteq Chunks
         /\ \A i \in 0..o.count - 1 : o.block * Block + i \in Span(o)
         /\ \A c \in Span(o) : c - o.block * Block \in 0..o.count - 1
<1>1. o.count \in Nat /\ o.block \in Nat /\ o.unit \in Units /\ Block \in Nat /\ TapeSize \in Nat
  BY Tu58Assumption
<1>2. o.count > 0 /\ o.block * Block + o.count <= TapeSize
  BY Tu58Assumption
<1> DEFINE b == o.block * Block
<1>3. b \in Nat
  BY <1>1
<1>4. b + o.count <= TapeSize /\ Span(o) = b .. b + o.count - 1
  BY <1>2 DEF Span
<1> HIDE DEF b
<1>5. /\ Span(o) \subseteq Chunks
      /\ \A i \in 0..o.count - 1 : b + i \in Span(o)
      /\ \A c \in Span(o) : c - b \in 0..o.count - 1
  <2>1. Span(o) \subseteq Chunks
    BY <1>1, <1>3, <1>4 DEF Chunks
  <2>2. \A i \in 0..o.count - 1 : b + i \in Span(o)
    BY <1>1, <1>3, <1>4
  <2>3. \A c \in Span(o) : c - b \in 0..o.count - 1
    BY <1>1, <1>3, <1>4
  <2> QED BY <2>1, <2>2, <2>3
<1> QED BY <1>1, <1>2, <1>3, <1>5 DEF b

LEMMA CommandTypes ==
  ASSUME NEW o \in Ops \cup {Nothing, Broken}
  PROVE  o.count \in Nat /\ o.block * Block \in Nat /\ o.unit \in Units \cup {Stray}
         /\ (o # Broken => o \in Ops \cup {Nothing})
BY Tu58Assumption DEF Nothing, Broken, Stray, Units

LEMMA OpTypes ==
  ASSUME NEW o \in Ops \cup {Nothing}
  PROVE  o # Broken /\ o.unit # Stray /\ o.count \in Nat /\ o.block \in Nat /\ o.unit \in Units
         /\ o.code \in {"NOP", "READ", "WRITE", "BOOT"} /\ o.block * Block \in Nat
BY Tu58Assumption DEF Nothing, Broken, Stray, Units

LEMMA InvInit == Init => Inv
<1> SUFFICES ASSUME Init PROVE Inv
  OBVIOUS
<1> USE Tu58Assumption
<1>1. DriveOK
  <2>1. packet \in Answers
    BY AnswerWords, Zenon DEF Init
  <2>2. Block \in Nat /\ TapeSize \in Nat
    OBVIOUS
  <2>3. /\ d = "asleep" /\ drive = 0 /\ command = Nothing /\ progress = 0
        /\ status = "NORMAL" /\ behind = FALSE /\ pos = 0 /\ next_state = "WAIT_COMMAND"
    BY Zenon DEF Init
  <2>4. command \in Ops \cup {Nothing, Broken} /\ behind \in BOOLEAN
    BY ONLY <2>3
  <2>5. progress \in 0..TapeSize /\ pos \in 0..Block /\ drive \in Units /\ drive # Stray
    BY ONLY <2>2, <2>3 DEF Units, Stray
  <2> QED BY ONLY <2>1, <2>3, <2>4, <2>5 DEF DriveOK
<1>2. FilesOK
  BY DEF Init, FilesOK, Units, Handles
<1>3. DataOK /\ TapesKept
  BY MarkIs DEF Init, DataOK, TapesKept, Original
<1>4. LineOK
  BY DEF Init, LineOK
<1>5. HostOK
  BY DEF Init, HostOK, Nothing, Mishaps
<1>6. Talk
  BY DEF Init, Talk, Phase, Engaged, Quiet, Waiting
<1> QED BY <1>1, <1>2, <1>3, <1>4, <1>5, <1>6 DEF Inv, TypeInv

(***************************************************************************)
(* The drive.                                                              *)
(***************************************************************************)
\* A step of the drive that leaves the tapes alone.
LEMMA DriveKeeps ==
  ASSUME Inv, UNCHANGED <<fileVars, tape, hostVars, events>>,
         DriveOK', LineOK', mishap' \in Mishaps, Sound' => Sound /\ Phase'
  PROVE  Inv'
<1>1. FilesOK' /\ DataOK' /\ HostOK' /\ TapesKept'
  BY DEF Inv, TypeInv, fileVars, hostVars, FilesOK, DataOK, HostOK, TapesKept
<1>2. Sound' => Engaged'
  BY DEF Inv, Talk, Engaged, fileVars, hostVars
<1> QED BY <1>1, <1>2 DEF Inv, TypeInv, Talk

\* Nothing is put on the line, and it holds no more than before.
LEMMA LineKept ==
  ASSUME LineOK, UNCHANGED outbox
  PROVE  LineOK'
BY DEF LineOK

LEMMA PutFits ==
  ASSUME LineOK, NEW a \in Answers, Put(a)
  PROVE  LineOK' /\ (outbox = <<>> => outbox' = <<a>>)
<1>1. OutSize \in Nat \ {0}
  BY Tu58Assumption
<1>2. Append(outbox, a) \in Seq(Answers) /\ Len(Append(outbox, a)) = Len(outbox) + 1
  BY DEF LineOK
<1>3. outbox = <<>> => Len(outbox) = 0
  OBVIOUS
<1>4. LineOK'
  BY <1>1, <1>2 DEF Put, LineOK
<1>5. ASSUME outbox = <<>> PROVE outbox' = <<a>>
  <2>1. outbox' = Append(outbox, a)
    BY <1>1, <1>3, <1>5 DEF Put
  <2> QED BY <1>5, <2>1, Tokens
<1> QED BY <1>4, <1>5

LEMMA WakeStep == Inv /\ Wake => Inv'
<1> SUFFICES ASSUME Inv, Wake PROVE Inv'
  OBVIOUS
<1>1. /\ Sound /\ Phase /\ d = "asleep" /\ inbox # <<>> /\ inbox' = Tail(inbox)
      /\ d' = IF Head(inbox) = <<"init">> THEN "IDLE" ELSE "asleep"
      /\ UNCHANGED <<driveVars, fileVars, tape, outbox, hostVars, events, mishap>>
  BY DEF Wake, Takes, At, Token, Inv, Talk
<1>2. computer = "init" /\ Initing
  BY <1>1 DEF Phase, Inv, TypeInv, HostOK, Quiet, Asked, Answering, Writing, Bootstrapping
<1>3. d' \in Waiting /\ outbox' = <<>> /\ inbox' = <<>>
  BY <1>1, <1>2, Tokens DEF Initing, Waiting
<1>4. Phase'
  BY <1>1, <1>2, <1>3 DEF Phase, Initing, hostVars
<1> QED BY <1>1, <1>3, <1>4, DriveKeeps, LineKept DEF Inv, TypeInv, DriveOK, Waiting, driveVars, HostOK

LEMMA IdleStep == Inv /\ Idle => Inv'
<1> SUFFICES ASSUME Inv, Idle PROVE Inv'
  OBVIOUS
<1>1. /\ Sound /\ Phase /\ d = "IDLE" /\ inbox # <<>> /\ inbox' = Tail(inbox)
      /\ IF Head(inbox) = <<"init">> THEN Put(Continue) /\ d' = "WAIT_COMMAND"
                                    ELSE UNCHANGED <<d, outbox>>
      /\ UNCHANGED <<driveVars, fileVars, tape, hostVars, events, mishap>>
  BY DEF Idle, Takes, At, Token, Inv, Talk
<1>2. computer = "init" /\ Initing
  BY <1>1 DEF Phase, Inv, TypeInv, HostOK, Quiet, Asked, Answering, Writing, Bootstrapping
<1>3. outbox = <<>> /\ inbox = <<<<"init">>>>
  BY <1>1, <1>2 DEF Initing
<1>4. inbox' = <<>> /\ Put(Continue) /\ d' = "WAIT_COMMAND"
  BY <1>1, <1>3, Tokens
<1>5. LineOK' /\ outbox' = <<Continue>>
  BY <1>3, <1>4, PutFits, AnswerWords DEF Inv, TypeInv
<1>6. Phase'
  BY <1>1, <1>2, <1>4, <1>5 DEF Phase, Initing, hostVars
<1> QED BY <1>1, <1>4, <1>5, <1>6, DriveKeeps DEF Inv, TypeInv, DriveOK, driveVars, HostOK

LEMMA WaitCommandStep == Inv /\ WaitCommand => Inv'
<1> SUFFICES ASSUME Inv, WaitCommand PROVE Inv'
  OBVIOUS
<1> DEFINE tk == Head(inbox)
<1>1. /\ Sound /\ Phase /\ d = "WAIT_COMMAND" /\ inbox # <<>> /\ inbox' = Tail(inbox)
      /\ IF tk = <<"init">> THEN Put(Continue) ELSE UNCHANGED outbox
      /\ behind' = (behind \/ tk = <<"COMMAND">>)
      /\ mishap' = IF tk[1] \in {"chunk", "do", "unit"} THEN "misread" ELSE "none"
      /\ UNCHANGED <<drive, command, progress, status, pos, packet, next_state,
                     fileVars, tape, hostVars, events>>
  BY DEF WaitCommand, Takes, At, Token, Inv, Talk, Note, Sound
<1>2. d' = CASE tk = <<"boot">>    -> "START_BOOTSTRAP"
             [] tk = <<"DATA">>    -> "GET_WRITE"
             [] tk = <<"COMMAND">> -> "GET_COMMAND"
             [] OTHER              -> d
  BY Zenon DEF WaitCommand, Token
<1>3. d' \in {"START_BOOTSTRAP", "GET_WRITE", "GET_COMMAND", "WAIT_COMMAND"}
  BY <1>1, <1>2
<1>4. LineOK'
  BY <1>1, PutFits, LineKept, AnswerWords DEF Inv, TypeInv
<1>5. DriveOK' /\ mishap' \in Mishaps
  BY <1>1, <1>3 DEF Inv, TypeInv, DriveOK, Mishaps
<1>6. ASSUME Sound' PROVE Phase'
  <2>1. tk[1] \notin {"chunk", "do", "unit"}
    BY <1>1, <1>6 DEF Sound
  <2>2. \/ computer = "init" /\ outbox = <<>> /\ inbox = <<<<"init">>>>
        \/ computer \in {"READ", "NOP", "WRITE"} /\ outbox = <<>>
           /\ inbox = <<<<"COMMAND">>, Do>> /\ (computer = "WRITE" => k = 0)
        \/ computer = "WRITE" /\ Writing /\ outbox = <<>> /\ k > 0 /\ progress = k - 1
           /\ inbox = <<<<"DATA">>, Chunk>>
        \/ computer = "BOOT" /\ outbox = <<>> /\ got = <<>> /\ inbox = <<<<"boot">>, Unit>>
    <3>1. computer # "start" /\ computer # "ready"
      BY <1>1 DEF Phase, Quiet
    <3>2. inbox # <<Do>> /\ inbox # <<Chunk>> /\ inbox # <<Unit>>
      BY <2>1, Tokens DEF Do, Chunk, Unit
    <3>3. CASE computer = "init"
      BY <1>1, <3>3 DEF Phase, Initing
    <3>4. CASE computer \in {"READ", "NOP"}
      BY <1>1, <3>2, <3>4 DEF Phase, Asked, Answering
    <3>5. CASE computer = "WRITE"
      BY <1>1, <3>2, <3>5 DEF Phase, Asked, Answering, Writing, Quiet
    <3>6. CASE computer = "BOOT"
      BY <1>1, <3>2, <3>6 DEF Phase, Bootstrapping
    <3> QED BY <3>1, <3>3, <3>4, <3>5, <3>6 DEF Inv, TypeInv, HostOK
  <2>3. CASE computer = "init" /\ outbox = <<>> /\ inbox = <<<<"init">>>>
    <3>1. tk = <<"init">> /\ inbox' = <<>>
      BY <1>1, <2>3, Tokens
    <3>2. d' = "WAIT_COMMAND"
      BY <1>1, <1>2, <3>1
    <3>3. outbox' = <<Continue>>
      BY <1>1, <2>3, <3>1, PutFits, AnswerWords DEF Inv, TypeInv
    <3> QED BY <1>1, <2>3, <3>1, <3>2, <3>3 DEF Phase, Initing, hostVars
  <2>4. CASE computer \in {"READ", "NOP", "WRITE"} /\ outbox = <<>>
             /\ inbox = <<<<"COMMAND">>, Do>> /\ (computer = "WRITE" => k = 0)
    <3>1. tk = <<"COMMAND">> /\ inbox' = <<Do>>
      BY <1>1, <2>4, Tokens
    <3>2. d' = "GET_COMMAND" /\ outbox' = outbox
      BY <1>1, <1>2, <3>1
    <3>3. Asked'
      BY <1>1, <2>4, <3>1, <3>2 DEF Asked, Do, hostVars
    <3> QED BY <1>1, <2>4, <3>3 DEF Phase, hostVars
  <2>5. CASE computer = "WRITE" /\ Writing /\ outbox = <<>> /\ k > 0 /\ progress = k - 1
             /\ inbox = <<<<"DATA">>, Chunk>>
    <3>1. tk = <<"DATA">> /\ inbox' = <<Chunk>>
      BY <1>1, <2>5, Tokens
    <3>2. d' = "GET_WRITE" /\ outbox' = outbox /\ behind' = behind
      BY <1>1, <1>2, <3>1 DEF Inv, TypeInv, DriveOK
    <3>3. OnTape(progress)'
      BY <1>1, <2>5 DEF Writing, OnTape, hostVars, fileVars
    <3>4. Writing'
      BY <1>1, <2>5, <3>1, <3>2, <3>3 DEF Writing, Chunk, hostVars
    <3> QED BY <1>1, <2>5, <3>4 DEF Phase, hostVars
  <2>6. CASE computer = "BOOT" /\ outbox = <<>> /\ got = <<>> /\ inbox = <<<<"boot">>, Unit>>
    <3>1. tk = <<"boot">> /\ inbox' = <<Unit>>
      BY <1>1, <2>6, Tokens
    <3>2. d' = "START_BOOTSTRAP" /\ outbox' = outbox
      BY <1>1, <1>2, <3>1
    <3>3. Bootstrapping'
      BY <1>1, <2>6, <3>1, <3>2 DEF Bootstrapping, Unit, hostVars
    <3> QED BY <1>1, <2>6, <3>3 DEF Phase, hostVars
  <2> QED BY <2>2, <2>3, <2>4, <2>5, <2>6
<1> QED BY <1>1, <1>4, <1>5, <1>6, DriveKeeps

LEMMA StartBootstrapStep == Inv /\ StartBootstrap => Inv'
<1> SUFFICES ASSUME Inv, StartBootstrap PROVE Inv'
  OBVIOUS
<1> DEFINE tk == Head(inbox)
<1>1. /\ Sound /\ Phase /\ d = "START_BOOTSTRAP" /\ inbox # <<>> /\ inbox' = Tail(inbox)
      /\ IF tk[1] # "unit"
         THEN mishap' = "misread" /\ UNCHANGED <<d, drive, pos>>
         ELSE /\ drive' = tk[2] /\ pos' = 0
              /\ d' = IF file[tk[2]] = 0 THEN "WAIT_COMMAND" ELSE "RUN_BOOTSTRAP"
              /\ UNCHANGED mishap
      /\ UNCHANGED <<command, progress, status, behind, packet, next_state, fileVars,
                     tape, outbox, hostVars, events>>
  BY DEF StartBootstrap, Takes, At, Token, Inv, Talk
<1>2. Block \in Nat \ {0}
  BY Tu58Assumption
<1>3. CASE tk[1] # "unit"
  BY <1>1, <1>3, DriveKeeps, LineKept DEF Inv, TypeInv, DriveOK, Mishaps, Sound
<1>4. CASE tk[1] = "unit"
  <2>1. computer = "BOOT" /\ inbox = <<Unit>> /\ got = <<>> /\ outbox = <<>>
    <3>1. <<"init">>[1] = "init"
      OBVIOUS
    <3>2. computer # "init"
      BY <1>1, <1>4, <3>1, Tokens DEF Phase, Initing
    <3> QED BY <1>1, <3>2 DEF Phase, Inv, TypeInv, HostOK, Quiet, Asked, Answering, Writing,
                              Bootstrapping
  <2>2. tk = Unit /\ inbox' = <<>>
    BY <1>1, <2>1, Tokens
  <2>3. drive' = op.unit /\ pos' = 0 /\ d' \in {"WAIT_COMMAND", "RUN_BOOTSTRAP"} /\ mishap' = mishap
    BY <1>1, <1>4, <2>2 DEF Unit
  <2>4. op.unit \in Units /\ op.unit # Stray
    BY OpTypes DEF Inv, TypeInv, HostOK
  <2>5. Len(got) = 0 /\ Len(outbox) = 0
    BY <2>1
  <2>6. Bootstrapping'
    BY <1>1, <1>2, <2>2, <2>3, <2>5 DEF Bootstrapping, hostVars
  <2>7. Phase'
    BY <1>1, <2>1, <2>6 DEF Phase, hostVars
  <2>8. DriveOK'
    BY <1>1, <1>2, <2>3, <2>4 DEF Inv, TypeInv, DriveOK
  <2> QED BY <1>1, <2>3, <2>7, <2>8, DriveKeeps, LineKept DEF Inv, TypeInv, HostOK
<1> QED BY <1>3, <1>4

\* A unit without trouble reads the tape that was mounted in it.
LEMMA NoTrouble ==
  ASSUME FilesOK, NEW u \in Units
  PROVE  /\ Trouble(u) \in Mishaps /\ (Trouble(u) # None => Trouble(u) # "none")
         /\ Trouble(u) = None => Reached(u) = mounted[u] /\ mounted[u] \in Tapes
BY DEF Trouble, FilesOK, None, Mishaps

LEMMA RunBootstrapStep == Inv /\ RunBootstrap => Inv'
<1> SUFFICES ASSUME Inv, RunBootstrap PROVE Inv'
  OBVIOUS
<1>1. /\ Sound /\ Phase /\ d = "RUN_BOOTSTRAP" /\ Len(outbox) < OutSize
      /\ UNCHANGED <<drive, command, progress, status, behind, packet, next_state,
                     fileVars, tape, inbox, hostVars, events>>
  BY DEF RunBootstrap, At, Inv, Talk
<1>2. computer = "BOOT" /\ inbox = <<>> /\ pos < Block /\ Len(got) + Len(outbox) <= pos
  BY <1>1 DEF Phase, Inv, TypeInv, HostOK, Quiet, Initing, Asked, Answering, Writing,
              Bootstrapping, Waiting
<1>3. Block \in Nat \ {0} /\ TapeSize \in Nat /\ Block <= TapeSize /\ OutSize \in Nat
  BY Tu58Assumption
<1>4. drive \in Units /\ pos \in 0..Block /\ FilesOK
  BY <1>1 DEF Inv, TypeInv, DriveOK
<1>5. CASE Trouble(drive) # None
  <2>1. mishap' = Trouble(drive) /\ UNCHANGED <<d, pos, outbox>>
    BY <1>5 DEF RunBootstrap, Touch, Note
  <2>2. mishap' \in Mishaps /\ mishap' # "none"
    BY <1>4, <1>5, <2>1, NoTrouble
  <2> QED BY <1>1, <2>1, <2>2, DriveKeeps, LineKept DEF Inv, TypeInv, DriveOK, Sound
<1>6. CASE Trouble(drive) = None
  <2> DEFINE m == tape[Reached(drive)][pos]
             a == <<"raw", m>>
  <2>1. mishap' = mishap /\ outbox' = Append(outbox, a) /\ pos' = pos + 1
        /\ d' = IF pos' >= Block THEN "WAIT_COMMAND" ELSE d
    BY <1>1, <1>6, Zenon DEF RunBootstrap, Touch, Note, Sound
  <2>2. m \in Marks
    <3>1. pos \in Chunks
      BY <1>2, <1>3, <1>4 DEF Chunks
    <3>2. Reached(drive) \in Tapes
      BY <1>4, <1>6, NoTrouble
    <3>3. tape \in [Tapes -> [Chunks -> Marks]]
      BY DEF Inv, TypeInv, DataOK
    <3> QED BY <3>1, <3>2, <3>3
  <2>3. a \in Answers
    BY <2>2, AnswerWords
  <2> HIDE DEF a
  <2>4. outbox' \in Seq(Answers) /\ Len(outbox') = Len(outbox) + 1
    BY <2>1, <2>3 DEF Inv, TypeInv, LineOK
  <2>5. LineOK'
    BY <1>1, <1>3, <2>4 DEF LineOK, Inv, TypeInv
  <2>6. DriveOK'
    BY <1>1, <1>2, <1>3, <1>4, <2>1 DEF Inv, TypeInv, DriveOK
  <2>7. got' = got /\ Len(got) \in Nat /\ Len(outbox) \in Nat
    BY <1>1 DEF hostVars, Inv, TypeInv, DataOK, LineOK
  <2>8. Bootstrapping'
    BY <1>1, <1>2, <1>3, <1>4, <2>1, <2>4, <2>7 DEF Bootstrapping
  <2>9. Phase'
    BY <1>1, <1>2, <2>8 DEF Phase, hostVars
  <2> QED BY <1>1, <2>1, <2>5, <2>6, <2>9, DriveKeeps DEF Inv, TypeInv, HostOK
<1> QED BY <1>5, <1>6

LEMMA GetCommandStep == Inv /\ GetCommand => Inv'
<1> SUFFICES ASSUME Inv, GetCommand PROVE Inv'
  OBVIOUS
<1> DEFINE tk == Head(inbox)
<1>1. /\ Sound /\ Phase /\ d = "GET_COMMAND" /\ inbox # <<>> /\ inbox' = Tail(inbox)
      /\ command' = IF tk[1] = "do" THEN tk[2] ELSE Broken
      /\ drive' = command'.unit /\ d' = "EXEC_COMMAND"
      /\ UNCHANGED <<progress, status, behind, pos, packet, next_state, fileVars,
                     tape, outbox, hostVars, events, mishap>>
  BY DEF GetCommand, Takes, At, Token, Inv, Talk
<1>2. \/ computer = "init" /\ outbox = <<>> /\ inbox = <<<<"init">>>>
      \/ computer \in {"READ", "NOP", "WRITE"} /\ outbox = <<>> /\ inbox = <<Do>>
         /\ (computer = "WRITE" => k = 0)
  BY <1>1 DEF Phase, Inv, TypeInv, HostOK, Quiet, Initing, Asked, Answering, Writing, Bootstrapping
<1>3. CASE computer = "init" /\ outbox = <<>> /\ inbox = <<<<"init">>>>
  <2>1. tk = <<"init">> /\ inbox' = <<>>
    BY <1>1, <1>3, Tokens
  <2>2. command' = Broken /\ drive' = Stray
    BY <1>1, <2>1 DEF Broken
  <2>3. Phase'
    BY <1>1, <1>3, <2>1, <2>2 DEF Phase, Initing, Quiet, hostVars
  <2>4. DriveOK'
    BY <1>1, <2>2 DEF Inv, TypeInv, DriveOK
  <2> QED BY <1>1, <2>3, <2>4, DriveKeeps, LineKept DEF Inv, TypeInv, HostOK
<1>4. CASE computer \in {"READ", "NOP", "WRITE"} /\ outbox = <<>> /\ inbox = <<Do>>
           /\ (computer = "WRITE" => k = 0)
  <2>1. tk = Do /\ inbox' = <<>>
    BY <1>1, <1>4, Tokens
  <2>2. command' = op /\ drive' = op.unit
    BY <1>1, <2>1 DEF Do
  <2>3. op \in Ops \cup {Nothing} /\ op.unit \in Units
    BY OpTypes DEF Inv, TypeInv, HostOK
  <2>4. Asked'
    BY <1>1, <1>4, <2>1, <2>2 DEF Asked, hostVars
  <2>5. Phase'
    BY <1>1, <1>4, <2>4 DEF Phase, hostVars
  <2>6. DriveOK'
    BY <1>1, <2>2, <2>3 DEF Inv, TypeInv, DriveOK
  <2> QED BY <1>1, <2>5, <2>6, DriveKeeps, LineKept DEF Inv, TypeInv, HostOK
<1> QED BY <1>2, <1>3, <1>4

\* A command that is carried out is the one the computer gave.
LEMMA ExecuteStep ==
  ASSUME Inv, ExecCommand, ~(command = Broken \/ command \in Folded)
  PROVE  Inv'
<1>1. /\ Sound /\ Phase /\ Engaged /\ d = "EXEC_COMMAND" /\ Execute
      /\ UNCHANGED <<drive, command, pos, packet, next_state, fileVars, tape, inbox,
                     hostVars, events, mishap>>
  BY DEF ExecCommand, At, Inv, Talk
<1>2. /\ computer \in {"READ", "NOP", "WRITE"} /\ outbox = <<>> /\ inbox = <<>>
      /\ command = op /\ drive = op.unit /\ (computer = "WRITE" => k = 0)
  BY <1>1 DEF Phase, Inv, TypeInv, HostOK, Quiet, Initing, Asked, Answering, Writing,
              Bootstrapping, Waiting
<1>3. op \in Ops /\ op.code = computer
  BY <1>1, <1>2 DEF Engaged
<1>4. Len(outbox) = 0 /\ TapeSize \in Nat /\ drive # Stray
  BY <1>2, <1>3, OpTypes, Tu58Assumption
<1>5. CASE computer \in {"READ", "NOP"}
  <2>1. /\ d' \in {"START_ENDPACKET", "READ_DATA"} /\ status' \in {"NORMAL", status}
        /\ progress' \in {progress, 0} /\ behind' = behind /\ outbox' = outbox
    BY <1>1, <1>2, <1>3, <1>5, Zenon DEF Execute, StartAt
  <2>2. Answering'
    BY <1>1, <1>2, <1>4, <2>1 DEF Answering
  <2>3. Phase'
    BY <1>1, <1>5, <2>2 DEF Phase, hostVars
  <2>4. DriveOK'
    BY <1>1, <1>4, <2>1 DEF Inv, TypeInv, DriveOK
  <2> QED BY <1>1, <2>1, <2>3, <2>4, DriveKeeps, LineKept DEF Inv, TypeInv, HostOK
<1>6. CASE computer = "WRITE"
  <2>1. /\ d' = "WAIT_COMMAND" /\ progress' = 0 /\ behind' = FALSE /\ status' = status
        /\ Put(Continue)
    BY <1>1, <1>2, <1>3, <1>6 DEF Execute, StartAt, Behind
  <2>2. LineOK' /\ outbox' = <<Continue>>
    BY <1>2, <2>1, PutFits, AnswerWords DEF Inv, TypeInv
  <2>3. op.count > 0
    BY <1>3, <1>6, SpanOnTape
  <2>4. OnTape(progress)'
    BY <2>1 DEF OnTape
  <2>5. Writing'
    BY <1>1, <1>2, <1>6, <2>1, <2>2, <2>3, <2>4 DEF Writing, hostVars
  <2>6. Phase'
    BY <1>1, <1>6, <2>5 DEF Phase, hostVars
  <2>7. DriveOK'
    <3>1. behind' \in BOOLEAN
      BY <2>1
    <3>2. progress' \in 0..TapeSize
      BY <1>4, <2>1
    <3> QED BY <1>1, <2>1, <3>1, <3>2 DEF Inv, TypeInv, DriveOK
  <2> QED BY <1>1, <2>2, <2>6, <2>7, DriveKeeps DEF Inv, TypeInv, HostOK
<1> QED BY <1>2, <1>5, <1>6

LEMMA ExecCommandStep == Inv /\ ExecCommand => Inv'
<1> SUFFICES ASSUME Inv, ExecCommand PROVE Inv'
  OBVIOUS
<1>1. /\ Sound /\ Phase /\ Engaged /\ d = "EXEC_COMMAND"
      /\ UNCHANGED <<drive, command, pos, packet, next_state, fileVars, tape, inbox,
                     hostVars, events, mishap>>
  BY DEF ExecCommand, At, Inv, Talk
<1> DEFINE Refused == command = Broken \/ command \in Folded
<1>2. CASE Refused
  <2>1. d' = "WAIT_COMMAND" /\ UNCHANGED <<progress, behind, status, outbox>>
    BY <1>2 DEF ExecCommand, Rejected
  <2>2. DriveOK'
    BY <1>1, <2>1 DEF Inv, TypeInv, DriveOK
  <2>3. \/ computer = "init" /\ outbox = <<>> /\ inbox = <<>>
        \/ computer \in {"READ", "NOP", "WRITE"} /\ Asked /\ (computer = "WRITE" => k = 0)
    BY <1>1 DEF Phase, Inv, TypeInv, HostOK, Quiet, Initing, Answering, Writing, Bootstrapping,
                Waiting
  <2>4. Phase'
    <3>1. CASE computer = "init" /\ outbox = <<>> /\ inbox = <<>>
      BY <1>1, <2>1, <3>1 DEF Phase, Initing, Waiting, hostVars
    <3>2. CASE computer \in {"READ", "NOP", "WRITE"} /\ Asked /\ (computer = "WRITE" => k = 0)
      <4>1. Asked'
        BY <1>1, <2>1, <3>2 DEF Asked
      <4> QED BY <1>1, <3>2, <4>1 DEF Phase, hostVars
    <3> QED BY <2>3, <3>1, <3>2
  <2> QED BY <1>1, <2>1, <2>2, <2>4, DriveKeeps, LineKept DEF Inv, TypeInv, HostOK
<1>3. CASE ~Refused
  BY <1>3, ExecuteStep
<1> QED BY <1>2, <1>3

\* Steps of the drive while it answers.
LEMMA AnsweringKept ==
  ASSUME Inv, Phase, d \in {"READ_DATA", "SEND_PACKET", "START_ENDPACKET"},
         UNCHANGED <<fileVars, tape, hostVars>>, Answering => Answering'
  PROVE  Answering /\ Phase'
<1>1. computer \in {"READ", "NOP", "WRITE"} /\ Answering
      /\ (computer = "WRITE" => OnTape(op.count))
  BY DEF Phase, Inv, TypeInv, HostOK, Quiet, Initing, Asked, Answering, Writing,
         Bootstrapping, Waiting
<1>2. OnTape(op.count) => OnTape(op.count)'
  BY DEF OnTape, fileVars, hostVars
<1> QED BY <1>1, <1>2 DEF Phase, hostVars

LEMMA ReadDataStep == Inv /\ ReadData => Inv'
<1> SUFFICES ASSUME Inv, ReadData PROVE Inv'
  OBVIOUS
<1>1. /\ Sound /\ Phase /\ d = "READ_DATA"
      /\ UNCHANGED <<drive, command, behind, pos, fileVars, tape, inbox, outbox,
                     hostVars, events>>
  BY DEF ReadData, At, Inv, Talk
<1>2. drive \in Units /\ FilesOK /\ progress \in 0..TapeSize
  BY <1>1 DEF Inv, TypeInv, DriveOK
<1>3. /\ command.count \in Nat /\ command.block * Block \in Nat /\ TapeSize \in Nat
  BY CommandTypes, Tu58Assumption DEF Inv, TypeInv, DriveOK
<1>4. CASE progress >= command.count \/ Here > TapeSize
  <2>1. /\ d' = "START_ENDPACKET" /\ status' \in {"NORMAL", "PARTIAL"}
        /\ UNCHANGED <<progress, packet, next_state, mishap>>
    BY <1>4 DEF ReadData
  <2>2. Answering => Answering'
    BY <1>1, <2>1 DEF Answering
  <2>3. Phase'
    BY <1>1, <2>2, AnsweringKept
  <2>4. DriveOK'
    BY <1>1, <2>1 DEF Inv, TypeInv, DriveOK
  <2> QED BY <1>1, <2>1, <2>3, <2>4, DriveKeeps, LineKept DEF Inv, TypeInv, HostOK
<1>5. CASE ~(progress >= command.count \/ Here > TapeSize)
           /\ (Here = TapeSize \/ Trouble(drive) # None)
  <2>1. mishap' = (IF Trouble(drive) # None THEN Trouble(drive) ELSE "endless")
        /\ UNCHANGED <<d, status, progress, packet, next_state>>
    BY <1>5 DEF ReadData
  <2>2. mishap' \in Mishaps /\ mishap' # "none"
    BY <1>2, <2>1, NoTrouble DEF Mishaps
  <2> QED BY <1>1, <2>1, <2>2, DriveKeeps, LineKept DEF Inv, TypeInv, DriveOK, Sound
<1>6. CASE ~(progress >= command.count \/ Here > TapeSize)
           /\ ~(Here = TapeSize \/ Trouble(drive) # None)
  <2> DEFINE m == tape[Reached(drive)][Here]
  <2>1. /\ packet' = <<"data", m>> /\ progress' = progress + 1
        /\ d' = "SEND_PACKET" /\ next_state' = "READ_DATA"
        /\ UNCHANGED <<status, mishap>>
    BY <1>6 DEF ReadData
  <2>2. Here \in Chunks /\ progress + 1 \in 0..TapeSize
    <3> DEFINE b == command.block * Block
    <3>1. Here = b + progress
      BY DEF Here
    <3> HIDE DEF b
    <3>2. b \in Nat
      BY <1>3 DEF b
    <3> QED BY <1>2, <1>3, <1>6, <3>1, <3>2 DEF Chunks
  <2>3. m \in Marks
    BY <1>2, <1>6, <2>2, NoTrouble DEF Inv, TypeInv, DataOK
  <2>4. packet' \in Answers
    BY <2>1, <2>3, AnswerWords
  <2>5. packet'[1] = "data"
    BY <2>1
  <2>6. Answering => Answering'
    BY <1>1, <2>1, <2>5 DEF Answering
  <2>7. Phase'
    BY <1>1, <2>6, AnsweringKept
  <2>8. DriveOK'
    BY <1>1, <2>1, <2>2, <2>4 DEF Inv, TypeInv, DriveOK
  <2> QED BY <1>1, <2>1, <2>7, <2>8, DriveKeeps, LineKept DEF Inv, TypeInv, HostOK
<1> QED BY <1>4, <1>5, <1>6

LEMMA SendPacketStep == Inv /\ SendPacket => Inv'
<1> SUFFICES ASSUME Inv, SendPacket PROVE Inv'
  OBVIOUS
<1>1. /\ Sound /\ Phase /\ d = "SEND_PACKET" /\ d' = next_state /\ behind' = TRUE
      /\ Len(outbox) < OutSize /\ outbox' = Append(outbox, packet)
      /\ UNCHANGED <<drive, command, progress, status, pos, packet, next_state,
                     fileVars, tape, inbox, hostVars, events, mishap>>
  BY DEF SendPacket, Write, At, Inv, Talk
<1>2. /\ outbox \in Seq(Answers) /\ packet \in Answers /\ OutSize \in Nat
      /\ next_state \in {"WAIT_COMMAND", "READ_DATA"}
  BY Tu58Assumption DEF Inv, TypeInv, DriveOK, LineOK
<1>3. /\ Len(outbox) \in Nat /\ outbox' \in Seq(Answers) /\ Len(outbox') = Len(outbox) + 1
      /\ \A i \in 1..Len(outbox) : outbox'[i] = outbox[i]
      /\ outbox'[Len(outbox) + 1] = packet
  BY <1>1, <1>2
<1>4. LineOK'
  BY <1>1, <1>2, <1>3 DEF LineOK
<1>5. DriveOK'
  BY <1>1, <1>2 DEF Inv, TypeInv, DriveOK
<1>6. ASSUME Answering PROVE Answering'
  <2>1. /\ \A i \in 1..Len(outbox) : outbox[i][1] = "data"
        /\ \/ next_state = "READ_DATA" /\ packet[1] = "data"
           \/ next_state = "WAIT_COMMAND" /\ packet[1] = "end"
    BY <1>1, <1>6 DEF Answering
  <2>2. \A i \in 1..Len(outbox') : \/ outbox'[i][1] = "data"
                                   \/ outbox'[i][1] = "end" /\ i = Len(outbox') /\ d' = "WAIT_COMMAND"
    <3> TAKE i \in 1..Len(outbox')
    <3>1. CASE i \in 1..Len(outbox)
      BY <1>3, <2>1, <3>1
    <3>2. CASE i = Len(outbox) + 1
      BY <1>1, <1>3, <2>1, <3>2
    <3> QED BY <1>3, <3>1, <3>2
  <2> QED BY <1>1, <1>2, <1>6, <2>2 DEF Answering
<1>7. Phase'
  BY <1>1, <1>6, AnsweringKept
<1> QED BY <1>1, <1>4, <1>5, <1>7, DriveKeeps DEF Inv, TypeInv, HostOK

LEMMA StartEndpacketStep == Inv /\ StartEndpacket => Inv'
<1> SUFFICES ASSUME Inv, StartEndpacket PROVE Inv'
  OBVIOUS
<1>1. /\ Sound /\ Phase /\ d = "START_ENDPACKET" /\ packet' = <<"end", status>> /\ progress' = 0
      /\ d' = "SEND_PACKET" /\ next_state' = "WAIT_COMMAND"
      /\ UNCHANGED <<drive, command, status, behind, pos, fileVars, tape, inbox,
                     outbox, hostVars, events, mishap>>
  BY DEF StartEndpacket, At, Inv, Talk
<1>2. packet' \in Answers /\ packet'[1] = "end" /\ TapeSize \in Nat
  BY <1>1, AnswerWords, Tu58Assumption DEF Inv, TypeInv, DriveOK
<1>3. Answering => Answering'
  BY <1>1, <1>2 DEF Answering
<1>4. Phase'
  BY <1>1, <1>3, AnsweringKept
<1>5. DriveOK'
  BY <1>1, <1>2 DEF Inv, TypeInv, DriveOK
<1> QED BY <1>1, <1>4, <1>5, DriveKeeps, LineKept DEF Inv, TypeInv, HostOK

\* The chunk that comes is the one after those on the tape, and goes there.
LEMMA GetWriteStep == Inv /\ GetWrite => Inv'
<1> SUFFICES ASSUME Inv, GetWrite PROVE Inv'
  OBVIOUS
<1> DEFINE tk == Head(inbox)
<1>1. /\ Sound /\ Phase /\ Engaged /\ d = "GET_WRITE" /\ inbox # <<>> /\ inbox' = Tail(inbox)
      /\ behind' = FALSE
      /\ UNCHANGED <<drive, command, pos, packet, next_state, fileVars, hostVars, events>>
  BY DEF GetWrite, Takes, At, Inv, Talk
<1>2. FilesOK
  BY DEF Inv, TypeInv
<1>3. \/ computer = "init" /\ inbox = <<<<"init">>>>
      \/ computer = "WRITE" /\ Writing /\ outbox = <<>> /\ k > 0 /\ progress = k - 1
         /\ inbox = <<Chunk>>
  BY <1>1 DEF Phase, Inv, TypeInv, HostOK, Quiet, Initing, Asked, Answering, Writing, Bootstrapping
<1> DEFINE bad == IF tk[1] # "chunk" THEN "garbled" ELSE Trouble(drive)
<1>4. bad \in Mishaps /\ (bad # None => bad # "none")
  BY DEF Mishaps, None, Trouble
<1>5. CASE bad # None
  <2>1. mishap' = bad /\ UNCHANGED <<d, tape, progress, status, outbox>>
    BY <1>5, Zenon DEF GetWrite, Token
  <2>2. DriveOK'
    <3>1. behind' \in BOOLEAN
      BY <1>1
    <3> QED BY <1>1, <2>1, <3>1 DEF Inv, TypeInv, DriveOK
  <2> QED BY <1>1, <1>4, <1>5, <2>1, <2>2, DriveKeeps, LineKept DEF Inv, TypeInv, Sound
<1>6. CASE bad = None
  <2> DEFINE b == op.block * Block
             v == mounted[drive]
             w == <<"new", n, k - 1>>
  <2>1. tk[1] = "chunk" /\ Trouble(drive) = None
    BY <1>6 DEF None
  <2>2. /\ computer = "WRITE" /\ Writing /\ outbox = <<>> /\ k > 0 /\ progress = k - 1
        /\ inbox = <<Chunk>>
    <3>1. <<"init">>[1] = "init"
      OBVIOUS
    <3> QED BY <1>3, <2>1, <3>1, Tokens
  <2>3. tk = Chunk /\ inbox' = <<>> /\ tk[2] = w
    <3>1. tk = Chunk /\ inbox' = <<>>
      BY <1>1, <2>2, Tokens
    <3> QED BY <3>1 DEF Chunk
  <2>4. /\ op \in Ops /\ op.code = "WRITE" /\ command = op /\ drive = op.unit /\ ~behind
        /\ OnTape(progress) /\ k \in 0..op.count
        /\ \A t \in Tapes : mounted[op.unit] = t => \A c \in Span(op) : expect[t][c] = Unknown
    BY <1>1, <2>2 DEF Engaged, Writing, Inv, TypeInv, HostOK
  <2>5. /\ b \in Nat /\ op.count \in Nat /\ b + op.count <= TapeSize /\ TapeSize \in Nat
        /\ Span(op) \subseteq Chunks /\ \A i \in 0..op.count - 1 : b + i \in Span(op)
    BY <2>4, SpanOnTape, Tu58Assumption
  <2>6. Reached(drive) = v /\ v \in Tapes
    BY <1>2, <2>1, <2>4, NoTrouble, OpTypes
  <2>7. Here = b + (k - 1)
    BY <2>2, <2>4 DEF Here
  <2>8. /\ tape' = [tape EXCEPT ![v][b + (k - 1)] = w]
        /\ progress' = progress + 1 /\ mishap' = mishap
        /\ IF progress' >= op.count
           THEN d' = "START_ENDPACKET" /\ status' = "NORMAL" /\ UNCHANGED outbox
           ELSE d' = "WAIT_COMMAND" /\ Put(Continue) /\ UNCHANGED status
    <3>1. /\ tape' = [tape EXCEPT ![Reached(drive)][Here] = IF behind THEN <<"stale">> ELSE tk[2]]
          /\ progress' = progress + 1 /\ mishap' = mishap
          /\ IF progress' >= command.count
             THEN d' = "START_ENDPACKET" /\ status' = "NORMAL" /\ UNCHANGED outbox
             ELSE d' = "WAIT_COMMAND" /\ Put(Continue) /\ UNCHANGED status
      BY <1>6, Zenon DEF GetWrite, Token
    <3> QED BY <2>3, <2>4, <2>6, <2>7, <3>1, Zenon
  <2> HIDE DEF b, v, w
  <2>9. b + (k - 1) \in Span(op) /\ b + (k - 1) \in Chunks /\ k - 1 \in 0..op.count - 1
    BY <2>2, <2>4, <2>5
  <2>10. w \in Marks
    <3>1. n \in 0..MaxOps /\ k - 1 \in Nat
      BY <2>9, <2>4, <2>5 DEF Inv, TypeInv, HostOK
    <3> QED BY <3>1, MarkIs DEF w
  <2>11. /\ tape' \in [Tapes -> [Chunks -> Marks]]
         /\ \A t \in Tapes, c \in Chunks :
              tape'[t][c] = IF t = v /\ c = b + (k - 1) THEN w ELSE tape[t][c]
    BY <2>6, <2>8, <2>9, <2>10 DEF Inv, TypeInv, DataOK
  <2>12. progress' = k
    BY <2>2, <2>4, <2>5, <2>8
  <2>13. OnTape(k)'
    <3>1. SUFFICES ASSUME NEW t \in Tapes, mounted[op.unit] = t, NEW i \in 0..k - 1
                   PROVE  tape'[t][b + i] = <<"new", n, i>>
      BY <1>1 DEF OnTape, hostVars, fileVars, b
    <3>2. t = v /\ b + i \in Chunks
      BY <2>4, <2>5, <3>1 DEF v
    <3>3. CASE i = k - 1
      BY <2>11, <3>2, <3>3 DEF w
    <3>4. CASE i # k - 1
      <4>1. i \in 0..progress - 1
        BY <2>2, <2>4, <2>5, <3>4
      <4>2. tape[t][b + i] = <<"new", n, i>>
        BY <2>4, <3>1, <4>1 DEF OnTape, b
      <4>3. b + i # b + (k - 1)
        BY <2>4, <2>5, <3>1, <3>4
      <4> QED BY <2>11, <3>2, <4>2, <4>3
    <3> QED BY <3>3, <3>4
  <2>14. TapesKept'
    <3>1. SUFFICES ASSUME NEW t \in Tapes, NEW c \in Chunks
                   PROVE  expect[t][c] \in {Unknown, tape'[t][c]}
      BY <1>1 DEF TapesKept, hostVars
    <3>2. CASE t = v /\ c = b + (k - 1)
      BY <2>4, <2>9, <3>2 DEF v
    <3>3. CASE ~(t = v /\ c = b + (k - 1))
      BY <2>11, <3>3 DEF Inv, TapesKept
    <3> QED BY <3>2, <3>3
  <2>15. CASE progress' >= op.count
    <3>1. k = op.count /\ d' = "START_ENDPACKET" /\ status' = "NORMAL" /\ outbox' = outbox
      BY <2>4, <2>5, <2>8, <2>12, <2>15
    <3>2. Answering' /\ OnTape(op.count)'
      <4>1. Len(outbox') = 0
        BY <2>2, <3>1
      <4>2. Answering'
        BY <2>3, <3>1, <4>1 DEF Answering
      <4>3. k = op.count
        BY <3>1
      <4> QED BY <1>1, <2>13, <4>2, <4>3 DEF OnTape, hostVars
    <3>3. Phase'
      BY <1>1, <2>2, <3>2 DEF Phase, hostVars
    <3>4. DriveOK'
      <4>1. behind' \in BOOLEAN /\ drive # Stray
        BY <1>1, <2>4, OpTypes
      <4>2. progress' \in 0..TapeSize
        BY <2>4, <2>5, <2>9, <2>12
      <4> QED BY <1>1, <3>1, <4>1, <4>2 DEF Inv, TypeInv, DriveOK
    <3>5. LineOK'
      BY <3>1, LineKept DEF Inv, TypeInv
    <3>6. FilesOK' /\ DataOK' /\ HostOK' /\ Engaged'
      BY <1>1, <2>8, <2>11 DEF Inv, TypeInv, FilesOK, DataOK, HostOK, Engaged, fileVars, hostVars
    <3> QED BY <2>14, <3>3, <3>4, <3>5, <3>6 DEF Inv, TypeInv, Talk
  <2>16. CASE ~(progress' >= op.count)
    <3>1. d' = "WAIT_COMMAND" /\ Put(Continue) /\ status' = status /\ k < op.count
      BY <2>4, <2>5, <2>8, <2>12, <2>16
    <3>2. LineOK' /\ outbox' = <<Continue>>
      BY <2>2, <3>1, PutFits, AnswerWords DEF Inv, TypeInv
    <3>3. OnTape(progress)'
      BY <1>1, <2>12, <2>13 DEF OnTape, hostVars
    <3>4. Writing'
      BY <1>1, <2>3, <2>4, <2>12, <3>1, <3>2, <3>3 DEF Writing, hostVars
    <3>5. Phase'
      BY <1>1, <2>2, <3>4 DEF Phase, hostVars
    <3>6. DriveOK'
      <4>1. behind' \in BOOLEAN
        BY <1>1
      <4>2. progress' \in 0..TapeSize
        BY <2>4, <2>5, <2>9, <2>12
      <4> QED BY <1>1, <3>1, <4>1, <4>2 DEF Inv, TypeInv, DriveOK
    <3>7. FilesOK' /\ DataOK' /\ HostOK' /\ Engaged'
      BY <1>1, <2>8, <2>11 DEF Inv, TypeInv, FilesOK, DataOK, HostOK, Engaged, fileVars, hostVars
    <3> QED BY <2>14, <3>2, <3>5, <3>6, <3>7 DEF Inv, TypeInv, Talk
  <2> QED BY <2>15, <2>16
<1> QED BY <1>5, <1>6

LEMMA DriveStep == Inv /\ Drive => Inv'
BY WakeStep, IdleStep, WaitCommandStep, StartBootstrapStep, RunBootstrapStep, GetCommandStep,
   ExecCommandStep, ReadDataStep, SendPacketStep, StartEndpacketStep, GetWriteStep DEF Drive

(***************************************************************************)
(* The operator.                                                           *)
(***************************************************************************)
\* A MOUNT that does not disturb the computer comes while it rests.
LEMMA MountKeeps ==
  ASSUME Inv, NEW u \in Units, Mounting(u), FilesOK'
  PROVE  Inv'
<1> USE DEF Mounting
<1>1. DriveOK' /\ DataOK' /\ LineOK' /\ TapesKept'
  BY DEF Inv, TypeInv, DriveOK, DataOK, LineOK, TapesKept, driveVars, hostVars
<1>2. HostOK'
  <2>1. events' \in 0..MaxEvents /\ mishap' \in Mishaps
    BY Tu58Assumption DEF Happens, Inv, TypeInv, HostOK, Mishaps
  <2> QED BY <2>1 DEF Inv, TypeInv, HostOK, hostVars
<1>3. ASSUME Sound' PROVE Phase' /\ Engaged'
  <2>1. computer = "ready"
    BY <1>3 DEF Sound, Busy
  <2>2. Quiet /\ d = "WAIT_COMMAND"
    BY <2>1 DEF Inv, Talk, Phase
  <2> QED BY <2>1, <2>2 DEF Phase, Engaged, Quiet, hostVars
<1> QED BY <1>1, <1>2, <1>3 DEF Inv, TypeInv, Talk

\* MOUNT takes a free handle: there is one, because every open handle belongs
\* to a unit.
LEMMA MountTapeStep ==
  ASSUME Inv, NEW u \in Units, NEW t \in Tapes, MountTape(u, t)
  PROVE  Inv'
<1> DEFINE D == Dismounted(u)
           F == {i \in Handles : D[i] = None}
           h == Min(F)
<1>1. /\ Mounting(u)
      /\ open' = [D EXCEPT ![h] = t] /\ file' = [file EXCEPT ![u] = h]
      /\ mounted' = [mounted EXCEPT ![u] = t]
  BY Zenon DEF MountTape
<1>2. FilesOK
  BY DEF Inv, TypeInv
<1>3. /\ D \in [Handles -> Tapes \cup {None}]
      /\ \A i \in Handles : D[i] # None => \E w \in Units : w # u /\ file[w] = i
  <2>1. CASE file[u] = 0
    <3>1. D = open
      BY <2>1 DEF Dismounted
    <3>2. \A i \in Handles : i # 0
      BY DEF Handles
    <3> QED BY <1>2, <2>1, <3>1, <3>2 DEF FilesOK
  <2>2. CASE file[u] # 0
    <3>1. D = [open EXCEPT ![file[u]] = None]
      BY <2>2 DEF Dismounted
    <3>2. D \in [Handles -> Tapes \cup {None}]
      BY <1>2, <3>1 DEF FilesOK
    <3>3. ASSUME NEW i \in Handles, D[i] # None PROVE i # file[u] /\ open[i] # None
      BY <1>2, <3>1, <3>3 DEF FilesOK
    <3> QED BY <1>2, <3>2, <3>3 DEF FilesOK
  <2> QED BY <2>1, <2>2
<1> HIDE DEF D
<1>4. F # {}
  <2>1. \A w \in Units : w # u => w = 1 - u
    BY DEF Units
  <2>2. D[1] = None \/ D[2] = None
    BY <1>3, <2>1 DEF Handles
  <2> QED BY <2>2 DEF Handles
<1>5. h \in Handles /\ D[h] = None
  <2>1. F \in SUBSET Nat /\ F \subseteq Handles /\ \A i \in F : D[i] = None
    BY DEF Handles
  <2> HIDE DEF F
  <2>2. h \in F
    BY <1>4, <2>1, MinIn
  <2> QED BY <2>1, <2>2
<1> HIDE DEF h
<1>6. FilesOK'
  <2>1. /\ open' \in [Handles -> Tapes \cup {None}]
        /\ file' \in [Units -> Handles \cup {0}]
        /\ mounted' \in [Units -> Tapes \cup {None}]
    BY <1>1, <1>2, <1>3, <1>5 DEF FilesOK
  <2>2. \A i \in Handles : open'[i] # None => \E w \in Units : file'[w] = i
    BY <1>1, <1>2, <1>3, <1>5 DEF FilesOK
  <2> QED BY <2>1, <2>2 DEF FilesOK
<1> QED BY <1>1, <1>6, MountKeeps

LEMMA MountTooBigStep ==
  ASSUME Inv, NEW u \in Units, MountTooBig(u)
  PROVE  Inv'
<1>1. /\ Mounting(u) /\ UNCHANGED file
      /\ open' = Dismounted(u) /\ mounted' = [mounted EXCEPT ![u] = None]
  BY DEF MountTooBig
<1>2. FilesOK'
  BY <1>1 DEF Dismounted, FilesOK, Inv, TypeInv
<1> QED BY <1>1, <1>2, MountKeeps

LEMMA MountUnopenedStep ==
  ASSUME Inv, NEW u \in Units, MountUnopened(u)
  PROVE  Inv'
<1>1. /\ Mounting(u) /\ file[u] # 0 /\ file' = [file EXCEPT ![u] = 0]
      /\ open' = [open EXCEPT ![file[u]] = None] /\ mounted' = [mounted EXCEPT ![u] = None]
  BY DEF MountUnopened, Dismounted
<1>2. FilesOK
  BY DEF Inv, TypeInv
<1>3. FilesOK'
  <2>1. /\ open' \in [Handles -> Tapes \cup {None}]
        /\ file' \in [Units -> Handles \cup {0}]
        /\ mounted' \in [Units -> Tapes \cup {None}]
    BY <1>1, <1>2 DEF FilesOK
  <2>2. ASSUME NEW i \in Handles, open'[i] # None PROVE \E w \in Units : file'[w] = i
    <3>1. i # file[u] /\ open[i] # None
      BY <1>1, <1>2, <2>2 DEF FilesOK
    <3>2. PICK w \in Units : file[w] = i
      BY <1>2, <3>1 DEF FilesOK
    <3>3. w # u /\ file'[w] = i
      BY <1>1, <1>2, <3>1, <3>2 DEF FilesOK
    <3> QED BY <3>3
  <2> QED BY <2>1, <2>2 DEF FilesOK
<1> QED BY <1>1, <1>3, MountKeeps

(***************************************************************************)
(* The computer.                                                           *)
(***************************************************************************)
LEMMA StartStep == Inv /\ Start => Inv'
<1> SUFFICES ASSUME Inv, Start PROVE Inv'
  OBVIOUS
<1>1. /\ Sound /\ computer = "start" /\ computer' = "init" /\ inbox' = Append(inbox, <<"init">>)
      /\ UNCHANGED <<d, driveVars, fileVars, tape, outbox, op, k, got, n, expect, events, mishap>>
  BY DEF Start
<1>2. Quiet /\ d \in Waiting
  BY <1>1 DEF Inv, Talk, Phase
<1>3. inbox' = <<<<"init">>>>
  BY <1>1, <1>2, Tokens DEF Quiet
<1>4. Phase' /\ Engaged'
  BY <1>1, <1>2, <1>3 DEF Phase, Engaged, Initing, Quiet
<1>5. DriveOK' /\ FilesOK' /\ DataOK' /\ LineOK' /\ HostOK' /\ TapesKept'
  BY <1>1 DEF Inv, TypeInv, DriveOK, FilesOK, DataOK, LineOK, HostOK, TapesKept, driveVars, fileVars
<1> QED BY <1>4, <1>5 DEF Inv, TypeInv, Talk

LEMMA TimeoutStep == Inv /\ Timeout => Inv'
<1> SUFFICES ASSUME Inv, Timeout PROVE Inv'
  OBVIOUS
<1>1. /\ Silent /\ computer' = "start"
      /\ UNCHANGED <<d, driveVars, fileVars, tape, inbox, outbox, op, k, got, n, expect, events, mishap>>
  BY DEF Timeout
<1>2. Phase' /\ Engaged'
  BY <1>1 DEF Phase, Engaged, Silent, Quiet, Waiting
<1>3. DriveOK' /\ FilesOK' /\ DataOK' /\ LineOK' /\ HostOK' /\ TapesKept'
  BY <1>1 DEF Inv, TypeInv, DriveOK, FilesOK, DataOK, LineOK, HostOK, TapesKept, driveVars, fileVars
<1> QED BY <1>2, <1>3 DEF Inv, TypeInv, Talk

LEMMA BeginStep ==
  ASSUME Inv, NEW o \in Ops, Begin(o)
  PROVE  Inv'
<1> DEFINE c0 == IF o.code = "BOOT" THEN <<<<"boot">>, <<"unit", o.unit>>>>
                                    ELSE <<<<"COMMAND">>, <<"do", o>>>>
<1>1. /\ Sound /\ computer = "ready" /\ n < MaxOps /\ n' = n + 1
      /\ op' = o /\ k' = 0 /\ got' = <<>> /\ computer' = o.code
      /\ inbox' = inbox \o c0
      /\ UNCHANGED <<d, driveVars, fileVars, tape, outbox, events, mishap>>
  BY DEF Begin
<1>2. expect' = [t \in Tapes |-> [c \in Chunks |->
         IF o.code = "WRITE" /\ mounted[o.unit] = t /\ c \in Span(o) THEN Unknown ELSE expect[t][c]]]
  BY Zenon DEF Begin
<1>3. inbox = <<>> /\ outbox = <<>> /\ d = "WAIT_COMMAND"
  BY <1>1 DEF Inv, Talk, Phase, Quiet
<1>4. inbox' = c0
  BY <1>1, <1>3, Tokens
<1>5. o.code \in {"NOP", "READ", "WRITE", "BOOT"} /\ o.count \in Nat /\ o.unit \in Units
  BY OpTypes
<1>6. ASSUME o.code = "BOOT" PROVE Phase' /\ Engaged'
  <2>1. Bootstrapping'
    BY <1>1, <1>3, <1>4, <1>6 DEF Bootstrapping, Unit
  <2>2. Phase' /\ Engaged'
    BY <1>1, <1>6, <2>1 DEF Phase, Engaged
  <2> QED BY <2>2
<1>7. ASSUME o.code # "BOOT" PROVE Phase' /\ Engaged'
  <2>1. Asked'
    BY <1>1, <1>3, <1>4, <1>7 DEF Asked, Do
  <2>2. Phase'
    BY <1>1, <1>5, <1>7, <2>1 DEF Phase
  <2>3. ASSUME o.code = "WRITE"
        PROVE  \A t \in Tapes : mounted[o.unit] = t => \A c \in Span(o) : expect'[t][c] = Unknown
    <3>1. Span(o) \subseteq Chunks
      BY <2>3, SpanOnTape
    <3> QED BY <1>2, <2>3, <3>1
  <2>4. Engaged'
    <3>1. \A t \in Tapes, c \in Span(o) :
             computer' = "WRITE" /\ mounted'[op'.unit] = t => expect'[t][c] = Unknown
      BY <1>1, <2>3 DEF fileVars
    <3>2. Span(op)' = Span(o)
      BY <1>1 DEF Span
    <3> QED BY <1>1, <3>1, <3>2 DEF Engaged
  <2> QED BY <2>2, <2>4
<1>8. DataOK' /\ TapesKept'
  <2>1. expect' \in [Tapes -> [Chunks -> Marks \cup {Unknown}]]
    BY <1>2, MarkIs DEF Inv, TypeInv, DataOK
  <2>2. TapesKept'
    BY <1>1, <1>2 DEF Inv, TapesKept
  <2> QED BY <1>1, <2>1, <2>2 DEF Inv, TypeInv, DataOK
<1>9. HostOK'
  BY <1>1, <1>5, Tu58Assumption DEF Inv, TypeInv, HostOK
<1>10. DriveOK' /\ FilesOK' /\ LineOK'
  BY <1>1 DEF Inv, TypeInv, DriveOK, FilesOK, LineOK, driveVars, fileVars
<1>11. Phase' /\ Engaged'
  BY <1>6, <1>7
<1> QED BY <1>8, <1>9, <1>10, <1>11 DEF Inv, TypeInv, Talk

\* A token of an answer is taken off the line, by the computer or the noise.
LEMMA AnswerTaken ==
  ASSUME Answering, LineOK, outbox # <<>>, outbox' = Tail(outbox),
         UNCHANGED <<inbox, d, next_state, packet>>
  PROVE  /\ Answering' /\ LineOK'
         /\ Head(outbox)[1] \in {"data", "end"}
         /\ Head(outbox)[1] = "end" => outbox' = <<>> /\ d = "WAIT_COMMAND"
<1>1. /\ Len(outbox) \in Nat /\ Len(outbox) >= 1 /\ Head(outbox) = outbox[1]
      /\ outbox' \in Seq(Answers) /\ Len(outbox') = Len(outbox) - 1
      /\ \A i \in 1..Len(outbox') : outbox'[i] = outbox[i + 1]
  BY DEF LineOK
<1>2. LineOK'
  BY <1>1, Tu58Assumption DEF LineOK
<1>3. \A i \in 1..Len(outbox') : i + 1 \in 1..Len(outbox)
  BY <1>1
<1>4. Answering'
  <2>1. \A i \in 1..Len(outbox') : \/ outbox'[i][1] = "data"
                                   \/ outbox'[i][1] = "end" /\ i = Len(outbox') /\ d = "WAIT_COMMAND"
    <3> TAKE i \in 1..Len(outbox')
    <3>1. outbox[i + 1][1] = "data"
             \/ (outbox[i + 1][1] = "end" /\ i + 1 = Len(outbox) /\ d = "WAIT_COMMAND")
      BY <1>3 DEF Answering
    <3>2. outbox'[i] = outbox[i + 1] /\ i \in Int
      BY <1>1
    <3>3. i + 1 = Len(outbox) => i = Len(outbox')
      <4>1. Len(outbox') = Len(outbox) - 1 /\ Len(outbox) \in Nat
        BY <1>1
      <4> QED BY ONLY <3>2, <4>1
    <3> QED BY <3>1, <3>2, <3>3
  <2> QED BY <2>1 DEF Answering
<1>5. 1 \in 1..Len(outbox)
  BY <1>1
<1>6. \/ outbox[1][1] = "data"
      \/ outbox[1][1] = "end" /\ 1 = Len(outbox) /\ d = "WAIT_COMMAND"
  BY <1>5 DEF Answering
<1>7. 1 = Len(outbox) => outbox' = <<>>
  BY <1>1
<1> QED BY <1>1, <1>2, <1>4, <1>6, <1>7

LEMMA LoseStep == Inv /\ Lose => Inv'
<1> SUFFICES ASSUME Inv, Lose PROVE Inv'
  OBVIOUS
<1>1. /\ Sound /\ Phase /\ Engaged /\ Happens
      /\ \/ inbox # <<>> /\ inbox' = Tail(inbox) /\ outbox' = outbox
         \/ outbox # <<>> /\ outbox' = Tail(outbox) /\ inbox' = inbox
      /\ UNCHANGED <<d, driveVars, fileVars, tape, hostVars, mishap>>
  BY DEF Lose, Inv, Talk
<1>2. LineOK'
  BY <1>1, Tu58Assumption DEF Inv, TypeInv, LineOK
<1>3. DriveOK' /\ FilesOK' /\ DataOK' /\ HostOK' /\ TapesKept' /\ Engaged'
  BY <1>1, Tu58Assumption DEF Inv, TypeInv, DriveOK, FilesOK, DataOK, HostOK, TapesKept, Engaged,
     driveVars, fileVars, hostVars, Happens
<1>4. computer # "start" /\ computer # "ready"
  BY <1>1 DEF Phase, Quiet
<1>5. CASE computer = "init"
  <2>1. Initing'
    BY <1>1, <1>5, Tokens DEF Phase, Initing, Waiting, Quiet
  <2> QED BY <1>1, <1>2, <1>3, <1>5, <2>1 DEF Phase, Inv, TypeInv, Talk, hostVars
<1>6. ASSUME Asked PROVE Asked'
  <2>1. UNCHANGED <<d, command, drive, op>> /\ Do' = Do
    BY <1>1 DEF driveVars, hostVars, Do
  <2>2. inbox # <<>> /\ inbox' = Tail(inbox) /\ outbox' = <<>>
    BY <1>1, <1>6 DEF Asked
  <2>3. inbox = <<Do>> => inbox' = <<>>
    BY <2>2, Tokens
  <2>4. inbox = <<<<"COMMAND">>, Do>> => inbox' = <<Do>>
    BY <2>2, Tokens
  <2> HIDE DEF Do
  <2> QED BY <1>6, <2>1, <2>2, <2>3, <2>4 DEF Asked
<1>7. Answering => Answering'
  BY <1>1, AnswerTaken DEF Answering, Inv, TypeInv, driveVars
<1>8. CASE computer \in {"READ", "NOP"}
  BY <1>1, <1>2, <1>3, <1>6, <1>7, <1>8 DEF Phase, Inv, TypeInv, Talk, hostVars
<1>9. CASE computer = "WRITE"
  <2>1. \A m : OnTape(m) => OnTape(m)'
    BY <1>1 DEF OnTape, hostVars, fileVars
  <2>2. Writing => Writing'
    <3> SUFFICES ASSUME Writing PROVE Writing'
      OBVIOUS
    <3>1. UNCHANGED <<d, command, drive, behind, progress, op, k, n>> /\ OnTape(progress)'
      BY <1>1 DEF Writing, OnTape, driveVars, hostVars, fileVars
    <3>2. CASE d = "WAIT_COMMAND" /\ outbox' = <<>> /\ inbox' = <<>>
      BY <3>1, <3>2 DEF Writing, Quiet
    <3>3. CASE outbox = <<>> /\ inbox \in {<<Chunk>>, <<<<"DATA">>, Chunk>>}
      <4>1. outbox' = <<>> /\ inbox' = Tail(inbox) /\ Chunk' = Chunk
        BY <1>1, <3>1, <3>3 DEF Chunk
      <4>2. inbox = <<Chunk>> => inbox' = <<>>
        BY <4>1, Tokens
      <4>3. inbox = <<<<"DATA">>, Chunk>> => inbox' = <<Chunk>>
        BY <4>1, Tokens
      <4>4. inbox # <<>>
        BY <3>3, Tokens
      <4> HIDE DEF Chunk
      <4>5. k > 0 /\ progress = k - 1 /\ d \in {"WAIT_COMMAND", "GET_WRITE"}
            /\ (d = "GET_WRITE" => inbox = <<Chunk>>)
        <5>1. <<Chunk>> # <<<<"DATA">>, Chunk>>
          OBVIOUS
        <5> QED BY <3>3, <4>4, <5>1 DEF Writing, Quiet
      <4> QED BY <3>1, <3>2, <3>3, <4>1, <4>2, <4>3, <4>5 DEF Writing
    <3>4. CASE inbox = <<>> /\ outbox = <<Continue>>
      BY <1>1, <3>1, <3>2, <3>4, Tokens DEF Writing, Quiet
    <3> QED BY <1>1, <3>3, <3>4 DEF Writing, Quiet
  <2>3. OnTape(op.count) => OnTape(op.count)'
    BY <1>1, <2>1 DEF OnTape, hostVars, fileVars
  <2>4. Phase'
    BY <1>1, <1>6, <1>7, <1>9, <2>2, <2>3 DEF Phase, hostVars
  <2> QED BY <1>2, <1>3, <2>4 DEF Inv, TypeInv, Talk
<1>10. CASE computer = "BOOT"
  <2>1. Len(got) \in Nat /\ Len(outbox) \in Nat /\ Block \in Nat /\ got' = got
        /\ (outbox = <<>> => Len(outbox) = 0)
        /\ (outbox # <<>> => Len(Tail(outbox)) = Len(outbox) - 1)
        /\ (got = <<>> => Len(got) = 0)
    BY <1>1, Tu58Assumption DEF Inv, TypeInv, DataOK, LineOK, hostVars
  <2>2. UNCHANGED <<d, op, pos>>
    BY <1>1 DEF driveVars, hostVars
  <2>3. Bootstrapping'
    <3>1. CASE outbox = <<>> /\ inbox \in {<<Unit>>, <<<<"boot">>, Unit>>} /\ got = <<>>
      <4>1. outbox' = <<>> /\ inbox' = Tail(inbox) /\ Unit' = Unit
        BY <1>1, <2>2, <3>1 DEF Unit
      <4>2. inbox = <<Unit>> => inbox' = <<>>
        BY <4>1, Tokens
      <4>3. inbox = <<<<"boot">>, Unit>> => inbox' = <<Unit>>
        BY <4>1, Tokens
      <4>4. inbox # <<>> /\ <<Unit>> # <<<<"boot">>, Unit>>
        BY <3>1, Tokens
      <4>5. d = "WAIT_COMMAND" \/ (d = "START_BOOTSTRAP" /\ inbox = <<Unit>>)
        BY <1>1, <1>10, <3>1, <4>4 DEF Phase, Bootstrapping
      <4>6. inbox = <<Unit>> => Bootstrapping'
        <5>1. Len(got') + Len(outbox') <= Block
          BY <2>1, <3>1, <4>1
        <5> QED BY <2>1, <2>2, <3>1, <4>1, <4>2, <4>5, <5>1 DEF Bootstrapping
      <4>7. inbox = <<<<"boot">>, Unit>> => Bootstrapping'
        BY <2>1, <2>2, <3>1, <4>1, <4>3, <4>4, <4>5 DEF Bootstrapping
      <4> QED BY <3>1, <4>6, <4>7
    <3>2. CASE inbox = <<>>
      <4>1. outbox # <<>> /\ outbox' = Tail(outbox) /\ inbox' = <<>> /\ Len(outbox') = Len(outbox) - 1
        BY <1>1, <2>1, <3>2
      <4>2. \/ d = "RUN_BOOTSTRAP" /\ pos < Block /\ Len(got) + Len(outbox) <= pos
            \/ d = "WAIT_COMMAND" /\ Len(got) + Len(outbox) <= Block
        BY <1>1, <1>10, <4>1 DEF Phase, Bootstrapping
      <4>3. pos \in Int
        BY DEF Inv, TypeInv, DriveOK
      <4>4. \/ d' = "RUN_BOOTSTRAP" /\ pos' < Block /\ Len(got') + Len(outbox') <= pos'
            \/ d' = "WAIT_COMMAND" /\ Len(got') + Len(outbox') <= Block
        BY <2>1, <2>2, <4>1, <4>2, <4>3
      <4> QED BY <4>1, <4>4 DEF Bootstrapping
    <3> QED BY <1>1, <1>10, <3>1, <3>2 DEF Phase, Bootstrapping
  <2>4. Phase'
    BY <1>1, <1>10, <2>3 DEF Phase, hostVars
  <2> QED BY <1>2, <1>3, <2>4 DEF Inv, TypeInv, Talk
<1> QED BY <1>4, <1>5, <1>8, <1>9, <1>10 DEF Inv, TypeInv, HostOK

\* What the computer hears, and what it makes of it.
LEMMA Heard ==
  ASSUME Inv, Receive
  PROVE  /\ Sound /\ Phase /\ Engaged /\ outbox # <<>> /\ outbox' = Tail(outbox)
         /\ UNCHANGED <<d, driveVars, fileVars, tape, op, n, events, mishap>>
         /\ Answer \in Answers /\ LineOK' /\ DriveOK' /\ FilesOK'
         /\ got' \in Seq(Marks)
         /\ computer \notin {"READ", "BOOT"} => got' = got
         /\ computer # "WRITE" => UNCHANGED <<k, inbox, expect>>
<1>1. /\ Sound /\ Phase /\ Engaged /\ outbox # <<>> /\ outbox' = Tail(outbox)
      /\ UNCHANGED <<d, driveVars, fileVars, tape, op, n, events, mishap>>
  BY DEF Receive, Inv, Talk
<1>2. got' = IF \/ computer = "READ" /\ Answer[1] = "data"
                \/ computer = "BOOT" /\ Answer[1] = "raw"
             THEN Append(got, Answer[2]) ELSE got
  BY Zenon DEF Receive
<1>3. computer # "WRITE" => UNCHANGED <<k, inbox, expect>>
  BY Zenon DEF Receive
<1>4. Answer \in Answers /\ LineOK'
  BY <1>1, Tu58Assumption DEF Answer, LineOK, Inv, TypeInv
<1>5. got' \in Seq(Marks)
  <2>1. CASE got' = got
    BY <2>1 DEF Inv, TypeInv, DataOK
  <2>2. CASE got' = Append(got, Answer[2]) /\ Answer[1] \in {"data", "raw"}
    <3>1. Answer[2] \in Marks
      BY <1>4, <2>2, AnswerWords
    <3> QED BY <2>2, <3>1 DEF Inv, TypeInv, DataOK
  <2> QED BY <1>2, <2>1, <2>2
<1>6. computer \notin {"READ", "BOOT"} => got' = got
  BY <1>2
<1>7. DriveOK' /\ FilesOK'
  BY <1>1 DEF Inv, TypeInv, DriveOK, FilesOK, driveVars, fileVars
<1> QED BY <1>1, <1>3, <1>4, <1>5, <1>6, <1>7

\* What the computer knows of the tapes stays as it was.
LEMMA HeardNothing ==
  ASSUME Inv, Receive, UNCHANGED expect, k' \in 0..op.count,
         computer' \in {computer, "ready"}, Phase'
  PROVE  Inv'
<1>1. DataOK' /\ TapesKept'
  BY Heard DEF Inv, TypeInv, DataOK, TapesKept
<1>2. HostOK'
  BY Heard DEF Inv, TypeInv, HostOK
<1>3. Engaged'
  BY Heard DEF Engaged, fileVars, Span
<1> QED BY Heard, <1>1, <1>2, <1>3 DEF Inv, TypeInv, Talk

LEMMA ReceiveInit == Inv /\ Receive /\ computer = "init" => Inv'
<1> SUFFICES ASSUME Inv, Receive, computer = "init" PROVE Inv'
  OBVIOUS
<1>1. outbox = <<Continue>> /\ inbox = <<>> /\ d = "WAIT_COMMAND"
  BY Heard DEF Phase, Initing, Quiet
<1>2. Answer = Continue /\ outbox' = <<>>
  BY <1>1, Heard, Tokens DEF Answer
<1>3. computer' = "ready"
  BY <1>2, Zenon DEF Receive
<1>4. UNCHANGED <<k, inbox, expect, d>>
  BY Heard
<1>5. Phase'
  BY <1>1, <1>2, <1>3, <1>4 DEF Phase, Quiet
<1>6. k' \in 0..op.count
  BY <1>4 DEF Inv, TypeInv, HostOK
<1> QED BY <1>3, <1>4, <1>5, <1>6, HeardNothing

\* What comes of an answer to a command.
LEMMA AnswerHeard ==
  ASSUME Inv, Receive, computer \in {"READ", "WRITE", "NOP"}, Answering
  PROVE  /\ UNCHANGED <<k, inbox>> /\ Answering'
         /\ \/ computer' = computer /\ Answer # Normal
            \/ computer' = "ready" /\ Quiet' /\ d' = "WAIT_COMMAND"
<1>1. UNCHANGED <<d, next_state, packet>> /\ outbox # <<>> /\ outbox' = Tail(outbox) /\ LineOK
  BY Heard DEF driveVars, Inv, TypeInv
<1>2. Answer \in Answers /\ Answer = Head(outbox)
  BY Heard DEF Answer
<1>3. Answer # Continue
  <2>1. Answer[1] \in {"data", "end"}
    <3>1. /\ Len(outbox) \in Nat /\ Len(outbox) >= 1 /\ Head(outbox) = outbox[1]
      BY <1>1 DEF LineOK
    <3>2. 1 \in 1..Len(outbox)
      BY <3>1
    <3> QED BY <1>2, <3>1, <3>2 DEF Answering
  <2> QED BY <1>2, <2>1, AnswerWords
<1>4. UNCHANGED <<k, inbox>>
  BY <1>3, Zenon DEF Receive
<1>5. /\ Answering' /\ Answer[1] \in {"data", "end"}
      /\ Answer[1] = "end" => outbox' = <<>> /\ d = "WAIT_COMMAND"
  BY <1>1, <1>2, <1>4, AnswerTaken
<1>6. computer' = IF Answer[1] = "end" THEN "ready" ELSE computer
  <2>1. computer # "init" /\ computer # "BOOT"
    OBVIOUS
  <2> QED BY <2>1, Zenon DEF Receive
<1>7. Answer = Normal => Answer[1] = "end"
  BY DEF Normal
<1>8. inbox' = <<>>
  BY <1>5 DEF Answering
<1> QED BY <1>1, <1>4, <1>5, <1>6, <1>7, <1>8 DEF Quiet

LEMMA ReceiveRead == Inv /\ Receive /\ computer \in {"READ", "NOP"} => Inv'
<1> SUFFICES ASSUME Inv, Receive, computer \in {"READ", "NOP"} PROVE Inv'
  OBVIOUS
<1>1. Answering
  BY Heard DEF Phase, Asked
<1>2. /\ UNCHANGED <<k, inbox>> /\ Answering'
      /\ \/ computer' = computer
         \/ computer' = "ready" /\ Quiet' /\ d' = "WAIT_COMMAND"
  BY <1>1, AnswerHeard
<1>3. Phase'
  BY <1>2 DEF Phase
<1>4. k' \in 0..op.count
  BY <1>2 DEF Inv, TypeInv, HostOK
<1> QED BY <1>2, <1>3, <1>4, Heard, HeardNothing

\* Acknowledged: every chunk of the operation is on the tape.
LEMMA WriteAcknowledged ==
  ASSUME Inv, Receive, computer = "WRITE", Answering, OnTape(op.count), Answer = Normal
  PROVE  Inv'
<1> DEFINE v == mounted[op.unit]
<1>1. /\ UNCHANGED <<k, inbox>> /\ computer' = "ready" /\ Quiet' /\ d' = "WAIT_COMMAND"
  BY AnswerHeard
<1>2. Phase' /\ Engaged'
  BY <1>1 DEF Phase, Engaged
<1>3. op \in Ops /\ op.code = "WRITE" /\ n \in 0..MaxOps
  BY Heard DEF Engaged, Inv, TypeInv, HostOK
<1>4. /\ op.block * Block \in Nat /\ op.count \in Nat /\ Span(op) \subseteq Chunks
      /\ \A c \in Span(op) : c - op.block * Block \in 0..op.count - 1
  BY <1>3, SpanOnTape
<1>5. expect' = [expect EXCEPT ![v] = [c \in Chunks |->
                   IF c \in Span(op) THEN Written(c) ELSE @[c]]]
  BY Zenon DEF Receive
<1>6. \A c \in Span(op) : Written(c) \in Marks
  <2>1. \A c \in Span(op) : c - op.block * Block \in Nat
    BY <1>4
  <2> QED BY <1>3, <2>1, MarkIs DEF Written
<1> HIDE DEF v
<1>7. /\ expect' \in [Tapes -> [Chunks -> Marks \cup {Unknown}]]
      /\ \A t \in Tapes, c \in Chunks :
           expect'[t][c] = IF t = v /\ c \in Span(op) THEN Written(c) ELSE expect[t][c]
  BY <1>5, <1>6 DEF Inv, TypeInv, DataOK
<1>8. \A t \in Tapes : t = v => \A c \in Span(op) : tape[t][c] = Written(c)
  <2> SUFFICES ASSUME NEW t \in Tapes, t = v, NEW c \in Span(op)
               PROVE  tape[t][c] = Written(c)
    OBVIOUS
  <2> DEFINE b == op.block * Block
  <2>1. c - b \in 0..op.count - 1 /\ c \in Int /\ b \in Int
    BY <1>4 DEF Chunks
  <2>2. tape[t][b + (c - b)] = <<"new", n, c - b>>
    BY <2>1 DEF OnTape, v
  <2> HIDE DEF b
  <2>3. b + (c - b) = c
    BY <2>1
  <2> QED BY <2>2, <2>3 DEF Written, b
<1>9. TapesKept'
  BY <1>7, <1>8, Heard DEF TapesKept, Inv
<1>10. DataOK' /\ HostOK'
  BY <1>1, <1>7, Heard DEF Inv, TypeInv, DataOK, HostOK
<1> QED BY <1>2, <1>9, <1>10, Heard DEF Inv, TypeInv, Talk

LEMMA ReceiveWrite == Inv /\ Receive /\ computer = "WRITE" => Inv'
<1> SUFFICES ASSUME Inv, Receive, computer = "WRITE" PROVE Inv'
  OBVIOUS
<1>1. \/ Writing /\ d = "WAIT_COMMAND" /\ inbox = <<>> /\ outbox = <<Continue>>
         /\ progress = k /\ k < op.count
      \/ Answering /\ OnTape(op.count)
  BY Heard DEF Phase, Asked, Writing, Quiet
<1>2. CASE /\ Writing /\ d = "WAIT_COMMAND" /\ inbox = <<>> /\ outbox = <<Continue>>
           /\ progress = k /\ k < op.count
  <2> DEFINE ch == <<"chunk", <<"new", n, k>>>>
  <2>1. Answer = Continue /\ outbox' = <<>>
    BY <1>2, Heard, Tokens DEF Answer
  <2>2. k' = k + 1 /\ inbox' = inbox \o <<<<"DATA">>, ch>>
    BY <1>2, <2>1, Zenon DEF Receive
  <2>3. Continue # Normal /\ Continue[1] # "end"
    BY DEF Continue, Normal
  <2>4. computer' = computer /\ expect' = expect
    BY <1>2, <2>1, <2>3, Zenon DEF Receive
  <2>5. inbox' = <<<<"DATA">>, ch>>
    BY <1>2, <2>2, Tokens
  <2>6. k \in Nat /\ op.count \in Nat
    BY OpTypes DEF Inv, TypeInv, HostOK
  <2>7. Chunk' = ch
    <3>1. n' = n /\ k' - 1 = k
      BY <2>2, <2>6, Heard
    <3> QED BY <3>1 DEF Chunk
  <2> HIDE DEF ch
  <2>8. OnTape(progress)'
    BY <1>2, Heard DEF Writing, OnTape, driveVars, fileVars
  <2>9. UNCHANGED <<d, command, op, drive, behind, progress>>
    BY Heard DEF driveVars
  <2>10. k' > 0 /\ progress' = k' - 1 /\ k' \in 0..op.count
    BY <1>2, <2>2, <2>6, <2>9
  <2>11. Writing'
    BY <1>2, <2>1, <2>5, <2>7, <2>8, <2>9, <2>10 DEF Writing
  <2>12. Phase'
    BY <2>4, <2>11 DEF Phase
  <2> QED BY <2>4, <2>10, <2>12, HeardNothing
<1>3. CASE Answering /\ OnTape(op.count)
  <2>1. CASE Answer = Normal
    BY <1>3, <2>1, WriteAcknowledged
  <2>2. CASE Answer # Normal
    <3>1. expect' = expect
      BY <2>2, Zenon DEF Receive
    <3>2. /\ UNCHANGED <<k, inbox>> /\ Answering'
          /\ \/ computer' = computer
             \/ computer' = "ready" /\ Quiet' /\ d' = "WAIT_COMMAND"
      BY <1>3, AnswerHeard
    <3>3. OnTape(op.count)'
      BY <1>3, Heard DEF OnTape, fileVars
    <3>4. Phase'
      BY <3>2, <3>3 DEF Phase
    <3>5. k' \in 0..op.count
      BY <3>2 DEF Inv, TypeInv, HostOK
    <3> QED BY <3>1, <3>2, <3>4, <3>5, HeardNothing
  <2> QED BY <2>1, <2>2
<1> QED BY <1>1, <1>2, <1>3

LEMMA ReceiveBoot == Inv /\ Receive /\ computer = "BOOT" => Inv'
<1> SUFFICES ASSUME Inv, Receive, computer = "BOOT" PROVE Inv'
  OBVIOUS
<1>1. /\ inbox = <<>> /\ outbox # <<>>
      /\ \/ d = "RUN_BOOTSTRAP" /\ pos < Block /\ Len(got) + Len(outbox) <= pos
         \/ d = "WAIT_COMMAND" /\ Len(got) + Len(outbox) <= Block
  BY Heard DEF Phase, Bootstrapping
<1>2. UNCHANGED <<k, inbox, expect, d, pos>>
  BY Heard DEF driveVars
<1>3. /\ Len(outbox) \in Nat /\ Len(outbox) >= 1 /\ Len(outbox') = Len(outbox) - 1
      /\ (Len(outbox') = 0 => outbox' = <<>>)
  BY Heard DEF Inv, TypeInv, LineOK
<1>4. Len(got) \in Nat /\ Len(got') \in Nat /\ Len(got') <= Len(got) + 1
  <2>1. got \in Seq(Marks) /\ got' \in Seq(Marks)
    BY Heard DEF Inv, TypeInv, DataOK
  <2>2. got' = got \/ got' = Append(got, Answer[2])
    BY Zenon DEF Receive
  <2>3. Len(Append(got, Answer[2])) = Len(got) + 1
    BY <2>1
  <2> QED BY <2>1, <2>2, <2>3
<1>5. pos \in Int /\ Block \in Nat
  BY Tu58Assumption DEF Inv, TypeInv, DriveOK
<1>6. Bootstrapping'
  <2>1. \/ d' = "RUN_BOOTSTRAP" /\ pos' < Block /\ Len(got') + Len(outbox') <= pos'
        \/ d' = "WAIT_COMMAND" /\ Len(got') + Len(outbox') <= Block
    BY <1>1, <1>2, <1>3, <1>4, <1>5
  <2> QED BY <1>1, <1>2, <2>1 DEF Bootstrapping
<1>7. computer' = IF Len(got') = Block THEN "ready" ELSE computer
  BY Zenon DEF Receive
<1>8. CASE Len(got') = Block
  <2>1. Len(outbox') = 0 /\ d = "WAIT_COMMAND"
    BY <1>1, <1>3, <1>4, <1>5, <1>8
  <2> QED BY <1>1, <1>2, <1>3, <1>7, <1>8, <2>1, HeardNothing DEF Phase, Quiet, Inv, TypeInv, HostOK
<1>9. CASE Len(got') # Block
  <2>1. Phase'
    BY <1>6, <1>7, <1>9 DEF Phase
  <2> QED BY <1>2, <1>7, <1>9, <2>1, HeardNothing DEF Inv, TypeInv, HostOK
<1> QED BY <1>8, <1>9

LEMMA ReceiveStep == Inv /\ Receive => Inv'
<1>1. Inv /\ Receive => computer # "start" /\ computer # "ready"
  BY Heard DEF Phase, Quiet
<1> QED BY <1>1, ReceiveInit, ReceiveRead, ReceiveWrite, ReceiveBoot DEF Inv, TypeInv, HostOK

LEMMA StutterStep == Inv /\ UNCHANGED vars => Inv'
<1> SUFFICES ASSUME Inv, UNCHANGED vars PROVE Inv'
  OBVIOUS
<1>1. /\ UNCHANGED <<d, drive, command, progress, status, behind, pos, packet, next_state>>
      /\ UNCHANGED <<file, open, mounted, tape, inbox, outbox>>
      /\ UNCHANGED <<computer, op, k, got, n, expect, events, mishap>>
  BY DEF vars, driveVars, fileVars, hostVars
<1>2. TypeInv' /\ TapesKept'
  BY <1>1 DEF Inv, TypeInv, DriveOK, FilesOK, DataOK, LineOK, HostOK, TapesKept
<1>3. (Initing' <=> Initing) /\ (Asked' <=> Asked) /\ (Answering' <=> Answering)
  BY <1>1 DEF Initing, Asked, Answering, Do, Quiet
<1>4. Writing' <=> Writing
  <2>1. OnTape(progress)' <=> OnTape(progress)
    BY <1>1 DEF OnTape
  <2>2. Chunk' = Chunk /\ (Quiet' <=> Quiet)
    BY <1>1 DEF Chunk, Quiet
  <2> QED BY <1>1, <2>1, <2>2 DEF Writing
<1>5. Bootstrapping' <=> Bootstrapping
  BY <1>1 DEF Bootstrapping, Unit
<1>6. Phase => Phase'
  <2>1. OnTape(op.count)' <=> OnTape(op.count)
    BY <1>1 DEF OnTape
  <2> QED BY <1>1, <1>3, <1>4, <1>5, <2>1 DEF Phase, Quiet
<1>7. Engaged => Engaged'
  BY <1>1 DEF Engaged
<1> QED BY <1>1, <1>2, <1>6, <1>7 DEF Inv, Talk, Sound

(***************************************************************************)
(* What the computer reads.                                                *)
(***************************************************************************)
\* Chunk i of the operation, on the tape the operator mounted.
Right(w, i, a) ==
  /\ mounted[op.unit] \in Tapes /\ op.block * Block + i - 1 \in Chunks
  /\ a = <<w, tape[mounted[op.unit]][op.block * Block + i - 1]>>

\* The computer's chunks, and behind them what is on the line.
Line == Len(got) + Len(outbox)
Said(w, i) == IF i <= Len(got) THEN <<w, got[i]>> ELSE outbox[i - Len(got)]

\* A lost token leaves the line too short for good; while it is as long as it
\* should be, its first m chunks are right.
SoFar(w, length, m) ==
  Line <= length /\ (Line = length => \A i \in 1..m : Right(w, i, Said(w, i)))

\* An operation begins with nothing.
Fresh == inbox # <<>> \/ d \in {"GET_COMMAND", "EXEC_COMMAND", "START_BOOTSTRAP"} => got = <<>>

Reading ==
  /\ Fresh
  /\ d = "READ_DATA" =>
       command = op /\ drive = op.unit /\ progress <= op.count
       /\ SoFar("data", progress, progress)
  /\ d = "SEND_PACKET" /\ next_state = "READ_DATA" =>
       command = op /\ drive = op.unit /\ progress \in 1..op.count
       /\ SoFar("data", progress - 1, progress - 1) /\ Right("data", progress, packet)
  /\ d = "SEND_PACKET" /\ next_state = "WAIT_COMMAND" => SoFar("data", op.count, op.count)
  /\ d = "START_ENDPACKET" => SoFar("data", op.count, op.count)
  /\ d = "WAIT_COMMAND" => SoFar("data", op.count + 1, op.count)

Booting ==
  /\ Fresh
  /\ d = "RUN_BOOTSTRAP" => drive = op.unit /\ SoFar("raw", pos, pos)
  /\ d = "WAIT_COMMAND" => SoFar("raw", Block, Block)

Reads == Sound => /\ computer = "READ" => Reading
                  /\ computer = "BOOT" => Booting

LEMMA Lengths ==
  Inv => /\ Len(got) \in Nat /\ Len(outbox) \in Nat /\ Line \in Nat
         /\ op.count \in Nat /\ op.block * Block \in Nat /\ Block \in Nat \ {0}
         /\ progress \in 0..TapeSize /\ pos \in 0..Block /\ TapeSize \in Nat /\ Block <= TapeSize
         /\ got \in Seq(Marks) /\ outbox \in Seq(Answers)
<1> SUFFICES ASSUME Inv
             PROVE  /\ Len(got) \in Nat /\ Len(outbox) \in Nat /\ Line \in Nat
                    /\ op.count \in Nat /\ op.block * Block \in Nat /\ Block \in Nat \ {0}
                    /\ progress \in 0..TapeSize /\ pos \in 0..Block /\ TapeSize \in Nat
                    /\ Block <= TapeSize /\ got \in Seq(Marks) /\ outbox \in Seq(Answers)
  OBVIOUS
<1>1. got \in Seq(Marks) /\ outbox \in Seq(Answers) /\ progress \in 0..TapeSize /\ pos \in 0..Block
      /\ op \in Ops \cup {Nothing}
  BY DEF Inv, TypeInv, DataOK, LineOK, DriveOK, HostOK
<1>2. Len(got) \in Nat /\ Len(outbox) \in Nat
  BY <1>1
<1>3. op.count \in Nat /\ op.block * Block \in Nat
  BY <1>1, OpTypes
<1>4. Block \in Nat \ {0} /\ TapeSize \in Nat /\ Block <= TapeSize
  BY Tu58Assumption
<1> QED BY <1>1, <1>2, <1>3, <1>4 DEF Line

\* A token is put on the line: the chunks before it stay where they are.
LEMMA Grown ==
  ASSUME Inv, NEW w, NEW a, NEW m \in Nat, SoFar(w, m, m), Right(w, m + 1, a),
         UNCHANGED <<tape, mounted, op, got>>, outbox' = Append(outbox, a)
  PROVE  Line' <= m + 1 /\ (Line' = m + 1 => \A i \in 1..m + 1 : Right(w, i, Said(w, i))')
<1>1. /\ Len(got') = Len(got) /\ Len(outbox') = Len(outbox) + 1
      /\ \A j \in 1..Len(outbox) : outbox'[j] = outbox[j]
      /\ outbox'[Len(outbox) + 1] = a
  BY Lengths
<1>2. Line' = Line + 1 /\ Line = Len(got) + Len(outbox) /\ Len(got) \in Nat /\ Len(outbox) \in Nat
  BY <1>1, Lengths DEF Line
<1>3. Line <= m /\ (Line = m => \A i \in 1..m : Right(w, i, Said(w, i)))
  BY DEF SoFar
<1>4. ASSUME Line = m, NEW i \in 1..m + 1 PROVE Right(w, i, Said(w, i))'
  <2>1. CASE i <= Len(got)
    <3>1. Said(w, i)' = Said(w, i)
      BY <1>1, <2>1 DEF Said
    <3>2. i \in 1..m
      BY <1>2, <1>4, <2>1
    <3> QED BY <1>3, <1>4, <3>1, <3>2 DEF Right
  <2>2. CASE i > Len(got) /\ i <= m
    <3>1. i - Len(got) \in 1..Len(outbox)
      BY <1>2, <1>4, <2>2
    <3>2. Said(w, i)' = Said(w, i)
      BY <1>1, <1>2, <2>2, <3>1 DEF Said
    <3>3. i \in 1..m
      BY <2>2
    <3> QED BY <1>3, <1>4, <3>2, <3>3 DEF Right
  <2>3. CASE i = m + 1
    <3>1. i - Len(got) = Len(outbox) + 1 /\ ~(i <= Len(got))
      BY <1>2, <1>4, <2>3
    <3>2. Said(w, i)' = a
      BY <1>1, <3>1 DEF Said
    <3> QED BY <2>3, <3>2 DEF Right
  <2> QED BY <1>2, <2>1, <2>2, <2>3
<1>5. Line <= m => Line + 1 <= m + 1
  BY <1>2
<1>6. Line + 1 = m + 1 => Line = m
  BY <1>2
<1> QED BY <1>2, <1>3, <1>4, <1>5, <1>6

\* The end packet follows the last chunk.
LEMMA Overgrown ==
  ASSUME Inv, NEW w, NEW a, SoFar(w, op.count, op.count),
         UNCHANGED <<tape, mounted, op, got>>, outbox' = Append(outbox, a)
  PROVE  SoFar(w, op.count + 1, op.count)'
<1>1. /\ Len(got') = Len(got) /\ Len(outbox') = Len(outbox) + 1
      /\ \A j \in 1..Len(outbox) : outbox'[j] = outbox[j]
  BY Lengths
<1>2. /\ Line' = Line + 1 /\ Line = Len(got) + Len(outbox) /\ op.count \in Nat
      /\ Len(got) \in Nat /\ Len(outbox) \in Nat
  BY <1>1, Lengths DEF Line
<1>3. Line <= op.count /\ (Line = op.count => \A i \in 1..op.count : Right(w, i, Said(w, i)))
  BY DEF SoFar
<1>4. ASSUME Line = op.count, NEW i \in 1..op.count PROVE Right(w, i, Said(w, i))'
  <2>1. Right(w, i, Said(w, i))
    BY <1>3, <1>4
  <2>2. Said(w, i)' = Said(w, i)
    <3>1. CASE i <= Len(got)
      BY <1>1, <3>1 DEF Said
    <3>2. CASE ~(i <= Len(got))
      <4>1. i - Len(got) \in 1..Len(outbox)
        BY <1>2, <1>4, <3>2
      <4> QED BY <1>1, <3>2, <4>1 DEF Said
    <3> QED BY <3>1, <3>2
  <2> QED BY <2>1, <2>2 DEF Right
<1>5. Line' <= op'.count + 1 /\ (Line' = op'.count + 1 => Line = op.count)
  BY <1>2, <1>3
<1> QED BY <1>4, <1>5 DEF SoFar

LEMMA LengthsAfter == Inv' => Line' \in Nat
<1>1. Inv' => got' \in Seq(Marks) /\ outbox' \in Seq(Answers)
  BY DEF Inv, TypeInv, DataOK, LineOK
<1> QED BY <1>1 DEF Line

\* Whom the drive may be talking to.
LEMMA ReaderPhase ==
  ASSUME Inv, Sound
  PROVE  /\ computer = "READ" => /\ Asked \/ Answering
                                 /\ op \in Ops /\ op.code = "READ"
         /\ computer = "BOOT" => Bootstrapping /\ op \in Ops /\ op.code = "BOOT"
BY DEF Inv, Talk, Phase, Engaged

\* Steps of a drive that talks to somebody else.
LEMMA ReadsOthers ==
  ASSUME Inv, Wake \/ Idle \/ GetWrite
  PROVE  Reads'
<1>1. Sound /\ d \in {"asleep", "IDLE", "GET_WRITE"} /\ computer' = computer
  BY DEF Wake, Idle, GetWrite, Takes, At, hostVars
<1>2. computer \notin {"READ", "BOOT"}
  BY <1>1, ReaderPhase DEF Asked, Answering, Bootstrapping
<1> QED BY <1>1, <1>2 DEF Reads

\* While nothing is got and the drive does not send.
LEMMA Begins ==
  ASSUME got' = <<>>,
         d' \in {"GET_COMMAND", "EXEC_COMMAND", "START_BOOTSTRAP"}
  PROVE  Reads'
BY DEF Reads, Reading, Booting, Fresh

LEMMA ReadsWaitCommand ==
  ASSUME Inv, Reads, WaitCommand
  PROVE  Reads'
<1> SUFFICES ASSUME Sound', computer' \in {"READ", "BOOT"} PROVE Reads'
  BY DEF Reads
<1> DEFINE tk == Head(inbox)
<1>1. /\ Sound /\ d = "WAIT_COMMAND" /\ inbox # <<>>
      /\ mishap' = IF tk[1] \in {"chunk", "do", "unit"} THEN "misread" ELSE mishap
      /\ UNCHANGED hostVars
  BY DEF WaitCommand, Takes, At, Token, Note
<1>2. d' = CASE tk = <<"boot">>    -> "START_BOOTSTRAP"
             [] tk = <<"DATA">>    -> "GET_WRITE"
             [] tk = <<"COMMAND">> -> "GET_COMMAND"
             [] OTHER              -> d
  BY Zenon DEF WaitCommand, Token
<1>3. tk[1] \notin {"chunk", "do", "unit"}
  BY <1>1 DEF Sound
<1>4. computer' = computer /\ got' = got
  BY <1>1 DEF hostVars
<1>5. got' = <<>>
  BY <1>1, <1>4 DEF Reads, Reading, Booting, Fresh
<1>6. inbox # <<Do>> /\ inbox # <<Unit>>
  BY <1>3, Tokens DEF Do, Unit
<1>7. inbox = <<<<"COMMAND">>, Do>> \/ inbox = <<<<"boot">>, Unit>>
  BY <1>1, <1>4, <1>6, ReaderPhase DEF Asked, Answering, Bootstrapping
<1>8. tk = <<"COMMAND">> \/ tk = <<"boot">>
  BY <1>7, Tokens
<1>9. d' \in {"GET_COMMAND", "START_BOOTSTRAP"}
  BY <1>2, <1>8
<1> QED BY <1>5, <1>9, Begins

LEMMA ReadsStartBootstrap ==
  ASSUME Inv, Reads, StartBootstrap
  PROVE  Reads'
<1> SUFFICES ASSUME Sound', computer' \in {"READ", "BOOT"} PROVE Reads'
  BY DEF Reads
<1> DEFINE tk == Head(inbox)
<1>1. /\ Sound /\ d = "START_BOOTSTRAP" /\ inbox # <<>> /\ inbox' = Tail(inbox)
      /\ IF tk[1] # "unit"
         THEN mishap' = "misread" /\ UNCHANGED <<d, drive, pos>>
         ELSE /\ drive' = tk[2] /\ pos' = 0
              /\ d' = IF file[tk[2]] = 0 THEN "WAIT_COMMAND" ELSE "RUN_BOOTSTRAP"
              /\ UNCHANGED mishap
      /\ UNCHANGED <<outbox, hostVars>>
  BY DEF StartBootstrap, Takes, At, Token
<1>2. tk[1] = "unit" /\ computer' = computer /\ got' = got /\ op' = op /\ outbox' = outbox
  BY <1>1 DEF Sound, hostVars
<1>3. computer = "BOOT" /\ got = <<>> /\ outbox = <<>> /\ inbox = <<Unit>>
  BY <1>1, <1>2, ReaderPhase DEF Asked, Answering, Bootstrapping
<1>4. tk = Unit
  BY <1>3, Tokens
<1>5. drive' = op' .unit /\ pos' = 0 /\ d' \in {"WAIT_COMMAND", "RUN_BOOTSTRAP"}
  BY <1>1, <1>2, <1>4 DEF Unit
<1>6. Line' = 0 /\ Block \in Nat \ {0}
  <2>1. Len(got') = 0 /\ Len(outbox') = 0
    BY <1>2, <1>3
  <2> QED BY <2>1, Tu58Assumption DEF Line
<1>7. SoFar("raw", pos, pos)' /\ SoFar("raw", Block, Block)'
  BY <1>5, <1>6 DEF SoFar
<1> QED BY <1>2, <1>3, <1>5, <1>7 DEF Reads, Booting, Fresh

LEMMA ReadsRunBootstrap ==
  ASSUME Inv, Reads, RunBootstrap
  PROVE  Reads'
<1> SUFFICES ASSUME Sound', computer' \in {"READ", "BOOT"} PROVE Reads'
  BY DEF Reads
<1>1. /\ Sound /\ d = "RUN_BOOTSTRAP" /\ Touch(drive)
      /\ UNCHANGED <<drive, fileVars, tape, inbox, hostVars>>
  BY DEF RunBootstrap, At
<1>2. computer = "BOOT" /\ inbox = <<>> /\ pos < Block /\ op \in Ops /\ op.code = "BOOT"
  BY <1>1, ReaderPhase DEF Asked, Answering, Bootstrapping, hostVars
<1>3. Trouble(drive) = None
  BY <1>1, NoTrouble DEF Touch, Note, Sound, None, Inv, TypeInv, DriveOK
<1> DEFINE x == tape[Reached(drive)][pos]
           a == <<"raw", x>>
<1>4. outbox' = Append(outbox, a) /\ pos' = pos + 1
      /\ d' = IF pos' >= Block THEN "WAIT_COMMAND" ELSE d
  BY <1>3, Zenon DEF RunBootstrap
<1>5. drive = op.unit /\ SoFar("raw", pos, pos)
  BY <1>1, <1>2 DEF Reads, Booting
<1>6. Reached(drive) = mounted[op.unit] /\ mounted[op.unit] \in Tapes
  BY <1>2, <1>3, <1>5, NoTrouble, OpTypes DEF Inv, TypeInv
<1>7. op.block * Block = 0
  BY <1>2, Tu58Assumption
<1>8. UNCHANGED <<tape, mounted, op, got, drive, computer>>
  BY <1>1 DEF fileVars, hostVars
<1>9. op.block * Block + (pos + 1) - 1 = pos /\ pos \in Chunks
  BY <1>2, <1>7, Lengths DEF Chunks
<1>10. Right("raw", pos + 1, a)
  BY <1>6, <1>9 DEF Right
<1> HIDE DEF a
<1>11. SoFar("raw", pos, pos)'
  <2>1. pos \in Nat
    BY Lengths
  <2>2. Line' <= pos + 1 /\ (Line' = pos + 1 => \A i \in 1..pos + 1 : Right("raw", i, Said("raw", i))')
    BY <1>4, <1>5, <1>8, <1>10, <2>1, Grown
  <2> QED BY <1>4, <2>2 DEF SoFar
<1>12. d' = "WAIT_COMMAND" => pos' = Block
  BY <1>1, <1>2, <1>4, Lengths
<1> QED BY <1>1, <1>2, <1>4, <1>5, <1>8, <1>11, <1>12 DEF Reads, Booting, Fresh

LEMMA ReadsGetCommand ==
  ASSUME Inv, Reads, GetCommand
  PROVE  Reads'
<1>1. /\ Sound /\ d = "GET_COMMAND" /\ inbox # <<>>
      /\ d' = "EXEC_COMMAND"
      /\ UNCHANGED <<hostVars, mishap>>
  BY DEF GetCommand, Takes, At, Token
<1>2. CASE computer = "READ"
  <2>1. inbox = <<Do>>
    BY <1>1, <1>2, ReaderPhase DEF Asked, Answering
  <2>2. got' = <<>>
    BY <1>1, <1>2, <2>1 DEF Reads, Reading, Fresh, hostVars
  <2> QED BY <1>1, <2>2, Begins
<1>3. computer # "BOOT"
  BY <1>1, ReaderPhase DEF Bootstrapping
<1> QED BY <1>1, <1>2, <1>3 DEF Reads, hostVars

LEMMA ReadsExecCommand ==
  ASSUME Inv, Reads, ExecCommand
  PROVE  Reads'
<1>1. /\ Sound /\ d = "EXEC_COMMAND"
      /\ UNCHANGED <<drive, command, fileVars, tape, inbox, hostVars, mishap>>
  BY DEF ExecCommand, At
<1>2. CASE computer = "READ"
  <2>1. command = op /\ drive = op.unit /\ op.code = "READ" /\ outbox = <<>> /\ inbox = <<>>
    BY <1>1, <1>2, ReaderPhase DEF Asked, Answering
  <2>2. \/ d' = "WAIT_COMMAND" /\ outbox' = outbox
        \/ d' = "READ_DATA" /\ progress' = 0 /\ outbox' = outbox
    BY <2>1, Zenon DEF ExecCommand, Execute, Rejected, StartAt
  <2>3. got' = <<>> /\ outbox' = <<>> /\ op' = op /\ computer' = "READ"
    BY <1>1, <1>2, <2>1, <2>2 DEF Reads, Reading, Fresh, hostVars
  <2>4. Line' = 0
    <3>1. Len(got') = 0 /\ Len(outbox') = 0
      BY <2>3
    <3> QED BY <3>1 DEF Line
  <2>5. CASE d' = "WAIT_COMMAND"
    <3>1. SoFar("data", op.count + 1, op.count)'
      <4>1. op'.count \in Nat
        BY <2>3, Lengths
      <4> QED BY <2>4, <4>1 DEF SoFar
    <3> QED BY <1>1, <2>3, <2>5, <3>1 DEF Reads, Reading, Fresh
  <2>6. CASE d' = "READ_DATA" /\ progress' = 0
    <3>1. SoFar("data", progress, progress)'
      BY <2>4, <2>6 DEF SoFar
    <3>2. progress' <= op'.count
      BY <2>3, <2>6, Lengths
    <3> QED BY <1>1, <2>1, <2>3, <2>6, <3>1, <3>2 DEF Reads, Reading, Fresh
  <2> QED BY <2>2, <2>5, <2>6
<1>3. computer # "BOOT"
  BY <1>1, ReaderPhase DEF Bootstrapping
<1> QED BY <1>1, <1>2, <1>3 DEF Reads, hostVars

\* The line and the tapes stay as they are.
LEMMA LineSame ==
  ASSUME NEW w, NEW l, NEW m, UNCHANGED <<tape, mounted, op, got, outbox>>, SoFar(w, l, m)
  PROVE  Line' <= l /\ (Line' = l => \A i \in 1..m : Right(w, i, Said(w, i))')
BY DEF SoFar, Line, Said, Right

LEMMA ReadsReadData ==
  ASSUME Inv, Reads, ReadData
  PROVE  Reads'
<1> SUFFICES ASSUME Sound', computer' \in {"READ", "BOOT"} PROVE Reads'
  BY DEF Reads
<1>1. /\ Sound /\ d = "READ_DATA"
      /\ UNCHANGED <<drive, command, fileVars, tape, inbox, outbox, hostVars>>
  BY DEF ReadData, At
<1>2. computer = "READ" /\ inbox = <<>>
  BY <1>1, ReaderPhase DEF Asked, Answering, Bootstrapping, hostVars
<1>3. command = op /\ drive = op.unit /\ progress <= op.count /\ SoFar("data", progress, progress)
  BY <1>1, <1>2 DEF Reads, Reading
<1>4. UNCHANGED <<tape, mounted, op, got, outbox, computer, inbox, command, drive>>
  BY <1>1 DEF fileVars, hostVars
<1>5. /\ Line' <= progress
      /\ Line' = progress => \A i \in 1..progress : Right("data", i, Said("data", i))'
  BY <1>3, <1>4, LineSame
<1>6. CASE progress >= op.count \/ Here > TapeSize
  <2>1. d' = "START_ENDPACKET"
    BY <1>3, <1>6 DEF ReadData
  <2>2. SoFar("data", op.count, op.count)'
    <3>1. Line' <= op.count
      BY <1>3, <1>4, <1>5, Lengths DEF Line
    <3>2. Line' = op.count => progress = op.count
      BY <1>3, <1>4, <1>5, Lengths DEF Line
    <3> QED BY <1>4, <1>5, <3>1, <3>2 DEF SoFar
  <2> QED BY <1>2, <1>4, <2>1, <2>2 DEF Reads, Reading, Fresh
<1>7. CASE ~(progress >= op.count \/ Here > TapeSize)
  <2>1. Here # TapeSize /\ Trouble(drive) = None
    <3> SUFFICES ASSUME Here = TapeSize \/ Trouble(drive) # None PROVE FALSE
      OBVIOUS
    <3>1. mishap' = IF Trouble(drive) # None THEN Trouble(drive) ELSE "endless"
      BY <1>3, <1>7, Zenon DEF ReadData
    <3> QED BY <3>1, NoTrouble DEF Sound, None, Inv, TypeInv, DriveOK
  <2> DEFINE x == tape[Reached(drive)][Here]
  <2>2. packet' = <<"data", x>> /\ progress' = progress + 1 /\ d' = "SEND_PACKET"
        /\ next_state' = "READ_DATA"
    BY <1>3, <1>7, <2>1, Zenon DEF ReadData
  <2>3. Reached(drive) = mounted[op.unit] /\ mounted[op.unit] \in Tapes
    BY <1>3, <2>1, NoTrouble, OpTypes DEF Inv, TypeInv, HostOK
  <2>4. Here = op.block * Block + progress
    BY <1>3 DEF Here
  <2> DEFINE b == op.block * Block
  <2>5. b \in Nat /\ progress \in Nat /\ op.count \in Nat /\ TapeSize \in Nat
    BY Lengths
  <2> HIDE DEF b
  <2>6. b + progress \in Chunks /\ b + (progress + 1) - 1 = b + progress
    BY <1>7, <2>1, <2>4, <2>5 DEF Chunks, b
  <2>7. Right("data", progress, packet)'
    <3>1. op'.block * Block = b
      BY <1>4 DEF b
    <3>2. packet' = <<"data", tape'[mounted'[op'.unit]][b + progress' - 1]>>
      BY <1>4, <2>2, <2>3, <2>4, <2>6 DEF b
    <3>3. mounted'[op'.unit] \in Tapes /\ b + progress' - 1 \in Chunks
      BY <1>4, <2>2, <2>3, <2>6
    <3> QED BY <3>1, <3>2, <3>3 DEF Right
  <2>8. progress' \in 1..op'.count /\ progress' - 1 = progress
    BY <1>3, <1>4, <1>7, <2>2, <2>5
  <2>9. SoFar("data", progress - 1, progress - 1)'
    BY <1>5, <2>8 DEF SoFar
  <2> QED BY <1>2, <1>3, <1>4, <2>2, <2>7, <2>8, <2>9 DEF Reads, Reading, Fresh
<1> QED BY <1>6, <1>7

LEMMA ReadsSendPacket ==
  ASSUME Inv, Reads, SendPacket
  PROVE  Reads'
<1> SUFFICES ASSUME Sound', computer' \in {"READ", "BOOT"} PROVE Reads'
  BY DEF Reads
<1>1. /\ Sound /\ d = "SEND_PACKET" /\ d' = next_state /\ outbox' = Append(outbox, packet)
      /\ UNCHANGED <<drive, command, progress, fileVars, tape, inbox, hostVars>>
  BY DEF SendPacket, Write, At
<1>2. computer = "READ" /\ inbox = <<>>
  BY <1>1, ReaderPhase DEF Asked, Answering, Bootstrapping, hostVars
<1>3. UNCHANGED <<tape, mounted, op, got, computer, inbox, command, drive, progress>>
  BY <1>1 DEF fileVars, hostVars
<1>4. next_state \in {"WAIT_COMMAND", "READ_DATA"}
  BY DEF Inv, TypeInv, DriveOK
<1>5. CASE next_state = "READ_DATA"
  <2>1. /\ command = op /\ drive = op.unit /\ progress \in 1..op.count
        /\ SoFar("data", progress - 1, progress - 1) /\ Right("data", progress, packet)
    BY <1>1, <1>2, <1>5 DEF Reads, Reading
  <2>2. progress - 1 \in Nat /\ (progress - 1) + 1 = progress /\ progress <= op.count
    BY <2>1, Lengths
  <2>3. /\ Line' <= progress
        /\ Line' = progress => \A i \in 1..progress : Right("data", i, Said("data", i))'
    BY <1>1, <1>3, <2>1, <2>2, Grown
  <2>4. SoFar("data", progress, progress)'
    BY <1>3, <2>3 DEF SoFar
  <2> QED BY <1>1, <1>2, <1>3, <1>5, <2>1, <2>2, <2>4 DEF Reads, Reading, Fresh
<1>6. CASE next_state = "WAIT_COMMAND"
  <2>1. SoFar("data", op.count, op.count)
    BY <1>1, <1>2, <1>6 DEF Reads, Reading
  <2>2. SoFar("data", op.count + 1, op.count)'
    BY <1>1, <1>3, <2>1, Overgrown
  <2> QED BY <1>1, <1>2, <1>3, <1>6, <2>2 DEF Reads, Reading, Fresh
<1> QED BY <1>4, <1>5, <1>6

LEMMA ReadsStartEndpacket ==
  ASSUME Inv, Reads, StartEndpacket
  PROVE  Reads'
<1> SUFFICES ASSUME Sound', computer' \in {"READ", "BOOT"} PROVE Reads'
  BY DEF Reads
<1>1. /\ Sound /\ d = "START_ENDPACKET" /\ d' = "SEND_PACKET" /\ next_state' = "WAIT_COMMAND"
      /\ UNCHANGED <<fileVars, tape, inbox, outbox, hostVars>>
  BY DEF StartEndpacket, At
<1>2. computer = "READ" /\ inbox = <<>>
  BY <1>1, ReaderPhase DEF Asked, Answering, Bootstrapping, hostVars
<1>3. UNCHANGED <<tape, mounted, op, got, outbox, computer, inbox>>
  BY <1>1 DEF fileVars, hostVars
<1>4. SoFar("data", op.count, op.count)
  BY <1>1, <1>2 DEF Reads, Reading
<1>5. SoFar("data", op.count, op.count)'
  BY <1>3, <1>4, LineSame DEF SoFar
<1> QED BY <1>1, <1>2, <1>3, <1>5 DEF Reads, Reading, Fresh

LEMMA ReadsMount ==
  ASSUME Inv, NEW u, Mounting(u)
  PROVE  Reads'
BY DEF Reads, Mounting, Busy, Sound, hostVars

LEMMA ReadsBegin ==
  ASSUME Inv, NEW o \in Ops, Begin(o)
  PROVE  Reads'
<1>1. /\ Sound /\ computer = "ready" /\ op' = o /\ got' = <<>> /\ UNCHANGED <<d, outbox>>
  BY DEF Begin
<1>2. d' = "WAIT_COMMAND" /\ outbox' = <<>>
  BY <1>1 DEF Inv, Talk, Phase, Quiet
<1>3. Line' = 0
  <2>1. Len(got') = 0 /\ Len(outbox') = 0
    BY <1>1, <1>2
  <2> QED BY <2>1 DEF Line
<1>4. op'.count \in Nat /\ Block \in Nat \ {0}
  BY <1>1, OpTypes, Tu58Assumption
<1>5. SoFar("data", op.count + 1, op.count)' /\ SoFar("raw", Block, Block)'
  BY <1>3, <1>4 DEF SoFar
<1> QED BY <1>1, <1>2, <1>5 DEF Reads, Reading, Booting, Fresh

\* What was on the line stays right when it moves to the computer; when a token
\* goes astray the line has become shorter.
Shorter(w) ==
  \/ Line' < Line
  \/ Line' = Line /\ \A i \in 1..Line : Said(w, i)' = Said(w, i)

LEMMA WordIs ==
  ASSUME NEW a \in Answers, NEW w \in {"data", "raw"}, a[1] = w
  PROVE  a = <<w, a[2]>>
BY DEF Answers, Continue

LEMMA Shortens ==
  ASSUME Inv, NEW w, outbox # <<>>, outbox' = Tail(outbox),
         got' = got \/ (Head(outbox) = <<w, Head(outbox)[2]>> /\ got' = Append(got, Head(outbox)[2]))
  PROVE  Shorter(w)
<1>1. /\ Len(outbox') = Len(outbox) - 1 /\ Head(outbox) = outbox[1]
      /\ \A j \in 1..Len(outbox) - 1 : outbox'[j] = outbox[j + 1]
      /\ Len(got) \in Nat /\ Len(outbox) \in Nat
  BY Lengths
<1>2. CASE got' = got
  <2>1. Len(got') = Len(got)
    BY <1>2
  <2> QED BY <1>1, <2>1 DEF Shorter, Line
<1>3. CASE Head(outbox) = <<w, Head(outbox)[2]>> /\ got' = Append(got, Head(outbox)[2])
  <2> DEFINE x == Head(outbox)[2]
  <2>1. /\ Len(got') = Len(got) + 1 /\ got'[Len(got) + 1] = x
        /\ \A i \in 1..Len(got) : got'[i] = got[i]
    BY <1>3, Lengths
  <2>2. outbox[1] = <<w, x>>
    BY <1>1, <1>3
  <2> HIDE DEF x
  <2>3. ASSUME NEW i \in 1..Line PROVE Said(w, i)' = Said(w, i)
    <3>1. CASE i <= Len(got)
      BY <1>1, <2>1, <3>1 DEF Said
    <3>2. CASE i = Len(got) + 1
      <4>1. i - Len(got) = 1 /\ ~(i <= Len(got)) /\ i <= Len(got')
        BY <1>1, <2>1, <3>2
      <4> QED BY <2>1, <2>2, <3>2, <4>1 DEF Said
    <3>3. CASE i > Len(got) + 1
      <4>1. /\ i - Len(got') \in 1..Len(outbox) - 1 /\ (i - Len(got')) + 1 = i - Len(got)
            /\ ~(i <= Len(got)) /\ ~(i <= Len(got'))
        BY <1>1, <2>1, <3>3 DEF Line
      <4>2. outbox'[i - Len(got')] = outbox[i - Len(got)]
        BY <1>1, <4>1
      <4> QED BY <4>1, <4>2 DEF Said
    <3> QED BY <1>1, <3>1, <3>2, <3>3 DEF Line
  <2>4. Line' = Line
    BY <1>1, <2>1 DEF Line
  <2> QED BY <2>3, <2>4 DEF Shorter
<1> QED BY <1>2, <1>3

LEMMA StillRight ==
  ASSUME Inv, Inv', NEW w, NEW l \in Nat, NEW m \in Nat, m <= l, SoFar(w, l, m),
         UNCHANGED <<tape, mounted, op>>, Shorter(w)
  PROVE  Line' <= l /\ (Line' = l => \A i \in 1..m : Right(w, i, Said(w, i))')
<1>1. Line \in Nat /\ Line' \in Nat /\ Line <= l
      /\ (Line = l => \A i \in 1..m : Right(w, i, Said(w, i)))
  BY Lengths, LengthsAfter DEF SoFar
<1>2. CASE Line' < Line
  BY <1>1, <1>2
<1>3. CASE Line' = Line /\ \A i \in 1..Line : Said(w, i)' = Said(w, i)
  <2>1. ASSUME Line = l, NEW i \in 1..m PROVE Right(w, i, Said(w, i))'
    <3>1. i \in 1..Line
      BY <1>1, <2>1
    <3>2. Said(w, i)' = Said(w, i) /\ Right(w, i, Said(w, i))
      BY <1>1, <1>3, <2>1, <3>1
    <3> QED BY <3>2 DEF Right
  <2> QED BY <1>1, <1>3, <2>1
<1> QED BY <1>2, <1>3 DEF Shorter

LEMMA ReadingKept ==
  ASSUME Inv, Inv', Reading, Fresh', Shorter("data"),
         UNCHANGED <<d, next_state, command, drive, progress, packet, op, tape, mounted>>
  PROVE  Reading'
<1>1. op.count \in Nat /\ progress \in Nat
  BY Lengths
<1>2. CASE d = "READ_DATA"
  BY <1>1, <1>2, StillRight DEF Reading, SoFar
<1>3. CASE d = "SEND_PACKET" /\ next_state = "READ_DATA"
  <2>1. progress - 1 \in Nat
    BY <1>1, <1>3 DEF Reading
  <2>2. Right("data", progress, packet)'
    BY <1>3 DEF Reading, Right
  <2>3. SoFar("data", progress - 1, progress - 1)'
    BY <1>3, <2>1, StillRight DEF Reading, SoFar
  <2> QED BY <1>3, <2>2, <2>3 DEF Reading
<1>4. CASE d \in {"SEND_PACKET", "START_ENDPACKET"} /\ SoFar("data", op.count, op.count)
  <2>1. SoFar("data", op.count, op.count)'
    BY <1>1, <1>4, StillRight DEF SoFar
  <2> QED BY <1>3, <1>4, <2>1 DEF Reading
<1>5. CASE d = "WAIT_COMMAND"
  <2>1. op.count + 1 \in Nat /\ op.count <= op.count + 1
    BY <1>1
  <2>2. SoFar("data", op.count + 1, op.count)'
    BY <1>1, <1>5, <2>1, StillRight DEF Reading, SoFar
  <2> QED BY <1>5, <2>2 DEF Reading
<1> QED BY <1>2, <1>3, <1>4, <1>5 DEF Reading

LEMMA BootingKept ==
  ASSUME Inv, Inv', Booting, Fresh', Shorter("raw"),
         UNCHANGED <<d, drive, pos, op, tape, mounted>>
  PROVE  Booting'
<1>1. pos \in Nat /\ Block \in Nat
  BY Lengths
<1>2. d = "RUN_BOOTSTRAP" => SoFar("raw", pos, pos)'
  BY <1>1, StillRight DEF Booting, SoFar
<1>3. d = "WAIT_COMMAND" => SoFar("raw", Block, Block)'
  BY <1>1, StillRight DEF Booting, SoFar
<1> QED BY <1>2, <1>3 DEF Booting

LEMMA ReadsReceive ==
  ASSUME Inv, Inv', Reads, Receive
  PROVE  Reads'
<1> SUFFICES ASSUME Sound', computer' \in {"READ", "BOOT"} PROVE Reads'
  BY DEF Reads
<1>1. computer' = computer
  BY Zenon DEF Receive
<1>2. /\ Sound /\ outbox # <<>> /\ outbox' = Tail(outbox) /\ UNCHANGED inbox
      /\ UNCHANGED <<d, driveVars, fileVars, tape, op>>
  BY <1>1, Heard
<1>3. inbox = <<>> /\ d \notin {"GET_COMMAND", "EXEC_COMMAND", "START_BOOTSTRAP"}
  BY <1>1, <1>2, ReaderPhase DEF Asked, Answering, Bootstrapping
<1>4. Fresh'
  BY <1>2, <1>3 DEF Fresh
<1>5. CASE computer = "READ"
  <2>1. Shorter("data")
    <3>1. got' = IF Answer[1] = "data" THEN Append(got, Answer[2]) ELSE got
      BY <1>5, Zenon DEF Receive
    <3>2. Answer \in Answers /\ Answer = Head(outbox)
      BY Heard DEF Answer
    <3> QED BY <1>2, <3>1, <3>2, WordIs, Shortens
  <2> QED BY <1>1, <1>2, <1>4, <1>5, <2>1, ReadingKept DEF Reads, driveVars, fileVars
<1>6. CASE computer = "BOOT"
  <2>1. Shorter("raw")
    <3>1. got' = IF Answer[1] = "raw" THEN Append(got, Answer[2]) ELSE got
      BY <1>6, Zenon DEF Receive
    <3>2. Answer \in Answers /\ Answer = Head(outbox)
      BY Heard DEF Answer
    <3> QED BY <1>2, <3>1, <3>2, WordIs, Shortens
  <2> QED BY <1>1, <1>2, <1>4, <1>6, <2>1, BootingKept DEF Reads, driveVars, fileVars
<1> QED BY <1>1, <1>5, <1>6

LEMMA ReadsLose ==
  ASSUME Inv, Inv', Reads, Lose
  PROVE  Reads'
<1> SUFFICES ASSUME Sound', computer' \in {"READ", "BOOT"} PROVE Reads'
  BY DEF Reads
<1>1. /\ \/ inbox # <<>> /\ UNCHANGED outbox
         \/ outbox # <<>> /\ outbox' = Tail(outbox) /\ UNCHANGED inbox
      /\ UNCHANGED <<d, driveVars, fileVars, tape, hostVars, mishap>>
  BY DEF Lose
<1>2. UNCHANGED <<d, got, op, computer>> /\ UNCHANGED <<driveVars, fileVars, tape>>
  BY <1>1 DEF hostVars
<1>3. Sound /\ (Reading \/ Booting) /\ Fresh
  BY <1>1, <1>2 DEF Sound, Reads, Reading, Booting
<1>4. Fresh'
  BY <1>1, <1>2, <1>3 DEF Fresh
<1>5. Shorter("data") /\ Shorter("raw")
  BY <1>1, <1>2, Shortens, Lengths DEF Shorter, Said, Line
<1> QED BY <1>1, <1>2, <1>3, <1>4, <1>5, ReadingKept, BootingKept DEF Reads, driveVars, fileVars

LEMMA ReadsStutter ==
  ASSUME Reads, UNCHANGED vars
  PROVE  Reads'
<1>1. /\ UNCHANGED <<d, drive, command, progress, pos, packet, next_state>>
      /\ UNCHANGED <<mounted, tape, inbox, outbox, computer, op, got, mishap>>
  BY DEF vars, driveVars, fileVars, hostVars
<1>2. \A w \in {"data", "raw"} :
         /\ SoFar(w, progress, progress) => SoFar(w, progress, progress)'
         /\ SoFar(w, progress - 1, progress - 1) => SoFar(w, progress - 1, progress - 1)'
         /\ SoFar(w, op.count, op.count) => SoFar(w, op.count, op.count)'
         /\ SoFar(w, op.count + 1, op.count) => SoFar(w, op.count + 1, op.count)'
         /\ SoFar(w, pos, pos) => SoFar(w, pos, pos)'
         /\ SoFar(w, Block, Block) => SoFar(w, Block, Block)'
  BY <1>1, LineSame DEF SoFar
<1>3. Right("data", progress, packet) => Right("data", progress, packet)'
  BY <1>1 DEF Right
<1>4. (Reading => Reading') /\ (Booting => Booting')
  BY <1>1, <1>2, <1>3 DEF Reading, Booting, Fresh
<1> QED BY <1>1, <1>4 DEF Reads, Sound

LEMMA ReadsStep ==
  ASSUME Inv, Inv', Reads, [Next]_vars
  PROVE  Reads'
<1>1. CASE Drive
  BY <1>1, ReadsOthers, ReadsWaitCommand, ReadsStartBootstrap, ReadsRunBootstrap, ReadsGetCommand,
     ReadsExecCommand, ReadsReadData, ReadsSendPacket, ReadsStartEndpacket DEF Drive
<1>2. ASSUME NEW u \in Units, NEW t \in Tapes, MountTape(u, t) PROVE Reads'
  BY <1>2, ReadsMount DEF MountTape
<1>3. ASSUME NEW u \in Units, MountTooBig(u) \/ MountUnopened(u) PROVE Reads'
  BY <1>3, ReadsMount DEF MountTooBig, MountUnopened
<1>4. ASSUME NEW o \in Ops, Begin(o) PROVE Reads'
  BY <1>4, ReadsBegin
<1>5. CASE Start \/ Timeout
  BY <1>5 DEF Start, Timeout, Reads
<1>6. CASE Receive \/ Lose
  BY <1>6, ReadsReceive, ReadsLose
<1>7. CASE UNCHANGED vars
  BY <1>7, ReadsStutter
<1> QED BY <1>1, <1>2, <1>3, <1>4, <1>5, <1>6, <1>7 DEF Next

\* The last answer: the line had not become too short, so every chunk is right.
LEMMA AllRight ==
  ASSUME Inv, Reads, Receive, computer' = "ready", Ended
  PROVE  \A i \in DOMAIN got' : mounted[op.unit] \in Tapes
           /\ op.block * Block + i - 1 \in Chunks
           /\ got'[i] = tape[mounted[op.unit]][op.block * Block + i - 1]
<1>1. Sound /\ outbox # <<>> /\ Len(outbox) >= 1 /\ Head(outbox) = outbox[1] /\ Answer = outbox[1]
  BY Heard, Lengths DEF Answer
<1>2. CASE computer = "READ"
  <2>1. Answer = Normal /\ Len(got) = op.count
    BY <1>2 DEF Ended
  <2>2. got' = got
    <3>1. Answer[1] = "end"
      BY <2>1 DEF Normal
    <3> QED BY <1>2, <3>1, Zenon DEF Receive
  <2>3. Len(outbox) = 1 /\ d = "WAIT_COMMAND"
    <3>1. Answering
      BY <1>1, <1>2, ReaderPhase DEF Asked
    <3>2. 1 \in 1..Len(outbox) /\ outbox[1][1] = "end"
      BY <1>1, <2>1, Lengths DEF Normal
    <3> QED BY <3>1, <3>2 DEF Answering
  <2>4. SoFar("data", op.count + 1, op.count)
    BY <1>1, <1>2, <2>3 DEF Reads, Reading
  <2>5. \A i \in 1..op.count : Right("data", i, Said("data", i))
    <3>1. Line = op.count + 1
      BY <2>1, <2>3 DEF Line
    <3> QED BY <2>4, <3>1 DEF SoFar
  <2>6. DOMAIN got' = 1..op.count
    BY <2>1, <2>2, Lengths
  <2>7. \A i \in 1..op.count : Said("data", i) = <<"data", got[i]>>
    BY <2>1 DEF Said
  <2> QED BY <2>2, <2>5, <2>6, <2>7 DEF Right
<1>3. CASE computer = "BOOT"
  <2>1. Len(got') = Block
    BY <1>3, Zenon DEF Receive
  <2>2. \/ got' = got
        \/ Answer[1] = "raw" /\ got' = Append(got, Answer[2])
    BY <1>3, Zenon DEF Receive
  <2>3. \/ d = "RUN_BOOTSTRAP" /\ Line < Block
        \/ d = "WAIT_COMMAND" /\ Line <= Block
    BY <1>1, <1>3, ReaderPhase, Lengths DEF Bootstrapping, Line
  <2>4. Len(got') = Len(got) + 1 /\ Answer[1] = "raw" /\ got' = Append(got, Answer[2])
        /\ Line = Block /\ d = "WAIT_COMMAND" /\ Len(outbox) = 1
    <3>1. Len(Append(got, Answer[2])) = Len(got) + 1
      BY Lengths
    <3>2. Len(got) # Block
      BY <1>1, <2>3, Lengths DEF Line
    <3>3. Answer[1] = "raw" /\ got' = Append(got, Answer[2]) /\ Len(got') = Len(got) + 1
      BY <2>1, <2>2, <3>1, <3>2
    <3>4. /\ Line = Len(got) + Len(outbox) /\ Len(got) \in Nat /\ Len(outbox) \in Nat
          /\ Block \in Nat /\ Len(outbox) >= 1 /\ Len(got) + 1 = Block
      BY <1>1, <2>1, <3>3, Lengths DEF Line
    <3>5. Line = Block /\ Len(outbox) = 1 /\ ~(Line < Block)
      <4> DEFINE g == Len(got)
                 o == Len(outbox)
      <4>1. /\ Line = g + o /\ g \in Nat /\ o \in Nat /\ Block \in Nat /\ o >= 1 /\ g + 1 = Block
        BY <3>4
      <4>2. Line <= Block
        BY <2>3, <4>1
      <4> HIDE DEF g, o
      <4>3. Line = Block /\ o = 1 /\ ~(Line < Block)
        BY ONLY <4>1, <4>2
      <4> QED BY <4>3 DEF o
    <3> QED BY <2>3, <3>3, <3>5
  <2>5. \A i \in 1..Block : Right("raw", i, Said("raw", i))
    <3>1. SoFar("raw", Block, Block)
      BY <1>1, <1>3, <2>4 DEF Reads, Booting
    <3> QED BY <2>4, <3>1 DEF SoFar
  <2>6. Answer = <<"raw", Answer[2]>>
    BY <2>4, Heard, WordIs
  <2> DEFINE x == Answer[2]
  <2>7. /\ \A i \in 1..Len(got) : got'[i] = got[i]
        /\ got'[Len(got) + 1] = x /\ DOMAIN got' = 1..Block
    BY <2>1, <2>4, Lengths
  <2>8. outbox[1] = <<"raw", x>>
    BY <1>1, <2>6
  <2> HIDE DEF x
  <2>9. \A i \in 1..Block : Said("raw", i) = <<"raw", got'[i]>>
    <3> TAKE i \in 1..Block
    <3>1. CASE i <= Len(got)
      BY <2>7, <3>1 DEF Said
    <3>2. CASE i = Len(got) + 1
      <4>1. i - Len(got) = 1 /\ ~(i <= Len(got))
        BY <3>2, Lengths
      <4> QED BY <2>7, <2>8, <3>2, <4>1 DEF Said
    <3> QED BY <2>1, <2>4, <3>1, <3>2, Lengths
  <2> QED BY <2>5, <2>7, <2>9 DEF Right
<1> QED BY <1>2, <1>3 DEF Ended

LEMMA TrueStep ==
  ASSUME Inv, Reads, [Next]_vars, computer' = "ready", Ended
  PROVE  \A i \in DOMAIN got' :
           expect[mounted[op.unit]][op.block * Block + i - 1] \in {Unknown, got'[i]}
<1>1. computer \in {"READ", "BOOT"}
  BY DEF Ended
<1>2. Receive
  <2>1. Drive => UNCHANGED hostVars
    BY DEF Drive, Wake, Idle, WaitCommand, StartBootstrap, RunBootstrap, GetCommand, ExecCommand,
           ReadData, SendPacket, StartEndpacket, GetWrite
  <2>2. \A u \in Units, t \in Tapes : MountTape(u, t) => UNCHANGED hostVars
    BY DEF MountTape, Mounting
  <2>3. \A u \in Units : MountTooBig(u) \/ MountUnopened(u) => UNCHANGED hostVars
    BY DEF MountTooBig, MountUnopened, Mounting
  <2>4. \A o \in Ops : Begin(o) => computer = "ready"
    BY DEF Begin
  <2>5. /\ Start => computer = "start"
        /\ Timeout => computer' = "start"
        /\ Lose => UNCHANGED hostVars
    BY DEF Start, Timeout, Lose
  <2>6. UNCHANGED vars => UNCHANGED hostVars
    BY DEF vars
  <2>7. ~UNCHANGED hostVars
    BY <1>1 DEF hostVars
  <2> QED BY <1>1, <2>1, <2>2, <2>3, <2>4, <2>5, <2>6, <2>7 DEF Next
<1>3. TapesKept
  BY DEF Inv
<1> QED BY <1>2, <1>3, AllRight DEF TapesKept

(***************************************************************************)
(* The theorems.                                                           *)
(***************************************************************************)
LEMMA InvStep == Inv /\ [Next]_vars => Inv'
<1> SUFFICES ASSUME Inv, [Next]_vars PROVE Inv'
  OBVIOUS
<1>1. CASE Drive
  BY <1>1, DriveStep
<1>2. ASSUME NEW u \in Units, NEW t \in Tapes, MountTape(u, t) PROVE Inv'
  BY <1>2, MountTapeStep
<1>3. ASSUME NEW u \in Units, MountTooBig(u) \/ MountUnopened(u) PROVE Inv'
  BY <1>3, MountTooBigStep, MountUnopenedStep
<1>4. ASSUME NEW o \in Ops, Begin(o) PROVE Inv'
  BY <1>4, BeginStep
<1>5. CASE Start \/ Receive \/ Timeout \/ Lose
  BY <1>5, StartStep, ReceiveStep, TimeoutStep, LoseStep
<1>6. CASE UNCHANGED vars
  BY <1>6, StutterStep
<1> QED BY <1>1, <1>2, <1>3, <1>4, <1>5, <1>6 DEF Next

LEMMA Always == Spec => []Inv
BY InvInit, InvStep, PTL DEF Spec

\* What the computer puts on the line.
InboxOK == inbox \in Seq(Requests)

LEMMA InboxStep ==
  ASSUME Inv, InboxOK, [Next]_vars
  PROVE  InboxOK'
<1> SUFFICES inbox' \in Seq(Requests)
  BY DEF InboxOK
<1> USE DEF InboxOK
<1>1. /\ inbox # <<>> => Tail(inbox) \in Seq(Requests)
      /\ \A a, b \in Requests : inbox \o <<a, b>> \in Seq(Requests)
  OBVIOUS
<1>2. CASE Drive
  BY <1>1, <1>2 DEF Drive, Wake, Idle, WaitCommand, StartBootstrap, RunBootstrap, GetCommand,
     ExecCommand, ReadData, SendPacket, StartEndpacket, GetWrite, Takes
<1>3. CASE \E u \in Units : \/ \E t \in Tapes : MountTape(u, t)
                            \/ MountTooBig(u) \/ MountUnopened(u)
  BY <1>3 DEF MountTape, MountTooBig, MountUnopened, Mounting
<1>4. ASSUME NEW o \in Ops, Begin(o) PROVE InboxOK'
  <2>1. /\ <<"boot">> \in Requests /\ <<"COMMAND">> \in Requests
        /\ <<"unit", o.unit>> \in Requests /\ <<"do", o>> \in Requests
    BY OpTypes DEF Requests
  <2>2. \E a, b \in Requests : inbox' = inbox \o <<a, b>>
    BY <1>4, <2>1, Zenon DEF Begin
  <2> QED BY <1>1, <2>2
<1>5. CASE Start
  BY <1>5 DEF Start, Requests
<1>6. CASE Receive
  <2> DEFINE c == <<"chunk", <<"new", n, k>>>>
  <2>1. inbox' = inbox \/ inbox' = inbox \o <<<<"DATA">>, c>>
    BY <1>6, Zenon DEF Receive
  <2>2. <<"new", n, k>> \in Marks
    BY MarkIs, OpTypes DEF Inv, TypeInv, HostOK
  <2>3. <<"DATA">> \in Requests /\ c \in Requests
    BY <2>2 DEF Requests
  <2> HIDE DEF c
  <2> QED BY <1>1, <2>1, <2>3
<1>7. CASE Timeout \/ Lose \/ UNCHANGED vars
  BY <1>1, <1>7 DEF Timeout, Lose, vars
<1> QED BY <1>2, <1>3, <1>4, <1>5, <1>6, <1>7 DEF Next

\* The drive's, the computer's and the operator's variables keep their types:
\* what tu58.c writes to the line is an answer, what it writes to a tape came
\* from there or from the computer, and it never sends more than the port's
\* buffer has room for.
THEOREM TapeTypes == Spec => []TypeOK
<1>1. Init => InboxOK
  BY DEF Init, InboxOK
<1>2. Inv /\ InboxOK /\ [Next]_vars => InboxOK'
  BY InboxStep
<1>3. Inv /\ InboxOK => TypeOK
  BY TypeParts DEF Inv, InboxOK
<1> QED BY <1>1, <1>2, <1>3, Always, PTL DEF Spec

\* What tu58.c has acknowledged is on the tape, and what it was never asked to
\* write is as it was, for any tapes, operations, size of the port's buffer
\* and loss on the line, up to the first mishap.
THEOREM TapesAreKept == Spec => []TapesKept
<1>1. Inv => TapesKept
  BY DEF Inv
<1> QED BY <1>1, Always, PTL

LEMMA ReadsAlways == Spec => [](Inv /\ Reads)
<1>1. Init => Reads
  BY DEF Init, Reads
<1>2. Inv /\ Inv' /\ Reads /\ [Next]_vars => Reads'
  BY ReadsStep
<1> QED BY <1>1, <1>2, Always, PTL DEF Spec

\* A read that ends well, and a bootstrap, deliver the chunks of the mounted
\* tape in order (READ_DATA and RUN_BOOTSTRAP of tu58.c), although a packet may
\* be lost on the line and the computer cannot tell one from another: the count
\* is short then.
THEOREM ReadsAreTrue == Spec => ReadIsTrue
<1>1. Inv /\ Reads /\ [Next]_vars =>
        (computer' = "ready" /\ Ended =>
           \A i \in DOMAIN got' :
             expect[mounted[op.unit]][op.block * Block + i - 1] \in {Unknown, got'[i]})
  BY TrueStep
<1> QED BY <1>1, ReadsAlways, PTL DEF Spec, ReadIsTrue
=============================================================================
