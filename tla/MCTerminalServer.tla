-------------------------- MODULE MCTerminalServer --------------------------
(***************************************************************************)
(* Instances of TerminalServer for TLC.                                    *)
(***************************************************************************)
EXTENDS TerminalServer

\* A serial host that users reach from telnet logins and over raw TCP.
HostType        == <<"SERIAL">>
HostAccess      == <<"REMOTE">>
HostOneIsTarget == <<1>>

\* Another task may overwrite a freed block with anything.
AnyMode == Modes

\* A modem user, a USB terminal, a serial host and a TU58.
AllAccessModesType   == <<"SERIAL", "CDC", "SERIAL", "SERIAL">>
AllAccessModesAccess == <<"MODEM", "LOCAL", "REMOTE", "TU58">>
HostThreeIsTarget    == <<3>>
=============================================================================
