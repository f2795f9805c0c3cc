------------------------------ MODULE Settings ------------------------------
(***************************************************************************)
(* The stored settings (settings.c): pages of two EEPROM chips that the    *)
(* DEFINE commands write, INITIALIZE FACTORY and the RESET button erase    *)
(* and the boot sequence (app.c) reads, page by page, into the running     *)
(* configuration.  The power may fail between any two pages.               *)
(*                                                                         *)
(* A page holds one setting: its header names a parameter and an index,    *)
(* here its key, and the rest is the value.  The module byte of the header *)
(* follows from the parameter; a page whose module byte is out of range is *)
(* unused.  Parameters that are treated alike are one parameter: BREAK is  *)
(* the break mode, ACCESS any other parameter of a port, IP any address of *)
(* network.c, SSID any other text (the unit's name and domain too) and PSK *)
(* itself.                                                                 *)
(***************************************************************************)
EXTENDS Integers, Sequences, FiniteSetsExt

CONSTANTS
  ChipPages,   \* pages of one chip, 512 in the unit
  BootPorts,   \* numbers of the serial and USB ports
  Serial,      \* those of the serial ones
  NetPorts,    \* numbers of network ports, which do not exist at boot
  PortValues,  \* values of a port parameter
  Chars,       \* what texts are made of
  Addresses,   \* the IP addresses that are typed
  Names,       \* the network names and keys that are typed
  Default      \* values before anything is loaded

PortParameters == {"BREAK", "ACCESS"}
TextKeys   == {"IP", "SSID", "PSK"} \X {0}
ConfigKeys == (PortParameters \X BootPorts) \cup TextKeys
Keys       == (PortParameters \X (BootPorts \cup NetPorts)) \cup TextKeys
Unused     == <<"UNUSED", 0>>
None       == << >>

Texts     == Addresses \cup Names \cup {None}
Values(k) == IF k[1] \in PortParameters THEN PortValues ELSE Seq(Chars)

ASSUME SettingsAssumption ==
  /\ ChipPages \in Nat \ {0}
  /\ Serial \subseteq BootPorts
  /\ Texts \subseteq Seq(Chars)
  /\ Default = [k \in ConfigKeys |-> Default[k]]
  /\ \A k \in ConfigKeys : Default[k] \in Values(k)

NumPages == 2 * ChipPages
Pages    == 0..(NumPages - 1)

VARIABLES
  page,     \* the EEPROM: [key, value] of each page
  config,   \* the running configuration
  stage,    \* "load" and "service" of APP_Tasks, or "erase"
  addr      \* the page, or page write, at which a loop has arrived

vars == <<page, config, stage, addr>>

Erased     == [key |-> Unused, value |-> None]
Entries(k) == [key : {k}, value : Values(k)]

Init ==
  /\ page = [a \in Pages |-> Erased]
  /\ config = Default
  /\ stage = "load"
  /\ addr = 0

(***************************************************************************)
(* Loading.                                                                *)
(***************************************************************************)
\* strncpy without a terminator: the tail of a longer old text stays.
Overlay(old, new) == new \o SubSeq(old, Len(new) + 1, Len(old))

\* The load callbacks.  Only the address fields are not cleared first.
load_setting(k, old, new) == IF k[1] = "IP" THEN Overlay(old, new) ELSE new

\* Mutant: the first page of the second chip is left out.
load_settings_SkipsPage ==
  LET k == page[addr].key
  IN  /\ stage = "load"
      /\ config' = IF k \in ConfigKeys /\ addr # ChipPages
                     THEN [config EXCEPT ![k] = load_setting(k, @, page[addr].value)]
                     ELSE config
      /\ stage' = IF addr + 1 = NumPages THEN "service" ELSE "load"
      /\ addr'  = IF addr + 1 = NumPages THEN 0 ELSE addr + 1
      /\ UNCHANGED page

\* One turn of the loop.  A page of a port that does not exist is ignored.
load_settings ==
  LET k == page[addr].key
  IN  /\ stage = "load"
      /\ config' = IF k \in ConfigKeys
                     THEN [config EXCEPT ![k] = load_setting(k, @, page[addr].value)]
                     ELSE config
      /\ stage' = IF addr + 1 = NumPages THEN "service" ELSE "load"
      /\ addr'  = IF addr + 1 = NumPages THEN 0 ELSE addr + 1
      /\ UNCHANGED page

(***************************************************************************)
(* Storing.                                                                *)
(***************************************************************************)
Matches(k)  == {a \in Pages : page[a].key = k}
UnusedPages == Matches(Unused)

Write(a, k, v) == page' = [page EXCEPT ![a] = [key |-> k, value |-> v]]

\* Mutant: an unused page is taken before the rest has been searched.
setting_set_FirstFit(k, v) ==
  LET usable == Matches(k) \cup UnusedPages
  IN  IF usable = {} THEN UNCHANGED page ELSE Write(Min(usable), k, v)

\* One page is read after the other, which changes nothing, and one written.
setting_set(k, v) ==
  \/ Matches(k) # {} /\ Write(Min(Matches(k)), k, v)
  \/ Matches(k) = {} /\ UnusedPages # {} /\ Write(Min(UnusedPages), k, v)
  \/ Matches(k) = {} /\ UnusedPages = {} /\ UNCHANGED page

Stored(k, v) ==
  /\ stage = "service"
  /\ setting_set(k, v)
  /\ UNCHANGED <<config, stage, addr>>

\* DEFINE PORT t ..., for every parameter but BREAK.
port_define(t, v) == Stored(<<"ACCESS", t>>, v)

\* DEFINE PORT t BREAK ..., given on port p: p's number goes into the header.
port_define_break(p, t, v) == t \in Serial /\ Stored(<<"BREAK", p>>, v)

ethernet_define_ip(v) == Stored(<<"IP", 0>>, v)

wifi_define_ssid(v) == Stored(<<"SSID", 0>>, v)

\* PSK NONE clears the network's name.
wifi_define_psk(v) == Stored(IF v = None THEN <<"SSID", 0>> ELSE <<"PSK", 0>>, v)

Commands ==
  \/ \E t \in BootPorts \cup NetPorts, v \in PortValues :
       \/ port_define(t, v)
       \/ \E p \in BootPorts \cup NetPorts : port_define_break(p, t, v)
  \/ \E v \in Addresses : ethernet_define_ip(v)
  \/ \E v \in Names \cup {None} : wifi_define_ssid(v) \/ wifi_define_psk(v)

\* SET PORT t BREAK ...: the running value only.
port_set_break(t, v) ==
  /\ stage = "service"
  /\ config' = [config EXCEPT ![<<"BREAK", t>>] = v]
  /\ UNCHANGED <<page, stage, addr>>

(***************************************************************************)
(* Erasing and restarting.                                                 *)
(***************************************************************************)
\* INITIALIZE FACTORY, or RESET held for 30 seconds.
system_factory_reset ==
  /\ stage = "service"
  /\ stage' = "erase"
  /\ addr' = 0
  /\ UNCHANGED <<page, config>>

\* Mutant: the second chip is written at the first one's addresses.
ErasePage_OneChip(e) == e \div 2

\* The writes of settings_erase alternate between the chips.
ErasePage(e) == (e % 2) * ChipPages + (e \div 2)

\* Mutant: one page more than the chips have.
settings_erase_PastEnd ==
  /\ stage = "erase" /\ addr <= NumPages
  /\ page' = [page EXCEPT ![ErasePage(addr)] = Erased]
  /\ addr' = addr + 1
  /\ UNCHANGED <<config, stage>>

settings_erase ==
  /\ stage = "erase" /\ addr < NumPages
  /\ page' = [page EXCEPT ![ErasePage(addr)] = Erased]
  /\ addr' = addr + 1
  /\ UNCHANGED <<config, stage>>

\* The chips keep their pages, everything else starts again.
Restart ==
  /\ stage' = "load"
  /\ addr' = 0
  /\ config' = Default
  /\ UNCHANGED page

SoftwareReset == stage = "erase" /\ addr = NumPages /\ Restart

PowerCut == Restart

Next ==
  \/ load_settings
  \/ Commands
  \/ \E t \in BootPorts, v \in PortValues : port_set_break(t, v)
  \/ system_factory_reset
  \/ settings_erase
  \/ SoftwareReset
  \/ PowerCut

Spec == Init /\ [][Next]_vars

(***************************************************************************)
(* Properties.                                                             *)
(***************************************************************************)
\* The variables have their types: pages hold settings a command can name.
TypeOK ==
  /\ page = [a \in Pages |-> page[a]]
  /\ \A a \in Pages : page[a] = Erased \/ \E k \in Keys : page[a] \in Entries(k)
  /\ config = [k \in ConfigKeys |-> config[k]]
  /\ \A k \in ConfigKeys : config[k] \in Values(k)
  /\ stage \in {"load", "service", "erase"}
  /\ addr \in 0..NumPages
  /\ stage = "load" => addr < NumPages

\* A setting has one page, also when an erase was cut short and left unused
\* pages in front of it (setting_set looks at all pages before it takes one):
\* otherwise a later DEFINE would change one of two and the other be loaded.
OneSlotPerSetting ==
  \A a, b \in Pages : page[a].key = page[b].key => a = b \/ page[a].key = Unused

\* When the unit restarts after settings_erase has ended, nothing is left on
\* either chip, whichever order the pages were written in.
EraseIsComplete ==
  stage = "erase" /\ addr = NumPages => \A a \in Pages : page[a] = Erased

\* The pages implement a map of settings: what is DEFINEd is there after any
\* number of restarts and power cuts and is what the unit then runs with, and
\* only a full store drops a new setting.
Phase == CASE stage = "load"    -> "off"
           [] stage = "service" -> "on"
           [] stage = "erase"   -> "clearing"

Store == INSTANCE SettingStore WITH
           Key       <- Keys,
           Value     <- PortValues \cup Texts,
           ConfigKey <- ConfigKeys,
           Restore   <- load_setting,
           Capacity  <- NumPages,
           stored    <- {page[a] : a \in {b \in Pages : page[b] # Erased}},
           running   <- IF stage = "service" THEN config ELSE Default,
           phase     <- Phase
StoreSpec == Store!Spec

\* The on-line help of the address commands: set the address, "Takes effect on
\* next reboot."  Once loaded, the address in use is the one that was DEFINEd.
AddressTakesEffect ==
  [][stage = "load" /\ stage' = "service" =>
       \A a \in Pages : page[a].key[1] = "IP" => config'[page[a].key] = page[a].value]_vars
=============================================================================
