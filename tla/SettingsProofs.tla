--------------------------- MODULE SettingsProofs ---------------------------
(***************************************************************************)
(* The stored settings, for chips of any size and any ports and values:    *)
(* every setting has one page, a finished erase leaves nothing, and the    *)
(* pages implement the map of SettingStore.                                *)
(***************************************************************************)
EXTENDS Settings, MinMax, SequenceTheorems, FiniteSetTheorems, TLAPS

(***************************************************************************)
(* Pages, keys and values.                                                 *)
(***************************************************************************)
LEMMA KeyFacts ==
  /\ Unused \notin Keys
  /\ ConfigKeys \subseteq Keys
  /\ TextKeys \subseteq ConfigKeys
  /\ \A k \in TextKeys : Values(k) = Seq(Chars)
  /\ \A k \in (PortParameters \X (BootPorts \cup NetPorts)) : Values(k) = PortValues
BY DEF Unused, Keys, ConfigKeys, PortParameters, TextKeys, Values

LEMMA PageFacts ==
  /\ NumPages \in Nat \ {0}
  /\ Pages \in SUBSET Nat
  /\ \A a \in Pages : a < NumPages
  /\ 0 \in Pages
BY SettingsAssumption DEF NumPages, Pages

\* Overlaying one text on another gives a text.
LEMMA OverlayType ==
  ASSUME NEW old \in Seq(Chars), NEW new \in Seq(Chars)
  PROVE  Overlay(old, new) \in Seq(Chars)
<1>1. SubSeq(old, Len(new) + 1, Len(old)) \in Seq(Chars)
  <2>1. Len(new) \in Nat /\ Len(old) \in Nat
    OBVIOUS
  <2>2. \A i \in (Len(new) + 1)..Len(old) : old[i] \in Chars
    BY <2>1
  <2> QED BY <2>1, <2>2, SubSeqProperties
<1> QED BY <1>1, ConcatProperties DEF Overlay

\* What is loaded for a setting is a value of that setting.
LEMMA LoadType ==
  ASSUME NEW k \in ConfigKeys, NEW old \in Values(k), NEW new \in Values(k)
  PROVE  load_setting(k, old, new) \in Values(k)
<1>1. CASE k[1] = "IP"
  <2>1. Values(k) = Seq(Chars)
    BY <1>1 DEF Values, PortParameters
  <2> QED BY <1>1, <2>1, OverlayType DEF load_setting
<1>2. CASE k[1] # "IP"
  BY <1>2 DEF load_setting
<1> QED BY <1>1, <1>2

(***************************************************************************)
(* What a step does to the pages.                                          *)
(***************************************************************************)
\* setting_set writes the page of its key, or one that is unused if there is
\* no such page, or none if there is neither.
LEMMA SetWrites ==
  ASSUME NEW k, NEW v, setting_set(k, v)
  PROVE  \/ \E a \in Pages : page[a].key = k /\ Write(a, k, v)
         \/ /\ \A b \in Pages : page[b].key # k
            /\ \E a \in Pages : page[a].key = Unused /\ Write(a, k, v)
         \/ /\ \A b \in Pages : page[b].key # k
            /\ \A b \in Pages : page[b].key # Unused
            /\ UNCHANGED page
<1>1. \A key : Matches(key) \in SUBSET Nat
  BY PageFacts DEF Matches
<1>2. \A key : Matches(key) # {} => Min(Matches(key)) \in Matches(key)
  BY <1>1, MinIn
<1>3. CASE Matches(k) # {} /\ Write(Min(Matches(k)), k, v)
  BY <1>2, <1>3 DEF Matches
<1>4. CASE Matches(k) = {} /\ UnusedPages # {} /\ Write(Min(UnusedPages), k, v)
  BY <1>2, <1>4 DEF Matches, UnusedPages
<1>5. CASE Matches(k) = {} /\ UnusedPages = {} /\ UNCHANGED page
  BY <1>5 DEF Matches, UnusedPages
<1> QED BY <1>3, <1>4, <1>5 DEF setting_set

\* A command stores a value of the type of its key.
LEMMA CommandStores ==
  ASSUME Commands
  PROVE  \E k \in Keys : \E v \in Values(k) : v \in PortValues \cup Texts /\ Stored(k, v)
<1>1. Texts \subseteq Seq(Chars)
  BY SettingsAssumption
<1>2. ASSUME NEW t \in BootPorts \cup NetPorts, NEW v \in PortValues, port_define(t, v)
      PROVE  \E k \in Keys : \E w \in Values(k) : w \in PortValues \cup Texts /\ Stored(k, w)
  <2>1. <<"ACCESS", t>> \in Keys /\ v \in Values(<<"ACCESS", t>>)
    BY DEF Keys, Values, PortParameters
  <2> QED BY <1>2, <2>1 DEF port_define
<1>3. ASSUME NEW t, NEW p \in BootPorts \cup NetPorts, NEW v \in PortValues,
             port_define_break(p, t, v)
      PROVE  \E k \in Keys : \E w \in Values(k) : w \in PortValues \cup Texts /\ Stored(k, w)
  <2>1. <<"BREAK", p>> \in Keys /\ v \in Values(<<"BREAK", p>>)
    BY DEF Keys, Values, PortParameters
  <2> QED BY <1>3, <2>1 DEF port_define_break
<1>4. ASSUME NEW v \in Texts, NEW k \in TextKeys, Stored(k, v)
      PROVE  \E kk \in Keys : \E w \in Values(kk) : w \in PortValues \cup Texts /\ Stored(kk, w)
  BY <1>1, <1>4, KeyFacts
<1>5. /\ <<"IP", 0>> \in TextKeys /\ <<"SSID", 0>> \in TextKeys /\ <<"PSK", 0>> \in TextKeys
      /\ Addresses \subseteq Texts /\ Names \cup {None} \subseteq Texts
  BY DEF TextKeys, Texts
<1> QED
  BY <1>2, <1>3, <1>4, <1>5
  DEF Commands, ethernet_define_ip, wifi_define_ssid, wifi_define_psk

(***************************************************************************)
(* Types.                                                                  *)
(***************************************************************************)
LEMMA EntryFacts ==
  /\ Erased.key = Unused
  /\ \A k \in Keys : \A v \in Values(k) : [key |-> k, value |-> v] \in Entries(k)
  /\ \A k \in Keys : \A r \in Entries(k) :
       r.key = k /\ r.value \in Values(k) /\ r = [key |-> k, value |-> r.value]
BY DEF Erased, Entries

\* A page that is not erased holds a value of one of the settings.
LEMMA PageEntry ==
  ASSUME TypeOK, NEW a \in Pages
  PROVE  \/ page[a] = Erased
         \/ /\ page[a].key \in Keys /\ page[a].key # Unused
            /\ page[a].value \in Values(page[a].key)
            /\ page[a] = [key |-> page[a].key, value |-> page[a].value]
<1>1. CASE \E k \in Keys : page[a] \in Entries(k)
  BY <1>1, EntryFacts, KeyFacts
<1> QED BY <1>1 DEF TypeOK

LEMMA InitTypes == Init => TypeOK
BY SettingsAssumption, PageFacts DEF Init, TypeOK

LEMMA RestartTypes == TypeOK /\ Restart => TypeOK'
BY SettingsAssumption, PageFacts DEF Restart, TypeOK

\* Writing a page keeps the type of the pages.
PagesOK ==
  /\ page = [a \in Pages |-> page[a]]
  /\ \A a \in Pages : page[a] = Erased \/ \E k \in Keys : page[a] \in Entries(k)

LEMMA WriteTypes ==
  ASSUME PagesOK, NEW a, NEW k \in Keys, NEW v \in Values(k), Write(a, k, v)
  PROVE  PagesOK'
BY EntryFacts DEF Write, PagesOK

\* The e-th write of settings_erase goes to a page, and every page has one.
LEMMA ErasePages ==
  /\ \A e \in 0..(NumPages - 1) : ErasePage(e) \in Pages
  /\ \A a \in Pages : \E e \in 0..(NumPages - 1) : a = ErasePage(e)
<1>1. ASSUME NEW e \in 0..(NumPages - 1) PROVE ErasePage(e) \in Pages
  <2>1. e % 2 \in {0, 1} /\ e \div 2 \in Nat /\ e = 2 * (e \div 2) + (e % 2)
    BY SettingsAssumption DEF NumPages
  <2>2. e \div 2 < ChipPages
    BY <2>1, SettingsAssumption DEF NumPages
  <2>3. ErasePage(e) \in {e \div 2, ChipPages + (e \div 2)}
    <3>1. CASE e % 2 = 0
      BY <2>1, <3>1, SettingsAssumption DEF ErasePage
    <3>2. CASE e % 2 = 1
      BY <2>1, <3>2, SettingsAssumption DEF ErasePage
    <3> QED BY <2>1, <3>1, <3>2
  <2>4. \A h \in Nat : h < ChipPages => h \in Pages /\ ChipPages + h \in Pages
    BY SettingsAssumption DEF Pages, NumPages
  <2> QED BY <2>1, <2>2, <2>3, <2>4
<1>2. ASSUME NEW a \in Pages PROVE \E e \in 0..(NumPages - 1) : a = ErasePage(e)
  <2>1. CASE a < ChipPages
    <3>1. 2 * a \in 0..(NumPages - 1) /\ (2 * a) % 2 = 0 /\ (2 * a) \div 2 = a
      BY <2>1, SettingsAssumption DEF Pages, NumPages
    <3> QED BY <3>1, <2>1, SettingsAssumption DEF ErasePage
  <2>2. CASE a >= ChipPages
    <3> DEFINE b == a - ChipPages
    <3>1. b \in Nat /\ b < ChipPages
      BY <2>2, SettingsAssumption DEF Pages, NumPages
    <3>2. /\ 2 * b + 1 \in 0..(NumPages - 1)
          /\ (2 * b + 1) % 2 = 1 /\ (2 * b + 1) \div 2 = b
      BY <3>1, SettingsAssumption DEF NumPages
    <3>3. ErasePage(2 * b + 1) = a
      BY <3>1, <3>2, <2>2, SettingsAssumption DEF ErasePage, Pages, NumPages
    <3> QED BY <3>2, <3>3
  <2> QED BY <2>1, <2>2, SettingsAssumption DEF Pages
<1> QED BY <1>1, <1>2

LEMMA NextTypes == TypeOK /\ [Next]_vars => TypeOK'
<1> SUFFICES ASSUME TypeOK, [Next]_vars PROVE TypeOK'
  OBVIOUS
<1>1. CASE load_settings
  <2> DEFINE k == page[addr].key
  <2>1. addr \in Pages
    BY <1>1, PageFacts DEF load_settings, TypeOK, Pages
  <2>2. ASSUME k \in ConfigKeys
        PROVE  load_setting(k, config[k], page[addr].value) \in Values(k)
    BY <2>1, <2>2, PageEntry, EntryFacts, KeyFacts, LoadType DEF TypeOK
  <2>3. /\ config' = [x \in ConfigKeys |-> config'[x]]
        /\ \A x \in ConfigKeys : config'[x] \in Values(x)
    BY <1>1, <2>2 DEF load_settings, TypeOK
  <2>4. /\ stage' \in {"load", "service"} /\ addr' \in 0..NumPages
        /\ stage' = "load" => addr' < NumPages
    BY <1>1, PageFacts DEF load_settings, TypeOK
  <2> QED BY <1>1, <2>3, <2>4 DEF load_settings, TypeOK
<1>2. CASE Commands
  <2>1. PICK k \in Keys : \E v \in Values(k) : Stored(k, v)
    BY <1>2, CommandStores
  <2>2. PICK v \in Values(k) : Stored(k, v)
    BY <2>1
  <2>3. CASE UNCHANGED page
    BY <2>2, <2>3 DEF Stored, TypeOK
  <2>4. CASE \E a : Write(a, k, v)
    <3>1. PagesOK'
      BY <2>4, WriteTypes DEF PagesOK, TypeOK
    <3> QED BY <2>2, <3>1 DEF Stored, TypeOK, PagesOK
  <2> QED BY <2>2, <2>3, <2>4, SetWrites DEF Stored
<1>3. CASE \E t \in BootPorts, v \in PortValues : port_set_break(t, v)
  <2>1. PICK t \in BootPorts, v \in PortValues : port_set_break(t, v)
    BY <1>3
  <2>2. <<"BREAK", t>> \in ConfigKeys /\ v \in Values(<<"BREAK", t>>)
    BY DEF ConfigKeys, Values, PortParameters
  <2> QED BY <2>1, <2>2 DEF port_set_break, TypeOK
<1>4. CASE system_factory_reset
  BY <1>4, PageFacts DEF system_factory_reset, TypeOK
<1>5. CASE settings_erase
  BY <1>5, PageFacts DEF settings_erase, TypeOK
<1>6. CASE SoftwareReset \/ PowerCut
  BY <1>6, RestartTypes DEF SoftwareReset, PowerCut
<1>7. CASE UNCHANGED vars
  BY <1>7 DEF vars, TypeOK
<1> QED BY <1>1, <1>2, <1>3, <1>4, <1>5, <1>6, <1>7 DEF Next

\* The pages hold settings, the configuration has a value for each of its
\* settings and the loops stay inside the chips.
THEOREM SettingsTypeCorrect == Spec => []TypeOK
BY InitTypes, NextTypes, PTL DEF Spec

(***************************************************************************)
(* One page for each setting, and nothing left by an erase.                *)
(***************************************************************************)
\* The pages that settings_erase has written are erased.
ErasedBehind ==
  stage = "erase" => \A e \in 0..(NumPages - 1) : e < addr => page[ErasePage(e)] = Erased

\* The pages that load_settings has read are in the configuration, and a
\* setting that none of them holds has its default.
Read(k) == \E a \in Pages : a < addr /\ page[a].key = k

LoadedSoFar ==
  stage = "load" => \A k \in ConfigKeys :
    /\ \A a \in Pages : a < addr /\ page[a].key = k =>
         config[k] = load_setting(k, Default[k], page[a].value)
    /\ ~Read(k) => config[k] = Default[k]

SlotInv == OneSlotPerSetting /\ ErasedBehind /\ LoadedSoFar

LEMMA InitSlots == Init => SlotInv
BY PageFacts, EntryFacts DEF Init, SlotInv, OneSlotPerSetting, ErasedBehind, LoadedSoFar

LEMMA RestartSlots == TypeOK /\ SlotInv /\ Restart => SlotInv'
BY PageFacts
DEF SlotInv, OneSlotPerSetting, ErasedBehind, LoadedSoFar, Restart, Read

\* A command that stores a value uses the page of its setting or a new one.
LEMMA StoreSlots ==
  ASSUME TypeOK, OneSlotPerSetting, NEW k \in Keys, NEW v, setting_set(k, v)
  PROVE  OneSlotPerSetting'
<1>1. CASE UNCHANGED page
  BY <1>1 DEF OneSlotPerSetting
<1>2. CASE \E a \in Pages : page[a].key = k /\ Write(a, k, v)
  <2>1. PICK a \in Pages : page[a].key = k /\ Write(a, k, v)
    BY <1>2
  <2>2. \A b \in Pages : page'[b].key = page[b].key
    BY <2>1 DEF Write, TypeOK
  <2> QED BY <2>2 DEF OneSlotPerSetting
<1>3. CASE /\ \A b \in Pages : page[b].key # k
           /\ \E a \in Pages : page[a].key = Unused /\ Write(a, k, v)
  <2>1. PICK a \in Pages : page[a].key = Unused /\ Write(a, k, v)
    BY <1>3
  <2>2. page'[a].key = k /\ \A b \in Pages \ {a} : page'[b].key = page[b].key
    BY <2>1 DEF Write, TypeOK
  <2> QED BY <1>3, <2>2 DEF OneSlotPerSetting
<1> QED BY <1>1, <1>2, <1>3, SetWrites

\* One turn of load_settings: what has been read includes one page more.
LEMMA LoadSlots ==
  ASSUME TypeOK, SlotInv, load_settings
  PROVE  \A k \in ConfigKeys :
           /\ \A a \in Pages : a <= addr /\ page[a].key = k =>
                config'[k] = load_setting(k, Default[k], page[a].value)
           /\ (\A a \in Pages : a <= addr => page[a].key # k) => config'[k] = Default[k]
<1>1. addr \in Pages /\ stage = "load" /\ Pages \in SUBSET Nat
  BY PageFacts DEF load_settings, TypeOK, Pages
<1> SUFFICES ASSUME NEW k \in ConfigKeys
             PROVE  /\ \A a \in Pages : a <= addr /\ page[a].key = k =>
                         config'[k] = load_setting(k, Default[k], page[a].value)
                    /\ (\A a \in Pages : a <= addr => page[a].key # k) => config'[k] = Default[k]
  OBVIOUS
<1>2. CASE page[addr].key = k
  <2>1. \A a \in Pages : page[a].key = k => a = addr
    BY <1>1, <1>2, KeyFacts DEF SlotInv, OneSlotPerSetting
  <2>2. config[k] = Default[k]
    BY <1>1, <2>1 DEF SlotInv, LoadedSoFar, Read
  <2>3. config'[k] = load_setting(k, Default[k], page[addr].value)
    BY <1>2, <2>2 DEF load_settings, TypeOK
  <2> QED BY <1>1, <1>2, <2>1, <2>3
<1>3. CASE page[addr].key # k
  <2>1. config'[k] = config[k]
    BY <1>3 DEF load_settings, TypeOK
  <2>2. \A a \in Pages : a <= addr /\ page[a].key = k => a < addr
    BY <1>1, <1>3
  <2> QED BY <1>1, <2>1, <2>2 DEF SlotInv, LoadedSoFar, Read
<1> QED BY <1>2, <1>3

LEMMA EraseSlots == TypeOK /\ SlotInv /\ settings_erase => SlotInv'
<1> SUFFICES ASSUME TypeOK, SlotInv, settings_erase PROVE SlotInv'
  OBVIOUS
<1>1. /\ addr \in 0..(NumPages - 1) /\ addr' = addr + 1 /\ stage = "erase" /\ stage' = "erase"
      /\ ErasePage(addr) \in Pages
  BY PageFacts, ErasePages DEF settings_erase, TypeOK
<1>2. /\ page'[ErasePage(addr)] = Erased
      /\ \A a \in Pages : page'[a] = page[a] \/ page'[a] = Erased
  BY <1>1 DEF settings_erase, TypeOK
<1>3. OneSlotPerSetting'
  BY <1>2, EntryFacts DEF SlotInv, OneSlotPerSetting
<1>4. ErasedBehind'
  <2> SUFFICES ASSUME NEW e \in 0..(NumPages - 1), e < addr' PROVE page'[ErasePage(e)] = Erased
    BY DEF ErasedBehind
  <2>1. CASE e = addr
    BY <1>2, <2>1
  <2>2. CASE e < addr
    <3>1. page[ErasePage(e)] = Erased
      BY <1>1, <2>2 DEF SlotInv, ErasedBehind
    <3> QED BY <1>2, <3>1, ErasePages
  <2> QED BY <1>1, <2>1, <2>2, PageFacts
<1> QED BY <1>1, <1>3, <1>4 DEF SlotInv, LoadedSoFar

LEMMA NextSlots == TypeOK /\ SlotInv /\ [Next]_vars => SlotInv'
<1> SUFFICES ASSUME TypeOK, SlotInv, [Next]_vars PROVE SlotInv'
  OBVIOUS
<1>1. CASE load_settings
  <2>1. UNCHANGED page /\ stage' \in {"load", "service"} /\ stage = "load"
    BY <1>1 DEF load_settings
  <2>2. stage' = "load" => addr' = addr + 1
    BY <1>1 DEF load_settings
  <2>3. \A a \in Pages : a < addr + 1 <=> a <= addr
    BY PageFacts DEF TypeOK
  <2>4. LoadedSoFar'
    BY <1>1, <2>1, <2>2, <2>3, LoadSlots DEF LoadedSoFar, Read
  <2>5. OneSlotPerSetting' /\ ErasedBehind'
    BY <2>1 DEF SlotInv, OneSlotPerSetting, ErasedBehind
  <2> QED BY <2>4, <2>5 DEF SlotInv
<1>2. CASE Commands
  <2>1. PICK k \in Keys : \E v \in Values(k) : Stored(k, v)
    BY <1>2, CommandStores
  <2>2. PICK v \in Values(k) : Stored(k, v)
    BY <2>1
  <2>3. OneSlotPerSetting'
    BY <2>2, StoreSlots DEF Stored, SlotInv
  <2> QED BY <2>2, <2>3 DEF Stored, SlotInv, ErasedBehind, LoadedSoFar
<1>3. CASE \E t \in BootPorts, v \in PortValues : port_set_break(t, v)
  BY <1>3 DEF port_set_break, SlotInv, OneSlotPerSetting, ErasedBehind, LoadedSoFar
<1>4. CASE system_factory_reset
  BY <1>4, PageFacts
  DEF system_factory_reset, SlotInv, OneSlotPerSetting, ErasedBehind, LoadedSoFar
<1>5. CASE settings_erase
  BY <1>5, EraseSlots
<1>6. CASE SoftwareReset \/ PowerCut
  BY <1>6, RestartSlots DEF SoftwareReset, PowerCut
<1>7. CASE UNCHANGED vars
  BY <1>7 DEF vars, SlotInv, OneSlotPerSetting, ErasedBehind, LoadedSoFar, Read
<1> QED BY <1>1, <1>2, <1>3, <1>4, <1>5, <1>6, <1>7 DEF Next

LEMMA SlotsSound == Spec => [](TypeOK /\ SlotInv)
BY InitTypes, NextTypes, InitSlots, NextSlots, PTL DEF Spec

\* However DEFINE commands, erases and power cuts follow one another, no
\* setting is ever on two pages.
THEOREM OneSlot == Spec => []OneSlotPerSetting
BY SlotsSound, PTL DEF SlotInv

\* When settings_erase is through, both chips are empty.
THEOREM EraseComplete == Spec => []EraseIsComplete
<1>1. TypeOK /\ SlotInv => EraseIsComplete
  BY ErasePages DEF SlotInv, ErasedBehind, EraseIsComplete, TypeOK
<1> QED BY <1>1, SlotsSound, PTL

(***************************************************************************)
(* The pages implement the map.                                            *)
(***************************************************************************)
\* The settings on the pages, as SettingStore has them.
Kept == {page[a] : a \in {b \in Pages : page[b] # Erased}}

\* How many settings fit is how many pages there are.
LEMMA KeptSize ==
  ASSUME TypeOK, OneSlotPerSetting
  PROVE  /\ (\E a \in Pages : page[a].key = Unused) => Cardinality(Kept) < NumPages
         /\ (\A a \in Pages : page[a].key # Unused) => Cardinality(Kept) >= NumPages
<1> DEFINE Taken == {b \in Pages : page[b] # Erased}
           f == [b \in Taken |-> page[b]]
<1>1. IsFiniteSet(Pages) /\ Cardinality(Pages) = NumPages
  BY PageFacts, FS_Interval DEF Pages
<1>2. /\ IsFiniteSet(Taken)
      /\ Cardinality(Taken) <= NumPages
      /\ Cardinality(Taken) = NumPages => Taken = Pages
  BY <1>1, FS_Subset
<1>3. f \in Injection(Taken, Kept) /\ f \in Surjection(Taken, Kept)
  <2>1. f \in [Taken -> Kept]
    BY DEF Kept
  <2>2. \A b, c \in Taken : f[b] = f[c] => b = c
    BY PageEntry DEF OneSlotPerSetting
  <2>3. \A r \in Kept : \E b \in Taken : f[b] = r
    BY DEF Kept
  <2> QED BY <2>1, <2>2, <2>3, Zenon DEF Injection, Surjection, IsInjective
<1>4. IsFiniteSet(Kept) /\ Cardinality(Kept) = Cardinality(Taken)
  BY <1>2, <1>3, FS_Surjection
<1>5. Cardinality(Kept) \in Nat
  BY <1>4, FS_CardinalityType
<1>6. ASSUME NEW a \in Pages, page[a].key = Unused PROVE Cardinality(Kept) < NumPages
  <2>1. page[a] = Erased
    BY <1>6, PageEntry
  <2>2. Taken # Pages
    BY <2>1
  <2> QED BY <1>2, <1>4, <1>5, <2>2, PageFacts
<1>7. ASSUME \A a \in Pages : page[a].key # Unused PROVE Cardinality(Kept) >= NumPages
  <2>1. Taken = Pages
    BY <1>7, EntryFacts
  <2> QED BY <1>1, <1>4, <2>1, PageFacts
<1> QED BY <1>6, <1>7

\* A command stores its value in the map, or is dropped because the map is full.
LEMMA StoreDefines ==
  ASSUME TypeOK, OneSlotPerSetting, NEW k \in Keys, NEW v \in Values(k), setting_set(k, v)
  PROVE  \/ /\ (\E s \in Kept : s.key = k) \/ Cardinality(Kept) < NumPages
            /\ Kept' = {s \in Kept : s.key # k} \cup {[key |-> k, value |-> v]}
         \/ /\ ~ \E s \in Kept : s.key = k
            /\ Cardinality(Kept) >= NumPages
            /\ UNCHANGED page
<1> DEFINE Known == \E s \in Kept : s.key = k
<1>1. k # Unused /\ [key |-> k, value |-> v] # Erased
  BY KeyFacts DEF Erased
<1>2. Known <=> \E a \in Pages : page[a].key = k
  BY <1>1, EntryFacts DEF Kept
<1>3. ASSUME NEW a \in Pages, page[a].key \in {k, Unused}, Write(a, k, v),
             \A b \in Pages : page[b].key = k => b = a
      PROVE  Kept' = {s \in Kept : s.key # k} \cup {[key |-> k, value |-> v]}
  <2>1. page'[a] = [key |-> k, value |-> v] /\ \A b \in Pages \ {a} : page'[b] = page[b]
    BY <1>3 DEF Write, TypeOK
  <2>2. \A b \in Pages \ {a} : page[b].key # k
    BY <1>3
  <2>3. ASSUME NEW s PROVE s \in Kept' => (s \in Kept /\ s.key # k) \/ s = [key |-> k, value |-> v]
    BY <2>1, <2>2 DEF Kept
  <2>4. ASSUME NEW s \in Kept, s.key # k PROVE s \in Kept'
    <3>1. PICK b \in Pages : page[b] # Erased /\ s = page[b]
      BY DEF Kept
    <3>2. b # a
      BY <1>3, <2>4, <3>1, PageEntry
    <3> QED BY <2>1, <3>1, <3>2 DEF Kept
  <2>5. [key |-> k, value |-> v] \in Kept'
    BY <1>1, <2>1 DEF Kept
  <2> QED BY <2>3, <2>4, <2>5
<1>4. CASE \E a \in Pages : page[a].key = k /\ Write(a, k, v)
  BY <1>1, <1>2, <1>3, <1>4 DEF OneSlotPerSetting
<1>5. CASE /\ \A b \in Pages : page[b].key # k
           /\ \E a \in Pages : page[a].key = Unused /\ Write(a, k, v)
  BY <1>3, <1>5, KeptSize
<1>6. CASE /\ \A b \in Pages : page[b].key # k
           /\ \A b \in Pages : page[b].key # Unused
           /\ UNCHANGED page
  BY <1>2, <1>6, KeptSize
<1> QED BY <1>4, <1>5, <1>6, SetWrites

\* Erasing a page forgets its setting, and no other.
LEMMA EraseForgets ==
  ASSUME TypeOK, OneSlotPerSetting, settings_erase
  PROVE  \/ Kept' = Kept
         \/ \E k \in Keys : Kept' = {s \in Kept : s.key # k}
<1> DEFINE a == ErasePage(addr)
           k == page[a].key
<1>1. /\ a \in Pages
      /\ page'[a] = Erased
      /\ \A b \in Pages \ {a} : page'[b] = page[b]
  BY ErasePages, PageFacts DEF settings_erase, TypeOK
<1> HIDE DEF a
<1>2. CASE page[a] = Erased
  BY <1>1, <1>2 DEF Kept
<1>3. CASE page[a] # Erased
  <2>1. k \in Keys /\ k # Unused
    BY <1>1, <1>3, PageEntry
  <2>2. \A b \in Pages : page[b].key = k <=> b = a
    BY <1>1, <2>1 DEF OneSlotPerSetting
  <2>3. \A s : s \in Kept' <=> s \in Kept /\ s.key # k
    BY <1>1, <2>2 DEF Kept
  <2>4. Kept' = {s \in Kept : s.key # k}
    BY <2>3
  <2> QED BY <2>1, <2>4
<1> QED BY <1>2, <1>3
\* The end of load_settings: the configuration is made of what is stored.
LEMMA LoadRestores ==
  ASSUME TypeOK, SlotInv, load_settings, stage' = "service"
  PROVE  config' = Store!Restored
<1> DEFINE known(k) == \E s \in Kept : s.key = k
           valueOf(k) == (CHOOSE s \in Kept : s.key = k).value
<1>1. \A a \in Pages : a <= addr
  BY PageFacts DEF load_settings, TypeOK, Pages
<1>2. ASSUME NEW k \in ConfigKeys, known(k)
      PROVE  config'[k] = load_setting(k, Default[k], valueOf(k))
  <2>1. (CHOOSE s \in Kept : s.key = k) \in Kept /\ (CHOOSE s \in Kept : s.key = k).key = k
    BY <1>2
  <2>2. \E a \in Pages : page[a].key = k /\ page[a].value = valueOf(k)
    BY <2>1 DEF Kept
  <2> HIDE DEF valueOf
  <2> QED BY <1>1, <2>2, LoadSlots
<1>3. ASSUME NEW k \in ConfigKeys, ~known(k)
      PROVE  config'[k] = Default[k]
  <2>1. \A a \in Pages : page[a].key # k
    BY <1>3, KeyFacts, EntryFacts DEF Kept
  <2> QED BY <2>1, LoadSlots
<1>4. config' = [k \in ConfigKeys |-> config'[k]]
  BY DEF load_settings, TypeOK
<1>5. config' = [k \in ConfigKeys |-> IF known(k) THEN load_setting(k, Default[k], valueOf(k))
                                                  ELSE Default[k]]
  <2> HIDE DEF known, valueOf
  <2> QED BY <1>2, <1>3, <1>4
<1> QED BY <1>5 DEF Store!Restored, Store!Known, Store!ValueOf, Kept

LEMMA InitMaps == Init => Store!Init
BY PageFacts DEF Init, Store!Init, Phase

\* The map counts its settings as FiniteSets does.
LEMMA StoreCounts == \A S : Store!Cardinality(S) = Cardinality(S)
BY DEF Store!Cardinality, Cardinality

\* Every step is a step of the map, or leaves it as it is.
LEMMA NextMaps ==
  TypeOK /\ SlotInv /\ [Next]_vars => [Store!Next]_(Store!vars)
<1> SUFFICES ASSUME TypeOK, SlotInv, [Next]_vars PROVE Store!Next \/ UNCHANGED Store!vars
  OBVIOUS
<1> USE DEF Phase
<1>1. CASE load_settings
  <2>1. CASE stage' = "service"
    <3>1. Store!Start
      BY <1>1, <2>1, LoadRestores DEF load_settings, Store!Start
    <3> QED BY <3>1 DEF Store!Next
  <2>2. CASE stage' = "load"
    BY <1>1, <2>2 DEF load_settings, Store!vars
  <2> QED BY <1>1, <2>1, <2>2 DEF load_settings
<1>2. CASE Commands
  <2>1. PICK k \in Keys : \E v \in Values(k) : v \in PortValues \cup Texts /\ Stored(k, v)
    BY <1>2, CommandStores
  <2>2. PICK v \in Values(k) : v \in PortValues \cup Texts /\ Stored(k, v)
    BY <2>1
  <2>3. Store!Define(k, v)
    BY <2>2, StoreDefines, StoreCounts
    DEF Stored, SlotInv, Kept, Store!Define, Store!Keep, Store!Known
  <2> QED BY <2>2, <2>3 DEF Store!Next
<1>3. CASE \E t \in BootPorts, v \in PortValues : port_set_break(t, v)
  <2>1. PICK t \in BootPorts, v \in PortValues : port_set_break(t, v)
    BY <1>3
  <2>2. <<"BREAK", t>> \in ConfigKeys
    BY DEF ConfigKeys, PortParameters
  <2>3. Store!Set(<<"BREAK", t>>, v)
    BY <2>1 DEF port_set_break, Store!Set
  <2> QED BY <2>2, <2>3 DEF Store!Next
<1>4. CASE system_factory_reset
  <2>1. Store!Clear
    BY <1>4 DEF system_factory_reset, Store!Clear
  <2> QED BY <2>1 DEF Store!Next
<1>5. CASE settings_erase
  <2>1. CASE Kept' = Kept
    BY <1>5, <2>1 DEF settings_erase, Kept, Store!vars
  <2>2. CASE \E k \in Keys : Kept' = {s \in Kept : s.key # k}
    <3>1. PICK k \in Keys : Kept' = {s \in Kept : s.key # k}
      BY <2>2
    <3>2. Store!Forget(k)
      BY <1>5, <3>1 DEF settings_erase, Kept, Store!Forget
    <3> QED BY <3>2 DEF Store!Next
  <2> QED BY <1>5, <2>1, <2>2, EraseForgets DEF SlotInv
<1>6. CASE SoftwareReset \/ PowerCut
  <2>1. Store!Stop
    BY <1>6 DEF SoftwareReset, PowerCut, Restart, Store!Stop
  <2> QED BY <2>1 DEF Store!Next
<1>7. CASE UNCHANGED vars
  BY <1>7 DEF vars, Store!vars
<1> QED BY <1>1, <1>2, <1>3, <1>4, <1>5, <1>6, <1>7 DEF Next

\* The two chips, whose pages are searched, written, erased and loaded one by
\* one and may lose power in between, are a map of settings to the user.
THEOREM Implements == Spec => StoreSpec
<1>1. Spec => []([Store!Next]_(Store!vars))
  BY SlotsSound, NextMaps, PTL DEF Spec
<1> QED BY <1>1, InitMaps, PTL DEF Spec, StoreSpec, Store!Spec
=============================================================================
