---------------------------- MODULE SettingStore ----------------------------
(***************************************************************************)
(* What the stored settings promise: a map from settings to values that    *)
(* survives every reboot, out of which the running configuration is made   *)
(* anew at each start.  Only INITIALIZE FACTORY removes anything, and a    *)
(* new setting is only refused by a store that is full.                    *)
(***************************************************************************)
EXTENDS Integers, FiniteSets

CONSTANTS
  Key, Value,        \* settings and what can be stored for them
  ConfigKey,         \* the settings that the running program has
  Default,           \* [ConfigKey -> their values in a fresh unit]
  Restore(_, _, _),  \* what a key's stored value makes of its old value
  Capacity           \* how many settings fit

VARIABLES
  stored,            \* the set of settings kept, [key, value]
  running,           \* [ConfigKey -> value in use]
  phase              \* "off", "on" or "clearing"

vars == <<stored, running, phase>>

Known(k)   == \E s \in stored : s.key = k
ValueOf(k) == (CHOOSE s \in stored : s.key = k).value

Restored == [k \in ConfigKey |-> IF Known(k) THEN Restore(k, Default[k], ValueOf(k))
                                             ELSE Default[k]]

Init == stored = {} /\ running = Default /\ phase = "off"

Keep(k, v) == stored' = {s \in stored : s.key # k} \cup {[key |-> k, value |-> v]}

Define(k, v) ==
  /\ phase = "on"
  /\ \/ (Known(k) \/ Cardinality(stored) < Capacity) /\ Keep(k, v)
     \/ ~Known(k) /\ Cardinality(stored) >= Capacity /\ UNCHANGED stored
  /\ UNCHANGED <<running, phase>>

Set(k, v) ==
  /\ phase = "on"
  /\ running' = [running EXCEPT ![k] = v]
  /\ UNCHANGED <<stored, phase>>

\* The unit is switched on and has read its settings.
Start ==
  /\ phase = "off"
  /\ phase' = "on"
  /\ running' = Restored
  /\ UNCHANGED stored

\* Switched off, at any time.
Stop ==
  /\ phase' = "off"
  /\ running' = Default
  /\ UNCHANGED stored

Clear ==
  /\ phase = "on"
  /\ phase' = "clearing"
  /\ running' = Default
  /\ UNCHANGED stored

Forget(k) ==
  /\ phase = "clearing"
  /\ stored' = {s \in stored : s.key # k}
  /\ UNCHANGED <<running, phase>>

Next ==
  \/ \E k \in Key, v \in Value : Define(k, v)
  \/ \E k \in ConfigKey, v \in Value : Set(k, v)
  \/ \E k \in Key : Forget(k)
  \/ Start \/ Stop \/ Clear

Spec == Init /\ [][Next]_vars
=============================================================================
