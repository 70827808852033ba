---------------------------- MODULE SettingsStore -----------------------------
(***************************************************************************)
(* What the rest of the firmware expects of its settings: named registers  *)
(* that take one of their legal values when they are set, survive a loss   *)
(* of power, and get their defaults when the device is switched on for the *)
(* first time and never again.  A loss of power may damage the registers   *)
(* that are being changed at that moment, and no others.                   *)
(***************************************************************************)
CONSTANTS
  Setting,   (* The names of the registers.                                *)
  Legal,     (* Setting -> the values the setter may store.                *)
  Default,   (* The values Init gives; some registers may have none.       *)
  Blank      (* Setting -> what a new EEPROM holds.                        *)

VARIABLES
  up,        (* The device is on.                                          *)
  new,       (* It has never been set up.                                  *)
  store,     (* Setting -> the value a reader gets when nothing changes.   *)
  changing   (* The registers on their way to the value in store.          *)

vars == <<up, new, store, changing>>

Init ==
  /\ up = FALSE
  /\ new = TRUE
  /\ store = Blank
  /\ changing = {}

\* The first time, the defaults; any later time, what was there.
SwitchOn ==
  /\ ~up
  /\ up' = TRUE
  /\ new' = FALSE
  /\ \/ /\ new
        /\ store' = [s \in Setting |->
                       IF s \in DOMAIN Default THEN Default[s] ELSE store[s]]
        /\ changing' = DOMAIN Default
     \/ /\ ~new
        /\ UNCHANGED <<store, changing>>

\* One setting changes, to a legal value, and no other.
Set(s) ==
  /\ up /\ changing = {}
  /\ \E v \in Legal[s] : store' = [store EXCEPT ![s] = v]
  /\ changing' = {s}
  /\ UNCHANGED <<up, new>>

\* Some of the changes are safe.
Stored ==
  /\ changing' \subseteq changing
  /\ UNCHANGED <<up, new, store>>

\* A set-up that has not stored anything will be done again.
SwitchOff ==
  /\ up
  /\ up' = FALSE
  /\ changing' = {}
  /\ \/ new' = new
     \/ changing = DOMAIN Default /\ new' = TRUE
  /\ DOMAIN store' = Setting
  /\ \A s \in Setting \ changing : store'[s] = store[s]

Next == SwitchOn \/ SwitchOff \/ Stored \/ \E s \in Setting : Set(s)

Spec == Init /\ [][Next]_vars
===============================================================================
