---------------------------- MODULE SettingsStore ----------------------------
(***************************************************************************)
(* What the settings in flash promise to the rest of the firmware: one     *)
(* durable register.  A save that succeeds and erases the copy before it   *)
(* is what the next boot loads.  A save that does not (it failed, the      *)
(* power went while it ran, or the old copy is still there) is             *)
(* "unsettled": the next boot may load it or may load what was there       *)
(* before, but nothing else.                                               *)
(***************************************************************************)
CONSTANT Values   \* settings

VARIABLES
  live,      \* the settings in use (RAM)
  stored,    \* the settings the last save or boot settled on
  unsettled  \* settings of the saves begun since

vars == <<live, stored, unsettled>>

\* The settings a boot may load.
Candidates == {stored} \cup unsettled

Init ==
  /\ live \in Values
  /\ stored = live
  /\ unsettled \in {{}, {stored}}

Edit(v) ==
  /\ live' = v
  /\ UNCHANGED <<stored, unsettled>>

BeginSave ==
  /\ unsettled' = unsettled \cup {live}
  /\ UNCHANGED <<live, stored>>

SaveSettles ==
  /\ live \in unsettled
  /\ stored' = live
  /\ unsettled' = {}
  /\ UNCHANGED live

\* Load settles the question of which candidate survives; a boot that found
\* nothing to load uses the defaults and begins to save them at once.
Load(v, saving) ==
  /\ v \in Candidates
  /\ live' = v
  /\ stored' = v
  /\ unsettled' = IF saving THEN {v} ELSE {}

Next ==
  \/ \E v \in Values : Edit(v)
  \/ BeginSave
  \/ SaveSettles
  \/ \E v \in Values, saving \in BOOLEAN : Load(v, saving)

Spec == Init /\ [][Next]_vars
=============================================================================
