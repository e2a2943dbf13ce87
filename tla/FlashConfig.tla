----------------------------- MODULE FlashConfig -----------------------------
(***************************************************************************)
(* The settings kept in two flash sectors (esp-link-stuff/config.c).  The  *)
(* primary sector holds the current settings; configSave writes the other  *)
(* one first, with a sequence number that makes the CRC wrong until the    *)
(* very last word, and only then erases and rewrites the old primary.      *)
(* configSave is one function; each flash operation in it is a step here,  *)
(* because a reset can come between any two and in the middle of each.     *)
(*                                                                         *)
(* A sector is Bad (erased, half written, of another version, or with a    *)
(* CRC that does not match) or a record with its sequence number and the   *)
(* settings.                                                               *)
(***************************************************************************)
EXTENDS Integers

CONSTANTS
  Values,      \* settings
  Default,     \* flashDefault
  DefaultSeq,  \* flashDefault.seq
  MaxSeq,      \* largest sequence number of a copy (the unset one is no number)
  Bad,         \* what a sector without a valid copy holds
  Faults       \* flash operations that may report an error

\* The flash operations of configSave, in order, and the reads of configRestore.
SaveOps == {"eraseSecondary", "writeBody", "writeSeq",
            "eraseOld", "writeBackup", "writeBackupSeq"}

ASSUME FlashAssumption ==
  /\ Default \in Values
  /\ MaxSeq \in Nat
  /\ DefaultSeq \in Nat
  /\ DefaultSeq < MaxSeq
  /\ Faults \subseteq SaveOps \cup {"read"}
  /\ Bad \notin [seq : Nat, val : Values]
  /\ Bad \notin Values

VARIABLES
  flash,      \* the two sectors
  flash_pri,  \* the primary sector
  live,       \* flashConfig, all fields but seq
  ramSeq,     \* flashConfig.seq
  pc,         \* the flash operation configSave is about to do, or "idle"
  image,      \* ff, the copy configSave writes
  stored,     \* history: the settings last settled: saved and the old ones erased,
              \* or booted
  unsettled,  \* history: settings of saves begun since then
  reported    \* history: the settings of the last save if it returned true, or Bad

vars == <<flash, flash_pri, live, ramSeq, pc, image, stored, unsettled, reported>>

Sectors == {0, 1}
Copies == [seq : 0..MaxSeq, val : Values]
Candidates == {stored} \cup unsettled

Valid(f, s) == f[s] # Bad

\* selectPrimary: the valid sector, the first one unless the second is newer.
selectPrimary(f) ==
  IF Valid(f, 0)
    THEN IF ~Valid(f, 1) \/ f[0].seq >= f[1].seq THEN 0 ELSE 1
    ELSE IF Valid(f, 1) THEN 1 ELSE -1

\* The settings configRestore loads from the sectors it could read.
Recovered(f) == IF selectPrimary(f) = -1 THEN Default ELSE f[selectPrimary(f)].val

Init ==
  /\ flash = [s \in Sectors |-> Bad]
  /\ flash_pri = 0
  /\ live = Default
  /\ ramSeq = DefaultSeq
  /\ pc = "eraseSecondary"       \* user_init: nothing to restore, so save
  /\ image = Bad
  /\ stored = Default
  /\ unsettled = {Default}
  /\ reported = Bad

-----------------------------------------------------------------------------
(* Settings in RAM. *)

\* A SET command or a POST to /wx/setting.
SetSetting(v) ==
  /\ pc = "idle"
  /\ live' = v
  /\ UNCHANGED <<flash, flash_pri, ramSeq, pc, image, stored, unsettled, reported>>

\* configRestoreDefaults takes the default sequence number as well.
configRestoreDefaults ==
  /\ pc = "idle"
  /\ live' = Default
  /\ ramSeq' = DefaultSeq
  /\ UNCHANGED <<flash, flash_pri, pc, image, stored, unsettled, reported>>

\* configRestore.  A sector that cannot be read counts as invalid.  A boot that
\* finds no valid copy saves the defaults; the web request only loads them.
configRestore(booting) ==
  \E unread \in SUBSET Sectors :
    LET f == [s \in Sectors |-> IF s \in unread THEN Bad ELSE flash'[s]]
        pri == selectPrimary(f)
        saving == booting /\ pri = -1
    IN /\ unread # {} => "read" \in Faults
       /\ flash_pri' = IF pri = -1 THEN 0 ELSE pri
       /\ ramSeq' = IF pri = -1 THEN DefaultSeq ELSE f[pri].seq
       /\ live' = Recovered(f)
       /\ pc' = IF saving THEN "eraseSecondary" ELSE "idle"
       /\ image' = Bad
       /\ stored' = Recovered(f)
       /\ unsettled' = IF saving THEN {Recovered(f)} ELSE {}
       /\ reported' = IF saving THEN Bad ELSE reported

RestoreSettings ==
  /\ pc = "idle"
  /\ flash' = flash
  /\ configRestore(FALSE)

-----------------------------------------------------------------------------
(* configSave, one flash operation a step. *)

\* Mutant of Target: configSave overwrites the primary first.
TargetPrimary == flash_pri

\* The sector the operation at pc works on: the old primary is what is left
\* of it once flash_pri has moved.
Target == 1 - flash_pri

\* Only with the old copy erased there is no more than one for a boot to choose.
Return(ok, settled) ==
  /\ pc' = "idle"
  /\ image' = Bad
  /\ stored' = IF settled THEN image.val ELSE stored
  /\ unsettled' = IF settled THEN {} ELSE unsettled
  /\ reported' = IF ok THEN image.val ELSE Bad
  /\ UNCHANGED <<live, ramSeq>>

Goto(op) ==
  /\ pc' = op
  /\ UNCHANGED <<live, ramSeq, stored, unsettled, reported>>

\* A flash operation that reports an error leaves its sector as it was, as it
\* should have become, or spoilt.
Fault(op, done) ==
  /\ op \in Faults
  /\ \E content \in {flash[Target], Bad, done} :
        flash' = [flash EXCEPT ![Target] = content]

configSave ==
  /\ pc = "idle"
  /\ ramSeq < MaxSeq
  /\ unsettled' = unsettled \cup {live}
  /\ pc' = "eraseSecondary"
  /\ reported' = Bad
  /\ UNCHANGED <<flash, flash_pri, live, ramSeq, image, stored>>

\* Mutant of EraseSecondary: a failed erase is reported as a successful save.
EraseSecondaryUnchecked ==
  /\ pc = "eraseSecondary"
  /\ flash_pri' = flash_pri
  /\ \/ /\ flash' = [flash EXCEPT ![Target] = Bad]
        /\ image' = [seq |-> ramSeq + 1, val |-> live]
        /\ Goto("writeBody")
     \/ /\ Fault("eraseSecondary", Bad)
        /\ pc' = "idle" /\ image' = Bad
        /\ stored' = live /\ unsettled' = {} /\ reported' = live
        /\ UNCHANGED <<live, ramSeq>>

EraseSecondary ==
  /\ pc = "eraseSecondary"
  /\ flash_pri' = flash_pri
  /\ \/ /\ flash' = [flash EXCEPT ![Target] = Bad]
        /\ image' = [seq |-> ramSeq + 1, val |-> live]
        /\ Goto("writeBody")
     \/ Fault("eraseSecondary", Bad) /\ Return(FALSE, FALSE)

\* The body goes out with seq = 0xffffffff, so the CRC does not match yet.
WriteBody ==
  /\ pc = "writeBody"
  /\ flash_pri' = flash_pri
  /\ \/ flash' = flash /\ image' = image /\ Goto("writeSeq")
     \/ Fault("writeBody", Bad) /\ Return(FALSE, FALSE)

WriteSeq ==
  /\ pc = "writeSeq"
  /\ \/ /\ flash' = [flash EXCEPT ![Target] = image]
        /\ flash_pri' = 1 - flash_pri
        /\ image' = image
        /\ Goto("eraseOld")
     \/ /\ Fault("writeSeq", image)
        /\ flash_pri' = flash_pri
        /\ Return(FALSE, FALSE)

\* From here on configSave returns true whatever happens to the back-up.
EraseOld ==
  /\ pc = "eraseOld"
  /\ flash_pri' = flash_pri
  /\ \/ /\ flash' = [flash EXCEPT ![Target] = Bad]
        /\ image' = image
        /\ Goto("writeBackup")
     \/ Fault("eraseOld", Bad) /\ Return(TRUE, FALSE)

WriteBackup ==
  /\ pc = "writeBackup"
  /\ flash_pri' = flash_pri
  /\ \/ flash' = flash /\ image' = image /\ Goto("writeBackupSeq")
     \/ Fault("writeBackup", Bad) /\ Return(TRUE, TRUE)

WriteBackupSeq ==
  /\ pc = "writeBackupSeq"
  /\ flash_pri' = flash_pri
  /\ \/ flash' = [flash EXCEPT ![Target] = image]
     \/ Fault("writeBackupSeq", image)
  /\ Return(TRUE, TRUE)

-----------------------------------------------------------------------------
(* Power loss, reset or watchdog, then user_init. *)

\* The sector being erased or written may be left spoilt.
Spoilt == IF pc = "idle" THEN {flash} ELSE {flash, [flash EXCEPT ![Target] = Bad]}

Boot ==
  /\ flash' \in Spoilt
  /\ configRestore(TRUE)

SaveStep ==
  \/ EraseSecondary \/ WriteBody \/ WriteSeq
  \/ EraseOld \/ WriteBackup \/ WriteBackupSeq

Next ==
  \/ \E v \in Values : SetSetting(v)
  \/ configRestoreDefaults
  \/ RestoreSettings
  \/ configSave
  \/ SaveStep
  \/ Boot

Spec == Init /\ [][Next]_vars

-----------------------------------------------------------------------------
(* Properties. *)

TypeOK ==
  /\ flash \in [Sectors -> Copies \cup {Bad}]
  /\ flash_pri \in Sectors
  /\ live \in Values
  /\ ramSeq \in 0..MaxSeq
  /\ pc \in SaveOps \cup {"idle"}
  /\ image \in Copies \cup {Bad}
  /\ stored \in Values
  /\ unsettled \subseteq Values
  /\ reported \in Values \cup {Bad}

\* Whatever the moment a reset comes, the boot after it loads the settings of
\* the last settled save, or those of a save begun since: it failed, was cut off,
\* or could not erase the old copy.
Recoverable == \A f \in Spoilt : Recovered(f) \in Candidates

\* A save that returned true with the old copy erased is what the next boot loads,
\* whatever became of the back-up behind it (config.c:121-126), and stays so when the
\* settings are changed, restored or given up in RAM.
DurableOnceSettled == pc = "idle" /\ unsettled = {} => Recovered(flash) = stored

\* A save that returned true is what the next boot loads: config.c:120 returns
\* true after a failed erase with "no back-up but we're OK".  configSave does not
\* keep the new sequence number in flashConfig, so that the copies of two saves
\* have the same one, and a boot prefers the first sector.
DurableOnceReported == reported # Bad => Recovered(flash) = reported

\* configSave never spoils the copy it would have to fall back to: until the
\* new copy is complete the primary still holds a candidate, and from then on
\* the new primary holds the settings being saved.
FallbackIntact ==
  /\ pc \in {"idle", "eraseSecondary", "writeBody", "writeSeq"} =>
       IF Valid(flash, flash_pri)
         THEN flash[flash_pri].val \in Candidates
         ELSE Default \in Candidates
  /\ pc \in {"eraseOld", "writeBackup", "writeBackupSeq"} =>
       /\ flash[flash_pri] = image
       /\ image.val = live

\* The two-sector scheme is a durable register.
Store == INSTANCE SettingsStore
ImplementsStore == Store!Spec

\* The inductive invariant behind the properties above: the boot choice and the
\* fall-back are candidates, a sector about to be written holds no valid copy,
\* and the copy under way carries the live settings.
IInv ==
  /\ TypeOK
  /\ Recovered(flash) \in Candidates
  /\ FallbackIntact
  /\ pc \in {"writeBody", "writeSeq", "writeBackup", "writeBackupSeq"} =>
       ~Valid(flash, Target)
  /\ pc \in SaveOps => live \in unsettled
  /\ pc = "eraseSecondary" => ramSeq < MaxSeq
  /\ pc \in SaveOps \ {"eraseSecondary"} => image \in Copies /\ image.val = live
=============================================================================
