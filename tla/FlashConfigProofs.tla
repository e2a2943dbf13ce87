-------------------------- MODULE FlashConfigProofs --------------------------
(***************************************************************************)
(* The settings survive a reset at any moment, for every set of settings,  *)
(* any sequence numbers and any mixture of errors of configSave's flash    *)
(* operations.                                                             *)
(***************************************************************************)
EXTENDS FlashConfig, TLAPS

\* The reads of configRestore do not fail.
ReadsSucceed == "read" \notin Faults

\* Boot reads what flash holds: with reads that do not fail configRestore sees
\* both sectors.
LEMMA RestoreReadsBoth ==
  ASSUME ReadsSucceed, NEW booting \in BOOLEAN, configRestore(booting),
         flash' \in [Sectors -> Copies \cup {Bad}]
  PROVE  LET pri == selectPrimary(flash')
             saving == booting /\ pri = -1
         IN /\ flash_pri' = IF pri = -1 THEN 0 ELSE pri
            /\ ramSeq' = IF pri = -1 THEN DefaultSeq ELSE flash'[pri].seq
            /\ live' = Recovered(flash')
            /\ pc' = IF saving THEN "eraseSecondary" ELSE "idle"
            /\ image' = Bad
            /\ stored' = Recovered(flash')
            /\ unsettled' = IF saving THEN {Recovered(flash')} ELSE {}
            /\ reported' = IF saving THEN Bad ELSE reported
<1> DEFINE f(u) == [s \in Sectors |-> IF s \in u THEN Bad ELSE flash'[s]]
<1>1. PICK unread \in SUBSET Sectors :
        /\ unread # {} => "read" \in Faults
        /\ flash_pri' = IF selectPrimary(f(unread)) = -1
                          THEN 0 ELSE selectPrimary(f(unread))
        /\ ramSeq' = IF selectPrimary(f(unread)) = -1
                       THEN DefaultSeq ELSE f(unread)[selectPrimary(f(unread))].seq
        /\ live' = Recovered(f(unread))
        /\ pc' = IF booting /\ selectPrimary(f(unread)) = -1
                   THEN "eraseSecondary" ELSE "idle"
        /\ image' = Bad
        /\ stored' = Recovered(f(unread))
        /\ unsettled' = IF booting /\ selectPrimary(f(unread)) = -1
                          THEN {Recovered(f(unread))} ELSE {}
        /\ reported' = IF booting /\ selectPrimary(f(unread)) = -1
                         THEN Bad ELSE reported
  BY DEF configRestore
<1>2. unread = {}
  BY <1>1 DEF ReadsSucceed
<1>3. f(unread) = flash'
  BY <1>2
<1>4. QED
  BY <1>1, <1>3

\* selectPrimary names a sector with a valid copy, or -1 when there is none.
LEMMA SelectValid ==
  ASSUME NEW f \in [Sectors -> Copies \cup {Bad}]
  PROVE  /\ selectPrimary(f) \in {0, 1, -1}
         /\ selectPrimary(f) # -1 => f[selectPrimary(f)] \in Copies
         /\ selectPrimary(f) = -1 => f[0] = Bad /\ f[1] = Bad
         /\ Recovered(f) \in Values
BY FlashAssumption DEF selectPrimary, Valid, Recovered, Sectors, Copies

\* With one spoilt sector the boot has no choice.
LEMMA OneSpoilt ==
  ASSUME NEW f \in [Sectors -> Copies \cup {Bad}], NEW p \in Sectors, f[1 - p] = Bad
  PROVE  Recovered(f) = IF f[p] = Bad THEN Default ELSE f[p].val
BY FlashAssumption DEF selectPrimary, Valid, Recovered, Sectors

\* What a boot or a restore request leaves satisfies the invariant.
LEMMA RestoreEstablishes ==
  ASSUME ReadsSucceed, NEW booting \in BOOLEAN, configRestore(booting),
         flash' \in [Sectors -> Copies \cup {Bad}], reported \in Values \cup {Bad}
  PROVE  IInv'
<1> DEFINE pri == selectPrimary(flash')
<1>1. /\ flash_pri' = IF pri = -1 THEN 0 ELSE pri
      /\ ramSeq' = IF pri = -1 THEN DefaultSeq ELSE flash'[pri].seq
      /\ live' = Recovered(flash')
      /\ pc' = IF booting /\ pri = -1 THEN "eraseSecondary" ELSE "idle"
      /\ image' = Bad
      /\ stored' = Recovered(flash')
      /\ unsettled' = IF booting /\ pri = -1 THEN {Recovered(flash')} ELSE {}
      /\ reported' = IF booting /\ pri = -1 THEN Bad ELSE reported
  BY RestoreReadsBoth
<1>2. /\ pri \in {0, 1, -1}
      /\ pri # -1 => flash'[pri] \in Copies
      /\ pri = -1 => flash'[0] = Bad /\ flash'[1] = Bad
      /\ Recovered(flash') \in Values
  BY SelectValid
<1>3. TypeOK'
  BY <1>1, <1>2, FlashAssumption DEF TypeOK, Sectors, Copies, SaveOps
<1>4. (Recovered(flash) \in Candidates)'
  BY <1>1 DEF Candidates
<1>5. FallbackIntact'
  BY <1>1, <1>2, FlashAssumption
  DEF FallbackIntact, Valid, Candidates, Recovered, Copies
<1>6. QED
  BY <1>1, <1>2, <1>3, <1>4, <1>5, FlashAssumption DEF IInv, SaveOps

-----------------------------------------------------------------------------
(* The steps of configSave. *)

LEMMA SaveStepPreserves ==
  ASSUME ReadsSucceed, IInv, SaveStep
  PROVE  IInv'
<1> USE FlashAssumption
    DEF Sectors, SaveOps, Candidates, Valid, Target
<1>0. /\ flash \in [Sectors -> Copies \cup {Bad}]
      /\ flash_pri \in {0, 1}
      /\ Bad \notin Copies
      /\ TypeOK
  BY DEF IInv, TypeOK, Copies
<1>s. LET f == [flash EXCEPT ![Target] = Bad]
      IN Recovered(f) = IF flash[flash_pri] = Bad THEN Default ELSE flash[flash_pri].val
  <2> DEFINE f == [flash EXCEPT ![Target] = Bad]
  <2>1. /\ f \in [Sectors -> Copies \cup {Bad}]
        /\ f[1 - flash_pri] = Bad
        /\ f[flash_pri] = flash[flash_pri]
    BY <1>0
  <2>2. QED
    BY <1>0, <2>1, OneSpoilt
<1>1. CASE EraseSecondary
  <2>1. flash_pri' = flash_pri /\ pc = "eraseSecondary"
    BY <1>1 DEF EraseSecondary
  <2>2. CASE /\ flash' = [flash EXCEPT ![Target] = Bad]
             /\ image' = [seq |-> ramSeq + 1, val |-> live]
             /\ Goto("writeBody")
    <3>1. TypeOK'
      BY <1>0, <2>1, <2>2 DEF TypeOK, IInv, Goto, Copies
    <3>2. (Recovered(flash) \in Candidates)'
      BY <1>0, <1>s, <2>1, <2>2 DEF Goto, IInv, FallbackIntact
    <3>3. QED
      BY <1>0, <2>1, <2>2, <3>1, <3>2 DEF IInv, FallbackIntact, Goto, TypeOK, Copies
  <2>3. CASE Fault("eraseSecondary", Bad) /\ Return(FALSE, FALSE)
    <3>1. PICK content \in {flash[Target], Bad} : flash' = [flash EXCEPT ![Target] = content]
      BY <2>3 DEF Fault
    <3>2. /\ pc' = "idle" /\ image' = Bad
          /\ UNCHANGED <<live, ramSeq, stored, unsettled>> /\ reported' = Bad
      BY <2>3 DEF Return
    <3>3. TypeOK'
      BY <1>0, <2>1, <3>1, <3>2 DEF TypeOK
    <3>4. (Recovered(flash) \in Candidates)'
      <4>1. CASE content = Bad
        BY <1>0, <2>1, <3>1, <3>2, <4>1, <1>s DEF IInv, FallbackIntact
      <4>2. CASE content = flash[Target]
        BY <1>0, <2>1, <3>1, <3>2, <4>2 DEF IInv
      <4>3. QED
        BY <3>1, <4>1, <4>2
    <3>5. QED
      BY <1>0, <2>1, <3>1, <3>2, <3>3, <3>4 DEF IInv, FallbackIntact
  <2>4. QED
    BY <1>1, <2>2, <2>3 DEF EraseSecondary
<1>2. CASE WriteBody
  <2>1. CASE flash' = flash /\ image' = image /\ Goto("writeSeq")
    BY <1>0, <1>2, <2>1 DEF WriteBody, IInv, FallbackIntact, Goto, TypeOK, Recovered
  <2>2. CASE Fault("writeBody", Bad) /\ Return(FALSE, FALSE)
    <3>1. flash' = flash
      BY <1>0, <1>2, <2>2 DEF WriteBody, Fault, IInv
    <3>2. QED
      BY <1>0, <1>2, <2>2, <3>1 DEF WriteBody, Return, IInv, FallbackIntact, TypeOK
  <2>3. QED
    BY <1>2, <2>1, <2>2 DEF WriteBody
<1>3. CASE WriteSeq
  <2>0. /\ pc = "writeSeq" /\ image \in Copies /\ image.val = live
        /\ live \in unsettled /\ flash[Target] = Bad
        /\ image # Bad
    BY <1>0, <1>3 DEF WriteSeq, IInv
  <2>1. \A f \in [Sectors -> Copies \cup {Bad}] :
          f = [flash EXCEPT ![Target] = image] =>
            Recovered(f) \in {image.val, flash[flash_pri].val}
              /\ (flash[flash_pri] = Bad => Recovered(f) = image.val)
    BY <1>0, <2>0 DEF Recovered, selectPrimary
  <2>2. [flash EXCEPT ![Target] = image] \in [Sectors -> Copies \cup {Bad}]
    BY <1>0, <2>0
  <2>3. Recovered([flash EXCEPT ![Target] = image]) \in Candidates
    BY <1>0, <2>0, <2>1, <2>2 DEF IInv, FallbackIntact
  <2>4. CASE /\ flash' = [flash EXCEPT ![Target] = image]
             /\ flash_pri' = 1 - flash_pri
             /\ image' = image
             /\ Goto("eraseOld")
    BY <1>0, <2>0, <2>2, <2>3, <2>4
    DEF Goto, IInv, FallbackIntact, TypeOK
  <2>5. CASE /\ Fault("writeSeq", image)
             /\ flash_pri' = flash_pri
             /\ Return(FALSE, FALSE)
    <3>1. PICK content \in {Bad, image} : flash' = [flash EXCEPT ![Target] = content]
      BY <2>0, <2>5 DEF Fault
    <3>2. /\ pc' = "idle" /\ image' = Bad /\ flash_pri' = flash_pri
          /\ UNCHANGED <<live, ramSeq, stored, unsettled>> /\ reported' = Bad
      BY <2>5 DEF Return
    <3>3. (Recovered(flash) \in Candidates)'
      <4>1. CASE content = Bad
        BY <1>0, <2>0, <3>1, <3>2, <4>1, OneSpoilt DEF IInv, FallbackIntact
      <4>2. CASE content = image
        BY <2>3, <3>1, <3>2, <4>2
      <4>3. QED
        BY <3>1, <4>1, <4>2
    <3>4. QED
      BY <1>0, <2>0, <3>1, <3>2, <3>3 DEF IInv, FallbackIntact, TypeOK
  <2>6. QED
    BY <1>3, <2>4, <2>5 DEF WriteSeq
<1>4. CASE EraseOld
  <2>1. CASE /\ flash' = [flash EXCEPT ![Target] = Bad]
             /\ image' = image /\ Goto("writeBackup")
    <3>1. pc = "eraseOld" /\ flash_pri' = flash_pri
      BY <1>4 DEF EraseOld
    <3>2. Recovered(flash') = image.val
      BY <1>0, <1>s, <2>1, <3>1 DEF IInv, FallbackIntact
    <3>3. QED
      BY <1>0, <2>1, <3>1, <3>2 DEF IInv, FallbackIntact, Goto, TypeOK
  <2>2. CASE Fault("eraseOld", Bad) /\ Return(TRUE, FALSE)
    <3>1. PICK content \in {flash[Target], Bad} : flash' = [flash EXCEPT ![Target] = content]
      BY <2>2 DEF Fault
    <3>2. /\ pc = "eraseOld" /\ pc' = "idle" /\ image' = Bad /\ flash_pri' = flash_pri
          /\ reported' = image.val /\ UNCHANGED <<live, ramSeq, stored, unsettled>>
      BY <1>4, <2>2 DEF EraseOld, Return
    <3>3. /\ flash[flash_pri] = image /\ image \in Copies /\ image.val = live
          /\ live \in unsettled /\ image # Bad
      BY <1>0, <3>2 DEF IInv, FallbackIntact
    <3>4. TypeOK'
      BY <1>0, <3>1, <3>2, <3>3 DEF TypeOK
    <3>5. (Recovered(flash) \in Candidates)'
      <4>1. CASE content = Bad
        BY <1>0, <1>s, <3>1, <3>2, <3>3, <4>1
      <4>2. CASE content = flash[Target]
        BY <1>0, <3>1, <3>2, <4>2 DEF IInv
      <4>3. QED
        BY <3>1, <4>1, <4>2
    <3>6. flash'[flash_pri] = image
      BY <1>0, <3>1, <3>3
    <3>7. QED
      BY <1>0, <3>2, <3>3, <3>4, <3>5, <3>6 DEF IInv, FallbackIntact
  <2>3. QED
    BY <1>4, <2>1, <2>2 DEF EraseOld
<1>5. CASE WriteBackup
  <2>1. flash' = flash /\ flash_pri' = flash_pri /\ pc = "writeBackup"
    BY <1>0, <1>5 DEF WriteBackup, Fault, IInv
  <2>2. Recovered(flash) = image.val
    BY <1>0, <2>1, OneSpoilt DEF IInv, FallbackIntact
  <2>3. CASE image' = image /\ Goto("writeBackupSeq")
    BY <1>0, <2>1, <2>2, <2>3 DEF IInv, FallbackIntact, Goto, TypeOK
  <2>4. CASE Return(TRUE, TRUE)
    BY <1>0, <2>1, <2>2, <2>4 DEF IInv, FallbackIntact, Return, TypeOK
  <2>5. QED
    BY <1>5, <2>3, <2>4 DEF WriteBackup
<1>6. CASE WriteBackupSeq
  <2>0. /\ pc = "writeBackupSeq" /\ image \in Copies /\ image.val = live
        /\ live \in unsettled /\ flash[Target] = Bad /\ flash[flash_pri] = image
        /\ image # Bad /\ Return(TRUE, TRUE) /\ flash_pri' = flash_pri
    BY <1>0, <1>6 DEF WriteBackupSeq, IInv, FallbackIntact
  <2>1. PICK content \in {Bad, image} : flash' = [flash EXCEPT ![Target] = content]
    BY <1>6, <2>0 DEF WriteBackupSeq, Fault
  <2>2. Recovered(flash') = image.val
    BY <1>0, <2>0, <2>1 DEF Recovered, selectPrimary
  <2>3. QED
    BY <1>0, <2>0, <2>1, <2>2 DEF IInv, FallbackIntact, Return, TypeOK
<1>7. QED
  BY <1>1, <1>2, <1>3, <1>4, <1>5, <1>6 DEF SaveStep

-----------------------------------------------------------------------------
(* The theorems. *)

\* What flash may hold after a reset: as it was, or with the target spoilt.
LEMMA SpoiltTyped ==
  ASSUME IInv, NEW f \in Spoilt
  PROVE  /\ f \in [Sectors -> Copies \cup {Bad}]
         /\ Recovered(f) \in Candidates
<1>1. /\ flash \in [Sectors -> Copies \cup {Bad}]
      /\ flash_pri \in {0, 1}
      /\ Recovered(flash) \in Candidates
      /\ Bad \notin Copies
  BY FlashAssumption DEF IInv, TypeOK, Sectors, Copies
<1>2. CASE f = flash
  BY <1>1, <1>2
<1>3. CASE pc # "idle" /\ f = [flash EXCEPT ![Target] = Bad]
  <2>1. /\ f \in [Sectors -> Copies \cup {Bad}]
        /\ f[1 - flash_pri] = Bad
        /\ f[flash_pri] = flash[flash_pri]
    BY <1>1, <1>3 DEF Target, Sectors
  <2>2. Recovered(f) = IF flash[flash_pri] = Bad THEN Default ELSE flash[flash_pri].val
    BY <1>1, <2>1, OneSpoilt DEF Sectors
  <2>3. pc \in SaveOps
    BY <1>3 DEF IInv, TypeOK
  <2>4. QED
    BY <1>1, <2>1, <2>2, <2>3
    DEF IInv, FallbackIntact, SaveOps, Candidates, Valid
<1>4. QED
  BY <1>2, <1>3 DEF Spoilt

LEMMA IInvInit == Init => IInv
BY FlashAssumption
DEF Init, IInv, TypeOK, FallbackIntact, Recovered, selectPrimary, Candidates, Valid,
    Sectors, Copies, SaveOps, Target

LEMMA IInvNext ==
  ASSUME ReadsSucceed
  PROVE  IInv /\ [Next]_vars => IInv'
<1> SUFFICES ASSUME IInv, [Next]_vars
             PROVE  IInv'
  OBVIOUS
<1>1. CASE \E v \in Values : SetSetting(v)
  BY <1>1 DEF SetSetting, IInv, TypeOK, FallbackIntact, Candidates, SaveOps, Target
<1>2. CASE configRestoreDefaults
  BY <1>2, FlashAssumption
  DEF configRestoreDefaults, IInv, TypeOK, FallbackIntact, Candidates, SaveOps, Target
<1>3. CASE RestoreSettings
  <2>1. flash' \in [Sectors -> Copies \cup {Bad}] /\ configRestore(FALSE)
    BY <1>3 DEF RestoreSettings, IInv, TypeOK
  <2>2. QED
    BY <2>1, RestoreEstablishes DEF IInv, TypeOK
<1>4. CASE configSave
  BY <1>4 DEF configSave, IInv, TypeOK, FallbackIntact, Candidates, SaveOps, Target
<1>5. CASE SaveStep
  BY <1>5, SaveStepPreserves
<1>6. CASE Boot
  <2>1. flash' \in [Sectors -> Copies \cup {Bad}] /\ configRestore(TRUE)
    BY <1>6, SpoiltTyped DEF Boot
  <2>2. QED
    BY <2>1, RestoreEstablishes DEF IInv, TypeOK
<1>7. CASE UNCHANGED vars
  BY <1>7 DEF vars, IInv, TypeOK, FallbackIntact, Candidates, Target, Valid
<1>8. QED
  BY <1>1, <1>2, <1>3, <1>4, <1>5, <1>6, <1>7 DEF Next

(* The strengthened invariant holds in every state of every behaviour, whichever    *)
(* operations of configSave fail; the theorems below are read off it.               *)
THEOREM Inductive == ReadsSucceed => (Spec => []IInv)
<1> SUFFICES ASSUME ReadsSucceed
             PROVE  Spec => []IInv
  OBVIOUS
<1>1. Init => IInv
  BY IInvInit
<1>2. IInv /\ [Next]_vars => IInv'
  BY IInvNext
<1>3. QED
  BY <1>1, <1>2, PTL DEF Spec

\* The variables keep their types (config.c), and with them flash_pri names a
\* sector whenever configSave runs.
THEOREM TypeCorrect == ReadsSucceed => (Spec => []TypeOK)
<1>1. IInv => TypeOK
  BY DEF IInv
<1>2. QED
  BY <1>1, Inductive, PTL

\* A reset at any moment of a save, with any errors of its flash operations, loses
\* nothing that was settled.
THEOREM AlwaysRecoverable == ReadsSucceed => (Spec => []Recoverable)
<1>1. IInv => Recoverable
  BY SpoiltTyped DEF Recoverable
<1>2. QED
  BY <1>1, Inductive, PTL

\* A save that returned true with the old copy erased is what the next boot loads,
\* whichever operations fail then or in saves before.
THEOREM SavedIsDurable == ReadsSucceed => (Spec => []DurableOnceSettled)
<1>1. IInv => DurableOnceSettled
  BY DEF IInv, DurableOnceSettled, Candidates
<1>2. QED
  BY <1>1, Inductive, PTL

\* The two sectors implement one durable register: every step of the detailed
\* specification is a step of SettingsStore or leaves its variables alone.
THEOREM Refinement == ReadsSucceed => (Spec => ImplementsStore)
<1> SUFFICES ASSUME ReadsSucceed
             PROVE  Spec => ImplementsStore
  OBVIOUS
<1>1. Init => Store!Init
  BY FlashAssumption DEF Init, Store!Init
<1>2. IInv /\ [Next]_vars => [Store!Next]_Store!vars
  <2> SUFFICES ASSUME IInv, [Next]_vars
               PROVE  [Store!Next]_Store!vars
    OBVIOUS
  <2> USE DEF Store!Next, Store!vars
  <2>1. ASSUME NEW v \in Values, SetSetting(v)
        PROVE  Store!Edit(v)
    BY <2>1 DEF SetSetting, Store!Edit
  <2>2. ASSUME configRestoreDefaults
        PROVE  Store!Edit(Default)
    BY <2>2 DEF configRestoreDefaults, Store!Edit
  <2>3. ASSUME NEW booting \in BOOLEAN, configRestore(booting),
               flash' \in [Sectors -> Copies \cup {Bad}], Recovered(flash') \in Candidates
        PROVE  \E v \in Values, saving \in BOOLEAN : Store!Load(v, saving)
    <3> DEFINE v == Recovered(flash')
               saving == booting /\ selectPrimary(flash') = -1
    <3>1. v \in Values /\ saving \in BOOLEAN
      BY <2>3, SelectValid
    <3>2. Store!Load(v, saving)
      BY <2>3, RestoreReadsBoth DEF Store!Load, Store!Candidates, Candidates
    <3>3. QED
      BY <3>1, <3>2
  <2>4. CASE RestoreSettings
    <3>1. /\ flash' \in [Sectors -> Copies \cup {Bad}]
          /\ Recovered(flash') \in Candidates
          /\ configRestore(FALSE)
      BY <2>4 DEF RestoreSettings, IInv, TypeOK
    <3>2. QED
      BY <2>3, <3>1
  <2>5. CASE Boot
    <3>1. /\ flash' \in [Sectors -> Copies \cup {Bad}]
          /\ Recovered(flash') \in Candidates
          /\ configRestore(TRUE)
      BY <2>5, SpoiltTyped DEF Boot
    <3>2. QED
      BY <2>3, <3>1
  <2>6. ASSUME configSave
        PROVE  Store!BeginSave
    BY <2>6 DEF configSave, Store!BeginSave
  <2>7. ASSUME SaveStep
        PROVE  Store!SaveSettles \/ UNCHANGED <<live, stored, unsettled>>
    BY <2>7
    DEF SaveStep, EraseSecondary, WriteBody, WriteSeq, EraseOld, WriteBackup,
        WriteBackupSeq, Return, Goto, IInv, SaveOps, Store!SaveSettles
  <2>8. CASE UNCHANGED vars
    BY <2>8 DEF vars
  <2>9. QED
    BY <2>1, <2>2, <2>4, <2>5, <2>6, <2>7, <2>8, FlashAssumption DEF Next
<1>3. QED
  BY <1>1, <1>2, Inductive, PTL DEF Spec, ImplementsStore, Store!Spec
=============================================================================
