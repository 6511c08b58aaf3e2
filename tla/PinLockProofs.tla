---------------------------- MODULE PinLockProofs ----------------------------
(***************************************************************************)
(* Proofs about PinLock: the invariant of the lock, that the owner is left *)
(* with a PIN that can be entered, and that lockouts are served.           *)
(***************************************************************************)
EXTENDS PinLock, FiniteSetTheorems, TLAPS

StoreRecord == [lock : {"unset", "true", "false"}, salt : Salts \cup {0}, hash : Hashes,
                configured : BOOLEAN, attempts : Nat, until : Nat]
AppRecord == [phase : {"dead", "active", "background"}, checking : BOOLEAN,
              locked : BOOLEAN, mode : {"unlock", "setup", "change_pin"}, grace : Nat]
ScreenRecord == [mode : {"gone", "unlock", "setup", "change_pin"},
                 step : {"unlock", "enter_current", "enter_new", "confirm_new"},
                 first : Pins \cup {NoPin}, left : Nat,
                 load : {"lockout", "mode", "bio", "done"}, bio : BOOLEAN]
JobRecord == [kind : JobKinds, at : JobSteps, pin : Pins \cup {NoPin},
              salt : Salts \cup {0}, hash : Hashes, count : Nat, here : BOOLEAN]
LedgerRecord == [tried : Nat, faults : Nat, kills : Nat, overlaps : Nat,
                 typos : Nat, torn : BOOLEAN]

LEMMA InvParts ==
    PinLockInv <=> /\ store \in StoreRecord /\ app \in AppRecord /\ screen \in ScreenRecord
                   /\ job \in [Jobs -> JobRecord] /\ ledger \in LedgerRecord
BY Zenon DEF PinLockInv, StoreRecord, AppRecord, ScreenRecord, JobRecord, LedgerRecord

LEMMA NextParts ==
    /\ store' \in StoreRecord /\ app' \in AppRecord /\ screen' \in ScreenRecord
    /\ job' \in [Jobs -> JobRecord] /\ ledger' \in LedgerRecord
    => PinLockInv'
BY Zenon DEF PinLockInv, StoreRecord, AppRecord, ScreenRecord, JobRecord, LedgerRecord

-----------------------------------------------------------------------------
(* The values the steps write.                                             *)

LEMMA DigestType ==
    ASSUME NEW pin \in Pins \cup {NoPin}, NEW s \in Salts \cup {0}
    PROVE  /\ Digest(pin, s) \in Hashes /\ LegacyDigest(pin, s) \in Hashes
           /\ Digest(pin, s).salt = s /\ LegacyDigest(pin, s).salt = s
BY DEF Digest, LegacyDigest, Hashes

LEMMA RestTypes ==
    /\ NoHash \in Hashes /\ Idle \in JobRecord /\ Gone \in ScreenRecord
    /\ Idle.at = "idle" /\ Idle.kind = "none" /\ Idle.here = TRUE
    /\ \A mode \in {"unlock", "setup", "change_pin"} :
          Mounted(mode) \in ScreenRecord /\ Mounted(mode).load = "lockout"
<1>1. NoHash \in Hashes
  BY DEF NoHash, Hashes
<1>2. Idle \in JobRecord /\ Idle.at = "idle" /\ Idle.kind = "none" /\ Idle.here = TRUE
  <2> HIDE DEF Hashes, NoHash
  <2> QED BY <1>1 DEF Idle, JobRecord, JobKinds, JobSteps
<1>3. Gone \in ScreenRecord
  BY DEF Gone, ScreenRecord
<1>4. ASSUME NEW mode \in {"unlock", "setup", "change_pin"}
      PROVE  Mounted(mode) \in ScreenRecord /\ Mounted(mode).load = "lockout"
  BY DEF Mounted, Gone, ScreenRecord
<1> QED BY <1>1, <1>2, <1>3, <1>4

LEMMA LockoutType == \A n \in Nat : Lockout(n) \in Nat
BY PinLockAssumption DEF Lockout

LEMMA Minus1Type == \A n \in Nat : Minus1(n) \in Nat /\ Minus1(n) <= n
BY DEF Minus1

LEMMA LessIsStillLess == \A m, n \in Nat : m <= n => Minus1(m) <= Minus1(n) /\ Minus1(m) <= n
BY DEF Minus1

\* What a step of an entry does to the entries: one moves on, or ends, or all
\* that are under way lose their screen.
LEMMA JobTypes ==
    ASSUME job \in [Jobs -> JobRecord], NEW j \in Jobs
    PROVE  /\ \A at \in JobSteps : Goes(j, at) => job' \in [Jobs -> JobRecord]
           /\ Ends(j) => job' \in [Jobs -> JobRecord]
           /\ Orphaned(j) \in JobRecord
<1>1. ASSUME NEW at \in JobSteps, Goes(j, at) PROVE job' \in [Jobs -> JobRecord]
  <2>1. [job[j] EXCEPT !.at = at] \in JobRecord
    BY DEF JobRecord
  <2>2. job' = [job EXCEPT ![j] = [job[j] EXCEPT !.at = at]]
    BY <1>1 DEF Goes
  <2> QED BY <2>1, <2>2
<1>2. ASSUME Ends(j) PROVE job' \in [Jobs -> JobRecord]
  BY <1>2, RestTypes DEF Ends
<1>3. Orphaned(j) \in JobRecord
  <2>1. [job[j] EXCEPT !.here = FALSE] \in JobRecord
    BY DEF JobRecord
  <2> QED BY <2>1, RestTypes DEF Orphaned
<1> QED BY <1>1, <1>2, <1>3

LEMMA LedgerTypes ==
    ASSUME ledger \in LedgerRecord
    PROVE  /\ Works => ledger' = ledger
           /\ Fails => ledger' \in LedgerRecord
           /\ \A j \in Jobs : Wrong(j) => ledger' \in LedgerRecord
<1>1. Works => ledger' = ledger
  BY DEF Works
<1>2. Fails => ledger' \in LedgerRecord
  BY DEF Fails, LedgerRecord
<1>3. ASSUME NEW j \in Jobs, Wrong(j) PROVE ledger' \in LedgerRecord
  BY <1>3 DEF Wrong, LedgerRecord
<1> QED BY <1>1, <1>2, <1>3

\* Fields of both kinds written at once.
LEMMA LedgerWrites ==
    ASSUME ledger \in LedgerRecord, NEW n \in Nat, NEW t \in BOOLEAN
    PROVE  /\ [ledger EXCEPT !.kills = n, !.torn = t] \in LedgerRecord
           /\ [ledger EXCEPT !.faults = n, !.torn = t] \in LedgerRecord
BY Zenon DEF LedgerRecord

LEMMA TornLedger ==
    ledger \in LedgerRecord => [ledger EXCEPT !.faults = @ + 1, !.torn = TRUE] \in LedgerRecord
<1> SUFFICES ASSUME ledger \in LedgerRecord
             PROVE  [ledger EXCEPT !.faults = @ + 1, !.torn = TRUE] \in LedgerRecord
  OBVIOUS
<1>1. ledger.faults + 1 \in Nat
  BY DEF LedgerRecord
<1>2. TRUE \in BOOLEAN
  OBVIOUS
<1> QED BY <1>1, <1>2, LedgerWrites

\* A salt goes into the store and into the entry that will use it.
LEMMA SaltTaken ==
    ASSUME job \in [Jobs -> JobRecord], NEW j \in Jobs, NEW at \in JobSteps, NEW s \in Salts
    PROVE  [job EXCEPT ![j].at = at, ![j].salt = s] \in [Jobs -> JobRecord]
<1>1. [job[j] EXCEPT !.at = at, !.salt = s] \in JobRecord
  <2> HIDE DEF JobSteps, JobKinds, Hashes
  <2> QED BY DEF JobRecord
<1>2. [job EXCEPT ![j].at = at, ![j].salt = s]
        = [job EXCEPT ![j] = [job[j] EXCEPT !.at = at, !.salt = s]]
  OBVIOUS
<1> QED BY <1>1, <1>2

LEMMA HashWritten ==
    ASSUME store \in StoreRecord, job \in [Jobs -> JobRecord], NEW j \in Jobs
    PROVE  [store EXCEPT !.hash = Digest(job[j].pin, job[j].salt)] \in StoreRecord
<1>1. job[j].pin \in Pins \cup {NoPin} /\ job[j].salt \in Salts \cup {0}
  BY DEF JobRecord
<1>2. Digest(job[j].pin, job[j].salt) \in Hashes
  BY <1>1, DigestType
<1> HIDE DEF Digest, Hashes
<1> QED BY <1>2 DEF StoreRecord

LEMMA LockType ==
    ASSUME app \in AppRecord, screen \in ScreenRecord,
           NEW mode \in {"unlock", "setup", "change_pin"}, Lock(mode)
    PROVE  app' \in AppRecord /\ screen' \in ScreenRecord
<1>1. app' \in AppRecord
  BY DEF Lock, AppRecord
<1>2. [screen EXCEPT !.load = "lockout"] \in ScreenRecord
  BY DEF ScreenRecord
<1>3. Mounted(mode) \in ScreenRecord
  BY RestTypes
<1> QED BY <1>1, <1>2, <1>3 DEF Lock

LEMMA VerdictTypes ==
    ASSUME PinLockInv, NEW j \in Jobs
    PROVE  /\ Verified(j) => job' \in [Jobs -> JobRecord] /\ screen' \in ScreenRecord
           /\ Rejected(j) => job' \in [Jobs -> JobRecord]
<1>1. screen \in ScreenRecord /\ job \in [Jobs -> JobRecord]
  BY InvParts
<1>2. [screen EXCEPT !.step = "enter_new"] \in ScreenRecord
  BY <1>1 DEF ScreenRecord
<1>3. "clearAttempts" \in JobSteps /\ "readAttempts" \in JobSteps
  BY DEF JobSteps
<1>4. Verified(j) => job' \in [Jobs -> JobRecord] /\ screen' \in ScreenRecord
  BY <1>1, <1>2, <1>3, JobTypes DEF Verified
<1>5. Rejected(j) => job' \in [Jobs -> JobRecord]
  BY <1>1, <1>3, JobTypes DEF Rejected
<1> QED BY <1>4, <1>5

-----------------------------------------------------------------------------
(* The invariant of the lock.                                              *)

LEMMA LockInit == PinInit => PinLockInv
<1> SUFFICES ASSUME PinInit PROVE PinLockInv
  OBVIOUS
<1>1. \A p \in OldPins, s \in Salts : LegacyDigest(p, s) \in Hashes
  BY DigestType, PinLockAssumption
<1>2. store \in StoreRecord
  <2> HIDE DEF Hashes, NoHash
  <2>1. [lock |-> "unset", salt |-> 0, hash |-> NoHash, configured |-> FALSE,
         attempts |-> 0, until |-> 0] \in StoreRecord
    BY RestTypes DEF StoreRecord
  <2>2. ASSUME NEW p \in OldPins, NEW s \in Salts
        PROVE  [lock |-> "true", salt |-> s, hash |-> LegacyDigest(p, s),
                configured |-> TRUE, attempts |-> 0, until |-> 0] \in StoreRecord
    BY <1>1 DEF StoreRecord
  <2>3. \/ store = [lock |-> "unset", salt |-> 0, hash |-> NoHash, configured |-> FALSE,
                    attempts |-> 0, until |-> 0]
        \/ \E p \in OldPins, s \in Salts :
              store = [lock |-> "true", salt |-> s, hash |-> LegacyDigest(p, s),
                       configured |-> TRUE, attempts |-> 0, until |-> 0]
    BY Zenon DEF PinInit
  <2> QED BY <2>1, <2>2, <2>3, Zenon
<1>3. app \in AppRecord
  BY DEF PinInit, AppRecord
<1>4. screen \in ScreenRecord /\ job \in [Jobs -> JobRecord]
  BY RestTypes DEF PinInit
<1>5. ledger \in LedgerRecord
  BY DEF PinInit, LedgerRecord
<1> QED BY <1>2, <1>3, <1>4, <1>5, InvParts

\* The process, the clock and the app's own decisions.
LEMMA AppPreserves ==
    ASSUME PinLockInv, Launch \/ Background \/ Resume \/ Kill \/ CheckLock \/ Tick
    PROVE  PinLockInv'
<1>1. /\ store \in StoreRecord /\ app \in AppRecord /\ screen \in ScreenRecord
      /\ job \in [Jobs -> JobRecord] /\ ledger \in LedgerRecord
  BY InvParts
<1>2. ASSUME Launch \/ Background \/ Resume PROVE PinLockInv'
  <2>1. app' \in AppRecord
    <3>1. CASE Launch
      BY <1>1, <3>1 DEF Launch, AppRecord
    <3>3. CASE Background
      BY <1>1, <3>3 DEF Background, AppRecord
    <3>2. CASE Resume
      <4>1. \A c \in BOOLEAN : [app EXCEPT !.phase = "active", !.checking = c] \in AppRecord
        BY <1>1 DEF AppRecord
      <4>2. (app.checking \/ app.grace = 0) \in BOOLEAN
        BY Zenon
      <4> QED BY <3>2, <4>1, <4>2, Zenon DEF Resume
    <3> QED BY <1>2, <3>1, <3>2, <3>3
  <2>2. UNCHANGED <<store, screen, job, ledger>>
    BY <1>2 DEF Launch, Background, Resume
  <2> QED BY <1>1, <2>1, <2>2, NextParts
<1>3. CASE Kill
  <2>1. app' \in AppRecord
    BY <1>1, <1>3 DEF Kill, AppRecord
  <2>2. screen' \in ScreenRecord /\ job' \in [Jobs -> JobRecord] /\ store' \in StoreRecord
    BY <1>1, <1>3, RestTypes DEF Kill
  <2>3. ledger' \in LedgerRecord
    <3> DEFINE torn == ledger.torn \/ \E j \in Jobs : job[j].at \in {"setHash", "upHash"}
    <3>1. torn \in BOOLEAN
      BY Zenon
    <3>2. ledger' = [ledger EXCEPT !.kills = @ + 1, !.torn = torn]
      BY <1>3 DEF Kill
    <3>3. ledger.kills + 1 \in Nat
      BY <1>1 DEF LedgerRecord
    <3> HIDE DEF torn
    <3> QED BY <1>1, <3>1, <3>2, <3>3, LedgerWrites
  <2> QED BY <2>1, <2>2, <2>3, NextParts
<1>4. CASE CheckLock
  <2>1. app' \in AppRecord /\ screen' \in ScreenRecord
    <3>1. CASE Lock("unlock")
      BY <1>1, <3>1, LockType
    <3>2. CASE app' = [app EXCEPT !.checking = FALSE] /\ screen' = screen
      BY <1>1, <3>2 DEF AppRecord
    <3> QED BY <1>4, <3>1, <3>2 DEF CheckLock
  <2>2. ledger' \in LedgerRecord
    BY <1>1, <1>4, LedgerTypes DEF CheckLock
  <2>3. UNCHANGED <<store, job>>
    BY <1>4 DEF CheckLock
  <2> QED BY <1>1, <2>1, <2>2, <2>3, NextParts
<1>5. CASE Tick
  <2>1. store' \in StoreRecord
    <3> HIDE DEF Minus1
    <3> QED BY <1>1, <1>5, Minus1Type DEF Tick, StoreRecord
  <2>2. app' \in AppRecord
    <3> HIDE DEF Minus1
    <3> QED BY <1>1, <1>5, Minus1Type DEF Tick, AppRecord
  <2>3. screen' \in ScreenRecord
    <3> HIDE DEF Minus1
    <3> QED BY <1>1, <1>5, Minus1Type DEF Tick, ScreenRecord
  <2>4. UNCHANGED <<job, ledger>>
    BY <1>5 DEF Tick
  <2> QED BY <1>1, <2>1, <2>2, <2>3, <2>4, NextParts
<1> QED BY <1>2, <1>3, <1>4, <1>5

\* The lock screen's readings, and the switches that show it.
LEMMA ScreenPreserves ==
    ASSUME PinLockInv,
           Screen \/ Cancel \/ ChangePin \/ LockNow \/ \E on \in BOOLEAN : ToggleLock(on)
    PROVE  PinLockInv'
<1>1. /\ store \in StoreRecord /\ app \in AppRecord /\ screen \in ScreenRecord
      /\ job \in [Jobs -> JobRecord] /\ ledger \in LedgerRecord
  BY InvParts
<1>2. CASE ReadLockout
  <2>1. screen' \in ScreenRecord
    BY <1>1, <1>2 DEF ReadLockout, ScreenRecord, StoreRecord
  <2>2. ledger' \in LedgerRecord /\ UNCHANGED <<store, app, job>>
    BY <1>1, <1>2, LedgerTypes DEF ReadLockout
  <2> QED BY <1>1, <2>1, <2>2, NextParts
<1>3. CASE ReadConfigured
  <2>1. ASSUME NEW c \in BOOLEAN, Choose(c) PROVE screen' \in ScreenRecord
    <3>1. /\ [screen EXCEPT !.mode = "unlock", !.step = "unlock", !.load = "bio"] \in ScreenRecord
          /\ [screen EXCEPT !.mode = "change_pin", !.step = "enter_current", !.load = "done"]
                \in ScreenRecord
          /\ [screen EXCEPT !.mode = "setup", !.step = "enter_new", !.load = "done"]
                \in ScreenRecord
      BY <1>1 DEF ScreenRecord
    <3> QED BY <2>1, <3>1 DEF Choose
  <2>2. store.configured \in BOOLEAN
    BY <1>1 DEF StoreRecord
  <2>3. screen' \in ScreenRecord
    BY <1>3, <2>1, <2>2 DEF ReadConfigured
  <2>4. ledger' \in LedgerRecord /\ UNCHANGED <<store, app, job>>
    BY <1>1, <1>3, LedgerTypes DEF ReadConfigured
  <2> QED BY <1>1, <2>3, <2>4, NextParts
<1>4. CASE ReadBiometrics
  <2>1. screen' \in ScreenRecord
    BY <1>1, <1>4, PinLockAssumption DEF ReadBiometrics, ScreenRecord
  <2>2. UNCHANGED <<store, app, job, ledger>>
    BY <1>4 DEF ReadBiometrics
  <2> QED BY <1>1, <2>1, <2>2, NextParts
<1>5. CASE Cancel
  <2>1. app' \in AppRecord
    BY <1>1, <1>5 DEF Cancel, AppRecord
  <2>2. job' \in [Jobs -> JobRecord]
    BY <1>1, <1>5, JobTypes DEF Cancel
  <2>3. screen' \in ScreenRecord /\ UNCHANGED <<store, ledger>>
    BY <1>5, RestTypes DEF Cancel
  <2> QED BY <1>1, <2>1, <2>2, <2>3, NextParts
<1>6. ASSUME NEW seen \in BOOLEAN, PinSeen(seen) PROVE ledger' \in LedgerRecord
  BY <1>1, <1>6, LedgerTypes DEF PinSeen
<1>7. CASE ChangePin
  <2>1. PICK seen \in BOOLEAN : PinSeen(seen) /\ Lock(IF seen THEN "change_pin" ELSE "setup")
    BY <1>7 DEF ChangePin
  <2>2. app' \in AppRecord /\ screen' \in ScreenRecord
    BY <1>1, <2>1, LockType
  <2>3. UNCHANGED <<store, job>>
    BY <1>7 DEF ChangePin
  <2> QED BY <1>1, <1>6, <2>1, <2>2, <2>3, NextParts
<1>8. CASE LockNow
  <2>1. app' \in AppRecord /\ screen' \in ScreenRecord
    BY <1>1, <1>8, LockType DEF LockNow
  <2>2. UNCHANGED <<store, job, ledger>>
    BY <1>8 DEF LockNow
  <2> QED BY <1>1, <2>1, <2>2, NextParts
<1>9. ASSUME NEW on \in BOOLEAN, ToggleLock(on) PROVE PinLockInv'
  <2>1. PICK seen \in BOOLEAN :
            /\ PinSeen(seen)
            /\ \/ on /\ ~seen /\ Lock("setup") /\ UNCHANGED store
               \/ /\ store' = [store EXCEPT !.lock = IF on THEN "true" ELSE "false"]
                  /\ UNCHANGED <<app, screen>>
    BY <1>9 DEF ToggleLock
  <2>2. store' \in StoreRecord /\ app' \in AppRecord /\ screen' \in ScreenRecord
    <3>1. CASE Lock("setup") /\ UNCHANGED store
      BY <1>1, <3>1, LockType
    <3>2. CASE /\ store' = [store EXCEPT !.lock = IF on THEN "true" ELSE "false"]
               /\ UNCHANGED <<app, screen>>
      <4>1. [store EXCEPT !.lock = IF on THEN "true" ELSE "false"] \in StoreRecord
        BY <1>1 DEF StoreRecord
      <4> QED BY <1>1, <3>2, <4>1
    <3> QED BY <2>1, <3>1, <3>2
  <2>3. UNCHANGED job
    BY <1>9 DEF ToggleLock
  <2> QED BY <1>1, <1>6, <2>1, <2>2, <2>3, NextParts
<1> QED BY <1>2, <1>3, <1>4, <1>5, <1>7, <1>8, <1>9 DEF Screen

\* What people type.
LEMMA EntriesPreserve ==
    ASSUME PinLockInv, NEW j \in Jobs,
           Biometric(j) \/ \E pin \in Pins : Enter(j, pin)
    PROVE  PinLockInv'
<1>1. /\ store \in StoreRecord /\ app \in AppRecord /\ screen \in ScreenRecord
      /\ job \in [Jobs -> JobRecord] /\ ledger \in LedgerRecord
  BY InvParts
<1>2. ASSUME NEW kind \in JobKinds, NEW at \in JobSteps, NEW pin \in Pins \cup {NoPin},
             Begin(j, kind, at, pin)
      PROVE  job' \in [Jobs -> JobRecord] /\ ledger' \in LedgerRecord
  <2>1. [Idle EXCEPT !.kind = kind, !.at = at, !.pin = pin] \in JobRecord
    <3> HIDE DEF Idle, JobKinds, JobSteps, Hashes
    <3> QED BY RestTypes DEF JobRecord
  <2>2. job' = [job EXCEPT ![j] = [Idle EXCEPT !.kind = kind, !.at = at, !.pin = pin]]
    BY <1>2 DEF Begin
  <2>3. ledger' \in LedgerRecord
    <3>1. [ledger EXCEPT !.overlaps = IF Busy THEN @ + 1 ELSE @] \in LedgerRecord
      BY <1>1 DEF LedgerRecord
    <3> QED BY <1>2, <3>1 DEF Begin
  <2> QED BY <1>1, <2>1, <2>2, <2>3
<1>3. /\ {"readHash", "setSalt", "prompt"} \subseteq JobSteps
      /\ {"unlock", "current", "setup", "change_pin", "bio"} \subseteq JobKinds
  BY DEF JobSteps, JobKinds
<1>4. ASSUME NEW pin \in Pins, EnterToUnlock(j, pin) \/ EnterCurrent(j, pin)
      PROVE  PinLockInv'
  <2>1. job' \in [Jobs -> JobRecord] /\ ledger' \in LedgerRecord
    BY <1>2, <1>3, <1>4 DEF EnterToUnlock, EnterCurrent
  <2>2. UNCHANGED <<store, app, screen>>
    BY <1>4 DEF EnterToUnlock, EnterCurrent
  <2> QED BY <1>1, <2>1, <2>2, NextParts
<1>5. CASE Biometric(j)
  <2>1. job' \in [Jobs -> JobRecord] /\ ledger' \in LedgerRecord
    BY <1>2, <1>3, <1>5 DEF Biometric
  <2>2. UNCHANGED <<store, app, screen>>
    BY <1>5 DEF Biometric
  <2> QED BY <1>1, <2>1, <2>2, NextParts
<1>6. ASSUME NEW pin \in Pins, EnterNew(pin) PROVE PinLockInv'
  <2>1. screen' \in ScreenRecord
    BY <1>1, <1>6 DEF EnterNew, ScreenRecord
  <2>2. UNCHANGED <<store, app, job, ledger>>
    BY <1>6 DEF EnterNew
  <2> QED BY <1>1, <2>1, <2>2, NextParts
<1>7. ASSUME NEW pin \in Pins, ConfirmNew(j, pin) PROVE PinLockInv'
  <2>1. UNCHANGED <<store, app>>
    BY <1>7 DEF ConfirmNew
  <2>2. CASE Begin(j, screen.mode, "setSalt", pin) /\ UNCHANGED screen
    <3>1. screen.mode \in JobKinds
      BY <1>7 DEF ConfirmNew, JobKinds
    <3>2. job' \in [Jobs -> JobRecord] /\ ledger' \in LedgerRecord
      BY <1>2, <1>3, <2>2, <3>1
    <3> QED BY <1>1, <2>1, <2>2, <3>2, NextParts
  <2>3. CASE /\ ledger' = [ledger EXCEPT !.typos = @ + 1]
             /\ screen' = [screen EXCEPT !.first = NoPin, !.step = "enter_new"]
             /\ UNCHANGED job
    <3>1. ledger' \in LedgerRecord
      BY <1>1, <2>3 DEF LedgerRecord
    <3>2. screen' \in ScreenRecord
      BY <1>1, <2>3 DEF ScreenRecord
    <3> QED BY <1>1, <2>1, <2>3, <3>1, <3>2, NextParts
  <2> QED BY <1>7, <2>2, <2>3 DEF ConfirmNew
<1> QED BY <1>4, <1>5, <1>6, <1>7 DEF Enter

\* The steps that verify a PIN and upgrade the hash it was stored under.
LEMMA VerifyingPreserves ==
    ASSUME PinLockInv, NEW j \in Jobs,
           ReadHash(j) \/ ReadSalt(j) \/ UpgradeSalt(j) \/ UpgradeHash(j)
    PROVE  PinLockInv'
<1>1. /\ store \in StoreRecord /\ app \in AppRecord /\ screen \in ScreenRecord
      /\ job \in [Jobs -> JobRecord] /\ ledger \in LedgerRecord
  BY InvParts
<1>2. {"readSalt", "upSalt", "upHash"} \subseteq JobSteps
  BY DEF JobSteps
<1>3. CASE ReadHash(j)
  <2>1. UNCHANGED <<store, app, screen>>
    BY <1>3 DEF ReadHash
  <2>2. job' \in [Jobs -> JobRecord]
    <3>1. [job[j] EXCEPT !.at = "readSalt", !.hash = store.hash] \in JobRecord
      BY <1>1, <1>2 DEF JobRecord, StoreRecord
    <3>2. [job EXCEPT ![j].at = "readSalt", ![j].hash = store.hash]
            = [job EXCEPT ![j] = [job[j] EXCEPT !.at = "readSalt", !.hash = store.hash]]
      BY <1>1
    <3> QED BY <1>1, <1>3, <3>1, <3>2, VerdictTypes DEF ReadHash
  <2>3. ledger' \in LedgerRecord
    BY <1>1, <1>3, LedgerTypes DEF ReadHash
  <2> QED BY <1>1, <2>1, <2>2, <2>3, NextParts
<1>4. CASE ReadSalt(j)
  <2>1. UNCHANGED <<store, app>>
    BY <1>4 DEF ReadSalt
  <2>2. job' \in [Jobs -> JobRecord] /\ screen' \in ScreenRecord
    BY <1>1, <1>2, <1>4, VerdictTypes, JobTypes DEF ReadSalt
  <2>3. ledger' \in LedgerRecord
    BY <1>1, <1>4, LedgerTypes DEF ReadSalt
  <2> QED BY <1>1, <2>1, <2>2, <2>3, NextParts
<1>5. CASE UpgradeSalt(j)
  <2>1. UNCHANGED app
    BY <1>5 DEF UpgradeSalt
  <2>2. CASE Fails /\ Verified(j) /\ UNCHANGED store
    BY <1>1, <2>1, <2>2, VerdictTypes, LedgerTypes, NextParts
  <2>3. ASSUME NEW s \in Salts, Works, store' = [store EXCEPT !.salt = s],
               job' = [job EXCEPT ![j].at = "upHash", ![j].salt = s], UNCHANGED screen
        PROVE  PinLockInv'
    <3>1. store' \in StoreRecord
      BY <1>1, <2>3 DEF StoreRecord
    <3>2. job' \in [Jobs -> JobRecord]
      BY <1>1, <1>2, <2>3, SaltTaken
    <3> QED BY <1>1, <2>1, <2>3, <3>1, <3>2, LedgerTypes, NextParts
  <2> QED BY <1>5, <2>2, <2>3 DEF UpgradeSalt
<1>6. CASE UpgradeHash(j)
  <2>1. UNCHANGED app /\ job' \in [Jobs -> JobRecord] /\ screen' \in ScreenRecord
    BY <1>6, VerdictTypes DEF UpgradeHash
  <2>2. CASE Works /\ store' = [store EXCEPT !.hash = Digest(job[j].pin, job[j].salt)]
    <3>1. store' \in StoreRecord
      BY <1>1, <2>2, HashWritten
    <3> QED BY <1>1, <2>1, <2>2, <3>1, LedgerTypes, NextParts
  <2>3. CASE /\ ledger' = [ledger EXCEPT !.faults = @ + 1, !.torn = TRUE]
             /\ UNCHANGED store
    <3>1. ledger' \in LedgerRecord
      BY <1>1, <2>3, TornLedger
    <3> QED BY <1>1, <2>1, <2>3, <3>1, NextParts
  <2> QED BY <1>6, <2>2, <2>3 DEF UpgradeHash
<1> QED BY <1>3, <1>4, <1>5, <1>6

\* The steps that count a wrong PIN.
LEMMA CountingPreserves ==
    ASSUME PinLockInv, NEW j \in Jobs,
           ReadAttempts(j) \/ WriteAttempts(j) \/ WriteLockout(j)
    PROVE  PinLockInv'
<1>1. /\ store \in StoreRecord /\ app \in AppRecord /\ screen \in ScreenRecord
      /\ job \in [Jobs -> JobRecord] /\ ledger \in LedgerRecord
  BY InvParts
<1>2. {"writeAttempts", "writeLockout"} \subseteq JobSteps
  BY DEF JobSteps
<1>3. job[j].count \in Nat /\ Lockout(job[j].count) \in Nat
  <2>1. job[j].count \in Nat
    BY <1>1 DEF JobRecord
  <2> QED BY <2>1, LockoutType
<1>4. CASE ReadAttempts(j)
  <2>1. UNCHANGED <<store, app, screen>> /\ ledger' \in LedgerRecord
    BY <1>1, <1>4, LedgerTypes DEF ReadAttempts
  <2>2. job' \in [Jobs -> JobRecord]
    <3>1. [job[j] EXCEPT !.at = "writeAttempts", !.count = store.attempts + 1] \in JobRecord
      <4>1. store.attempts + 1 \in Nat
        BY <1>1 DEF StoreRecord
      <4>2. ASSUME NEW n \in Nat
            PROVE  [job[j] EXCEPT !.at = "writeAttempts", !.count = n] \in JobRecord
        <5> HIDE DEF JobSteps, JobKinds, Hashes
        <5> QED BY <1>1, <1>2 DEF JobRecord
      <4> QED BY <4>1, <4>2
    <3>2. [job EXCEPT ![j].at = "writeAttempts", ![j].count = store.attempts + 1]
            = [job EXCEPT ![j] = [job[j] EXCEPT !.at = "writeAttempts",
                                                !.count = store.attempts + 1]]
      BY <1>1
    <3> QED BY <1>1, <1>4, <3>1, <3>2, JobTypes DEF ReadAttempts
  <2> QED BY <1>1, <2>1, <2>2, NextParts
<1>5. CASE WriteAttempts(j)
  <2>1. UNCHANGED <<app, screen>> /\ ledger' \in LedgerRecord
    BY <1>1, <1>5, LedgerTypes DEF WriteAttempts
  <2>2. job' \in [Jobs -> JobRecord]
    BY <1>1, <1>2, <1>5, JobTypes DEF WriteAttempts
  <2>3. store' \in StoreRecord
    BY <1>1, <1>3, <1>5 DEF WriteAttempts, StoreRecord
  <2> QED BY <1>1, <2>1, <2>2, <2>3, NextParts
<1>6. CASE WriteLockout(j)
  <2>1. UNCHANGED app /\ ledger' \in LedgerRecord /\ job' \in [Jobs -> JobRecord]
    BY <1>1, <1>6, LedgerTypes, JobTypes DEF WriteLockout
  <2>2. store' \in StoreRecord
    <3> HIDE DEF Lockout
    <3> QED BY <1>1, <1>3, <1>6 DEF WriteLockout, StoreRecord
  <2>3. screen' \in ScreenRecord
    <3> HIDE DEF Lockout
    <3> QED BY <1>1, <1>3, <1>6 DEF WriteLockout, ScreenRecord
  <2> QED BY <1>1, <2>1, <2>2, <2>3, NextParts
<1> QED BY <1>4, <1>5, <1>6

\* The steps that store a PIN, clear the count and open.
LEMMA StoringPreserves ==
    ASSUME PinLockInv, NEW j \in Jobs,
           \/ SetSalt(j) \/ SetHash(j) \/ SetConfigured(j)
           \/ ClearAttempts(j) \/ ClearLockout(j) \/ SetLock(j) \/ Open(j)
    PROVE  PinLockInv'
<1>1. /\ store \in StoreRecord /\ app \in AppRecord /\ screen \in ScreenRecord
      /\ job \in [Jobs -> JobRecord] /\ ledger \in LedgerRecord
  BY InvParts
<1>2. /\ {"setHash", "setConfigured", "clearAttempts", "clearLockout", "open"} \subseteq JobSteps
      /\ AfterClearing(j) \in JobSteps
  BY DEF JobSteps, AfterClearing
<1>3. CASE SetSalt(j)
  <2>1. UNCHANGED <<app, screen>>
    BY <1>3 DEF SetSalt
  <2>2. CASE Fails /\ Ends(j) /\ UNCHANGED store
    BY <1>1, <2>1, <2>2, JobTypes, LedgerTypes, NextParts
  <2>3. ASSUME NEW s \in Salts, Works, store' = [store EXCEPT !.salt = s],
               job' = [job EXCEPT ![j].at = "setHash", ![j].salt = s]
        PROVE  PinLockInv'
    <3>1. store' \in StoreRecord
      BY <1>1, <2>3 DEF StoreRecord
    <3>2. job' \in [Jobs -> JobRecord]
      BY <1>1, <1>2, <2>3, SaltTaken
    <3> QED BY <1>1, <2>1, <2>3, <3>1, <3>2, LedgerTypes, NextParts
  <2> QED BY <1>3, <2>2, <2>3 DEF SetSalt
<1>4. CASE SetHash(j)
  <2>1. UNCHANGED <<app, screen>> /\ job' \in [Jobs -> JobRecord]
    BY <1>1, <1>2, <1>4, JobTypes DEF SetHash
  <2>2. CASE Works /\ store' = [store EXCEPT !.hash = Digest(job[j].pin, job[j].salt)]
    <3>1. store' \in StoreRecord
      BY <1>1, <2>2, HashWritten
    <3> QED BY <1>1, <2>1, <2>2, <3>1, LedgerTypes, NextParts
  <2>3. CASE /\ ledger' = [ledger EXCEPT !.faults = @ + 1, !.torn = TRUE]
             /\ UNCHANGED store
    <3>1. ledger' \in LedgerRecord
      BY <1>1, <2>3, TornLedger
    <3> QED BY <1>1, <2>1, <2>3, <3>1, NextParts
  <2> QED BY <1>4, <2>2, <2>3 DEF SetHash
<1>5. ASSUME SetConfigured(j) \/ ClearAttempts(j) \/ ClearLockout(j) \/ SetLock(j)
      PROVE  PinLockInv'
  <2>1. UNCHANGED <<app, screen>>
    BY <1>5 DEF SetConfigured, ClearAttempts, ClearLockout, SetLock
  <2>2. job' \in [Jobs -> JobRecord]
    BY <1>1, <1>2, <1>5, JobTypes DEF SetConfigured, ClearAttempts, ClearLockout, SetLock
  <2>3. store' \in StoreRecord
    <3>1. CASE SetConfigured(j)
      BY <1>1, <3>1 DEF SetConfigured, StoreRecord
    <3>2. CASE ClearAttempts(j)
      BY <1>1, <3>2 DEF ClearAttempts, StoreRecord
    <3>3. CASE ClearLockout(j)
      BY <1>1, <3>3 DEF ClearLockout, StoreRecord
    <3>4. CASE SetLock(j)
      BY <1>1, <3>4 DEF SetLock, StoreRecord
    <3> QED BY <1>5, <3>1, <3>2, <3>3, <3>4
  <2>4. ledger' \in LedgerRecord
    <3>1. CASE ClearAttempts(j)
      <4>1. [ledger EXCEPT !.tried = 0] \in LedgerRecord
        BY <1>1 DEF LedgerRecord
      <4> QED BY <1>1, <3>1, <4>1, LedgerTypes DEF ClearAttempts
    <3>2. CASE SetConfigured(j) \/ ClearLockout(j) \/ SetLock(j)
      BY <1>1, <3>2, LedgerTypes DEF SetConfigured, ClearLockout, SetLock
    <3> QED BY <1>5, <3>1, <3>2
  <2> QED BY <1>1, <2>1, <2>2, <2>3, <2>4, NextParts
<1>6. CASE Open(j)
  <2>1. app' \in AppRecord
    BY <1>1, <1>6, PinLockAssumption DEF Open, AppRecord
  <2>2. job' \in [Jobs -> JobRecord]
    BY <1>1, <1>6, JobTypes, RestTypes DEF Open
  <2>3. screen' \in ScreenRecord /\ UNCHANGED <<store, ledger>>
    BY <1>6, RestTypes DEF Open
  <2> QED BY <1>1, <2>1, <2>2, <2>3, NextParts
<1> QED BY <1>3, <1>4, <1>5, <1>6

LEMMA PinNextPreserves == PinLockInv /\ [PinNext]_pinVars => PinLockInv'
<1>1. ASSUME PinLockInv, PinNext PROVE PinLockInv'
  <2>1. ASSUME NEW j \in Jobs, Step(j) PROVE PinLockInv'
    <3>1. CASE Prompted(j)
      <4>1. job' \in [Jobs -> JobRecord] /\ UNCHANGED <<store, app, screen, ledger>>
        BY <1>1, <3>1, InvParts, JobTypes DEF Prompted, JobSteps
      <4> QED BY <1>1, <4>1, InvParts, NextParts
    <3> QED BY <1>1, <2>1, <3>1, VerifyingPreserves, CountingPreserves, StoringPreserves DEF Step
  <2>2. ASSUME NEW j \in Jobs, Biometric(j) \/ \E pin \in Pins : Enter(j, pin)
        PROVE  PinLockInv'
    BY <1>1, <2>2, EntriesPreserve
  <2> QED BY <1>1, <2>1, <2>2, AppPreserves, ScreenPreserves DEF PinNext
<1>2. ASSUME PinLockInv, UNCHANGED pinVars PROVE PinLockInv'
  BY <1>2, InvParts, NextParts DEF pinVars
<1> QED BY <1>1, <1>2

\* The store, the app and every entry under way stay what the code writes: the
\* proofs below rest on it, and MCPinLock checks it on its instance.
THEOREM LockInvariant == PinSpec => []PinLockInv
<1>1. PinInit => PinLockInv
  BY LockInit
<1>2. PinLockInv /\ [PinNext]_pinVars => PinLockInv'
  BY PinNextPreserves
<1> QED BY <1>1, <1>2, PTL DEF PinSpec

-----------------------------------------------------------------------------
(* What is remembered of faults and overlaps, and who moves.               *)

\* The history only grows.
Grown ==
    /\ ledger.overlaps <= ledger'.overlaps
    /\ ledger.faults <= ledger'.faults
    /\ ledger.torn => ledger'.torn

LEMMA LedgerShapes ==
    ASSUME ledger \in LedgerRecord
    PROVE  /\ Works => Grown
           /\ Fails => Grown /\ ledger'.faults > 0
           /\ \A j \in Jobs : Wrong(j) => Grown
           /\ ledger' = [ledger EXCEPT !.tried = 0] => Grown
           /\ ledger' = [ledger EXCEPT !.typos = @ + 1] => Grown
           /\ ledger' = [ledger EXCEPT !.overlaps = IF Busy THEN @ + 1 ELSE @] => Grown
           /\ ledger' = [ledger EXCEPT !.faults = @ + 1, !.torn = TRUE]
                 => Grown /\ ledger'.torn /\ ledger'.faults > 0
           /\ \A t \in BOOLEAN : (ledger.torn => t) =>
                 (ledger' = [ledger EXCEPT !.kills = @ + 1, !.torn = t]
                    => Grown /\ ledger'.torn = t)
<1>1. /\ ledger.overlaps \in Nat /\ ledger.faults \in Nat /\ ledger.typos \in Nat
      /\ ledger.kills \in Nat /\ ledger.tried \in Nat /\ ledger.torn \in BOOLEAN
  BY DEF LedgerRecord
<1>2. Works => Grown
  BY <1>1 DEF Works, Grown
<1>3. Fails => Grown /\ ledger'.faults > 0
  BY <1>1 DEF Fails, Grown, LedgerRecord
<1>4. \A j \in Jobs : Wrong(j) => Grown
  BY <1>1 DEF Wrong, Grown, LedgerRecord
<1>5. ledger' = [ledger EXCEPT !.tried = 0] => Grown
  BY <1>1 DEF Grown, LedgerRecord
<1>6. ledger' = [ledger EXCEPT !.typos = @ + 1] => Grown
  BY <1>1 DEF Grown, LedgerRecord
<1>7. ledger' = [ledger EXCEPT !.overlaps = IF Busy THEN @ + 1 ELSE @] => Grown
  BY <1>1 DEF Grown, LedgerRecord
<1>8. ASSUME ledger' = [ledger EXCEPT !.faults = @ + 1, !.torn = TRUE]
      PROVE  Grown /\ ledger'.torn /\ ledger'.faults > 0
  <2>1. ledger'.torn
    BY <1>8, Zenon DEF LedgerRecord
  <2>2. ledger'.faults = ledger.faults + 1 /\ ledger'.overlaps = ledger.overlaps
    BY <1>8, Zenon DEF LedgerRecord
  <2> QED BY <1>1, <2>1, <2>2 DEF Grown
<1>9. ASSUME NEW t \in BOOLEAN, ledger.torn => t,
             ledger' = [ledger EXCEPT !.kills = @ + 1, !.torn = t]
      PROVE  Grown /\ ledger'.torn = t
  <2>1. ledger'.torn = t
    BY <1>9, Zenon DEF LedgerRecord
  <2>2. ledger'.faults = ledger.faults /\ ledger'.overlaps = ledger.overlaps
    BY <1>9, Zenon DEF LedgerRecord
  <2> QED BY <1>1, <1>9, <2>1, <2>2 DEF Grown
<1> QED BY <1>2, <1>3, <1>4, <1>5, <1>6, <1>7, <1>8, <1>9

LEMMA NextGrows == ASSUME PinLockInv, PinNext PROVE Grown
<1>1. ledger \in LedgerRecord
  BY InvParts
<1>2. ASSUME UNCHANGED ledger PROVE Grown
  BY <1>1, <1>2, LedgerShapes DEF Works
<1>3. CASE Launch \/ Background \/ Resume \/ Tick \/ ReadBiometrics \/ Cancel \/ LockNow
  BY <1>2, <1>3 DEF Launch, Background, Resume, Tick, ReadBiometrics, Cancel, LockNow
<1>4. CASE Kill
  <2> DEFINE torn == ledger.torn \/ \E j \in Jobs : job[j].at \in {"setHash", "upHash"}
  <2>1. torn \in BOOLEAN /\ (ledger.torn => torn)
    BY Zenon
  <2>2. ledger' = [ledger EXCEPT !.kills = @ + 1, !.torn = torn]
    BY <1>4 DEF Kill
  <2> HIDE DEF torn
  <2> QED BY <1>1, <2>1, <2>2, LedgerShapes
<1>5. CASE CheckLock \/ ReadLockout \/ ReadConfigured \/ ChangePin
  BY <1>1, <1>5, LedgerShapes DEF CheckLock, ReadLockout, ReadConfigured, ChangePin, PinSeen
<1>6. ASSUME NEW on \in BOOLEAN, ToggleLock(on) PROVE Grown
  BY <1>1, <1>6, LedgerShapes DEF ToggleLock, PinSeen
<1>7. ASSUME NEW j \in Jobs, Step(j) PROVE Grown
  <2>1. CASE ReadHash(j) \/ ReadSalt(j) \/ UpgradeSalt(j) \/ ReadAttempts(j) \/ WriteAttempts(j)
    BY <1>1, <2>1, LedgerShapes
       DEF ReadHash, ReadSalt, UpgradeSalt, ReadAttempts, WriteAttempts
  <2>2. CASE UpgradeHash(j) \/ SetHash(j)
    BY <1>1, <2>2, LedgerShapes DEF UpgradeHash, SetHash
  <2>3. CASE WriteLockout(j) \/ SetSalt(j) \/ SetConfigured(j) \/ ClearLockout(j) \/ SetLock(j)
    BY <1>1, <2>3, LedgerShapes DEF WriteLockout, SetSalt, SetConfigured, ClearLockout, SetLock
  <2>4. CASE ClearAttempts(j) \/ Open(j)
    BY <1>1, <1>2, <2>4, LedgerShapes DEF ClearAttempts, Open
  <2>5. CASE Prompted(j)
    BY <1>2, <2>5 DEF Prompted
  <2> QED BY <1>7, <2>1, <2>2, <2>3, <2>4, <2>5 DEF Step
<1>8. ASSUME NEW j \in Jobs, Biometric(j) \/ \E pin \in Pins : Enter(j, pin) PROVE Grown
  BY <1>1, <1>2, <1>8, LedgerShapes
     DEF Biometric, Enter, EnterToUnlock, EnterCurrent, EnterNew, ConfirmNew, Begin
<1> QED BY <1>3, <1>4, <1>5, <1>6, <1>7, <1>8 DEF PinNext, Screen

\* A step of an entry leaves the other entries and the app alone, until the
\* app opens.
LEMMA StepFrame ==
    ASSUME PinLockInv, NEW j \in Jobs, Step(j)
    PROVE  /\ job[j] # Idle /\ app.phase # "dead"
           /\ ~Open(j) => app' = app /\ \A k \in Jobs : k # j => job'[k] = job[k]
<1>1. job \in [Jobs -> JobRecord]
  BY InvParts
<1>2. job[j].at # "idle" /\ app.phase # "dead"
  BY DEF Step, Prompted, ReadHash, ReadSalt, UpgradeSalt, UpgradeHash, ReadAttempts, WriteAttempts,
         WriteLockout, SetSalt, SetHash, SetConfigured, ClearAttempts, ClearLockout, SetLock,
         Open, Running
<1>3. job[j] # Idle
  BY <1>2, RestTypes
<1>4. (\E at \in JobSteps : Goes(j, at)) \/ Ends(j) => \A k \in Jobs : k # j => job'[k] = job[k]
  BY <1>1 DEF Goes, Ends
<1>5. Verified(j) \/ Rejected(j) => \A k \in Jobs : k # j => job'[k] = job[k]
  BY <1>1 DEF Verified, Rejected, Goes, Ends
<1>6. ASSUME ~Open(j) PROVE app' = app /\ \A k \in Jobs : k # j => job'[k] = job[k]
  <2>1. CASE ReadHash(j) \/ ReadSalt(j) \/ UpgradeSalt(j) \/ UpgradeHash(j)
    BY <1>1, <1>5, <2>1 DEF ReadHash, ReadSalt, UpgradeSalt, UpgradeHash, Goes
  <2>2. CASE ReadAttempts(j) \/ WriteAttempts(j) \/ WriteLockout(j)
    BY <1>1, <2>2 DEF ReadAttempts, WriteAttempts, WriteLockout, Goes, Ends
  <2>3. CASE SetSalt(j) \/ SetHash(j) \/ SetConfigured(j)
    BY <1>1, <2>3 DEF SetSalt, SetHash, SetConfigured, Goes, Ends
  <2>4. CASE ClearAttempts(j) \/ ClearLockout(j) \/ SetLock(j)
    BY <1>1, <2>4 DEF ClearAttempts, ClearLockout, SetLock, Goes
  <2>5. CASE Prompted(j)
    BY <1>4, <2>5 DEF Prompted, JobSteps
  <2> QED BY <1>6, <2>1, <2>2, <2>3, <2>4, <2>5 DEF Step
<1> QED BY <1>2, <1>3, <1>6

\* What the other actions do to the entries: one begins, all are dropped, or
\* their screen goes.
LEMMA OtherFrame ==
    ASSUME PinLockInv, PinNext, \A j \in Jobs : ~Step(j)
    PROVE  /\ store'.salt = store.salt /\ store'.hash = store.hash
           /\ \/ job' = job \/ Kill \/ Cancel
              \/ \E j \in Jobs, kind \in JobKinds, pin \in Pins \cup {NoPin},
                    at \in {"readHash", "setSalt", "prompt"} : Begin(j, kind, at, pin)
<1>1. store \in StoreRecord
  BY InvParts
<1> DEFINE Same == store'.salt = store.salt /\ store'.hash = store.hash
           Begun == \E j \in Jobs, kind \in JobKinds, pin \in Pins \cup {NoPin},
                       at \in {"readHash", "setSalt", "prompt"} : Begin(j, kind, at, pin)
<1>2. CASE Launch \/ Background \/ Resume \/ CheckLock \/ ReadLockout \/ ReadConfigured
           \/ ReadBiometrics \/ ChangePin \/ LockNow
  BY <1>2 DEF Launch, Background, Resume, CheckLock, ReadLockout, ReadConfigured,
              ReadBiometrics, ChangePin, LockNow
<1>3. CASE Kill \/ Cancel
  BY <1>3 DEF Kill, Cancel
<1>4. CASE Tick
  BY <1>1, <1>4 DEF Tick, StoreRecord
<1>5. ASSUME NEW on \in BOOLEAN, ToggleLock(on) PROVE Same /\ job' = job
  BY <1>1, <1>5 DEF ToggleLock, StoreRecord
<1>6. ASSUME NEW j \in Jobs, NEW pin \in Pins, Enter(j, pin) PROVE Same /\ (job' = job \/ Begun)
  <2>1. CASE EnterToUnlock(j, pin)
    <3>1. Begin(j, "unlock", "readHash", pin) /\ UNCHANGED store
      BY <2>1 DEF EnterToUnlock
    <3> QED BY <3>1 DEF JobKinds
  <2>2. CASE EnterCurrent(j, pin)
    <3>1. Begin(j, "current", "readHash", pin) /\ UNCHANGED store
      BY <2>2 DEF EnterCurrent
    <3> QED BY <3>1 DEF JobKinds
  <2>3. CASE EnterNew(pin)
    BY <2>3 DEF EnterNew
  <2>4. CASE ConfirmNew(j, pin)
    <3>1. CASE Begin(j, screen.mode, "setSalt", pin)
      <4>1. screen.mode \in JobKinds /\ UNCHANGED store
        BY <2>4 DEF ConfirmNew, JobKinds
      <4> QED BY <3>1, <4>1
    <3>2. CASE UNCHANGED job
      BY <2>4, <3>2 DEF ConfirmNew
    <3> QED BY <2>4, <3>1, <3>2 DEF ConfirmNew
  <2> QED BY <1>6, <2>1, <2>2, <2>3, <2>4 DEF Enter
<1>7. ASSUME NEW j \in Jobs, Biometric(j) PROVE Same /\ Begun
  <2>1. Begin(j, "bio", "prompt", NoPin) /\ UNCHANGED store
    BY <1>7 DEF Biometric
  <2> QED BY <2>1 DEF JobKinds
<1> QED BY <1>2, <1>3, <1>4, <1>5, <1>6, <1>7 DEF PinNext, Screen

-----------------------------------------------------------------------------
(* The owner is never shut out.                                            *)

\* As long as no two entries have overlapped, one at most is under way,
Alone ==
    ledger.overlaps = 0 =>
        \A j, k \in Jobs : job[j] # Idle /\ job[k] # Idle => j = k

\* and the salt it computes its hash from is the one it has stored.
SaltIsStored ==
    ledger.overlaps = 0 =>
        \A j \in Jobs : job[j].at \in {"setHash", "upHash"} => job[j].salt = store.salt

EnterableInv == PinLockInv /\ Alone /\ SaltIsStored /\ OwnerNeverShutOut

LEMMA Begins ==
    ASSUME PinLockInv, NEW j \in Jobs, NEW kind, NEW at, NEW pin, Begin(j, kind, at, pin)
    PROVE  /\ job[j] = Idle /\ job'[j].at = at /\ job'[j].kind = kind /\ job'[j].here = TRUE
           /\ \A k \in Jobs : k # j => job'[k] = job[k]
           /\ ledger'.overlaps = 0 => \A k \in Jobs : job[k] = Idle
<1>1. job \in [Jobs -> JobRecord] /\ ledger \in LedgerRecord
  BY InvParts
<1>2. job' = [job EXCEPT ![j] = [Idle EXCEPT !.kind = kind, !.at = at, !.pin = pin]]
  BY DEF Begin
<1>3. [Idle EXCEPT !.kind = kind, !.at = at, !.pin = pin].at = at
      /\ [Idle EXCEPT !.kind = kind, !.at = at, !.pin = pin].kind = kind
      /\ [Idle EXCEPT !.kind = kind, !.at = at, !.pin = pin].here = TRUE
  BY DEF Idle
<1>4. job'[j] = [Idle EXCEPT !.kind = kind, !.at = at, !.pin = pin]
      /\ \A k \in Jobs : k # j => job'[k] = job[k]
  BY <1>1, <1>2
<1>5. ledger'.overlaps = 0 => ~Busy
  BY <1>1 DEF Begin, LedgerRecord
<1> QED BY <1>3, <1>4, <1>5 DEF Begin, Busy

LEMMA Orphans ==
    ASSUME job \in [Jobs -> JobRecord], NEW j \in Jobs
    PROVE  /\ Orphaned(j) = Idle <=> job[j] = Idle
           /\ Orphaned(j).at = job[j].at /\ Orphaned(j).kind = job[j].kind
           /\ Orphaned(j).salt = job[j].salt
<1>1. job[j] # Idle => /\ Orphaned(j).at = job[j].at /\ Orphaned(j).kind = job[j].kind
                      /\ Orphaned(j).salt = job[j].salt /\ Orphaned(j).here = FALSE
  BY DEF Orphaned, JobRecord
<1>2. job[j] = Idle => Orphaned(j) = Idle
  BY DEF Orphaned
<1> QED BY <1>1, <1>2, RestTypes

LEMMA AloneNext == ASSUME PinLockInv, Alone, PinNext PROVE Alone'
<1> SUFFICES ASSUME ledger'.overlaps = 0, NEW i \in Jobs, NEW k \in Jobs,
                    job'[i] # Idle, job'[k] # Idle
             PROVE  i = k
  BY DEF Alone
<1>1. job \in [Jobs -> JobRecord] /\ ledger \in LedgerRecord
  BY InvParts
<1>2. ledger.overlaps = 0
  BY <1>1, NextGrows DEF Grown, LedgerRecord
<1>3. \A a, b \in Jobs : job[a] # Idle /\ job[b] # Idle => a = b
  BY <1>2 DEF Alone
<1>4. ASSUME NEW j \in Jobs, Step(j), ~Open(j) PROVE i = k
  BY <1>3, <1>4, StepFrame
<1>5. ASSUME NEW j \in Jobs, Open(j) PROVE i = k
  <2>1. i # j /\ k # j /\ job'[i] = Orphaned(i) /\ job'[k] = Orphaned(k)
    BY <1>5 DEF Open
  <2> QED BY <1>1, <1>3, <2>1, Orphans
<1>6. CASE \A j \in Jobs : ~Step(j)
  <2>1. CASE job' = job
    BY <1>3, <2>1
  <2>2. CASE Kill
    BY <2>2 DEF Kill
  <2>3. CASE Cancel
    <3>1. job'[i] = Orphaned(i) /\ job'[k] = Orphaned(k)
      BY <2>3 DEF Cancel
    <3> QED BY <1>1, <1>3, <3>1, Orphans
  <2>4. ASSUME NEW j \in Jobs, NEW kind \in JobKinds, NEW pin \in Pins \cup {NoPin},
               NEW at \in {"readHash", "setSalt", "prompt"}, Begin(j, kind, at, pin)
        PROVE  i = k
    BY <2>4, Begins
  <2> QED BY <1>6, <2>1, <2>2, <2>3, <2>4, OtherFrame
<1> QED BY <1>4, <1>5, <1>6

\* Where a step leaves the entry that made it, and what it writes for the PIN.
LEMMA SaltSteps ==
    ASSUME PinLockInv, NEW j \in Jobs, Step(j)
    PROVE  \/ /\ job'[j].at \in {"setHash", "upHash"} /\ job'[j].salt = store'.salt
           \/ /\ job'[j].at \notin {"setHash", "upHash"}
              /\ \/ /\ job[j].at \in {"setHash", "upHash"}
                    /\ \/ ledger'.torn
                       \/ store'.hash.salt = job[j].salt /\ store'.salt = store.salt
                 \/ /\ job[j].at \notin {"setHash", "upHash"}
                    /\ store'.salt = store.salt /\ store'.hash = store.hash
<1> DEFINE Writes == {"setHash", "upHash"}
           Took == job'[j].at \in Writes /\ job'[j].salt = store'.salt
           Wrote == /\ job'[j].at \notin Writes /\ job[j].at \in Writes
                    /\ \/ ledger'.torn
                       \/ store'.hash.salt = job[j].salt /\ store'.salt = store.salt
           Kept == /\ job'[j].at \notin Writes /\ job[j].at \notin Writes
                   /\ store'.salt = store.salt /\ store'.hash = store.hash
<1>1. job \in [Jobs -> JobRecord] /\ store \in StoreRecord /\ ledger \in LedgerRecord
  BY InvParts
<1>2. \A at \in JobSteps : Goes(j, at) => job'[j].at = at
  BY <1>1 DEF Goes, JobRecord
<1>3. Ends(j) => job'[j].at = "idle"
  BY <1>1, RestTypes DEF Ends
<1>4. {"clearAttempts", "readAttempts", "readSalt", "upSalt", "clearLockout", "setConfigured",
       "writeLockout", "setLock", "open"} \subseteq JobSteps
  BY DEF JobSteps
<1>5. Verified(j) \/ Rejected(j) => job'[j].at \notin Writes
  BY <1>2, <1>3, <1>4 DEF Verified, Rejected
<1>6. ASSUME NEW s \in Salts, NEW at \in Writes, store' = [store EXCEPT !.salt = s],
             job' = [job EXCEPT ![j].at = at, ![j].salt = s]
      PROVE  Took
  BY <1>1, <1>6 DEF JobRecord, StoreRecord
<1>7. CASE ReadHash(j)
  <2>1. [job EXCEPT ![j].at = "readSalt", ![j].hash = store.hash][j].at = "readSalt"
    BY <1>1 DEF JobRecord
  <2> QED BY <1>5, <1>7, <2>1 DEF ReadHash, Running
<1>8. CASE ReadSalt(j)
  BY <1>2, <1>4, <1>5, <1>8 DEF ReadSalt, Running
<1>9. CASE UpgradeSalt(j)
  BY <1>5, <1>6, <1>9 DEF UpgradeSalt, Running
<1>10. ASSUME store' = [store EXCEPT !.hash = Digest(job[j].pin, job[j].salt)]
       PROVE  store'.hash.salt = job[j].salt /\ store'.salt = store.salt
  <2>1. Digest(job[j].pin, job[j].salt).salt = job[j].salt
    BY DEF Digest
  <2> HIDE DEF Digest
  <2> QED BY <1>1, <1>10, <2>1 DEF StoreRecord
<1>11. CASE UpgradeHash(j) \/ SetHash(j)
  <2>1. job'[j].at \notin Writes /\ job[j].at \in Writes
    BY <1>2, <1>3, <1>4, <1>5, <1>11 DEF UpgradeHash, SetHash, Running
  <2> QED BY <1>1, <1>10, <1>11, <2>1, LedgerShapes DEF UpgradeHash, SetHash
<1>12. CASE ReadAttempts(j)
  <2>1. [job EXCEPT ![j].at = "writeAttempts", ![j].count = store.attempts + 1][j].at
          = "writeAttempts"
    BY <1>1 DEF JobRecord
  <2> QED BY <1>3, <1>12, <2>1 DEF ReadAttempts, Running
<1>13. CASE WriteAttempts(j) \/ WriteLockout(j)
  <2>1. store'.salt = store.salt /\ store'.hash = store.hash
    BY <1>1, <1>13 DEF WriteAttempts, WriteLockout, StoreRecord
  <2> QED BY <1>2, <1>3, <1>4, <1>13, <2>1 DEF WriteAttempts, WriteLockout, Running
<1>14. CASE SetSalt(j)
  BY <1>3, <1>6, <1>14 DEF SetSalt, Running
<1>15. CASE SetConfigured(j) \/ ClearAttempts(j) \/ ClearLockout(j) \/ SetLock(j)
  <2>1. store'.salt = store.salt /\ store'.hash = store.hash
    BY <1>1, <1>15 DEF SetConfigured, ClearAttempts, ClearLockout, SetLock, StoreRecord
  <2> QED BY <1>2, <1>3, <1>4, <1>15, <2>1
          DEF SetConfigured, ClearAttempts, ClearLockout, SetLock, AfterClearing, Running
<1>16. CASE Open(j)
  BY <1>16, RestTypes DEF Open, Running
<1>17. CASE Prompted(j)
  BY <1>2, <1>3, <1>4, <1>17 DEF Prompted, Running
<1> QED BY <1>7, <1>8, <1>9, <1>11, <1>12, <1>13, <1>14, <1>15, <1>16, <1>17 DEF Step

LEMMA EnterableInit == PinInit => EnterableInv
<1> SUFFICES ASSUME PinInit PROVE EnterableInv
  OBVIOUS
<1>1. \A j \in Jobs : job[j] = Idle
  BY DEF PinInit
<1>2. Alone /\ SaltIsStored
  BY <1>1, RestTypes DEF Alone, SaltIsStored
<1>3. ~Torn
  <2>1. CASE store.hash = NoHash
    BY <2>1 DEF Torn
  <2>2. ASSUME NEW p \in OldPins, NEW s \in Salts,
               store = [lock |-> "true", salt |-> s, hash |-> LegacyDigest(p, s),
                        configured |-> TRUE, attempts |-> 0, until |-> 0]
        PROVE  ~Torn
    <3>1. LegacyDigest(p, s).salt = s
      BY DEF LegacyDigest
    <3> HIDE DEF LegacyDigest
    <3> QED BY <2>2, <3>1 DEF Torn
  <2> HIDE DEF LegacyDigest
  <2> QED BY <2>1, <2>2 DEF PinInit
<1> QED BY <1>2, <1>3, LockInit DEF EnterableInv, OwnerNeverShutOut

LEMMA EnterableNext == EnterableInv /\ [PinNext]_pinVars => EnterableInv'
<1> DEFINE Writes == {"setHash", "upHash"}
<1>1. ASSUME EnterableInv, PinNext PROVE EnterableInv'
  <2>1. /\ PinLockInv /\ Alone /\ job \in [Jobs -> JobRecord] /\ ledger \in LedgerRecord
        /\ OwnerNeverShutOut
    BY <1>1, InvParts DEF EnterableInv
  <2>2. PinLockInv' /\ Alone'
    BY <1>1, <2>1, PinNextPreserves, AloneNext
  <2>3. ledger' \in LedgerRecord /\ job' \in [Jobs -> JobRecord]
    BY <2>2 DEF PinLockInv, LedgerRecord, JobRecord
  <2>4. Grown
    BY <1>1, <2>1, NextGrows
  <2>5. CASE ledger'.overlaps > 0
    BY <2>2, <2>3, <2>5 DEF EnterableInv, SaltIsStored, OwnerNeverShutOut, LedgerRecord
  <2>6. CASE ledger'.overlaps = 0
    <3>1. ledger.overlaps = 0
      BY <2>1, <2>4, <2>6 DEF Grown, LedgerRecord
    <3>2. \A a, b \in Jobs : job[a] # Idle /\ job[b] # Idle => a = b
      BY <2>1, <3>1 DEF Alone
    <3>3. \A k \in Jobs : job[k].at \in Writes => job[k].salt = store.salt
      BY <1>1, <3>1 DEF EnterableInv, SaltIsStored
    <3>4. Torn => ledger.torn \/ \E k \in Jobs : job[k].at \in Writes
      BY <2>1, <3>1 DEF OwnerNeverShutOut, Writing
    <3>5. ASSUME NEW j \in Jobs, Step(j)
          PROVE  /\ \A k \in Jobs : job'[k].at \in Writes => job'[k].salt = store'.salt
                 /\ Torn' => ledger'.torn \/ \E k \in Jobs : job'[k].at \in Writes
      <4>1. \A k \in Jobs : k # j => job[k] = Idle /\ job'[k] = Idle
        <5>1. \A k \in Jobs : k # j => job[k] = Idle
          BY <2>1, <3>2, <3>5, StepFrame
        <5>2. CASE Open(j)
          BY <2>1, <5>1, <5>2, Orphans DEF Open
        <5> QED BY <2>1, <3>5, <5>1, <5>2, StepFrame
      <4>2. \A k \in Jobs : k # j => job[k].at \notin Writes /\ job'[k].at \notin Writes
        BY <4>1, RestTypes
      <4>3. CASE job'[j].at \in Writes /\ job'[j].salt = store'.salt
        BY <4>2, <4>3
      <4>4. CASE /\ job'[j].at \notin Writes /\ job[j].at \in Writes
                 /\ \/ ledger'.torn
                    \/ store'.hash.salt = job[j].salt /\ store'.salt = store.salt
        <5>1. ledger'.torn \/ store'.hash.salt = store'.salt
          BY <3>3, <4>4
        <5> QED BY <4>2, <4>4, <5>1 DEF Torn
      <4>5. CASE /\ job'[j].at \notin Writes /\ job[j].at \notin Writes
                 /\ store'.salt = store.salt /\ store'.hash = store.hash
        <5>1. Torn' => ledger.torn
          BY <3>4, <4>2, <4>5 DEF Torn
        <5> QED BY <2>4, <4>2, <4>5, <5>1 DEF Grown
      <4> QED BY <2>1, <3>5, <4>3, <4>4, <4>5, SaltSteps
    <3>6. ASSUME \A j \in Jobs : ~Step(j)
          PROVE  /\ \A k \in Jobs : job'[k].at \in Writes => job'[k].salt = store'.salt
                 /\ Torn' => ledger'.torn \/ \E k \in Jobs : job'[k].at \in Writes
      <4>1. store'.salt = store.salt /\ store'.hash = store.hash
        BY <1>1, <2>1, <3>6, OtherFrame
      <4>2. Torn' => ledger'.torn \/ \E k \in Jobs : job[k].at \in Writes
        BY <2>4, <3>4, <4>1 DEF Torn, Grown
      <4>3. CASE job' = job
        BY <3>3, <4>1, <4>2, <4>3
      <4>4. CASE Kill
        <5>1. \A k \in Jobs : job'[k].at = "idle"
          BY <4>4, RestTypes DEF Kill
        <5>2. (\E k \in Jobs : job[k].at \in Writes) => ledger'.torn
          <6> DEFINE torn == ledger.torn \/ \E k \in Jobs : job[k].at \in Writes
          <6>1. torn \in BOOLEAN /\ (ledger.torn => torn)
            BY Zenon
          <6>2. ledger' = [ledger EXCEPT !.kills = @ + 1, !.torn = torn]
            BY <4>4 DEF Kill
          <6>3. ledger'.torn = torn
            <7> HIDE DEF torn
            <7> QED BY <2>1, <6>1, <6>2, LedgerShapes
          <6> QED BY <6>3, Zenon
        <5> QED BY <4>2, <5>1, <5>2
      <4>5. CASE Cancel
        <5>1. \A k \in Jobs : job'[k].at = job[k].at /\ job'[k].salt = job[k].salt
          BY <2>1, <4>5, Orphans DEF Cancel
        <5> QED BY <3>3, <4>1, <4>2, <5>1
      <4>6. ASSUME NEW j \in Jobs, NEW kind \in JobKinds, NEW pin \in Pins \cup {NoPin},
                   NEW at \in {"readHash", "setSalt", "prompt"}, Begin(j, kind, at, pin)
            PROVE  /\ \A k \in Jobs : job'[k].at \in Writes => job'[k].salt = store'.salt
                   /\ Torn' => ledger'.torn \/ \E k \in Jobs : job'[k].at \in Writes
        <5>1. \A k \in Jobs : job[k] = Idle /\ job'[k].at \notin Writes
          BY <2>1, <2>6, <4>6, Begins, RestTypes
        <5> QED BY <4>2, <5>1, RestTypes
      <4> QED BY <1>1, <2>1, <3>6, <4>3, <4>4, <4>5, <4>6, OtherFrame
    <3> QED BY <2>2, <3>5, <3>6 DEF EnterableInv, SaltIsStored, OwnerNeverShutOut, Writing
  <2> QED BY <2>3, <2>5, <2>6 DEF LedgerRecord
<1>2. ASSUME EnterableInv, UNCHANGED pinVars PROVE EnterableInv'
  BY <1>2, PinNextPreserves DEF EnterableInv, pinVars, Alone, SaltIsStored, OwnerNeverShutOut,
     Torn, Writing
<1> QED BY <1>1, <1>2

\* Storing or upgrading a PIN writes the salt before the hash.  However often
\* that is done, and wherever the app is relocked or restarted in between, the
\* store does not end with a hash from another salt, which no PIN matches,
\* unless the second write failed or was cut off, or two entries overlapped.
THEOREM OwnerCanEnter == PinSpec => []OwnerNeverShutOut
<1>1. EnterableInv => OwnerNeverShutOut
  BY DEF EnterableInv
<1> QED BY <1>1, EnterableInit, EnterableNext, PTL DEF PinSpec

-----------------------------------------------------------------------------
(* Lockouts are served.                                                    *)

\* A dead process has nothing under way; only checks of the lock screen count
\* wrong PINs; and such a check finds that screen still there, whatever happens
\* to the app meanwhile.
DeadIsIdle ==
    app.phase = "dead" => ~app.locked /\ ~app.checking /\ \A j \in Jobs : job[j] = Idle
OnlyChecksCount ==
    \A j \in Jobs : job[j].at \in {"readAttempts", "writeAttempts", "writeLockout"}
                        => job[j].kind = "unlock"
ChecksAreSeen ==
    ledger.overlaps = 0 =>
        \A j \in Jobs : job[j].kind = "unlock" =>
            app.locked /\ app.mode = "unlock" /\ job[j].here
ModeIsShown ==
    app.locked /\ screen.mode = "unlock" => app.mode = "unlock"

\* The countdown on a screen that has read the store covers the stored lockout.
LockoutIsShown ==
    ledger.overlaps = 0 /\ ledger.faults = 0 =>
        (app.locked /\ screen.load # "lockout" => store.until <= screen.left)

LockoutInv ==
    /\ PinLockInv /\ Alone
    /\ DeadIsIdle /\ OnlyChecksCount /\ ChecksAreSeen /\ ModeIsShown /\ LockoutIsShown

LEMMA LockoutInit == PinInit => LockoutInv
<1> SUFFICES ASSUME PinInit PROVE LockoutInv
  OBVIOUS
<1>1. \A j \in Jobs : job[j] = Idle
  BY DEF PinInit
<1>2. ~app.locked /\ ~app.checking
  BY DEF PinInit
<1>3. PinLockInv /\ Alone
  BY LockInit, EnterableInit DEF EnterableInv
<1> QED BY <1>1, <1>2, <1>3, RestTypes
        DEF LockoutInv, DeadIsIdle, OnlyChecksCount, ChecksAreSeen, ModeIsShown, LockoutIsShown

\* Locking mounts a screen that has not read the store, or changes nothing, or
\* makes it read again.
LEMMA LockShows ==
    ASSUME LockoutInv, NEW mode \in {"unlock", "setup", "change_pin"}, Lock(mode),
           app.locked => mode = "unlock", Grown, UNCHANGED job, store'.until = store.until,
           app.phase # "dead", ledger' \in LedgerRecord
    PROVE  DeadIsIdle' /\ OnlyChecksCount' /\ ChecksAreSeen' /\ ModeIsShown' /\ LockoutIsShown'
<1>1. /\ app \in AppRecord /\ screen \in ScreenRecord /\ ledger \in LedgerRecord
      /\ job \in [Jobs -> JobRecord] /\ store \in StoreRecord
  BY InvParts DEF LockoutInv
<1>2. app'.locked /\ app'.mode = mode /\ app'.phase = app.phase
  BY <1>1 DEF Lock, AppRecord
<1>3. /\ ledger'.overlaps = 0 => ledger.overlaps = 0
      /\ ledger'.faults = 0 => ledger.faults = 0
  BY <1>1 DEF Grown, LedgerRecord
<1>4. DeadIsIdle' /\ OnlyChecksCount'
  BY <1>2 DEF LockoutInv, DeadIsIdle, OnlyChecksCount
<1>5. ChecksAreSeen'
  BY <1>2, <1>3 DEF LockoutInv, ChecksAreSeen
<1>6. Mounted(mode).mode = mode /\ Mounted(mode).load = "lockout"
  BY DEF Mounted, Gone
<1>7. ModeIsShown'
  <2>1. CASE ~app.locked
    BY <1>2, <1>6, <2>1 DEF Lock, ModeIsShown
  <2>2. CASE app.locked
    BY <1>2, <2>2 DEF ModeIsShown
  <2> QED BY <2>1, <2>2
<1>8. LockoutIsShown'
  <2>1. screen'.load = "lockout" \/ (app.locked /\ screen' = screen)
    BY <1>1, <1>6 DEF Lock, ScreenRecord
  <2> QED BY <1>3, <2>1 DEF LockoutInv, LockoutIsShown
<1> QED BY <1>4, <1>5, <1>7, <1>8

\* Every action but the entries and their steps.
LEMMA LockoutApp ==
    ASSUME LockoutInv, PinNext, ledger' \in LedgerRecord,
           \/ Launch \/ Background \/ Resume \/ Kill \/ CheckLock \/ Tick \/ Cancel
           \/ ChangePin \/ LockNow \/ \E on \in BOOLEAN : ToggleLock(on)
    PROVE  DeadIsIdle' /\ OnlyChecksCount' /\ ChecksAreSeen' /\ ModeIsShown' /\ LockoutIsShown'
<1> USE DEF LockoutInv
<1>1. /\ app \in AppRecord /\ screen \in ScreenRecord /\ ledger \in LedgerRecord
      /\ job \in [Jobs -> JobRecord] /\ store \in StoreRecord /\ Grown
  BY InvParts, NextGrows
<1>2. CASE Launch
  <2>1. ~app'.locked /\ app'.phase = "active" /\ \A j \in Jobs : job'[j] = Idle
    BY <1>1, <1>2 DEF Launch, DeadIsIdle, AppRecord
  <2> QED BY <2>1, RestTypes
          DEF DeadIsIdle, OnlyChecksCount, ChecksAreSeen, ModeIsShown, LockoutIsShown
<1>3. CASE Background \/ Resume
  <2>1. /\ app'.phase # "dead" /\ app'.locked = app.locked /\ app'.mode = app.mode
        /\ UNCHANGED <<store, screen, job, ledger>>
    <3>1. CASE Background
      BY <1>1, <3>1 DEF Background, AppRecord
    <3>2. CASE Resume
      <4>1. app'.phase = "active" /\ app'.locked = app.locked /\ app'.mode = app.mode
        BY <1>1, <3>2, Zenon DEF Resume, AppRecord
      <4> QED BY <3>2, <4>1 DEF Resume
    <3> QED BY <1>3, <3>1, <3>2
  <2> QED BY <2>1 DEF DeadIsIdle, OnlyChecksCount, ChecksAreSeen, ModeIsShown, LockoutIsShown
<1>4. CASE Kill
  <2>1. ~app'.locked /\ ~app'.checking /\ \A j \in Jobs : job'[j] = Idle
    BY <1>1, <1>4 DEF Kill, AppRecord
  <2> QED BY <2>1, RestTypes
          DEF DeadIsIdle, OnlyChecksCount, ChecksAreSeen, ModeIsShown, LockoutIsShown
<1>5. CASE CheckLock
  <2>1. app.phase # "dead" /\ UNCHANGED <<store, job>>
    BY <1>5 DEF CheckLock, DeadIsIdle
  <2>2. CASE Lock("unlock")
    BY <1>1, <2>1, <2>2, LockShows
  <2>3. CASE app' = [app EXCEPT !.checking = FALSE] /\ UNCHANGED screen
    <3>1. app'.phase = app.phase /\ app'.locked = app.locked /\ app'.mode = app.mode
      BY <1>1, <2>3 DEF AppRecord
    <3>2. /\ ledger'.overlaps = 0 => ledger.overlaps = 0
          /\ ledger'.faults = 0 => ledger.faults = 0
      BY <1>1 DEF Grown, LedgerRecord
    <3> QED BY <2>1, <2>3, <3>1, <3>2
            DEF DeadIsIdle, OnlyChecksCount, ChecksAreSeen, ModeIsShown, LockoutIsShown
  <2> QED BY <1>5, <2>2, <2>3 DEF CheckLock
<1>6. CASE Tick
  <2>1. app'.phase = app.phase /\ app'.locked = app.locked /\ app'.mode = app.mode
        /\ app'.checking = app.checking
    BY <1>1, <1>6 DEF Tick, AppRecord
  <2>2. UNCHANGED <<job, ledger>> /\ screen'.mode = screen.mode /\ screen'.load = screen.load
    BY <1>1, <1>6 DEF Tick, ScreenRecord
  <2>3. store.until <= screen.left => store'.until <= screen'.left
    <3>1. store.until \in Nat /\ screen.left \in Nat
      BY <1>1 DEF StoreRecord, ScreenRecord
    <3>2. store'.until = Minus1(store.until)
      BY <1>1, <1>6 DEF Tick, StoreRecord
    <3>3. screen'.left = Minus1(screen.left) \/ screen'.left = screen.left
      BY <1>1, <1>6 DEF Tick, ScreenRecord
    <3> QED BY <3>1, <3>2, <3>3, LessIsStillLess
  <2> QED BY <2>1, <2>2, <2>3
          DEF DeadIsIdle, OnlyChecksCount, ChecksAreSeen, ModeIsShown, LockoutIsShown
<1>7. CASE Cancel
  <2>1. app.mode # "unlock" /\ app.phase # "dead" /\ app.locked /\ UNCHANGED <<store, ledger>>
    BY <1>7 DEF Cancel, Active
  <2>2. ~app'.locked /\ app'.phase = app.phase
    BY <1>1, <1>7 DEF Cancel, AppRecord
  <2>3. \A j \in Jobs : job'[j].at = job[j].at /\ job'[j].kind = job[j].kind
    BY <1>1, <1>7, Orphans DEF Cancel
  <2> QED BY <2>1, <2>2, <2>3
          DEF DeadIsIdle, OnlyChecksCount, ChecksAreSeen, ModeIsShown, LockoutIsShown
<1>8. CASE ChangePin \/ LockNow
  <2>1. ~app.locked /\ app.phase # "dead" /\ UNCHANGED <<store, job>>
    BY <1>8 DEF ChangePin, LockNow, Settings, Active
  <2>2. \E mode \in {"unlock", "setup", "change_pin"} : Lock(mode)
    BY <1>8 DEF ChangePin, LockNow
  <2> QED BY <1>1, <2>1, <2>2, LockShows
<1>9. ASSUME NEW on \in BOOLEAN, ToggleLock(on)
      PROVE  DeadIsIdle' /\ OnlyChecksCount' /\ ChecksAreSeen' /\ ModeIsShown' /\ LockoutIsShown'
  <2>1. ~app.locked /\ app.phase # "dead" /\ UNCHANGED job
    BY <1>9 DEF ToggleLock, Settings, Active
  <2>2. store'.until = store.until
    BY <1>1, <1>9 DEF ToggleLock, StoreRecord
  <2>3. CASE Lock("setup")
    BY <1>1, <2>1, <2>2, <2>3, LockShows
  <2>4. CASE UNCHANGED <<app, screen>>
    <3>1. ledger'.overlaps = 0 => ledger.overlaps = 0
      BY <1>1 DEF Grown, LedgerRecord
    <3> QED BY <2>1, <2>4, <3>1
            DEF DeadIsIdle, OnlyChecksCount, ChecksAreSeen, ModeIsShown, LockoutIsShown
  <2> QED BY <1>9, <2>3, <2>4 DEF ToggleLock
<1> QED BY <1>2, <1>3, <1>4, <1>5, <1>6, <1>7, <1>8, <1>9

LEMMA LockoutScreen ==
    ASSUME LockoutInv, PinNext, ledger' \in LedgerRecord, Screen
    PROVE  DeadIsIdle' /\ OnlyChecksCount' /\ ChecksAreSeen' /\ ModeIsShown' /\ LockoutIsShown'
<1> USE DEF LockoutInv
<1>1. /\ app \in AppRecord /\ screen \in ScreenRecord /\ ledger \in LedgerRecord
      /\ job \in [Jobs -> JobRecord] /\ store \in StoreRecord /\ Grown
  BY InvParts, NextGrows
<1>2. UNCHANGED <<store, app, job>>
  BY DEF Screen, ReadLockout, ReadConfigured, ReadBiometrics
<1>3. /\ ledger'.overlaps = 0 => ledger.overlaps = 0
      /\ ledger'.faults = 0 => ledger.faults = 0
  BY <1>1 DEF Grown, LedgerRecord
<1>4. DeadIsIdle' /\ OnlyChecksCount' /\ ChecksAreSeen'
  BY <1>2, <1>3 DEF DeadIsIdle, OnlyChecksCount, ChecksAreSeen
<1>5. screen'.mode = "unlock" => screen.mode = "unlock" \/ app.mode = "unlock"
  <2>1. ASSUME NEW c \in BOOLEAN, Choose(c) PROVE screen'.mode = "unlock" => app.mode = "unlock"
    BY <1>1, <2>1 DEF Choose, ScreenRecord
  <2>2. CASE ReadLockout
    BY <1>1, <2>2 DEF ReadLockout, ScreenRecord
  <2>3. CASE ReadConfigured
    <3>1. store.configured \in BOOLEAN
      BY <1>1 DEF StoreRecord
    <3> QED BY <2>1, <2>3, <3>1 DEF ReadConfigured
  <2>4. CASE ReadBiometrics
    BY <1>1, <2>4 DEF ReadBiometrics, ScreenRecord
  <2> QED BY <2>2, <2>3, <2>4 DEF Screen
<1>6. ModeIsShown'
  BY <1>2, <1>5 DEF ModeIsShown
<1>7. \/ screen.load # "lockout" /\ screen'.left = screen.left
      \/ ledger'.faults > 0
      \/ store.until <= screen'.left
  <2>1. CASE ReadLockout
    <3>1. CASE Fails
      BY <1>1, <3>1, LedgerShapes
    <3>2. CASE screen' = [screen EXCEPT !.load = "mode",
                              !.left = IF store.until > 0 THEN store.until ELSE @]
      BY <1>1, <3>2 DEF ScreenRecord, StoreRecord
    <3> QED BY <2>1, <3>1, <3>2 DEF ReadLockout
  <2>2. CASE ReadConfigured
    <3>1. \A c \in BOOLEAN : Choose(c) => screen'.left = screen.left
      BY <1>1 DEF Choose, ScreenRecord
    <3>2. store.configured \in BOOLEAN
      BY <1>1 DEF StoreRecord
    <3> QED BY <2>2, <3>1, <3>2 DEF ReadConfigured
  <2>3. CASE ReadBiometrics
    BY <1>1, <2>3 DEF ReadBiometrics, ScreenRecord
  <2> QED BY <2>1, <2>2, <2>3 DEF Screen
<1>8. LockoutIsShown'
  BY <1>2, <1>3, <1>7 DEF LockoutIsShown
<1> QED BY <1>4, <1>6, <1>8

LEMMA LockoutEntries ==
    ASSUME LockoutInv, PinNext, ledger' \in LedgerRecord, NEW j \in Jobs,
           Biometric(j) \/ \E pin \in Pins : Enter(j, pin)
    PROVE  DeadIsIdle' /\ OnlyChecksCount' /\ ChecksAreSeen' /\ ModeIsShown' /\ LockoutIsShown'
<1> USE DEF LockoutInv
<1>1. /\ app \in AppRecord /\ screen \in ScreenRecord /\ ledger \in LedgerRecord
      /\ job \in [Jobs -> JobRecord] /\ store \in StoreRecord /\ Grown
  BY InvParts, NextGrows
<1>2. /\ ledger'.overlaps = 0 => ledger.overlaps = 0
      /\ ledger'.faults = 0 => ledger.faults = 0
  BY <1>1 DEF Grown, LedgerRecord
<1>3. app.phase # "dead" /\ app.locked /\ UNCHANGED <<store, app>>
  BY DEF Biometric, Enter, EnterToUnlock, EnterCurrent, EnterNew, ConfirmNew, Ready, Active
<1>4. screen'.left = screen.left /\ screen'.load = screen.load /\ screen'.mode = screen.mode
  BY <1>1 DEF Biometric, Enter, EnterToUnlock, EnterCurrent, EnterNew, ConfirmNew, ScreenRecord
<1>5. \/ UNCHANGED job
      \/ \E kind, pin : \E at \in {"readHash", "setSalt", "prompt"} :
            Begin(j, kind, at, pin) /\ (kind = "unlock" => screen.mode = "unlock")
  <2>1. CASE Biometric(j)
    <3>1. Begin(j, "bio", "prompt", NoPin)
      BY <2>1 DEF Biometric
    <3> QED BY <3>1
  <2>2. ASSUME NEW pin \in Pins, Enter(j, pin)
        PROVE  \/ UNCHANGED job
               \/ \E kind : \E at \in {"readHash", "setSalt", "prompt"} :
                     Begin(j, kind, at, pin) /\ (kind = "unlock" => screen.mode = "unlock")
    <3>1. CASE EnterToUnlock(j, pin)
      <4>1. Begin(j, "unlock", "readHash", pin) /\ screen.mode = "unlock"
        BY <3>1 DEF EnterToUnlock
      <4> QED BY <4>1
    <3>2. CASE EnterCurrent(j, pin)
      <4>1. Begin(j, "current", "readHash", pin)
        BY <3>2 DEF EnterCurrent
      <4> QED BY <4>1
    <3>3. CASE EnterNew(pin)
      BY <3>3 DEF EnterNew
    <3>4. CASE ConfirmNew(j, pin)
      <4>1. UNCHANGED job \/ Begin(j, screen.mode, "setSalt", pin)
        BY <3>4 DEF ConfirmNew
      <4> QED BY <4>1
    <3> QED BY <2>2, <3>1, <3>2, <3>3, <3>4 DEF Enter
  <2> QED BY <2>1, <2>2
<1>6. DeadIsIdle' /\ ModeIsShown'
  BY <1>3, <1>4 DEF DeadIsIdle, ModeIsShown
<1>7. LockoutIsShown'
  BY <1>2, <1>3, <1>4 DEF LockoutIsShown
<1>8. OnlyChecksCount' /\ ChecksAreSeen'
  <2>1. CASE UNCHANGED job
    BY <1>2, <1>3, <2>1 DEF OnlyChecksCount, ChecksAreSeen
  <2>2. ASSUME NEW kind, NEW pin, NEW at \in {"readHash", "setSalt", "prompt"},
               Begin(j, kind, at, pin), kind = "unlock" => screen.mode = "unlock"
        PROVE  OnlyChecksCount' /\ ChecksAreSeen'
    <3>1. /\ job'[j].at = at /\ job'[j].kind = kind /\ job'[j].here = TRUE
          /\ \A k \in Jobs : k # j => job'[k] = job[k]
      BY <2>2, Begins
    <3>2. kind = "unlock" => app.mode = "unlock"
      BY <1>3, <2>2 DEF ModeIsShown
    <3> QED BY <1>2, <1>3, <3>1, <3>2 DEF OnlyChecksCount, ChecksAreSeen
  <2> QED BY <1>5, <2>1, <2>2
<1> QED BY <1>6, <1>7, <1>8

\* An entry keeps its kind and its screen until it ends; it comes to count a
\* wrong PIN from a check only.
LEMMA KindSteps ==
    ASSUME PinLockInv, OnlyChecksCount, NEW j \in Jobs, Step(j)
    PROVE  \/ job'[j] = Idle
           \/ /\ job'[j].kind = job[j].kind /\ job'[j].here = job[j].here
              /\ job'[j].at \in {"readAttempts", "writeAttempts", "writeLockout"}
                    => job[j].kind = "unlock"
<1> DEFINE Counts == {"readAttempts", "writeAttempts", "writeLockout"}
           Goal == \/ job'[j] = Idle
                   \/ /\ job'[j].kind = job[j].kind /\ job'[j].here = job[j].here
                      /\ job'[j].at \in Counts => job[j].kind = "unlock"
<1>1. job \in [Jobs -> JobRecord]
  BY InvParts
<1>2. \A at \in JobSteps : Goes(j, at) => /\ job'[j].kind = job[j].kind
                                         /\ job'[j].here = job[j].here /\ job'[j].at = at
  BY <1>1 DEF Goes, JobRecord
<1>3. Ends(j) => job'[j] = Idle
  BY <1>1 DEF Ends
<1>4. {"clearAttempts", "readAttempts", "readSalt", "upSalt", "clearLockout", "setConfigured",
       "writeLockout", "setLock", "open"} \subseteq JobSteps
  BY DEF JobSteps
<1>5. Verified(j) \/ Rejected(j) => Goal
  BY <1>2, <1>3, <1>4 DEF Verified, Rejected
<1>6. \A x : /\ [job EXCEPT ![j].at = "readSalt", ![j].hash = x][j].kind = job[j].kind
             /\ [job EXCEPT ![j].at = "readSalt", ![j].hash = x][j].here = job[j].here
             /\ [job EXCEPT ![j].at = "readSalt", ![j].hash = x][j].at = "readSalt"
  BY <1>1 DEF JobRecord
<1>7. CASE ReadHash(j)
  BY <1>5, <1>6, <1>7 DEF ReadHash
<1>8. CASE ReadSalt(j)
  BY <1>2, <1>4, <1>5, <1>8 DEF ReadSalt
<1>9. ASSUME NEW s \in Salts, NEW at \in {"setHash", "upHash"},
             job' = [job EXCEPT ![j].at = at, ![j].salt = s]
      PROVE  Goal
  BY <1>1, <1>9 DEF JobRecord
<1>10. CASE UpgradeSalt(j) \/ UpgradeHash(j)
  BY <1>5, <1>9, <1>10 DEF UpgradeSalt, UpgradeHash
<1>11. CASE ReadAttempts(j)
  <2>1. job[j].kind = "unlock"
    BY <1>11 DEF ReadAttempts, Running, OnlyChecksCount
  <2>2. job' = [job EXCEPT ![j].at = "writeAttempts", ![j].count = store.attempts + 1]
          => job'[j].kind = job[j].kind /\ job'[j].here = job[j].here
    BY <1>1 DEF JobRecord
  <2> QED BY <1>3, <1>11, <2>1, <2>2 DEF ReadAttempts
<1>12. CASE WriteAttempts(j) \/ WriteLockout(j)
  <2>1. job[j].kind = "unlock"
    BY <1>12 DEF WriteAttempts, WriteLockout, Running, OnlyChecksCount
  <2> QED BY <1>2, <1>3, <1>4, <1>12, <2>1 DEF WriteAttempts, WriteLockout
<1>13. CASE SetSalt(j)
  BY <1>3, <1>9, <1>13 DEF SetSalt
<1>14. CASE SetHash(j) \/ SetConfigured(j)
  BY <1>2, <1>3, <1>4, <1>14 DEF SetHash, SetConfigured
<1>15. CASE ClearAttempts(j) \/ ClearLockout(j) \/ SetLock(j)
  BY <1>2, <1>4, <1>15 DEF ClearAttempts, ClearLockout, SetLock, AfterClearing
<1>16. CASE Open(j)
  BY <1>16 DEF Open
<1>17. CASE Prompted(j)
  BY <1>2, <1>3, <1>4, <1>17 DEF Prompted
<1> QED BY <1>7, <1>8, <1>10, <1>11, <1>12, <1>13, <1>14, <1>15, <1>16, <1>17 DEF Step

LEMMA LockoutSteps ==
    ASSUME LockoutInv, PinNext, ledger' \in LedgerRecord, NEW j \in Jobs, Step(j)
    PROVE  DeadIsIdle' /\ OnlyChecksCount' /\ ChecksAreSeen' /\ ModeIsShown' /\ LockoutIsShown'
<1> USE DEF LockoutInv
<1>1. /\ app \in AppRecord /\ screen \in ScreenRecord /\ ledger \in LedgerRecord
      /\ job \in [Jobs -> JobRecord] /\ store \in StoreRecord /\ Grown
  BY InvParts, NextGrows
<1>2. /\ ledger'.overlaps = 0 => ledger.overlaps = 0
      /\ ledger'.faults = 0 => ledger.faults = 0
  BY <1>1 DEF Grown, LedgerRecord
<1>3. /\ job[j] # Idle /\ app.phase # "dead"
      /\ ~Open(j) => app' = app /\ \A k \in Jobs : k # j => job'[k] = job[k]
  BY StepFrame
<1>4. ledger.overlaps = 0 => \A k \in Jobs : k # j => job[k] = Idle
  BY <1>3 DEF Alone
<1>5. CASE Open(j)
  <2>1. ~app'.locked /\ app'.phase = app.phase
    BY <1>1, <1>5 DEF Open, AppRecord
  <2>2. job'[j] = Idle /\ \A k \in Jobs : k # j => job'[k] = Orphaned(k)
    BY <1>1, <1>5 DEF Open
  <2>3. OnlyChecksCount'
    BY <1>1, <2>2, Orphans, RestTypes DEF OnlyChecksCount
  <2>4. ChecksAreSeen'
    <3>1. ledger'.overlaps = 0 => \A k \in Jobs : job'[k] = Idle
      BY <1>1, <1>2, <1>4, <2>2, Orphans
    <3> QED BY <3>1, RestTypes DEF ChecksAreSeen
  <2> QED BY <1>3, <2>1, <2>3, <2>4 DEF DeadIsIdle, ModeIsShown, LockoutIsShown
<1>6. CASE ~Open(j)
  <2>1. app' = app /\ \A k \in Jobs : k # j => job'[k] = job[k]
    BY <1>3, <1>6
  <2>2. DeadIsIdle'
    BY <1>3, <2>1 DEF DeadIsIdle
  <2>3. OnlyChecksCount' /\ ChecksAreSeen'
    <3>1. job'[j] = Idle \/ /\ job'[j].kind = job[j].kind /\ job'[j].here = job[j].here
                            /\ job'[j].at \in {"readAttempts", "writeAttempts", "writeLockout"}
                                  => job[j].kind = "unlock"
      BY KindSteps
    <3> QED BY <1>2, <2>1, <3>1, RestTypes DEF OnlyChecksCount, ChecksAreSeen
  <2>4. Verified(j) => /\ screen'.left = screen.left /\ screen'.load = screen.load
                       /\ screen'.mode = screen.mode
    BY <1>1 DEF Verified, ScreenRecord
  <2>5. /\ screen'.load = screen.load /\ screen'.mode = screen.mode
        /\ \/ store'.until = store.until /\ screen'.left = screen.left
           \/ store'.until = 0 /\ screen'.left = screen.left
           \/ ledger'.faults > 0
           \/ job[j].kind = "unlock" /\ (job[j].here => store'.until = screen'.left)
    <3>1. CASE ReadHash(j) \/ ReadAttempts(j) \/ SetSalt(j) \/ SetHash(j)
      BY <1>1, <3>1 DEF ReadHash, ReadAttempts, SetSalt, SetHash, StoreRecord
    <3>2. CASE ReadSalt(j) \/ UpgradeSalt(j) \/ UpgradeHash(j)
      BY <1>1, <2>4, <3>2 DEF ReadSalt, UpgradeSalt, UpgradeHash, StoreRecord
    <3>3. CASE WriteAttempts(j) \/ SetConfigured(j) \/ ClearAttempts(j) \/ SetLock(j)
      BY <1>1, <3>3 DEF WriteAttempts, SetConfigured, ClearAttempts, SetLock, StoreRecord
    <3>4. CASE ClearLockout(j)
      BY <1>1, <3>4 DEF ClearLockout, StoreRecord
    <3>5. CASE WriteLockout(j)
      <4>1. job[j].kind = "unlock"
        BY <3>5 DEF WriteLockout, Running, OnlyChecksCount
      <4>2. CASE Fails /\ UNCHANGED <<store, screen>>
        BY <1>1, <4>2, LedgerShapes
      <4>3. CASE /\ store' = [store EXCEPT !.until = Lockout(job[j].count)]
                 /\ screen' = [screen EXCEPT !.left =
                                  IF job[j].here THEN Lockout(job[j].count) ELSE @]
        <5>1. Lockout(job[j].count) \in Nat
          BY <1>1, LockoutType DEF JobRecord
        <5> HIDE DEF Lockout
        <5> QED BY <1>1, <4>1, <4>3, <5>1 DEF StoreRecord, ScreenRecord
      <4> QED BY <3>5, <4>2, <4>3 DEF WriteLockout
    <3>6. CASE Prompted(j)
      BY <3>6 DEF Prompted
    <3> QED BY <1>6, <3>1, <3>2, <3>3, <3>4, <3>5, <3>6 DEF Step
  <2>6. ModeIsShown'
    BY <2>1, <2>5 DEF ModeIsShown
  <2>7. LockoutIsShown'
    <3> SUFFICES ASSUME ledger'.overlaps = 0, ledger'.faults = 0, app'.locked,
                        screen'.load # "lockout"
                 PROVE  store'.until <= screen'.left
      BY DEF LockoutIsShown
    <3>1. ledger.overlaps = 0 /\ store.until <= screen.left
      BY <1>2, <2>1, <2>5 DEF LockoutIsShown
    <3>2. job[j].kind = "unlock" => job[j].here
      BY <3>1 DEF ChecksAreSeen
    <3>3. store'.until \in Nat /\ screen'.left \in Nat
      BY PinNextPreserves DEF PinLockInv
    <3>4. screen.left \in Nat
      BY <1>1 DEF ScreenRecord
    <3> QED BY <2>5, <3>1, <3>2, <3>3, <3>4
  <2> QED BY <2>2, <2>3, <2>6, <2>7
<1> QED BY <1>5, <1>6

LEMMA LockoutNext == LockoutInv /\ [PinNext]_pinVars => LockoutInv'
<1>1. ASSUME LockoutInv, PinNext PROVE LockoutInv'
  <2>1. PinLockInv' /\ Alone'
    BY <1>1, PinNextPreserves, AloneNext DEF LockoutInv
  <2>2. ledger' \in LedgerRecord
    BY <2>1 DEF PinLockInv, LedgerRecord
  <2>3. DeadIsIdle' /\ OnlyChecksCount' /\ ChecksAreSeen' /\ ModeIsShown' /\ LockoutIsShown'
    BY <1>1, <2>2, LockoutApp, LockoutScreen, LockoutEntries, LockoutSteps DEF PinNext
  <2> QED BY <2>1, <2>3 DEF LockoutInv
<1>2. ASSUME LockoutInv, UNCHANGED pinVars PROVE LockoutInv'
  BY <1>2, PinNextPreserves
     DEF LockoutInv, pinVars, Alone, DeadIsIdle, OnlyChecksCount, ChecksAreSeen, ModeIsShown,
         LockoutIsShown
<1> QED BY <1>1, <1>2

LEMMA ServedNext ==
    ASSUME LockoutInv, [PinNext]_pinVars, NEW j \in Jobs, job[j] = Idle,
           job'[j].kind = "unlock"
    PROVE  store.until = 0 \/ ledger.faults > 0 \/ ledger.overlaps > 0
<1> USE DEF LockoutInv
<1>1. /\ app \in AppRecord /\ screen \in ScreenRecord /\ ledger \in LedgerRecord
      /\ job \in [Jobs -> JobRecord] /\ store \in StoreRecord
  BY InvParts
<1>2. job'[j] # job[j]
  BY RestTypes
<1>3. ASSUME NEW i \in Jobs PROVE ~Step(i)
  <2>1. CASE Open(i)
    BY <1>1, <1>2, <2>1, Orphans, RestTypes DEF Open
  <2> QED BY <1>2, <1>3, <2>1, StepFrame, KindSteps, RestTypes
<1>4. ~Kill /\ ~Cancel
  BY <1>1, Orphans, RestTypes DEF Kill, Cancel
<1>5. job' # job
  BY <1>2
<1>6. \E i \in Jobs : Biometric(i) \/ \E pin \in Pins : Enter(i, pin)
  BY <1>3, <1>4, <1>5
     DEF PinNext, pinVars, Launch, Background, Resume, CheckLock, Tick, Screen, ReadLockout,
         ReadConfigured, ReadBiometrics, ChangePin, LockNow, ToggleLock
<1>7. PICK i \in Jobs : Biometric(i) \/ \E pin \in Pins : Enter(i, pin)
  BY <1>6
<1>8. \A kind, at, pin : Begin(i, kind, at, pin) => i = j /\ kind = "unlock"
  BY <1>2, Begins
<1>9. ~Biometric(i)
  <2>1. Biometric(i) => Begin(i, "bio", "prompt", NoPin)
    BY DEF Biometric
  <2> QED BY <1>8, <2>1
<1>10. PICK pin \in Pins : Enter(i, pin)
  BY <1>7, <1>9
<1>11. EnterToUnlock(i, pin)
  <2>1. ~EnterCurrent(i, pin)
    <3>1. EnterCurrent(i, pin) => Begin(i, "current", "readHash", pin)
      BY DEF EnterCurrent
    <3> QED BY <1>8, <3>1
  <2>2. ~EnterNew(pin)
    BY <1>5 DEF EnterNew
  <2>3. ~ConfirmNew(i, pin)
    <3>1. ConfirmNew(i, pin) => Begin(i, screen.mode, "setSalt", pin)
      BY <1>5 DEF ConfirmNew
    <3>2. ConfirmNew(i, pin) => screen.mode # "unlock"
      BY DEF ConfirmNew
    <3> QED BY <1>8, <3>1, <3>2
  <2> QED BY <1>10, <2>1, <2>2, <2>3 DEF Enter
<1>12. app.locked /\ screen.load = "done" /\ screen.left = 0
  BY <1>11 DEF EnterToUnlock, Ready
<1>13. store.until \in Nat /\ ledger.faults \in Nat /\ ledger.overlaps \in Nat
  BY <1>1 DEF StoreRecord, LedgerRecord
<1> QED BY <1>12, <1>13 DEF LockoutIsShown

\* The countdown lives on the screen and the lockout in the store.  Over relocks,
\* restarts and time spent in the background, no PIN is taken for checking while
\* the stored lockout runs, unless a call failed or two entries overlapped.
THEOREM LockoutsHold == PinSpec => LockoutsAreServed
<1>1. LockoutInv /\ [PinNext]_pinVars
        => [\A j \in Jobs : job[j] = Idle /\ job'[j].kind = "unlock" =>
                store.until = 0 \/ ledger.faults > 0 \/ ledger.overlaps > 0]_pinVars
  BY ServedNext
<1> QED BY <1>1, LockoutInit, LockoutNext, PTL DEF PinSpec, LockoutsAreServed
-----------------------------------------------------------------------------
(* Wrong PINs are counted.                                                 *)

\* The entries under way, those whose PIN is yet to be found right or wrong,
\* and what can explain that a wrong PIN was not counted.
UnderWay == {j \in Jobs : job[j] # Idle}
Checking == {j \in Jobs : job[j].at \in {"readHash", "readSalt"}}
Missed == ledger.overlaps + ledger.kills + ledger.faults

\* Each entry under way but one has been counted as an overlap.  A wrong PIN,
\* one that is being checked included, is in the stored count, in the count
\* every entry is about to store, or explained; but for one, while an entry is
\* being checked or counted.
OverlapsAreCounted ==
    IsFiniteSet(UnderWay) /\ Cardinality(UnderWay) <= ledger.overlaps + 1
CountsExplain ==
    /\ ledger.tried + Cardinality(Checking)
          <= store.attempts + Missed
                + (IF Checking # {} \/ \E j \in Jobs : Pending(j) THEN 1 ELSE 0)
    /\ \A j \in Jobs : job[j].at = "writeAttempts" =>
          ledger.tried + Cardinality(Checking) <= job[j].count + Missed

CountInv == PinLockInv /\ OverlapsAreCounted /\ CountsExplain

LEMMA PhasesApart ==
    /\ Checking \subseteq UnderWay
    /\ \A j \in Jobs : Pending(j) => job[j] # Idle /\ j \notin Checking
BY RestTypes DEF Checking, UnderWay, Pending

\* What a count becomes when one entry may have joined or left the counted ones.
LEMMA OneMoves ==
    ASSUME NEW S, NEW T, NEW j, IsFiniteSet(S), \A k : k # j => (k \in T <=> k \in S)
    PROVE  /\ IsFiniteSet(T)
           /\ Cardinality(S) \in Nat /\ Cardinality(T) \in Nat
           /\ Cardinality(T) = Cardinality(S) - (IF j \in S THEN 1 ELSE 0)
                                              + (IF j \in T THEN 1 ELSE 0)
<1>1. IsFiniteSet(S \ {j}) /\ Cardinality(S \ {j}) = Cardinality(S) - (IF j \in S THEN 1 ELSE 0)
  <2>1. Cardinality(S) \in Nat
    BY FS_CardinalityType
  <2> QED BY <2>1, FS_RemoveElement
<1>2. T = IF j \in T THEN (S \ {j}) \cup {j} ELSE S \ {j}
  BY Zenon
<1>3. IsFiniteSet(T) /\ Cardinality(T) = Cardinality(S \ {j}) + (IF j \in T THEN 1 ELSE 0)
  <2>1. Cardinality(S \ {j}) \in Nat
    BY <1>1, FS_CardinalityType
  <2>2. CASE j \in T
    <3>1. T = (S \ {j}) \cup {j} /\ j \notin S \ {j}
      BY <1>2, <2>2
    <3> QED BY <1>1, <2>2, <3>1, FS_AddElement
  <2>3. CASE j \notin T
    <3>1. T = S \ {j}
      BY <1>2, <2>3
    <3> QED BY <1>1, <2>1, <2>3, <3>1
  <2> QED BY <2>2, <2>3
<1>4. Cardinality(S) \in Nat /\ Cardinality(T) \in Nat
  BY <1>3, FS_CardinalityType
<1> QED BY <1>1, <1>3, <1>4

\* What each way of writing the history adds to it.
LEMMA LedgerCounts ==
    ASSUME ledger \in LedgerRecord
    PROVE  /\ Missed \in Nat /\ ledger.tried \in Nat /\ ledger.overlaps \in Nat
           /\ Works => ledger'.tried = ledger.tried /\ Missed' = Missed
           /\ Fails => ledger'.tried = ledger.tried /\ Missed' = Missed + 1
           /\ \A j \in Jobs : Wrong(j) =>
                 /\ Missed' = Missed
                 /\ ledger'.tried = ledger.tried + (IF job[j].kind = "unlock" THEN 1 ELSE 0)
           /\ ledger' = [ledger EXCEPT !.tried = 0] =>
                 ledger'.tried = 0 /\ Missed' = Missed
           /\ ledger' = [ledger EXCEPT !.typos = @ + 1] =>
                 ledger'.tried = ledger.tried /\ Missed' = Missed
           /\ ledger' = [ledger EXCEPT !.overlaps = IF Busy THEN @ + 1 ELSE @] =>
                 /\ ledger'.tried = ledger.tried
                 /\ Missed' = Missed + (IF Busy THEN 1 ELSE 0)
                 /\ ledger'.overlaps = ledger.overlaps + (IF Busy THEN 1 ELSE 0)
           /\ ledger' = [ledger EXCEPT !.faults = @ + 1, !.torn = TRUE] =>
                 ledger'.tried = ledger.tried /\ Missed' = Missed + 1
           /\ \A t \in BOOLEAN : ledger' = [ledger EXCEPT !.kills = @ + 1, !.torn = t] =>
                 ledger'.tried = ledger.tried /\ Missed' = Missed + 1
<1>1. /\ ledger.overlaps \in Nat /\ ledger.faults \in Nat /\ ledger.typos \in Nat
      /\ ledger.kills \in Nat /\ ledger.tried \in Nat /\ ledger.torn \in BOOLEAN
  BY DEF LedgerRecord
<1>2. Works => ledger'.tried = ledger.tried /\ Missed' = Missed
  BY <1>1 DEF Works, Missed
<1>3. Fails => ledger'.tried = ledger.tried /\ Missed' = Missed + 1
  BY <1>1 DEF Fails, Missed, LedgerRecord
<1>4. ASSUME NEW j \in Jobs, Wrong(j)
      PROVE  /\ Missed' = Missed
             /\ ledger'.tried = ledger.tried + (IF job[j].kind = "unlock" THEN 1 ELSE 0)
  BY <1>1, <1>4 DEF Wrong, Missed, LedgerRecord
<1>5. ledger' = [ledger EXCEPT !.tried = 0] => ledger'.tried = 0 /\ Missed' = Missed
  BY <1>1 DEF Missed, LedgerRecord
<1>6. ledger' = [ledger EXCEPT !.typos = @ + 1] =>
          ledger'.tried = ledger.tried /\ Missed' = Missed
  BY <1>1 DEF Missed, LedgerRecord
<1>7. ASSUME ledger' = [ledger EXCEPT !.overlaps = IF Busy THEN @ + 1 ELSE @]
      PROVE  /\ ledger'.tried = ledger.tried
             /\ Missed' = Missed + (IF Busy THEN 1 ELSE 0)
             /\ ledger'.overlaps = ledger.overlaps + (IF Busy THEN 1 ELSE 0)
  BY <1>1, <1>7 DEF Missed, LedgerRecord
<1>8. ASSUME ledger' = [ledger EXCEPT !.faults = @ + 1, !.torn = TRUE]
      PROVE  ledger'.tried = ledger.tried /\ Missed' = Missed + 1
  <2>1. /\ ledger'.faults = ledger.faults + 1 /\ ledger'.overlaps = ledger.overlaps
        /\ ledger'.kills = ledger.kills /\ ledger'.tried = ledger.tried
    BY <1>8, Zenon DEF LedgerRecord
  <2> QED BY <1>1, <2>1 DEF Missed
<1>9. ASSUME NEW t \in BOOLEAN, ledger' = [ledger EXCEPT !.kills = @ + 1, !.torn = t]
      PROVE  ledger'.tried = ledger.tried /\ Missed' = Missed + 1
  <2>1. /\ ledger'.faults = ledger.faults /\ ledger'.overlaps = ledger.overlaps
        /\ ledger'.kills = ledger.kills + 1 /\ ledger'.tried = ledger.tried
    BY <1>9, Zenon DEF LedgerRecord
  <2> QED BY <1>1, <2>1 DEF Missed
<1>10. Missed \in Nat
  BY <1>1 DEF Missed
<1> QED BY <1>1, <1>2, <1>3, <1>4, <1>5, <1>6, <1>7, <1>8, <1>9, <1>10

\* What a step of an entry does to the counts: it moves the entry to another
\* phase and adds to the history, or takes the stored count, stores its own, or
\* clears.
Checks(at) == IF at \in {"readHash", "readSalt"} THEN 1 ELSE 0
Counted(at) == at \notin {"readHash", "readSalt", "readAttempts", "writeAttempts"}
Moves(j) ==
    /\ store'.attempts = store.attempts
    /\ job'[j].at # "writeAttempts"
    /\ Missed' \in Nat /\ ledger'.tried \in Nat /\ Missed <= Missed'
    /\ ledger'.tried + Checks(job'[j].at)
          <= ledger.tried + Checks(job[j].at) + (Missed' - Missed)
                - (IF ~Counted(job[j].at) /\ Counted(job'[j].at) THEN 1 ELSE 0)
Takes(j) ==
    /\ store'.attempts = store.attempts
    /\ job[j].at = "readAttempts" /\ job'[j].at = "writeAttempts"
    /\ job'[j].count = store.attempts + 1
    /\ ledger'.tried = ledger.tried /\ Missed' = Missed
Stores(j) ==
    /\ job[j].at = "writeAttempts" /\ Counted(job'[j].at)
    /\ store'.attempts = job[j].count
    /\ ledger'.tried = ledger.tried /\ Missed' = Missed
Clears(j) ==
    /\ job[j].at = "clearAttempts" /\ Counted(job'[j].at)
    /\ store'.attempts = 0 /\ ledger'.tried = 0 /\ Missed' = Missed

LEMMA CountMoves ==
    ASSUME PinLockInv, NEW j \in Jobs, Step(j), ~Open(j)
    PROVE  Moves(j) \/ Takes(j) \/ Stores(j) \/ Clears(j)
<1>1. job \in [Jobs -> JobRecord] /\ store \in StoreRecord /\ ledger \in LedgerRecord
  BY InvParts
<1>2. \A at \in JobSteps : Goes(j, at) => job'[j].at = at /\ job'[j].kind = job[j].kind
  BY <1>1 DEF Goes, JobRecord
<1>3. Ends(j) => job'[j].at = "idle"
  BY <1>1, RestTypes DEF Ends
<1>4. {"clearAttempts", "readAttempts", "readSalt", "upSalt", "clearLockout", "setConfigured",
       "writeLockout", "setLock", "open"} \subseteq JobSteps
  BY DEF JobSteps
<1>5. Verified(j) => job'[j].at \in {"clearAttempts", "idle"}
  BY <1>2, <1>3, <1>4 DEF Verified
<1>6. Rejected(j) => IF job[j].kind = "unlock" THEN job'[j].at = "readAttempts"
                     ELSE job'[j].at = "idle"
  BY <1>2, <1>3, <1>4 DEF Rejected
<1>7. Missed \in Nat /\ ledger.tried \in Nat /\ store.attempts \in Nat
  BY <1>1, LedgerCounts DEF StoreRecord
<1>8. UNCHANGED store => store'.attempts = store.attempts
  OBVIOUS
<1> DEFINE Quiet == ledger'.tried = ledger.tried /\ Missed' = Missed
           Fault == ledger'.tried = ledger.tried /\ Missed' = Missed + 1
<1>9. /\ Works => Quiet
      /\ Fails => Fault
      /\ ledger' = [ledger EXCEPT !.faults = @ + 1, !.torn = TRUE] => Fault
      /\ Wrong(j) => /\ Missed' = Missed
                     /\ ledger'.tried = ledger.tried + (IF job[j].kind = "unlock" THEN 1 ELSE 0)
  BY <1>1, LedgerCounts
<1> DEFINE Elsewhere == {"prompt", "upSalt", "upHash", "clearAttempts", "clearLockout", "setSalt",
                         "setHash", "setConfigured", "setLock", "open", "writeLockout", "idle"}
<1>10. \A at : /\ at \in Elsewhere => Checks(at) = 0 /\ Counted(at) /\ at # "writeAttempts"
               /\ at \in {"readHash", "readSalt"} => Checks(at) = 1 /\ ~Counted(at)
               /\ at \in {"readAttempts", "writeAttempts"} => Checks(at) = 0 /\ ~Counted(at)
  BY DEF Checks, Counted
<1>11. ASSUME store'.attempts = store.attempts, Quiet \/ Fault, job'[j].at \in Elsewhere,
              job[j].at \in Elsewhere \/ Fault \/ Checks(job[j].at) = 1
       PROVE  Moves(j)
  <2>1. /\ Checks(job'[j].at) = 0 /\ Counted(job'[j].at) /\ job'[j].at # "writeAttempts"
        /\ Checks(job[j].at) \in 0..1
        /\ job[j].at \in Elsewhere => Counted(job[j].at)
    BY <1>10, <1>11 DEF Checks
  <2> QED BY <1>7, <1>11, <2>1 DEF Moves
<1>12. CASE ReadHash(j)
  <2>1. job[j].at = "readHash" /\ Checks(job[j].at) = 1 /\ ~Counted(job[j].at)
        /\ store'.attempts = store.attempts
    BY <1>10, <1>12 DEF ReadHash, Running
  <2>2. CASE Works /\ job' = [job EXCEPT ![j].at = "readSalt", ![j].hash = store.hash]
    <3>1. job'[j].at = "readSalt"
      BY <1>1, <2>2 DEF JobRecord
    <3>2. Checks(job'[j].at) = 1 /\ ~Counted(job'[j].at)
      BY <1>10, <3>1
    <3> QED BY <1>7, <1>9, <2>1, <2>2, <3>1, <3>2 DEF Moves
  <2>3. CASE Rejected(j) /\ Wrong(j)
    BY <1>6, <1>7, <1>9, <1>10, <2>1, <2>3 DEF Moves
  <2>4. CASE Fails /\ Rejected(j)
    BY <1>6, <1>7, <1>9, <1>10, <2>1, <2>4 DEF Moves
  <2> QED BY <1>12, <2>2, <2>3, <2>4 DEF ReadHash
<1>13. CASE ReadSalt(j)
  <2>1. job[j].at = "readSalt" /\ Checks(job[j].at) = 1 /\ ~Counted(job[j].at)
        /\ store'.attempts = store.attempts
    BY <1>10, <1>13 DEF ReadSalt, Running
  <2>2. CASE Works /\ (Verified(j) \/ Goes(j, "upSalt"))
    BY <1>2, <1>4, <1>5, <1>9, <1>11, <2>1, <2>2
  <2>3. CASE Rejected(j) /\ Wrong(j)
    BY <1>6, <1>7, <1>9, <1>10, <2>1, <2>3 DEF Moves
  <2>4. CASE Fails /\ Rejected(j)
    BY <1>6, <1>7, <1>9, <1>10, <2>1, <2>4 DEF Moves
  <2> QED BY <1>13, <2>2, <2>3, <2>4 DEF ReadSalt
<1>14. CASE UpgradeSalt(j) \/ SetSalt(j)
  <2>1. job[j].at \in Elsewhere
    BY <1>14 DEF UpgradeSalt, SetSalt, Running
  <2>2. store'.attempts = store.attempts
    BY <1>1, <1>14 DEF UpgradeSalt, SetSalt, StoreRecord
  <2>3. \A s \in Salts, at \in {"upHash", "setHash"} :
           job' = [job EXCEPT ![j].at = at, ![j].salt = s] => job'[j].at = at
    BY <1>1 DEF JobRecord
  <2>4. job'[j].at \in Elsewhere /\ (Works \/ Fails)
    BY <1>3, <1>5, <1>14, <2>3 DEF UpgradeSalt, SetSalt
  <2> QED BY <1>9, <1>11, <2>1, <2>2, <2>4
<1>15. CASE UpgradeHash(j) \/ SetHash(j)
  <2>1. job[j].at \in Elsewhere
    BY <1>15 DEF UpgradeHash, SetHash, Running
  <2>2. store'.attempts = store.attempts
    <3> HIDE DEF Digest
    <3> QED BY <1>1, <1>15 DEF UpgradeHash, SetHash, StoreRecord
  <2>3. job'[j].at \in Elsewhere
    BY <1>2, <1>3, <1>4, <1>5, <1>15 DEF UpgradeHash, SetHash
  <2>4. Quiet \/ Fault
    BY <1>9, <1>15 DEF UpgradeHash, SetHash
  <2> QED BY <1>11, <2>1, <2>2, <2>3, <2>4
<1>16. CASE ReadAttempts(j)
  <2>1. job[j].at = "readAttempts" /\ store'.attempts = store.attempts
    BY <1>16 DEF ReadAttempts, Running
  <2>2. CASE Works /\ job' = [job EXCEPT ![j].at = "writeAttempts", ![j].count = store.attempts + 1]
    <3>1. job'[j].at = "writeAttempts" /\ job'[j].count = store.attempts + 1
      BY <1>1, <2>2 DEF JobRecord
    <3> QED BY <1>9, <2>1, <2>2, <3>1 DEF Takes
  <2>3. CASE Fails /\ Ends(j)
    BY <1>3, <1>9, <1>11, <2>1, <2>3
  <2> QED BY <1>16, <2>2, <2>3 DEF ReadAttempts
<1>17. CASE WriteAttempts(j)
  <2>1. job[j].at = "writeAttempts"
    BY <1>17 DEF WriteAttempts, Running
  <2>2. CASE /\ Works /\ store' = [store EXCEPT !.attempts = job[j].count]
             /\ Goes(j, "writeLockout") \/ Ends(j)
    <3>1. store'.attempts = job[j].count
      BY <1>1, <2>2 DEF StoreRecord
    <3>2. Counted(job'[j].at)
      BY <1>2, <1>3, <1>4, <1>10, <2>2
    <3> QED BY <1>9, <2>1, <2>2, <3>1, <3>2 DEF Stores
  <2>3. CASE Fails /\ Ends(j) /\ UNCHANGED store
    BY <1>3, <1>9, <1>11, <2>1, <2>3
  <2> QED BY <1>17, <2>2, <2>3 DEF WriteAttempts
<1>18. CASE WriteLockout(j) \/ SetConfigured(j) \/ ClearLockout(j) \/ SetLock(j)
  <2>1. job[j].at \in Elsewhere
    BY <1>18 DEF WriteLockout, SetConfigured, ClearLockout, SetLock, Running
  <2>2. store'.attempts = store.attempts
    BY <1>1, <1>18 DEF WriteLockout, SetConfigured, ClearLockout, SetLock, StoreRecord
  <2>3. job'[j].at \in Elsewhere /\ (Works \/ Fails)
    BY <1>2, <1>3, <1>4, <1>18
       DEF WriteLockout, SetConfigured, ClearLockout, SetLock, AfterClearing
  <2> QED BY <1>9, <1>11, <2>1, <2>2, <2>3
<1>19. CASE ClearAttempts(j)
  <2>1. job[j].at = "clearAttempts"
    BY <1>19 DEF ClearAttempts, Running
  <2>2. CASE /\ store' = [store EXCEPT !.attempts = 0] /\ ledger' = [ledger EXCEPT !.tried = 0]
             /\ Goes(j, "clearLockout")
    <3>1. store'.attempts = 0 /\ job'[j].at = "clearLockout"
      BY <1>1, <1>2, <1>4, <2>2 DEF StoreRecord
    <3> QED BY <1>1, <1>10, <2>1, <2>2, <3>1, LedgerCounts DEF Clears
  <2>3. CASE Fails /\ Goes(j, AfterClearing(j)) /\ UNCHANGED store
    <3>1. job'[j].at \in Elsewhere
      BY <1>2, <1>4, <2>3 DEF AfterClearing
    <3> QED BY <1>9, <1>11, <2>1, <2>3, <3>1
  <2> QED BY <1>19, <2>2, <2>3 DEF ClearAttempts
<1>20. CASE Prompted(j)
  <2>1. job[j].at \in Elsewhere /\ job'[j].at \in Elsewhere
    BY <1>2, <1>3, <1>4, <1>20 DEF Prompted, Running
  <2>2. store'.attempts = store.attempts /\ Quiet
    BY <1>20 DEF Prompted, Missed
  <2> QED BY <1>11, <2>1, <2>2
<1> QED BY <1>12, <1>13, <1>14, <1>15, <1>16, <1>17, <1>18, <1>19, <1>20 DEF Step

LEMMA CountsCarry ==
    ASSUME CountInv, ledger' \in LedgerRecord, Grown,
           \A k \in Jobs : /\ job'[k] # Idle => job[k] # Idle
                           /\ job'[k].at = job[k].at \/ {job[k].at, job'[k].at} = {"open", "idle"}
                           /\ job'[k].at = "writeAttempts" => job'[k].count = job[k].count,
           store'.attempts = store.attempts, ledger'.tried = ledger.tried,
           Missed' \in Nat, Missed <= Missed'
    PROVE  OverlapsAreCounted' /\ CountsExplain'
<1>1. /\ job \in [Jobs -> JobRecord] /\ store \in StoreRecord /\ ledger \in LedgerRecord
      /\ OverlapsAreCounted /\ CountsExplain
  BY InvParts DEF CountInv
<1>2. UnderWay' \in SUBSET UnderWay
  BY DEF UnderWay
<1>3. IsFiniteSet(UnderWay') /\ Cardinality(UnderWay') <= Cardinality(UnderWay)
  BY <1>1, <1>2, FS_Subset DEF OverlapsAreCounted
<1>4. Cardinality(UnderWay) \in Nat /\ Cardinality(UnderWay') \in Nat
  BY <1>1, <1>3, FS_CardinalityType DEF OverlapsAreCounted
<1>5. OverlapsAreCounted'
  BY <1>1, <1>3, <1>4 DEF OverlapsAreCounted, Grown, LedgerRecord
<1>6. Checking' = Checking /\ \A k \in Jobs : Pending(k)' <=> Pending(k)
  BY DEF Checking, Pending
<1>7. Cardinality(Checking) \in Nat
  BY <1>1, PhasesApart, FS_Subset, FS_CardinalityType DEF OverlapsAreCounted
<1>8. /\ store.attempts \in Nat /\ ledger.tried \in Nat /\ Missed \in Nat
      /\ \A k \in Jobs : job[k].count \in Nat
  BY <1>1, LedgerCounts DEF StoreRecord, JobRecord
<1>9. \A k \in Jobs : job'[k].at = "writeAttempts" => job[k].at = "writeAttempts"
  OBVIOUS
<1> QED BY <1>1, <1>5, <1>6, <1>7, <1>8, <1>9 DEF CountsExplain

LEMMA CountSteps ==
    ASSUME CountInv, PinNext, NEW j \in Jobs, Step(j), ~Open(j), PinLockInv'
    PROVE  OverlapsAreCounted' /\ CountsExplain'
<1>1. /\ job \in [Jobs -> JobRecord] /\ store \in StoreRecord /\ ledger \in LedgerRecord
      /\ OverlapsAreCounted /\ CountsExplain /\ PinLockInv
  BY InvParts DEF CountInv
<1>2. job[j] # Idle /\ \A k \in Jobs : k # j => job'[k] = job[k]
  BY <1>1, StepFrame
<1>3. IsFiniteSet(Checking)
  BY <1>1, PhasesApart, FS_Subset DEF OverlapsAreCounted
<1> DEFINE n == Cardinality(Checking)
           m == Cardinality(Checking')
<1>4. n \in Nat /\ m \in Nat /\ m = n - Checks(job[j].at) + Checks(job'[j].at)
  <2>1. \A k : k # j => (k \in Checking' <=> k \in Checking)
    BY <1>2 DEF Checking
  <2>2. /\ n \in Nat /\ m \in Nat
        /\ m = n - (IF j \in Checking THEN 1 ELSE 0) + (IF j \in Checking' THEN 1 ELSE 0)
    BY <1>3, <2>1, OneMoves
  <2>3. /\ Checks(job[j].at) = IF j \in Checking THEN 1 ELSE 0
        /\ Checks(job'[j].at) = IF j \in Checking' THEN 1 ELSE 0
    BY DEF Checks, Checking
  <2> QED BY <2>2, <2>3
<1>5. /\ store.attempts \in Nat /\ ledger.tried \in Nat /\ Missed \in Nat
      /\ ledger.overlaps \in Nat /\ \A k \in Jobs : job[k].count \in Nat
  BY <1>1, LedgerCounts DEF StoreRecord, JobRecord
<1>6. OverlapsAreCounted'
  <2>1. UnderWay' \in SUBSET UnderWay
    BY <1>2 DEF UnderWay
  <2>2. IsFiniteSet(UnderWay') /\ Cardinality(UnderWay') <= Cardinality(UnderWay)
    BY <1>1, <2>1, FS_Subset DEF OverlapsAreCounted
  <2>3. Cardinality(UnderWay) \in Nat /\ Cardinality(UnderWay') \in Nat
    BY <1>1, <2>2, FS_CardinalityType DEF OverlapsAreCounted
  <2>4. ledger'.overlaps \in Nat /\ ledger.overlaps <= ledger'.overlaps
    BY <1>1, NextGrows DEF Grown, PinLockInv
  <2> QED BY <1>1, <1>5, <2>2, <2>3, <2>4 DEF OverlapsAreCounted
<1> DEFINE open == Checking # {} \/ \E k \in Jobs : Pending(k)
           opened == Checking' # {} \/ \E k \in Jobs : Pending(k)'
<1>7. /\ ~Counted(job'[j].at) => opened
      /\ open => opened \/ ~Counted(job[j].at)
  BY <1>2 DEF Checking, Pending, Counted
<1>8. /\ ledger.tried + n <= store.attempts + Missed + (IF open THEN 1 ELSE 0)
      /\ \A k \in Jobs : job[k].at = "writeAttempts" => ledger.tried + n <= job[k].count + Missed
  BY <1>1 DEF CountsExplain
<1> DEFINE Goal == /\ ledger'.tried + m <= store'.attempts + Missed' + (IF opened THEN 1 ELSE 0)
                   /\ \A k \in Jobs : job'[k].at = "writeAttempts" =>
                         ledger'.tried + m <= job'[k].count + Missed'
<1> SUFFICES Goal
  BY <1>6 DEF CountsExplain
<1>9. Checks(job[j].at) \in 0..1 /\ Checks(job'[j].at) \in 0..1
  BY DEF Checks
<1> HIDE DEF n, m, open, opened
<1>10. CASE Moves(j)
  <2>1. /\ store'.attempts = store.attempts /\ Missed' \in Nat /\ ledger'.tried \in Nat
        /\ job'[j].at # "writeAttempts"
        /\ ledger'.tried + m <= ledger.tried + n + (Missed' - Missed)
              - (IF ~Counted(job[j].at) /\ Counted(job'[j].at) THEN 1 ELSE 0)
    BY <1>4, <1>5, <1>9, <1>10 DEF Moves
  <2>2. ledger'.tried + m <= store'.attempts + Missed' + (IF opened THEN 1 ELSE 0)
    BY <1>4, <1>5, <1>7, <1>8, <2>1
  <2>3. ASSUME NEW k \in Jobs, job'[k].at = "writeAttempts"
        PROVE  ledger'.tried + m <= job'[k].count + Missed'
    <3>1. job'[k] = job[k]
      BY <1>2, <2>1, <2>3
    <3>2. job[k].count \in Nat /\ ledger.tried + n <= job[k].count + Missed
      BY <1>5, <1>8, <2>3, <3>1
    <3> QED BY <1>4, <1>5, <2>1, <3>1, <3>2
  <2> QED BY <2>2, <2>3
<1>11. CASE Takes(j)
  <2>1. m = n /\ opened
    BY <1>4, <1>7, <1>11 DEF Takes, Checks, Counted
  <2>2. ASSUME NEW k \in Jobs, job'[k].at = "writeAttempts"
        PROVE  ledger'.tried + m <= job'[k].count + Missed'
    <3>1. CASE k = j
      BY <1>4, <1>5, <1>8, <1>11, <2>1, <3>1 DEF Takes
    <3>2. CASE k # j
      BY <1>2, <1>8, <1>11, <2>1, <2>2, <3>2 DEF Takes
    <3> QED BY <3>1, <3>2
  <2> QED BY <1>4, <1>5, <1>8, <1>11, <2>1, <2>2 DEF Takes
<1>12. CASE Stores(j)
  <2>1. m = n
    BY <1>4, <1>12 DEF Stores, Checks, Counted
  <2>2. ledger'.tried + m <= store'.attempts + Missed'
    BY <1>8, <1>12, <2>1 DEF Stores
  <2>3. \A k \in Jobs : job'[k].at = "writeAttempts" => job'[k] = job[k]
    BY <1>2, <1>12 DEF Stores, Counted
  <2>4. store'.attempts \in Nat /\ ledger'.tried \in Nat /\ Missed' \in Nat
    BY <1>5, <1>12 DEF Stores
  <2> QED BY <1>4, <1>8, <1>12, <2>1, <2>2, <2>3, <2>4 DEF Stores
<1>13. CASE Clears(j)
  <2>1. m = n
    BY <1>4, <1>13 DEF Clears, Checks, Counted
  <2>2. n <= ledger.overlaps
    <3>1. j \in UnderWay /\ j \notin Checking
      BY <1>2, <1>13 DEF Clears, UnderWay, Checking
    <3>2. Checking \in SUBSET (UnderWay \ {j})
      BY <3>1, PhasesApart
    <3>3. /\ IsFiniteSet(UnderWay \ {j})
          /\ Cardinality(UnderWay \ {j}) = Cardinality(UnderWay) - 1
      BY <1>1, <3>1, FS_RemoveElement DEF OverlapsAreCounted
    <3>4. n <= Cardinality(UnderWay \ {j})
      BY <3>2, <3>3, FS_Subset DEF n
    <3>5. Cardinality(UnderWay) \in Nat
      BY <1>1, FS_CardinalityType DEF OverlapsAreCounted
    <3> QED BY <1>1, <1>4, <1>5, <3>3, <3>4, <3>5 DEF OverlapsAreCounted
  <2>3. ledger.overlaps <= Missed
    BY <1>1 DEF Missed, LedgerRecord
  <2>4. \A k \in Jobs : job'[k].at = "writeAttempts" => job'[k] = job[k]
    BY <1>2, <1>13 DEF Clears, Counted
  <2> QED BY <1>4, <1>5, <1>13, <2>1, <2>2, <2>3, <2>4 DEF Clears
<1> QED BY <1>1, <1>10, <1>11, <1>12, <1>13, CountMoves

\* An entry that begins while another is under way is an overlap; otherwise
\* nothing is being checked or counted.
LEMMA CountBegins ==
    ASSUME CountInv, NEW j \in Jobs, NEW kind \in JobKinds, NEW pin \in Pins \cup {NoPin},
           NEW at \in {"readHash", "setSalt", "prompt"}, Begin(j, kind, at, pin),
           store'.attempts = store.attempts
    PROVE  OverlapsAreCounted' /\ CountsExplain'
<1>1. /\ job \in [Jobs -> JobRecord] /\ store \in StoreRecord /\ ledger \in LedgerRecord
      /\ OverlapsAreCounted /\ CountsExplain /\ PinLockInv
  BY InvParts DEF CountInv
<1>2. /\ job[j] = Idle /\ job'[j].at = at
      /\ \A k \in Jobs : k # j => job'[k] = job[k]
  BY <1>1, Begins
<1>3. /\ ledger'.tried = ledger.tried /\ Missed' = Missed + (IF Busy THEN 1 ELSE 0)
      /\ ledger'.overlaps = ledger.overlaps + (IF Busy THEN 1 ELSE 0)
      /\ Missed \in Nat /\ ledger.tried \in Nat /\ ledger.overlaps \in Nat
  BY <1>1, LedgerCounts DEF Begin
<1>4. store.attempts \in Nat /\ \A k \in Jobs : job[k].count \in Nat
  BY <1>1 DEF StoreRecord, JobRecord
<1>5. ~Busy => UnderWay = {}
  BY DEF Busy, UnderWay
<1>6. OverlapsAreCounted'
  <2>1. \A k : k # j => (k \in UnderWay' <=> k \in UnderWay)
    BY <1>2 DEF UnderWay
  <2>2. j \notin UnderWay
    BY <1>2 DEF UnderWay
  <2>3. /\ IsFiniteSet(UnderWay') /\ Cardinality(UnderWay') \in Nat /\ Cardinality(UnderWay) \in Nat
        /\ Cardinality(UnderWay') = Cardinality(UnderWay) - (IF j \in UnderWay THEN 1 ELSE 0)
                                        + (IF j \in UnderWay' THEN 1 ELSE 0)
    BY <1>1, <2>1, OneMoves DEF OverlapsAreCounted
  <2>4. ~Busy => Cardinality(UnderWay) = 0
    BY <1>5, FS_EmptySet
  <2> QED BY <1>1, <1>3, <2>2, <2>3, <2>4 DEF OverlapsAreCounted
<1> DEFINE n == Cardinality(Checking)
           m == Cardinality(Checking')
<1>7. /\ n \in Nat /\ m \in Nat /\ m = n + (IF at = "readHash" THEN 1 ELSE 0)
      /\ ~Busy => n = 0
  <2>1. \A k : k # j => (k \in Checking' <=> k \in Checking)
    BY <1>2 DEF Checking
  <2>2. IsFiniteSet(Checking)
    BY <1>1, PhasesApart, FS_Subset DEF OverlapsAreCounted
  <2>3. /\ n \in Nat /\ m \in Nat
        /\ m = n - (IF j \in Checking THEN 1 ELSE 0) + (IF j \in Checking' THEN 1 ELSE 0)
    BY <2>1, <2>2, OneMoves
  <2>4. j \notin Checking /\ (j \in Checking' <=> at = "readHash")
    BY <1>2, RestTypes DEF Checking
  <2>5. ~Busy => Checking = {}
    BY <1>5, PhasesApart
  <2> QED BY <2>3, <2>4, <2>5, FS_EmptySet
<1> DEFINE open == Checking # {} \/ \E k \in Jobs : Pending(k)
           opened == Checking' # {} \/ \E k \in Jobs : Pending(k)'
<1>8. (open => opened) /\ (at = "readHash" => opened) /\ (~Busy => ~open)
  <2>1. open => opened
    BY <1>2, RestTypes DEF Checking, Pending
  <2>2. at = "readHash" => opened
    BY <1>2 DEF Checking
  <2>3. ~Busy => ~open
    BY <1>5, PhasesApart DEF UnderWay
  <2> QED BY <2>1, <2>2, <2>3
<1>9. /\ ledger.tried + n <= store.attempts + Missed + (IF open THEN 1 ELSE 0)
      /\ \A k \in Jobs : job[k].at = "writeAttempts" => ledger.tried + n <= job[k].count + Missed
  BY <1>1 DEF CountsExplain
<1> HIDE DEF open, opened, n, m
<1>10. ledger'.tried + m <= store'.attempts + Missed' + (IF opened THEN 1 ELSE 0)
  BY <1>3, <1>4, <1>7, <1>8, <1>9
<1>11. ASSUME NEW k \in Jobs, job'[k].at = "writeAttempts"
       PROVE  ledger'.tried + m <= job'[k].count + Missed'
  <2>1. k # j
    BY <1>2, <1>11
  <2>2. job'[k] = job[k] /\ job[k].at = "writeAttempts"
    BY <1>2, <1>11, <2>1
  <2>3. Busy
    BY <2>2, RestTypes DEF Busy
  <2>4. job[k].count \in Nat /\ ledger.tried + n <= job[k].count + Missed
    BY <1>4, <1>9, <2>2
  <2> QED BY <1>3, <1>7, <2>2, <2>3, <2>4
<1> QED BY <1>6, <1>10, <1>11 DEF CountsExplain, n, m, opened
\* The actions that are no step of an entry leave both counts of wrong PINs as
\* they are.
LEMMA OtherCounts ==
    ASSUME PinLockInv, PinNext, \A j \in Jobs : ~Step(j)
    PROVE  /\ store'.attempts = store.attempts /\ ledger'.tried = ledger.tried
           /\ Missed' \in Nat /\ Missed <= Missed' /\ (Kill => Missed' = Missed + 1)
<1>1. store \in StoreRecord /\ ledger \in LedgerRecord /\ Missed \in Nat
  BY InvParts, LedgerCounts
<1> DEFINE Kept == /\ store'.attempts = store.attempts /\ ledger'.tried = ledger.tried
                   /\ (Missed' = Missed \/ Missed' = Missed + 1)
<1>2. UNCHANGED ledger \/ Fails => ledger'.tried = ledger.tried
                                     /\ (Missed' = Missed \/ Missed' = Missed + 1)
  BY <1>1, LedgerCounts DEF Works
<1>3. Kill => Kept /\ Missed' = Missed + 1
  <2> DEFINE torn == ledger.torn \/ \E j \in Jobs : job[j].at \in {"setHash", "upHash"}
  <2> SUFFICES ASSUME Kill PROVE Kept /\ Missed' = Missed + 1
    OBVIOUS
  <2>1. torn \in BOOLEAN
    BY Zenon
  <2>2. ledger' = [ledger EXCEPT !.kills = @ + 1, !.torn = torn] /\ UNCHANGED store
    BY DEF Kill
  <2> HIDE DEF torn
  <2> QED BY <1>1, <2>1, <2>2, LedgerCounts
<1> SUFFICES Kept
  BY <1>1, <1>3
<1>4. CASE Launch \/ Background \/ Resume \/ ReadBiometrics \/ Cancel \/ LockNow
  BY <1>2, <1>4 DEF Launch, Background, Resume, ReadBiometrics, Cancel, LockNow
<1>5. CASE Tick
  BY <1>1, <1>2, <1>5 DEF Tick, StoreRecord
<1>6. CASE CheckLock \/ ReadLockout \/ ReadConfigured \/ ChangePin
  BY <1>2, <1>6 DEF CheckLock, ReadLockout, ReadConfigured, ChangePin, PinSeen, Works
<1>7. ASSUME NEW on \in BOOLEAN, ToggleLock(on) PROVE Kept
  BY <1>1, <1>2, <1>7 DEF ToggleLock, PinSeen, Works, StoreRecord
<1>8. ASSUME NEW j \in Jobs, Biometric(j) \/ \E pin \in Pins : Enter(j, pin) PROVE Kept
  <2>1. UNCHANGED store
    BY <1>8 DEF Biometric, Enter, EnterToUnlock, EnterCurrent, EnterNew, ConfirmNew
  <2>2. \/ UNCHANGED ledger \/ ledger' = [ledger EXCEPT !.typos = @ + 1]
        \/ ledger' = [ledger EXCEPT !.overlaps = IF Busy THEN @ + 1 ELSE @]
    BY <1>8 DEF Biometric, Enter, EnterToUnlock, EnterCurrent, EnterNew, ConfirmNew, Begin
  <2>3. CASE UNCHANGED ledger
    BY <1>2, <2>1, <2>3
  <2>4. CASE ledger' = [ledger EXCEPT !.typos = @ + 1]
    BY <1>1, <2>1, <2>4, LedgerCounts
  <2>5. CASE ledger' = [ledger EXCEPT !.overlaps = IF Busy THEN @ + 1 ELSE @]
    <3>1. ledger'.tried = ledger.tried /\ Missed' = Missed + (IF Busy THEN 1 ELSE 0)
      BY <1>1, <2>5, LedgerCounts
    <3> QED BY <1>1, <2>1, <3>1
  <2> QED BY <2>2, <2>3, <2>4, <2>5
<1> HIDE DEF Kept
<1> QED BY <1>3, <1>4, <1>5, <1>6, <1>7, <1>8 DEF PinNext, Screen

LEMMA CountInit == PinInit => CountInv
<1> SUFFICES ASSUME PinInit PROVE CountInv
  OBVIOUS
<1>1. \A j \in Jobs : job[j] = Idle
  BY DEF PinInit
<1>2. UnderWay = {} /\ Checking = {} /\ \A j \in Jobs : job[j].at = "idle"
  BY <1>1, RestTypes DEF UnderWay, Checking
<1>3. /\ ledger.overlaps = 0 /\ ledger.tried = 0 /\ ledger.kills = 0 /\ ledger.faults = 0
  BY DEF PinInit
<1>4. PinLockInv
  BY LockInit
<1>5. store.attempts \in Nat
  BY <1>4 DEF PinLockInv
<1>6. IsFiniteSet({}) /\ Cardinality({}) = 0
  BY FS_EmptySet
<1> QED BY <1>2, <1>3, <1>4, <1>5, <1>6 DEF CountInv, OverlapsAreCounted, CountsExplain, Missed

LEMMA CountNext == CountInv /\ [PinNext]_pinVars => CountInv'
<1>1. ASSUME CountInv, PinNext PROVE CountInv'
  <2>1. PinLockInv /\ job \in [Jobs -> JobRecord] /\ ledger \in LedgerRecord
    BY <1>1, InvParts DEF CountInv
  <2>2. PinLockInv' /\ ledger' \in LedgerRecord /\ Grown
    <3>1. PinLockInv' /\ Grown
      BY <1>1, <2>1, PinNextPreserves, NextGrows
    <3> QED BY <3>1 DEF PinLockInv, LedgerRecord
  <2>3. \A k \in Jobs : /\ Orphaned(k).at = job[k].at /\ (Orphaned(k) = Idle <=> job[k] = Idle)
                       /\ Orphaned(k).count = job[k].count
    <3>1. ASSUME NEW k \in Jobs PROVE Orphaned(k).count = job[k].count
      BY <2>1 DEF Orphaned, JobRecord
    <3> QED BY <2>1, <3>1, Orphans
  <2>4. ASSUME NEW j \in Jobs, Step(j), ~Open(j) PROVE OverlapsAreCounted' /\ CountsExplain'
    BY <1>1, <2>2, <2>4, CountSteps
  <2>5. ASSUME NEW j \in Jobs, Open(j) PROVE OverlapsAreCounted' /\ CountsExplain'
    <3>1. /\ job[j].at = "open" /\ job'[j] = Idle /\ UNCHANGED <<store, ledger>>
          /\ \A k \in Jobs : k # j => job'[k] = Orphaned(k)
      BY <2>5 DEF Open, Running
    <3>2. Missed' = Missed /\ Missed \in Nat
      BY <2>1, <3>1, LedgerCounts DEF Works
    <3>3. \A k \in Jobs :
             /\ job'[k] # Idle => job[k] # Idle
             /\ job'[k].at = job[k].at \/ {job[k].at, job'[k].at} = {"open", "idle"}
             /\ job'[k].at = "writeAttempts" => job'[k].count = job[k].count
      BY <2>3, <3>1, RestTypes
    <3> QED BY <1>1, <2>2, <3>1, <3>2, <3>3, CountsCarry
  <2>6. ASSUME \A j \in Jobs : ~Step(j) PROVE OverlapsAreCounted' /\ CountsExplain'
    <3>1. /\ store'.attempts = store.attempts /\ ledger'.tried = ledger.tried
          /\ Missed' \in Nat /\ Missed <= Missed' /\ (Kill => Missed' = Missed + 1)
      BY <1>1, <2>1, <2>6, OtherCounts
    <3>2. CASE job' = job
      BY <1>1, <2>2, <3>1, <3>2, CountsCarry
    <3>3. CASE Cancel
      <4>1. \A k \in Jobs : job'[k] = Orphaned(k)
        BY <3>3 DEF Cancel
      <4> QED BY <1>1, <2>2, <2>3, <3>1, <4>1, CountsCarry
    <3>4. CASE Kill
      <4>1. \A k \in Jobs : job'[k] = Idle
        BY <3>4 DEF Kill
      <4>2. /\ UnderWay' = {} /\ Checking' = {}
            /\ \A k \in Jobs : job'[k].at # "writeAttempts" /\ ~Pending(k)'
        BY <4>1, RestTypes DEF UnderWay, Checking, Pending
      <4>3. IsFiniteSet({}) /\ Cardinality({}) = 0
        BY FS_EmptySet
      <4>4. ledger.tried <= store.attempts + Missed + 1
        <5>1. Cardinality(Checking) \in Nat
          BY <1>1, PhasesApart, FS_Subset, FS_CardinalityType DEF CountInv, OverlapsAreCounted
        <5>2. store.attempts \in Nat /\ Missed \in Nat /\ ledger.tried \in Nat
          BY <2>1, LedgerCounts DEF PinLockInv
        <5> QED BY <1>1, <5>1, <5>2 DEF CountInv, CountsExplain
      <4>5. ledger'.overlaps \in Nat /\ ledger'.tried \in Nat /\ store'.attempts \in Nat
        BY <2>2 DEF PinLockInv
      <4>6. store.attempts \in Nat /\ Missed \in Nat
        BY <2>1, LedgerCounts DEF PinLockInv
      <4>7. OverlapsAreCounted'
        BY <4>2, <4>3, <4>5 DEF OverlapsAreCounted
      <4> QED BY <3>1, <3>4, <4>2, <4>3, <4>4, <4>5, <4>6, <4>7 DEF CountsExplain
    <3>5. ASSUME NEW j \in Jobs, NEW kind \in JobKinds, NEW pin \in Pins \cup {NoPin},
                 NEW at \in {"readHash", "setSalt", "prompt"}, Begin(j, kind, at, pin)
          PROVE  OverlapsAreCounted' /\ CountsExplain'
      BY <1>1, <3>1, <3>5, CountBegins
    <3> QED BY <1>1, <2>1, <2>6, <3>2, <3>3, <3>4, <3>5, OtherFrame
  <2> QED BY <2>2, <2>4, <2>5, <2>6 DEF CountInv
<1>2. ASSUME CountInv, UNCHANGED pinVars PROVE CountInv'
  BY <1>2, PinNextPreserves
     DEF CountInv, pinVars, OverlapsAreCounted, CountsExplain, UnderWay, Checking, Missed, Pending
<1> QED BY <1>1, <1>2

\* The stored count forgets no wrong PIN but those an overlap, a killed process
\* or a failed call explains, and one that is being written.
THEOREM WrongPinsCount == PinSpec => []WrongPinsAreCounted
<1>1. CountInv => WrongPinsAreCounted
  <2> SUFFICES ASSUME CountInv PROVE WrongPinsAreCounted
    OBVIOUS
  <2>1. PinLockInv /\ ledger \in LedgerRecord
    BY InvParts DEF CountInv
  <2>2. /\ store.attempts \in Nat /\ ledger.tried \in Nat /\ Missed \in Nat
        /\ ledger.overlaps \in Nat /\ ledger.kills \in Nat /\ ledger.faults \in Nat
    BY <2>1, LedgerCounts DEF PinLockInv
  <2>3. IsFiniteSet(Checking) /\ Cardinality(Checking) \in Nat
    BY PhasesApart, FS_Subset, FS_CardinalityType DEF CountInv, OverlapsAreCounted
  <2>4. Checking # {} => Cardinality(Checking) >= 1
    BY <2>3, FS_EmptySet
  <2>5. ledger.tried + Cardinality(Checking)
           <= store.attempts + Missed
                + (IF Checking # {} \/ \E j \in Jobs : Pending(j) THEN 1 ELSE 0)
    BY DEF CountInv, CountsExplain
  <2>6. ledger.tried <= store.attempts + Missed + (IF \E j \in Jobs : Pending(j) THEN 1 ELSE 0)
    BY <2>2, <2>3, <2>4, <2>5
  <2> QED BY <2>2, <2>6 DEF WrongPinsAreCounted, Missed
<1> QED BY <1>1, CountInit, CountNext, PTL DEF PinSpec
=============================================================================
