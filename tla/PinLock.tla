------------------------------ MODULE PinLock ------------------------------
(***************************************************************************)
(* The PIN lock of the phone app: what securityService.ts keeps in the     *)
(* secure store, the lock screen (SecurityLockScreen.tsx), the switches of *)
(* the profile (CreditProfileView.tsx) and App.tsx's decisions to lock.    *)
(*                                                                         *)
(* Every call of the secure store is a step of its own and can fail; what  *)
(* the code awaits goes on while other steps happen, also after the lock   *)
(* screen has gone; the process can be killed between any two steps.       *)
(* Two entries can be under way at once: deleting a digit of a PIN that is *)
(* being checked and typing it again starts another.                       *)
(***************************************************************************)
EXTENDS Naturals

CONSTANTS
    Pins,           \* the PINs people type
    OldPins,        \* those an older version of the app may have stored
    Salts,          \* names for random salts: integers, reused when forgotten
    Jobs,           \* numbers for the entries under way at one time
    NoPin,          \* no PIN stored, none entered
    ShortAfter, ShortLockout,   \* this many wrong PINs lock for so many seconds
    LongAfter, LongLockout,     \* and these for longer (5, 30; 10, 300)
    ResumeGrace,    \* no relock this soon after an unlock (90 seconds)
    Enrolled,       \* the phone has biometrics and they are enrolled
    MaxTried,       \* wrong PINs typed without a right one
    MaxMishaps      \* failed calls, kills, overlapping entries, mistyped confirmations

ASSUME PinLockAssumption ==
    /\ OldPins \subseteq Pins /\ Salts \subseteq Nat \ {0} /\ Jobs \subseteq Nat /\ NoPin \notin Pins /\ Enrolled \in BOOLEAN
    /\ ShortAfter \in Nat \ {0} /\ LongAfter \in Nat \ {0}
    /\ ShortLockout \in Nat /\ LongLockout \in Nat /\ ResumeGrace \in Nat

VARIABLES
    store,      \* the secure store; until: what is left of the lockout
    app,        \* App.tsx: process, pending lock check, lock, its mode, grace
    screen,     \* the lock screen's state, while it is mounted
    job,        \* [Jobs -> entries and unlocks under way]
    ledger      \* history: wrong PINs typed, faults, kills, overlaps, torn writes

pinVars == <<store, app, screen, job, ledger>>

NoHash == [pin |-> NoPin, salt |-> 0, legacy |-> FALSE]
Idle == [kind |-> "none", at |-> "idle", pin |-> NoPin, salt |-> 0,
         hash |-> NoHash, count |-> 0, here |-> TRUE]
Gone == [mode |-> "gone", step |-> "unlock", first |-> NoPin, left |-> 0,
         load |-> "done", bio |-> FALSE]
Mounted(mode) == [Gone EXCEPT !.mode = mode, !.load = "lockout"]

\* SHA-256 and its ten thousand rounds: equal for equal PINs and salts only.
Digest(pin, salt) == [pin |-> pin, salt |-> salt, legacy |-> FALSE]
LegacyDigest(pin, salt) == [pin |-> pin, salt |-> salt, legacy |-> TRUE]

\* A fresh install, or the store of an older version with a PIN.
PinInit ==
    /\ \/ store = [lock |-> "unset", salt |-> 0, hash |-> NoHash,
                    configured |-> FALSE, attempts |-> 0, until |-> 0]
       \/ \E p \in OldPins, s \in Salts :
            /\ \A t \in Salts : s <= t
            /\ store = [lock |-> "true", salt |-> s, hash |-> LegacyDigest(p, s),
                        configured |-> TRUE, attempts |-> 0, until |-> 0]
    /\ app = [phase |-> "dead", checking |-> FALSE, locked |-> FALSE,
              mode |-> "unlock", grace |-> 0]
    /\ screen = Gone
    /\ job = [j \in Jobs |-> Idle]
    /\ ledger = [tried |-> 0, faults |-> 0, kills |-> 0, overlaps |-> 0,
                 typos |-> 0, torn |-> FALSE]

-----------------------------------------------------------------------------
Mishaps == ledger.faults + ledger.kills + ledger.overlaps + ledger.typos

\* A call of the secure store works, or one more of them has failed.
Works == UNCHANGED ledger
Fails ==
    /\ Mishaps < MaxMishaps
    /\ ledger' = [ledger EXCEPT !.faults = @ + 1]

\* The stored hash was computed from another salt than the stored one: no PIN
\* verifies any more.
Torn == store.hash # NoHash /\ store.hash.salt # store.salt

Active == app.phase = "active"

-----------------------------------------------------------------------------
(* The app: launch, background, resume, and the decision to lock.          *)

Launch ==
    /\ app.phase = "dead"
    /\ app' = [app EXCEPT !.phase = "active", !.checking = TRUE, !.locked = FALSE,
                          !.mode = "unlock", !.grace = 0]
    /\ UNCHANGED <<store, screen, job, ledger>>

Background ==
    /\ Active
    /\ app' = [app EXCEPT !.phase = "background"]
    /\ UNCHANGED <<store, screen, job, ledger>>

\* The wallet's own dialogs send the app to the background and back.
Resume ==
    /\ app.phase = "background"
    /\ app' = [app EXCEPT !.phase = "active", !.checking = @ \/ app.grace = 0]
    /\ UNCHANGED <<store, screen, job, ledger>>

Kill ==
    /\ app.phase # "dead" /\ Mishaps < MaxMishaps
    /\ app' = [app EXCEPT !.phase = "dead", !.checking = FALSE, !.locked = FALSE]
    /\ screen' = Gone
    /\ job' = [j \in Jobs |-> Idle]
    /\ ledger' = [ledger EXCEPT !.kills = @ + 1,
                    !.torn = @ \/ \E j \in Jobs : job[j].at \in {"setHash", "upHash"}]
    /\ UNCHANGED store

\* The screen is mounted when the app locks; a change of its mode reloads it.
Lock(mode) ==
    /\ app' = [app EXCEPT !.checking = FALSE, !.locked = TRUE, !.mode = mode]
    /\ screen' = IF ~app.locked THEN Mounted(mode)
                 ELSE IF app.mode # mode THEN [screen EXCEPT !.load = "lockout"]
                 ELSE screen

CheckLock ==
    /\ app.checking
    /\ \/ /\ Works /\ store.lock = "false"
          /\ app' = [app EXCEPT !.checking = FALSE]
          /\ UNCHANGED screen
       \/ /\ Works /\ store.lock # "false" /\ Lock("unlock")
       \/ /\ Fails /\ Lock("unlock")
    /\ UNCHANGED <<store, job>>

\* Slip: nothing stops a countdown that has run out.
Minus1Always(n) == n - 1

\* One unit of time.  The lock screen's countdown may stand still in the background.
Minus1(n) == IF n = 0 THEN 0 ELSE n - 1

\* Slip: the countdown on the screen never starts.
TickStandsStill ==
    /\ store' = [store EXCEPT !.until = Minus1(@)]
    /\ app' = [app EXCEPT !.grace = Minus1(@)]
    /\ UNCHANGED <<screen, job, ledger>>

Tick ==
    /\ store' = [store EXCEPT !.until = Minus1(@)]
    /\ app' = [app EXCEPT !.grace = Minus1(@)]
    /\ \/ screen' = [screen EXCEPT !.left = Minus1(@)]
       \/ app.phase = "background" /\ UNCHANGED screen
    /\ UNCHANGED <<job, ledger>>

-----------------------------------------------------------------------------
(* The lock screen reads the store when it is mounted or its mode changes. *)

\* Slip: the lockout is not read back from the store.
ReadLockoutForgets ==
    /\ app.locked /\ screen.load = "lockout" /\ Works
    /\ screen' = [screen EXCEPT !.load = "mode"]
    /\ UNCHANGED <<store, app, job>>

ReadLockout ==
    /\ app.locked /\ screen.load = "lockout"
    /\ \/ /\ Works
          /\ screen' = [screen EXCEPT !.load = "mode",
                            !.left = IF store.until > 0 THEN store.until ELSE @]
       \/ /\ Fails
          /\ screen' = [screen EXCEPT !.load = "mode"]
    /\ UNCHANGED <<store, app, job>>

Choose(configured) ==
    screen' = CASE app.mode = "unlock" /\ configured ->
                     [screen EXCEPT !.mode = "unlock", !.step = "unlock", !.load = "bio"]
                [] app.mode = "change_pin" ->
                     [screen EXCEPT !.mode = "change_pin", !.step = "enter_current", !.load = "done"]
                [] OTHER ->
                     [screen EXCEPT !.mode = "setup", !.step = "enter_new", !.load = "done"]

ReadConfigured ==
    /\ app.locked /\ screen.load = "mode"
    /\ \/ Works /\ Choose(store.configured)
       \/ Fails /\ Choose(TRUE)
    /\ UNCHANGED <<store, app, job>>

\* The profile's switch for biometrics is left out: it is found on or off.
ReadBiometrics ==
    /\ app.locked /\ screen.load = "bio"
    /\ \E on \in BOOLEAN : screen' = [screen EXCEPT !.load = "done", !.bio = Enrolled /\ on]
    /\ UNCHANGED <<store, app, job, ledger>>

-----------------------------------------------------------------------------
(* Entries.  Four digits take longer to type than the reads at mounting.   *)

Ready == Active /\ app.locked /\ screen.load = "done" /\ screen.left = 0

Busy == \E j \in Jobs : job[j] # Idle

Begin(j, kind, at, pin) ==
    /\ job[j] = Idle /\ \A k \in Jobs : k < j => job[k] # Idle
    /\ Busy => Mishaps < MaxMishaps
    /\ job' = [job EXCEPT ![j] = [Idle EXCEPT !.kind = kind, !.at = at, !.pin = pin]]
    /\ ledger' = [ledger EXCEPT !.overlaps = IF Busy THEN @ + 1 ELSE @]

EnterToUnlock(j, pin) ==
    /\ Ready /\ screen.mode = "unlock"
    /\ pin # store.hash.pin \/ Torn => ledger.tried < MaxTried
    /\ Begin(j, "unlock", "readHash", pin)
    /\ UNCHANGED <<store, app, screen>>

EnterCurrent(j, pin) ==
    /\ Ready /\ screen.mode = "change_pin" /\ screen.step = "enter_current"
    /\ Begin(j, "current", "readHash", pin)
    /\ UNCHANGED <<store, app, screen>>

EnterNew(pin) ==
    /\ Ready /\ screen.mode \in {"setup", "change_pin"} /\ screen.step = "enter_new"
    /\ screen' = [screen EXCEPT !.first = pin, !.step = "confirm_new"]
    /\ UNCHANGED <<store, app, job, ledger>>

ConfirmNew(j, pin) ==
    /\ Ready /\ screen.mode \in {"setup", "change_pin"} /\ screen.step = "confirm_new"
    /\ \/ /\ pin = screen.first
          /\ Begin(j, screen.mode, "setSalt", pin)
          /\ UNCHANGED screen
       \/ /\ pin # screen.first /\ Mishaps < MaxMishaps
          /\ ledger' = [ledger EXCEPT !.typos = @ + 1]
          /\ screen' = [screen EXCEPT !.first = NoPin, !.step = "enter_new"]
          /\ UNCHANGED job
    /\ UNCHANGED <<store, app>>

\* No lockout is looked for once the system's own prompt is up.
Biometric(j) ==
    /\ Ready /\ screen.mode = "unlock" /\ screen.bio
    /\ Begin(j, "bio", "prompt", NoPin)
    /\ UNCHANGED <<store, app, screen>>

\* What is under way goes on without the screen it began on.
Orphaned(j) == IF job[j] = Idle THEN Idle ELSE [job[j] EXCEPT !.here = FALSE]

Cancel ==
    /\ Active /\ app.locked /\ app.mode # "unlock"
    /\ app' = [app EXCEPT !.locked = FALSE]
    /\ screen' = Gone
    /\ job' = [j \in Jobs |-> Orphaned(j)]
    /\ UNCHANGED <<store, ledger>>

-----------------------------------------------------------------------------
(* The steps of an entry under way.  Goes(j, at): its next call is at; a   *)
(* job that ends is Idle again.                                            *)

Running(j, at) == app.phase # "dead" /\ job[j].at = at
Goes(j, at) == job' = [job EXCEPT ![j].at = at]
Ends(j) == job' = [job EXCEPT ![j] = Idle]

\* A salt nobody remembers: 256 random bits.
InUse == {store.salt, store.hash.salt} \cup {job[j].salt : j \in Jobs}
            \cup {job[j].hash.salt : j \in Jobs}
Fresh(s) == s \in Salts \ InUse /\ \A t \in Salts : t < s => t \in InUse

\* The prompt succeeds, or is dismissed, fails or times out.
Prompted(j) ==
    /\ Running(j, "prompt")
    /\ Goes(j, "clearAttempts") \/ Ends(j)
    /\ UNCHANGED <<store, app, screen, ledger>>

Verified(j) ==
    \/ /\ job[j].kind = "unlock"
       /\ Goes(j, "clearAttempts")
       /\ UNCHANGED screen
    \/ /\ job[j].kind = "current"
       /\ Ends(j)
       /\ screen' = IF job[j].here THEN [screen EXCEPT !.step = "enter_new"] ELSE screen

Rejected(j) ==
    \/ /\ job[j].kind = "unlock"
       /\ Goes(j, "readAttempts")
    \/ /\ job[j].kind = "current"
       /\ Ends(j)

Wrong(j) == ledger' = [ledger EXCEPT !.tried = IF job[j].kind = "unlock" THEN @ + 1 ELSE @]

\* Verdicts other than a stored hash that matches are all "not valid".
ReadHash(j) ==
    /\ Running(j, "readHash")
    /\ \/ /\ Works /\ store.hash # NoHash
          /\ job' = [job EXCEPT ![j].at = "readSalt", ![j].hash = store.hash]
       \/ /\ store.hash = NoHash /\ Rejected(j) /\ Wrong(j)
       \/ /\ Fails /\ Rejected(j)
    /\ UNCHANGED <<store, app, screen>>

Matches(j) ==
    /\ store.salt # 0
    /\ job[j].hash \in {Digest(job[j].pin, store.salt), LegacyDigest(job[j].pin, store.salt)}

ReadSalt(j) ==
    /\ Running(j, "readSalt")
    /\ \/ /\ Works /\ Matches(j) /\ ~job[j].hash.legacy
          /\ Verified(j)
       \/ /\ Works /\ Matches(j) /\ job[j].hash.legacy
          /\ Goes(j, "upSalt")
          /\ UNCHANGED screen
       \/ /\ ~Matches(j) /\ Rejected(j) /\ Wrong(j)
          /\ UNCHANGED screen
       \/ /\ Fails /\ Rejected(j)
          /\ UNCHANGED screen
    /\ UNCHANGED <<store, app>>

\* Upgrading a legacy hash: a failure is logged and the PIN stays accepted.
UpgradeSalt(j) ==
    /\ Running(j, "upSalt")
    /\ \/ \E s \in Salts :
            /\ Works /\ Fresh(s)
            /\ store' = [store EXCEPT !.salt = s]
            /\ job' = [job EXCEPT ![j].at = "upHash", ![j].salt = s]
            /\ UNCHANGED screen
       \/ Fails /\ Verified(j) /\ UNCHANGED store
    /\ UNCHANGED app

\* Slip: the upgraded hash is computed from the salt that has just been replaced.
UpgradeHashOldSalt(j) ==
    /\ Running(j, "upHash")
    /\ Works /\ store' = [store EXCEPT !.hash = Digest(job[j].pin, job[j].hash.salt)]
    /\ Verified(j)
    /\ UNCHANGED app

UpgradeHash(j) ==
    /\ Running(j, "upHash")
    /\ \/ Works /\ store' = [store EXCEPT !.hash = Digest(job[j].pin, job[j].salt)]
       \/ /\ Mishaps < MaxMishaps
          /\ ledger' = [ledger EXCEPT !.faults = @ + 1, !.torn = TRUE]
          /\ UNCHANGED store
    /\ Verified(j)
    /\ UNCHANGED app

ReadAttempts(j) ==
    /\ Running(j, "readAttempts")
    /\ \/ Works /\ job' = [job EXCEPT ![j].at = "writeAttempts", ![j].count = store.attempts + 1]
       \/ Fails /\ Ends(j)
    /\ UNCHANGED <<store, app, screen>>

Lockout(count) ==
    IF count >= LongAfter THEN LongLockout
    ELSE IF count >= ShortAfter THEN ShortLockout ELSE 0

\* Slip: the first wrong PIN after a lockout starts the count again.
WriteAttemptsRestarts(j) ==
    /\ Running(j, "writeAttempts") /\ Works
    /\ store' = [store EXCEPT !.attempts = IF @ >= ShortAfter THEN 1 ELSE job[j].count]
    /\ IF Lockout(job[j].count) > 0 THEN Goes(j, "writeLockout") ELSE Ends(j)
    /\ UNCHANGED <<app, screen>>

WriteAttempts(j) ==
    /\ Running(j, "writeAttempts")
    /\ \/ /\ Works
          /\ store' = [store EXCEPT !.attempts = job[j].count]
          /\ IF Lockout(job[j].count) > 0 THEN Goes(j, "writeLockout") ELSE Ends(j)
       \/ Fails /\ Ends(j) /\ UNCHANGED store
    /\ UNCHANGED <<app, screen>>

WriteLockout(j) ==
    /\ Running(j, "writeLockout")
    /\ \/ /\ Works
          /\ store' = [store EXCEPT !.until = Lockout(job[j].count)]
          /\ screen' = [screen EXCEPT !.left = IF job[j].here THEN Lockout(job[j].count) ELSE @]
       \/ Fails /\ UNCHANGED <<store, screen>>
    /\ Ends(j)
    /\ UNCHANGED app

-----------------------------------------------------------------------------
(* Storing a PIN: salt, hash, configured, then the count is cleared.       *)

SetSalt(j) ==
    /\ Running(j, "setSalt")
    /\ \/ \E s \in Salts :
            /\ Works /\ Fresh(s)
            /\ store' = [store EXCEPT !.salt = s]
            /\ job' = [job EXCEPT ![j].at = "setHash", ![j].salt = s]
       \/ Fails /\ Ends(j) /\ UNCHANGED store
    /\ UNCHANGED <<app, screen>>

SetHash(j) ==
    /\ Running(j, "setHash")
    /\ \/ /\ Works
          /\ store' = [store EXCEPT !.hash = Digest(job[j].pin, job[j].salt)]
          /\ Goes(j, "setConfigured")
       \/ /\ Mishaps < MaxMishaps
          /\ ledger' = [ledger EXCEPT !.faults = @ + 1, !.torn = TRUE]
          /\ Ends(j) /\ UNCHANGED store
    /\ UNCHANGED <<app, screen>>

SetConfigured(j) ==
    /\ Running(j, "setConfigured")
    /\ \/ /\ Works
          /\ store' = [store EXCEPT !.configured = TRUE]
          /\ Goes(j, "clearAttempts")
       \/ Fails /\ Ends(j) /\ UNCHANGED store
    /\ UNCHANGED <<app, screen>>

AfterClearing(j) == IF job[j].kind = "setup" THEN "setLock" ELSE "open"

ClearAttempts(j) ==
    /\ Running(j, "clearAttempts")
    /\ \/ /\ store' = [store EXCEPT !.attempts = 0]
          /\ ledger' = [ledger EXCEPT !.tried = 0]
          /\ Goes(j, "clearLockout")
       \/ Fails /\ Goes(j, AfterClearing(j)) /\ UNCHANGED store
    /\ UNCHANGED <<app, screen>>

ClearLockout(j) ==
    /\ Running(j, "clearLockout")
    /\ \/ Works /\ store' = [store EXCEPT !.until = 0]
       \/ Fails /\ UNCHANGED store
    /\ Goes(j, AfterClearing(j))
    /\ UNCHANGED <<app, screen>>

SetLock(j) ==
    /\ Running(j, "setLock")
    /\ \/ Works /\ store' = [store EXCEPT !.lock = "true"]
       \/ Fails /\ UNCHANGED store
    /\ Goes(j, "open")
    /\ UNCHANGED <<app, screen>>

\* onUnlock, a tenth of a second later
Open(j) ==
    /\ Running(j, "open")
    /\ app' = [app EXCEPT !.locked = FALSE, !.grace = ResumeGrace]
    /\ screen' = Gone
    /\ job' = [k \in Jobs |-> IF k = j THEN Idle ELSE Orphaned(k)]
    /\ UNCHANGED <<store, ledger>>

-----------------------------------------------------------------------------
(* The profile's switches, while the app is open.                          *)

Settings == Active /\ ~app.locked /\ ~app.checking

\* hasCustomPin: a hash could be read
PinSeen(seen) == \/ Works /\ seen = (store.hash # NoHash)
                 \/ Fails /\ seen = FALSE

ToggleLock(on) ==
    /\ Settings
    /\ \E seen \in BOOLEAN :
        /\ PinSeen(seen)
        /\ \/ /\ on /\ ~seen
              /\ Lock("setup")
              /\ UNCHANGED store
           \/ /\ ~(on /\ ~seen)
              /\ store' = [store EXCEPT !.lock = IF on THEN "true" ELSE "false"]
              /\ UNCHANGED <<app, screen>>
    /\ UNCHANGED job

ChangePin ==
    /\ Settings
    /\ \E seen \in BOOLEAN : PinSeen(seen) /\ Lock(IF seen THEN "change_pin" ELSE "setup")
    /\ UNCHANGED <<store, job>>

LockNow ==
    /\ Settings /\ store.lock # "false"
    /\ Lock("unlock")
    /\ UNCHANGED <<store, job, ledger>>

-----------------------------------------------------------------------------
Screen == ReadLockout \/ ReadConfigured \/ ReadBiometrics

Step(j) ==
    \/ Prompted(j) \/ ReadHash(j) \/ ReadSalt(j) \/ UpgradeSalt(j) \/ UpgradeHash(j)
    \/ ReadAttempts(j) \/ WriteAttempts(j) \/ WriteLockout(j)
    \/ SetSalt(j) \/ SetHash(j) \/ SetConfigured(j)
    \/ ClearAttempts(j) \/ ClearLockout(j) \/ SetLock(j) \/ Open(j)

Enter(j, pin) ==
    EnterToUnlock(j, pin) \/ EnterCurrent(j, pin) \/ EnterNew(pin) \/ ConfirmNew(j, pin)

PinNext ==
    \/ Launch \/ Background \/ Resume \/ Kill \/ CheckLock \/ Tick
    \/ Screen \/ Cancel \/ ChangePin \/ LockNow
    \/ \E on \in BOOLEAN : ToggleLock(on)
    \/ \E j \in Jobs : Step(j) \/ Biometric(j) \/ \E pin \in Pins : Enter(j, pin)

\* The owner types the PIN the store holds, or a new one and the same again.
OwnerTypes ==
    \/ \E j \in Jobs : EnterToUnlock(j, store.hash.pin) \/ EnterCurrent(j, store.hash.pin)
    \/ \E pin \in Pins : EnterNew(pin)
    \/ \E j \in Jobs : ConfirmNew(j, screen.first)

\* What the code awaits and its timers come to pass, the system's prompt too,
\* one way or the other; the owner brings the app back and, given the chance
\* over and over, types.
PinFairness ==
    /\ WF_pinVars(Launch) /\ WF_pinVars(Resume)
    /\ WF_pinVars(CheckLock) /\ WF_pinVars(Screen) /\ WF_pinVars(Tick)
    /\ \A j \in Jobs : WF_pinVars(Step(j))
    /\ SF_pinVars(OwnerTypes)

PinSpec == PinInit /\ [][PinNext]_pinVars /\ PinFairness

-----------------------------------------------------------------------------
JobKinds == {"none", "unlock", "current", "setup", "change_pin", "bio"}
JobSteps == {"idle", "prompt", "readHash", "readSalt", "upSalt", "upHash", "readAttempts",
             "writeAttempts", "writeLockout", "setSalt", "setHash", "setConfigured",
             "clearAttempts", "clearLockout", "setLock", "open"}
Hashes == [pin : Pins \cup {NoPin}, salt : Salts \cup {0}, legacy : BOOLEAN]

\* What the store, the screen and the entries under way can hold.
PinLockInv ==
    /\ store \in [lock : {"unset", "true", "false"}, salt : Salts \cup {0}, hash : Hashes,
                  configured : BOOLEAN, attempts : Nat, until : Nat]
    /\ app \in [phase : {"dead", "active", "background"}, checking : BOOLEAN,
                locked : BOOLEAN, mode : {"unlock", "setup", "change_pin"}, grace : Nat]
    /\ screen \in [mode : {"gone", "unlock", "setup", "change_pin"},
                   step : {"unlock", "enter_current", "enter_new", "confirm_new"},
                   first : Pins \cup {NoPin}, left : Nat,
                   load : {"lockout", "mode", "bio", "done"}, bio : BOOLEAN]
    /\ job \in [Jobs -> [kind : JobKinds, at : JobSteps, pin : Pins \cup {NoPin},
                         salt : Salts \cup {0}, hash : Hashes, count : Nat, here : BOOLEAN]]
    /\ ledger \in [tried : Nat, faults : Nat, kills : Nat, overlaps : Nat,
                   typos : Nat, torn : BOOLEAN]

Writing == \E j \in Jobs : job[j].at \in {"setHash", "upHash"}

\* The owner is never left with a PIN nobody can enter (setUserPin and the
\* upgrade in verifyUserPin replace the salt before the hash), unless the
\* second write failed or never happened, or two entries wrote at once.
OwnerNeverShutOut ==
    Torn => Writing \/ ledger.torn \/ ledger.overlaps > 0

Pending(j) == job[j].at \in {"readAttempts", "writeAttempts"}

\* recordFailedAttempt keeps its count in the store so that restarts do not
\* forget it.  Each wrong PIN the count misses is explained by an entry that
\* overlapped another, a killed process, a failed call, or is being written.
WrongPinsAreCounted ==
    ledger.tried <= store.attempts + ledger.overlaps + ledger.kills + ledger.faults
                      + (IF \E j \in Jobs : Pending(j) THEN 1 ELSE 0)

\* A lockout holds over restarts and relocks: no PIN is taken for checking
\* before it has run out, unless a call failed or two entries overlapped.
LockoutsAreServed ==
    [][\A j \in Jobs : job[j] = Idle /\ job'[j].kind = "unlock" =>
            store.until = 0 \/ ledger.faults > 0 \/ ledger.overlaps > 0]_pinVars

\* initSecurity takes a failed read of the configured flag for TRUE.
Misread == screen.mode = "unlock" /\ store.hash = NoHash

\* A locked app opens for an owner who keeps typing, however many wrong PINs,
\* lockouts, relocks and restarts come first, unless no PIN can be right.
EveryLockOpens == app.locked ~> ~app.locked \/ Torn \/ Misread
=============================================================================
