------------------------------ MODULE Settings ------------------------------
(***************************************************************************)
(* The settings (apps/web/lib/settings.ts), what getEnv makes of them      *)
(* (lib/env.ts), and the scheduler's timer, which is armed with one of     *)
(* them (lib/scheduler.ts, app/actions.ts updateSettingsAction).           *)
(*                                                                         *)
(* The rows of AppSetting are written one by one and then loaded as a      *)
(* whole into memory.  Several saves may be under way, a query may fail,   *)
(* and the process may restart, perhaps under another ABS_SYNC_SECRET.     *)
(***************************************************************************)
EXTENDS Naturals, FiniteSets

CONSTANTS
    Keys,          \* bound: SettingKey
    Interval,      \* the key of the scheduler's interval
    SecretKeys,    \* the keys whose rows are encrypted
    Checked,       \* those that number and bytes read
    Values,        \* values that validate accepts
    Offered,       \* bound: those that forms send
    Bad,           \* a value that it does not
    Environment,   \* process.env, by key
    Fallback,      \* the built-in defaults
    Secrets,       \* bound: values of ABS_SYNC_SECRET
    Savers,        \* bound: saves under way at once
    MaxFaults,     \* bound: queries that fail, and restarts
    None           \* no row, no override, no value

ASSUME SettingsAssumption ==
    /\ Offered \subseteq Values
    /\ Interval \in Checked /\ Checked \subseteq Keys /\ SecretKeys \subseteq Keys
    /\ Environment \in [Keys -> Values \cup {Bad, None}]
    /\ Fallback \in [Keys -> Values \cup {None}]
    /\ Fallback[Interval] # None
    /\ Bad \notin Values /\ Bad # None
    /\ None \notin Values \cup [value : Values, under : Secrets]
    /\ MaxFaults \in Nat

VARIABLES
    rows,       \* AppSetting: a value, and the secret it was written under
    secret,     \* ABS_SYNC_SECRET
    overrides,  \* the values in memory
    cached,     \* what getEnv returned last, or None
    timer,      \* timerIntervalMs, or None while the scheduler is stopped
    boot,       \* "off", then "up" or "broken"
    save,       \* each call of updateSettingsAction
    faults      \* faults so far

vars == <<rows, secret, overrides, cached, timer, boot, save, faults>>

Stored == [value : Values, under : Secrets]
Maybe(S) == S \cup {None}
Nothing == [k \in Keys |-> None]

\* What a form may send: a value for some keys, None for an emptied field.
Patches == UNION {[K -> Offered \cup {Bad, None}] : K \in (SUBSET Keys) \ {{}}}
IdleSave == [pc |-> "idle", patch |-> Nothing, todo |-> {}, read |-> Nothing, alone |-> TRUE]

TypeOK ==
    /\ rows \in [Keys -> Maybe(Stored)]
    /\ secret \in Secrets
    /\ overrides \in [Keys -> Maybe(Values)]
    /\ cached \in Maybe([Keys -> Maybe(Values \cup {Bad})])
    /\ timer \in Maybe(Values)
    /\ boot \in {"off", "up", "broken"}
    /\ \A w \in Savers :
         /\ save[w].pc \in {"idle", "writing", "read", "applied"}
         /\ save[w].patch \in Patches
         /\ save[w].todo \subseteq DOMAIN save[w].patch
         /\ save[w].read \in [Keys -> Maybe(Values)]
         /\ save[w].alone \in BOOLEAN
    /\ faults \in 0..MaxFaults

Init ==
    /\ rows = Nothing /\ secret \in Secrets
    /\ overrides = Nothing /\ cached = None /\ timer = None
    /\ boot = "off"
    /\ save = [w \in Savers |-> IdleSave]
    /\ faults = 0

Fault == faults < MaxFaults /\ faults' = faults + 1
-----------------------------------------------------------------------------
\* A row in memory: a secret that was written under another ABS_SYNC_SECRET is skipped.
Readable(k) ==
    IF rows[k] = None \/ (k \in SecretKeys /\ rows[k].under # secret) THEN None
    ELSE rows[k].value

\* resolve and its readers, with the overrides given: the row, else the environment, else
\* the default, which also replaces a malformed number or size.
Usable(k) == Environment[k] \notin {None} \cup (IF k \in Checked THEN {Bad} ELSE {})
InForce(given) ==
    [k \in Keys |-> IF given[k] # None THEN given[k]
                    ELSE IF Usable(k) THEN Environment[k] ELSE Fallback[k]]

\* getEnv, by anybody at any time.
Env == IF cached # None THEN cached ELSE InForce(overrides)
GetEnv ==
    /\ cached = None
    /\ cached' = InForce(overrides)
    /\ UNCHANGED <<rows, secret, overrides, timer, boot, save, faults>>

-----------------------------------------------------------------------------
\* validate: an empty field is not looked at.  (Variant: nothing is.)
ValidAny(value) == TRUE
Valid(value) == value # Bad

\* A form is saved.  Nothing is written unless all of it is valid.
Save(w, patch) ==
    /\ boot # "off" /\ save[w].pc = "idle"
    /\ \A k \in DOMAIN patch : Valid(patch[k])
    /\ LET alone == \A v \in Savers \ {w} : save[v].pc = "idle" IN
       save' = [v \in Savers |->
                  IF v = w THEN [IdleSave EXCEPT !.pc = "writing", !.patch = patch,
                                                 !.todo = DOMAIN patch, !.alone = alone]
                  ELSE IF save[v].pc = "idle" THEN save[v]
                  ELSE [save[v] EXCEPT !.alone = FALSE]]
    /\ UNCHANGED <<rows, secret, overrides, cached, timer, boot, faults>>

Write(w) ==
    /\ save[w].pc = "writing"
    /\ \E k \in save[w].todo :
         /\ rows' = [rows EXCEPT ![k] = IF save[w].patch[k] = None THEN None
                                        ELSE [value |-> save[w].patch[k], under |-> secret]]
         /\ save' = [save EXCEPT ![w] = [@ EXCEPT !.todo = save[w].todo \ {k}]]
    /\ UNCHANGED <<secret, overrides, cached, timer, boot, faults>>

\* loadSettings, up to its query's result ...
Load(w) ==
    /\ save[w].pc = "writing" /\ save[w].todo = {}
    /\ save' = [save EXCEPT ![w] = [@ EXCEPT !.pc = "read",
                                            !.read = [k \in Keys |-> Readable(k)]]]
    /\ UNCHANGED <<rows, secret, overrides, cached, timer, boot, faults>>

\* ... and from there.  (Variant: an override that has no row any more stays.)
ApplyMerges(w) ==
    /\ save[w].pc = "read"
    /\ overrides' = [k \in Keys |-> IF save[w].read[k] # None THEN save[w].read[k]
                                    ELSE overrides[k]]
    /\ cached' = None
    /\ save' = [save EXCEPT ![w] = [@ EXCEPT !.pc = "applied"]]
    /\ UNCHANGED <<rows, secret, timer, boot, faults>>

Apply(w) ==
    /\ save[w].pc = "read"
    /\ overrides' = save[w].read
    /\ cached' = None
    /\ save' = [save EXCEPT ![w] = [@ EXCEPT !.pc = "applied"]]
    /\ UNCHANGED <<rows, secret, timer, boot, faults>>

\* A query that fails ends the save; what it has written stays written.
SaveFails(w) ==
    /\ save[w].pc = "writing"
    /\ Fault
    /\ save' = [save EXCEPT ![w] = IdleSave]
    /\ UNCHANGED <<rows, secret, overrides, cached, timer, boot>>

\* Scheduler.reschedule, and the save is over.  (Variant: start alone, which leaves a
\* timer that is running.)
RescheduleStarts(w) ==
    /\ save[w].pc = "applied"
    /\ cached' = Env
    /\ save' = [save EXCEPT ![w] = IdleSave]
    /\ UNCHANGED <<rows, secret, overrides, timer, boot, faults>>

Reschedule(w) ==
    /\ save[w].pc = "applied"
    /\ cached' = Env
    /\ timer' = IF timer = None THEN None ELSE Env[Interval]
    /\ save' = [save EXCEPT ![w] = IdleSave]
    /\ UNCHANGED <<rows, secret, overrides, boot, faults>>

-----------------------------------------------------------------------------
\* register: the settings are loaded before anything reads them, and before the first
\* request is served.
Boot ==
    /\ boot = "off"
    /\ overrides' = [k \in Keys |-> Readable(k)]
    /\ cached' = InForce(overrides')
    /\ timer' = cached'[Interval]
    /\ boot' = "up"
    /\ UNCHANGED <<rows, secret, save, faults>>

\* Before the settings are loaded or after.  The pages are served all the same.
BootFails ==
    /\ boot = "off"
    /\ Fault
    /\ boot' = "broken"
    /\ \/ UNCHANGED <<overrides, cached>>
       \/ overrides' = [k \in Keys |-> Readable(k)] /\ cached' = None
    /\ UNCHANGED <<rows, secret, timer, save>>

Restart ==
    /\ boot # "off"
    /\ Fault
    /\ secret' \in Secrets
    /\ boot' = "off"
    /\ overrides' = Nothing /\ cached' = None /\ timer' = None
    /\ save' = [w \in Savers |-> IdleSave]
    /\ UNCHANGED rows

SaveStep(w) ==
    \/ \E patch \in Patches : Save(w, patch)
    \/ Write(w) \/ Load(w) \/ Apply(w) \/ Reschedule(w) \/ SaveFails(w)

Next ==
    \/ \E w \in Savers : SaveStep(w)
    \/ GetEnv \/ Boot \/ BootFails \/ Restart

Spec == Init /\ [][Next]_vars
-----------------------------------------------------------------------------
\* What is used is what is in force.  getEnv returns what the tiers resolve to now,
\* although it computes that only when asked for the first time after a change; and once
\* nobody is saving, the timer runs at the interval in force, however saves overlap,
\* whichever of them fail half-way, and although re-arming is a step of its own.
UsedInForce ==
    /\ cached # None => cached = InForce(overrides)
    /\ (boot = "up" /\ \A w \in Savers : save[w].pc = "idle") => timer = Env[Interval]

\* A save that reports success and met no other has put into force what it asked for,
\* and every other row of the table with it: also those that an earlier save wrote before
\* it failed, or deleted while its own load was overtaken.
SavedInForce ==
    [][\A w \in Savers :
         (save[w].pc = "applied" /\ save'[w].pc = "idle" /\ boot' = boot /\ save[w].alone) =>
           /\ overrides' = [k \in Keys |-> Readable(k)]
           /\ \A k \in DOMAIN save[w].patch :
                overrides'[k] = save[w].patch[k]]_vars
=============================================================================
