----------------------------- MODULE HomeProofs -----------------------------
(***************************************************************************)
(* What holds of Settings for every set of keys, forms, environments and   *)
(* secrets, any number of saves at once, and any number of faults; of      *)
(* Notifier for any events, servers and browsers, and any number of        *)
(* changes of the configuration; and of MissingList for any books, servers *)
(* and copies, and any number of changes of the index and the filters.     *)
(***************************************************************************)
EXTENDS Settings, Notifier, MissingList, FiniteSetTheorems, TLAPS

SavePcs == {"idle", "writing", "read", "applied"}
SaveRecord == [pc : SavePcs, patch : Patches, todo : SUBSET Keys,
               read : [Keys -> Maybe(Values)], alone : BOOLEAN]

\* The records a save goes through.
Begun(patch, alone) == [IdleSave EXCEPT !.pc = "writing", !.patch = patch,
                                        !.todo = DOMAIN patch, !.alone = alone]
Met(x) == [x EXCEPT !.alone = FALSE]
Wrote(x, k) == [x EXCEPT !.todo = @ \ {k}]
HasRead(x, read) == [x EXCEPT !.pc = "read", !.read = read]
HasApplied(x) == [x EXCEPT !.pc = "applied"]

\* The row that a value becomes.
RowFor(value) == IF value = None THEN None ELSE [value |-> value, under |-> secret]

\* Every save is a record of a valid form.
FormValid(x) ==
    /\ x.todo \subseteq DOMAIN x.patch
    /\ x.pc # "idle" => \A k \in DOMAIN x.patch : x.patch[k] # Bad
SaveType == save \in [Savers -> SaveRecord] /\ \A w \in Savers : FormValid(save[w])

\* The other variables.
MemoryType ==
    /\ rows \in [Keys -> Maybe(Stored)]
    /\ secret \in Secrets
    /\ overrides \in [Keys -> Maybe(Values)]
    /\ cached \in Maybe([Keys -> Maybe(Values \cup {Bad})])
    /\ cached # None => cached[Interval] \in Values
    /\ timer \in Maybe(Values)
    /\ boot \in {"off", "up", "broken"}
    /\ faults \in 0..MaxFaults

\* The interval in force reaches the timer at the latest with a save that is to re-arm it.
TimerInv ==
    /\ boot = "up" =>
         /\ timer # None
         /\ timer = InForce(overrides)[Interval] \/ \E w \in Savers : save[w].pc = "applied"
    /\ cached # None => cached = InForce(overrides)

\* What a save that has met no other has written is in the table, and what it has read is
\* the table.
Table == [k \in Keys |-> Readable(k)]
Written(x) == \A k \in DOMAIN x.patch \ x.todo : Table[k] = x.patch[k]
InTable(x) ==
    /\ x.pc = "writing" => Written(x)
    /\ x.pc \in {"read", "applied"} => x.todo = {} /\ Written(x)
    /\ x.pc = "read" => x.read = Table
    /\ x.pc = "applied" => overrides = Table
AloneInv ==
    \A w \in Savers : save[w].pc # "idle" /\ save[w].alone =>
        InTable(save[w]) /\ \A v \in Savers \ {w} : save[v].pc = "idle"

OffIdle == boot = "off" => \A w \in Savers : save[w].pc = "idle"
-----------------------------------------------------------------------------
(***************************************************************************)
(* Types.                                                                  *)
(***************************************************************************)
LEMMA TypeSplit == MemoryType /\ SaveType => TypeOK
  BY DEF MemoryType, SaveType, FormValid, TypeOK, SaveRecord, SavePcs

LEMMA PatchFacts ==
    ASSUME NEW patch \in Patches
    PROVE  /\ DOMAIN patch \subseteq Keys
           /\ \A k \in DOMAIN patch : patch[k] \in Values \cup {Bad, None}
  BY SettingsAssumption DEF Patches

\* There is always an interval, and it is one that validate accepts.
LEMMA IntervalKnown ==
    ASSUME NEW given
    PROVE  InForce(given)[Interval] # None
  BY SettingsAssumption DEF InForce, Usable

LEMMA IntervalValid ==
    ASSUME NEW given \in [Keys -> Maybe(Values)]
    PROVE  InForce(given)[Interval] \in Values
<1>1. Interval \in Keys /\ Interval \in Checked
  BY SettingsAssumption
<1>2. Usable(Interval) => Environment[Interval] \in Values
  BY <1>1, SettingsAssumption DEF Usable
<1> QED
  BY <1>1, <1>2, SettingsAssumption DEF InForce, Maybe

\* What is resolved is a value for each key, where there is one.
LEMMA InForceType ==
    ASSUME NEW given \in [Keys -> Maybe(Values)]
    PROVE  InForce(given) \in [Keys -> Maybe(Values \cup {Bad})]
  BY SettingsAssumption DEF InForce, Maybe

LEMMA TableType == MemoryType => Table \in [Keys -> Maybe(Values)]
  BY DEF MemoryType, Table, Readable, Maybe, Stored

LEMMA IdleFacts == IdleSave \in SaveRecord /\ IdleSave.pc = "idle" /\ FormValid(IdleSave)
<1>1. Nothing \in [Keys -> Offered \cup {Bad, None}] /\ Keys \in (SUBSET Keys) \ {{}}
  BY SettingsAssumption DEF Nothing
<1>2. Nothing \in Patches /\ Nothing \in [Keys -> Maybe(Values)]
  BY <1>1 DEF Patches, Nothing, Maybe
<1> QED
  BY <1>2 DEF IdleSave, SaveRecord, SavePcs, FormValid

LEMMA SaveFields ==
    ASSUME NEW x \in SaveRecord
    PROVE  /\ x.pc \in SavePcs /\ x.patch \in Patches /\ x.todo \in SUBSET Keys
           /\ x.read \in [Keys -> Maybe(Values)] /\ x.alone \in BOOLEAN
  BY DEF SaveRecord

LEMMA BegunFacts ==
    ASSUME NEW patch \in Patches, \A k \in DOMAIN patch : patch[k] # Bad, NEW b \in BOOLEAN
    PROVE  /\ Begun(patch, b) \in SaveRecord /\ FormValid(Begun(patch, b))
           /\ Begun(patch, b).pc = "writing" /\ Begun(patch, b).alone = b
           /\ Begun(patch, b).todo = DOMAIN patch /\ Begun(patch, b).patch = patch
<1>1. Nothing \in [Keys -> Maybe(Values)] /\ DOMAIN patch \in SUBSET Keys
  BY PatchFacts DEF Nothing, Maybe
<1>2. CASE b = TRUE
  BY <1>1, <1>2 DEF Begun, IdleSave, SaveRecord, SavePcs, FormValid
<1>3. CASE b = FALSE
  BY <1>1, <1>3 DEF Begun, IdleSave, SaveRecord, SavePcs, FormValid
<1> QED
  BY <1>2, <1>3

LEMMA MetFacts ==
    ASSUME NEW x \in SaveRecord, FormValid(x)
    PROVE  /\ Met(x) \in SaveRecord /\ FormValid(Met(x))
           /\ Met(x).alone = FALSE /\ Met(x).pc = x.pc
  BY DEF Met, SaveRecord, FormValid

LEMMA WroteFacts ==
    ASSUME NEW x \in SaveRecord, FormValid(x), NEW k
    PROVE  /\ Wrote(x, k) \in SaveRecord /\ FormValid(Wrote(x, k))
           /\ Wrote(x, k).todo = x.todo \ {k} /\ Wrote(x, k).patch = x.patch
           /\ Wrote(x, k).pc = x.pc /\ Wrote(x, k).alone = x.alone
<1>1. /\ Wrote(x, k) \in SaveRecord
      /\ Wrote(x, k).todo = x.todo \ {k} /\ Wrote(x, k).patch = x.patch
      /\ Wrote(x, k).pc = x.pc /\ Wrote(x, k).alone = x.alone
  BY DEF Wrote, SaveRecord
<1> QED
  BY <1>1 DEF FormValid

LEMMA ReadFacts ==
    ASSUME NEW x \in SaveRecord, FormValid(x), x.pc # "idle", NEW t \in [Keys -> Maybe(Values)]
    PROVE  /\ HasRead(x, t) \in SaveRecord /\ FormValid(HasRead(x, t))
           /\ HasRead(x, t).pc = "read" /\ HasRead(x, t).read = t
           /\ HasRead(x, t).todo = x.todo /\ HasRead(x, t).patch = x.patch
           /\ HasRead(x, t).alone = x.alone
           /\ HasApplied(x) \in SaveRecord /\ FormValid(HasApplied(x))
           /\ HasApplied(x).pc = "applied" /\ HasApplied(x).alone = x.alone
           /\ HasApplied(x).todo = x.todo /\ HasApplied(x).patch = x.patch
<1>1. /\ HasRead(x, t) \in SaveRecord /\ HasRead(x, t).pc = "read" /\ HasRead(x, t).read = t
      /\ HasRead(x, t).todo = x.todo /\ HasRead(x, t).patch = x.patch
      /\ HasRead(x, t).alone = x.alone
  BY DEF HasRead, SaveRecord, SavePcs
<1>2. /\ HasApplied(x) \in SaveRecord /\ HasApplied(x).pc = "applied"
      /\ HasApplied(x).alone = x.alone
      /\ HasApplied(x).todo = x.todo /\ HasApplied(x).patch = x.patch
  BY DEF HasApplied, SaveRecord, SavePcs
<1> QED
  BY <1>1, <1>2 DEF FormValid

\* What the steps of a save make of it and of the others.
LEMMA BeginMoves ==
    ASSUME NEW w \in Savers, NEW patch \in Patches, Save(w, patch), SaveType
    PROVE  /\ DOMAIN save' = Savers /\ save' = [v \in Savers |-> save'[v]]
           /\ save[w].pc = "idle" /\ \A k \in DOMAIN patch : patch[k] # Bad
           /\ \E b \in BOOLEAN : /\ save'[w] = Begun(patch, b)
                                 /\ b => \A v \in Savers \ {w} : save[v].pc = "idle"
           /\ \A v \in Savers \ {w} :
                save'[v] = IF save[v].pc = "idle" THEN save[v] ELSE Met(save[v])
<1> DEFINE b == \A v \in Savers \ {w} : save[v].pc = "idle"
<1>1. b \in BOOLEAN /\ save'[w] = Begun(patch, b)
  BY DEF Save, Begun
<1>2. /\ DOMAIN save' = Savers /\ save' = [v \in Savers |-> save'[v]]
      /\ save[w].pc = "idle" /\ \A k \in DOMAIN patch : patch[k] # Bad
  BY DEF Save, Valid
<1>3. \A v \in Savers \ {w} : save'[v] = IF save[v].pc = "idle" THEN save[v] ELSE Met(save[v])
  BY DEF Save, Met
<1> QED
  BY <1>1, <1>2, <1>3

LEMMA StepMoves ==
    ASSUME SaveType, NEW w \in Savers,
           Write(w) \/ Load(w) \/ Apply(w) \/ SaveFails(w) \/ Reschedule(w)
    PROVE  /\ save' = [save EXCEPT ![w] = save'[w]] /\ save[w].pc # "idle"
           /\ Write(w) => \E k \in save[w].todo :
                /\ save'[w] = Wrote(save[w], k)
                /\ rows' = [rows EXCEPT ![k] = RowFor(save[w].patch[k])]
           /\ Load(w) => save'[w] = HasRead(save[w], Table)
           /\ Apply(w) => save'[w] = HasApplied(save[w])
           /\ SaveFails(w) \/ Reschedule(w) => save'[w] = IdleSave
<1>a. DOMAIN save = Savers
  BY DEF SaveType
<1>b. ASSUME NEW x, save' = [save EXCEPT ![w] = x]
      PROVE  save'[w] = x /\ save' = [save EXCEPT ![w] = save'[w]]
  BY <1>a, <1>b
<1>1. ASSUME Write(w)
      PROVE  \E k \in save[w].todo :
               /\ save' = [save EXCEPT ![w] = Wrote(save[w], k)]
               /\ rows' = [rows EXCEPT ![k] = RowFor(save[w].patch[k])]
  <2>1. PICK k \in save[w].todo :
          /\ save' = [save EXCEPT ![w] = [@ EXCEPT !.todo = save[w].todo \ {k}]]
          /\ rows' = [rows EXCEPT ![k] = RowFor(save[w].patch[k])]
    BY <1>1 DEF Write, RowFor
  <2>2. save' = [save EXCEPT ![w] = Wrote(save[w], k)]
    BY <2>1 DEF Wrote
  <2> QED
    BY <2>1, <2>2
<1>2. Load(w) => save' = [save EXCEPT ![w] = HasRead(save[w], Table)]
  BY DEF Load, HasRead, Table
<1>3. Apply(w) => save' = [save EXCEPT ![w] = HasApplied(save[w])]
  BY DEF Apply, HasApplied
<1>4. SaveFails(w) \/ Reschedule(w) => save' = [save EXCEPT ![w] = IdleSave]
  BY DEF SaveFails, Reschedule
<1>5. save[w].pc # "idle"
  BY DEF Write, Load, Apply, SaveFails, Reschedule
<1> QED
  BY <1>b, <1>1, <1>2, <1>3, <1>4, <1>5

LEMMA SaveTypeNext == MemoryType /\ SaveType /\ [Next]_vars => SaveType'
<1> SUFFICES ASSUME MemoryType, SaveType, [Next]_vars PROVE SaveType'
  OBVIOUS
<1>a. \A w \in Savers : save[w] \in SaveRecord /\ FormValid(save[w])
  BY DEF SaveType
<1>1. ASSUME NEW w \in Savers, NEW patch \in Patches, Save(w, patch) PROVE SaveType'
  <2>1. save'[w] \in SaveRecord /\ FormValid(save'[w])
    <3>1. PICK b \in BOOLEAN : save'[w] = Begun(patch, b)
      BY <1>1, BeginMoves
    <3> QED
      BY <1>1, <3>1, BeginMoves, BegunFacts
  <2>2. \A v \in Savers \ {w} : save'[v] \in SaveRecord /\ FormValid(save'[v])
    BY <1>1, <1>a, BeginMoves, MetFacts
  <2> QED
    BY <1>1, <2>1, <2>2, BeginMoves DEF SaveType
<1>2. ASSUME NEW w \in Savers,
             Write(w) \/ Load(w) \/ Apply(w) \/ SaveFails(w) \/ Reschedule(w)
      PROVE  SaveType'
  <2>1. save'[w] \in SaveRecord /\ FormValid(save'[w])
    <3>1. CASE Write(w)
      BY <1>a, <3>1, StepMoves, WroteFacts
    <3>2. CASE Load(w)
      BY <1>a, <3>2, StepMoves, ReadFacts, TableType
    <3>3. CASE Apply(w)
      BY <1>a, <3>3, StepMoves, ReadFacts, TableType
    <3>4. CASE SaveFails(w) \/ Reschedule(w)
      BY <3>4, StepMoves, IdleFacts
    <3> QED
      BY <1>2, <3>1, <3>2, <3>3, <3>4
  <2>2. save' = [save EXCEPT ![w] = save'[w]]
    BY <1>2, StepMoves
  <2> QED
    BY <2>1, <2>2 DEF SaveType
<1>3. CASE Restart
  BY <1>3, IdleFacts DEF Restart, SaveType
<1>4. CASE GetEnv \/ Boot \/ BootFails \/ UNCHANGED vars
  BY <1>4 DEF GetEnv, Boot, BootFails, vars, SaveType
<1> QED
  BY <1>1, <1>2, <1>3, <1>4 DEF Next, SaveStep

LEMMA MemoryTypeNext == MemoryType /\ SaveType /\ [Next]_vars => MemoryType'
<1> SUFFICES ASSUME MemoryType, SaveType, [Next]_vars PROVE MemoryType'
  OBVIOUS
<1>f. Fault => faults' \in 0..MaxFaults
  BY SettingsAssumption DEF MemoryType, Fault
<1>t. Table \in [Keys -> Maybe(Values)]
  BY TableType
<1>v. /\ InForce(overrides) \in [Keys -> Maybe(Values \cup {Bad})]
      /\ InForce(overrides)[Interval] \in Values
      /\ Env \in [Keys -> Maybe(Values \cup {Bad})] /\ Env[Interval] \in Values
  <2>1. /\ InForce(overrides) \in [Keys -> Maybe(Values \cup {Bad})]
        /\ InForce(overrides)[Interval] \in Values
    BY InForceType, IntervalValid DEF MemoryType
  <2> QED
    BY <2>1 DEF MemoryType, Env, Maybe
<1>1. ASSUME NEW w \in Savers, NEW patch \in Patches, Save(w, patch) PROVE MemoryType'
  BY <1>1 DEF Save, MemoryType
<1>2. ASSUME NEW w \in Savers, Write(w) PROVE MemoryType'
  <2>1. PICK k \in save[w].todo :
          rows' = [rows EXCEPT ![k] = RowFor(save[w].patch[k])]
    BY <1>2, StepMoves
  <2>2. k \in Keys /\ save[w].patch[k] \in Values \cup {None}
    BY <1>2, SaveFields, PatchFacts DEF Write, SaveType, FormValid
  <2>3. rows' \in [Keys -> Maybe(Stored)]
    BY <2>1, <2>2 DEF MemoryType, Maybe, Stored, RowFor
  <2> QED
    BY <1>2, <2>3 DEF Write, MemoryType
<1>3. ASSUME NEW w \in Savers, Load(w) \/ Apply(w) PROVE MemoryType'
  BY <1>3, SaveFields DEF Load, Apply, MemoryType, SaveType, Maybe
<1>4. ASSUME NEW w \in Savers, SaveFails(w) PROVE MemoryType'
  BY <1>4, <1>f DEF SaveFails, MemoryType
<1>5. ASSUME NEW w \in Savers, Reschedule(w) PROVE MemoryType'
  BY <1>5, <1>v, SettingsAssumption DEF Reschedule, MemoryType, Maybe
<1>6. CASE GetEnv
  BY <1>6, <1>v DEF GetEnv, MemoryType, Maybe
<1>7. CASE Boot
  <2>1. overrides' = Table
    BY <1>7 DEF Boot, Table
  <2>2. cached' = InForce(Table)
    BY <1>7, <2>1 DEF Boot
  <2>3. cached' \in [Keys -> Maybe(Values \cup {Bad})] /\ cached'[Interval] \in Values
    BY <1>t, <2>2, InForceType, IntervalValid
  <2> QED
    BY <1>7, <1>t, <2>1, <2>3, SettingsAssumption DEF Boot, MemoryType, Maybe
<1>8. CASE BootFails
  BY <1>8, <1>f, <1>t DEF BootFails, MemoryType, Table, Maybe
<1>9. CASE Restart
  BY <1>9, <1>f DEF Restart, Nothing, MemoryType, Maybe
<1>10. CASE UNCHANGED vars
  BY <1>10 DEF vars, MemoryType
<1> QED
  BY <1>1, <1>2, <1>3, <1>4, <1>5, <1>6, <1>7, <1>8, <1>9, <1>10 DEF Next, SaveStep
-----------------------------------------------------------------------------
(***************************************************************************)
(* What is used is what is in force.                                       *)
(***************************************************************************)
LEMMA TimerNext ==
    MemoryType /\ SaveType /\ OffIdle /\ TimerInv /\ [Next]_vars => TimerInv' /\ OffIdle'
<1> SUFFICES ASSUME MemoryType, SaveType, OffIdle, TimerInv, [Next]_vars
             PROVE  TimerInv' /\ OffIdle'
  OBVIOUS
<1>a. \A w \in Savers : save[w] \in SaveRecord /\ FormValid(save[w])
  BY DEF SaveType
<1>e. Env = InForce(overrides)
  BY DEF Env, TimerInv
\* A save that begins is none that is to re-arm the timer; the others go on.
<1>1. ASSUME NEW w \in Savers, NEW patch \in Patches, Save(w, patch)
      PROVE  TimerInv' /\ OffIdle'
  <2>1. \A v \in Savers : save[v].pc = "applied" => save'[v].pc = "applied"
    BY <1>1, <1>a, BeginMoves, MetFacts
  <2>2. UNCHANGED <<overrides, cached, timer, boot>> /\ boot # "off"
    BY <1>1 DEF Save
  <2> QED
    BY <2>1, <2>2 DEF TimerInv, OffIdle, InForce
<1>2. ASSUME NEW w \in Savers, Write(w) \/ Load(w) \/ SaveFails(w) PROVE TimerInv' /\ OffIdle'
  <2>1. /\ \A v \in Savers \ {w} : save'[v] = save[v]
        /\ save[w].pc = "writing"
    <3>1. save[w].pc = "writing"
      BY <1>2 DEF Write, Load, SaveFails
    <3>2. save' = [save EXCEPT ![w] = save'[w]]
      BY <1>2, StepMoves
    <3> QED
      BY <3>1, <3>2 DEF SaveType
  <2>2. UNCHANGED <<overrides, cached, timer, boot>>
    BY <1>2 DEF Write, Load, SaveFails
  <2> QED
    BY <2>1, <2>2 DEF TimerInv, OffIdle, InForce
\* What comes into force is cached by nobody, and the timer is to be re-armed.
<1>3. ASSUME NEW w \in Savers, Apply(w) PROVE TimerInv' /\ OffIdle'
  <2>1. save'[w].pc = "applied" /\ save[w].pc # "idle"
    BY <1>3, <1>a, StepMoves, ReadFacts, TableType
  <2>2. UNCHANGED <<timer, boot>> /\ cached' = None
    BY <1>3 DEF Apply
  <2> QED
    BY <2>1, <2>2 DEF TimerInv, OffIdle
<1>4. ASSUME NEW w \in Savers, Reschedule(w) PROVE TimerInv' /\ OffIdle'
  <2>1. /\ UNCHANGED <<overrides, boot>> /\ cached' = InForce(overrides)
        /\ boot = "up" => timer' = InForce(overrides)[Interval]
    BY <1>4, <1>e DEF Reschedule, TimerInv
  <2>2. boot # "off"
    BY <1>4, StepMoves DEF OffIdle
  <2>3. InForce(overrides)' = InForce(overrides)
    BY <2>1 DEF InForce
  <2> QED
    BY <2>1, <2>2, <2>3, IntervalKnown DEF TimerInv, OffIdle
<1>5. CASE GetEnv
  BY <1>5 DEF GetEnv, TimerInv, OffIdle, InForce
<1>6. CASE Boot
  <2>1. boot' = "up" /\ cached' = InForce(overrides') /\ timer' = InForce(overrides')[Interval]
    BY <1>6 DEF Boot
  <2>2. InForce(overrides') = InForce(overrides)'
    BY DEF InForce
  <2> QED
    BY <2>1, <2>2, IntervalKnown DEF TimerInv, OffIdle
<1>7. CASE BootFails
  BY <1>7 DEF BootFails, TimerInv, OffIdle, InForce
<1>8. CASE Restart
  BY <1>8, IdleFacts DEF Restart, TimerInv, OffIdle
<1>9. CASE UNCHANGED vars
  BY <1>9 DEF vars, TimerInv, OffIdle, InForce
<1> QED
  BY <1>1, <1>2, <1>3, <1>4, <1>5, <1>6, <1>7, <1>8, <1>9 DEF Next, SaveStep

LEMMA SettingsInit == Init => MemoryType /\ SaveType /\ OffIdle /\ TimerInv /\ AloneInv
<1> SUFFICES ASSUME Init PROVE MemoryType /\ SaveType /\ OffIdle /\ TimerInv /\ AloneInv
  OBVIOUS
<1>1. SaveType /\ \A w \in Savers : save[w].pc = "idle"
  BY IdleFacts DEF Init, SaveType
<1>2. MemoryType
  BY SettingsAssumption DEF Init, Nothing, Maybe, MemoryType
<1> QED
  BY <1>1, <1>2 DEF Init, OffIdle, TimerInv, AloneInv

\* Every state of the settings is of the shape the schema and the module declare.
THEOREM SettingsTyped == Spec => []TypeOK
<1>1. MemoryType /\ SaveType /\ [Next]_vars => MemoryType' /\ SaveType'
  BY SaveTypeNext, MemoryTypeNext
<1> QED
  BY <1>1, SettingsInit, TypeSplit, PTL DEF Spec

\* getEnv returns what is in force, and the timer runs at the interval in force whenever
\* nobody is saving, whichever keys, forms, environment and secrets there are, however many
\* saves overlap or fail half-way, and although re-arming is a step of its own.
THEOREM EnvironmentInForce == Spec => []UsedInForce
<1>1. MemoryType /\ SaveType /\ OffIdle /\ TimerInv /\ [Next]_vars
        => MemoryType' /\ SaveType' /\ OffIdle' /\ TimerInv'
  BY SaveTypeNext, MemoryTypeNext, TimerNext
<1>2. TimerInv => UsedInForce
  BY DEF TimerInv, UsedInForce, Env
<1> QED
  BY <1>1, <1>2, SettingsInit, PTL DEF Spec
-----------------------------------------------------------------------------
(***************************************************************************)
(* What is saved is in force.                                              *)
(***************************************************************************)

\* A save is not disturbed as long as the table and what is in force stay.
LEMMA InTableKept ==
    ASSUME NEW x, InTable(x), UNCHANGED <<rows, secret, overrides>>
    PROVE  InTable(x)'
  BY DEF InTable, Written, Table, Readable

\* A step of a save that has met another is none of a save that has not.
LEMMA AloneStep ==
    ASSUME SaveType, AloneInv, NEW w \in Savers, save[w].pc # "idle",
           save' = [save EXCEPT ![w] = save'[w]],
           \/ save'[w].pc = "idle"
           \/ save'[w].alone = save[w].alone /\ (save[w].alone => InTable(save[w])')
    PROVE  AloneInv'
<1> SUFFICES ASSUME NEW v \in Savers, save'[v].pc # "idle", save'[v].alone
             PROVE  InTable(save[v])' /\ \A u \in Savers \ {v} : save'[u].pc = "idle"
  BY DEF AloneInv
<1>a. \A u \in Savers \ {w} : save'[u] = save[u]
  BY DEF SaveType
<1>1. CASE v = w
  BY <1>1, <1>a DEF AloneInv
<1>2. CASE v # w
  BY <1>2, <1>a DEF AloneInv
<1> QED
  BY <1>1, <1>2

LEMMA AloneNext ==
    MemoryType /\ SaveType /\ OffIdle /\ AloneInv /\ [Next]_vars => AloneInv'
<1> SUFFICES ASSUME MemoryType, SaveType, OffIdle, AloneInv, [Next]_vars PROVE AloneInv'
  OBVIOUS
<1>a. \A w \in Savers : save[w] \in SaveRecord /\ FormValid(save[w])
  BY DEF SaveType
<1>b. \A w \in Savers : save[w].pc # "idle" /\ save[w].alone => InTable(save[w])
  BY DEF AloneInv
\* A form of which nothing is written yet is in no conflict with the table.
<1>1. ASSUME NEW w \in Savers, NEW patch \in Patches, Save(w, patch) PROVE AloneInv'
  <2>1. PICK b \in BOOLEAN : /\ save'[w] = Begun(patch, b)
                             /\ b => \A v \in Savers \ {w} : save[v].pc = "idle"
    BY <1>1, BeginMoves
  <2>2. /\ save'[w].pc = "writing" /\ save'[w].todo = DOMAIN save'[w].patch
        /\ save'[w].alone = b
    BY <1>1, <2>1, BeginMoves, BegunFacts
  <2>3. InTable(save[w])'
    BY <2>2 DEF InTable, Written
  <2>4. \A v \in Savers \ {w} :
          IF save[v].pc = "idle" THEN save'[v] = save[v] ELSE save'[v].alone = FALSE
    <3>1. \A v \in Savers \ {w} :
            save'[v] = IF save[v].pc = "idle" THEN save[v] ELSE Met(save[v])
      BY <1>1, BeginMoves
    <3>2. \A v \in Savers : Met(save[v]).alone = FALSE
      BY <1>a, MetFacts
    <3> QED
      BY <3>1, <3>2
  <2> QED
    BY <2>1, <2>2, <2>3, <2>4 DEF AloneInv
<1>2. ASSUME NEW w \in Savers, Write(w) PROVE AloneInv'
  <2>1. PICK k \in save[w].todo : /\ save'[w] = Wrote(save[w], k)
                                  /\ rows' = [rows EXCEPT ![k] = RowFor(save[w].patch[k])]
    BY <1>2, StepMoves
  <2>2. /\ save[w].pc = "writing" /\ save'[w].pc = "writing" /\ save'[w].alone = save[w].alone
        /\ save'[w].patch = save[w].patch /\ save'[w].todo = save[w].todo \ {k}
    <3>1. save[w].pc = "writing"
      BY <1>2 DEF Write
    <3>2. /\ Wrote(save[w], k).todo = save[w].todo \ {k}
          /\ Wrote(save[w], k).patch = save[w].patch /\ Wrote(save[w], k).pc = save[w].pc
          /\ Wrote(save[w], k).alone = save[w].alone
      BY <1>a, WroteFacts
    <3> QED
      BY <2>1, <3>1, <3>2
  <2>3. k \in Keys /\ save[w].patch[k] \in Values \cup {None} /\ DOMAIN save[w].patch \subseteq Keys
    BY <1>a, <2>2, SaveFields, PatchFacts DEF FormValid
  <2>4. secret' = secret /\ \A i \in Keys \ {k} : rows'[i] = rows[i]
    BY <1>2, <2>1 DEF Write, MemoryType
  <2>5. Readable(k)' = save[w].patch[k]
    <3>1. rows'[k] = RowFor(save[w].patch[k])
      BY <2>1, <2>3 DEF MemoryType
    <3>2. CASE save[w].patch[k] = None
      BY <3>1, <3>2 DEF Readable, RowFor
    <3>3. CASE save[w].patch[k] # None
      <4>1. rows'[k] = [value |-> save[w].patch[k], under |-> secret]
        BY <3>1, <3>3 DEF RowFor
      <4>2. rows'[k] # None
        BY <2>3, <3>3, <4>1, SettingsAssumption DEF MemoryType
      <4> QED
        BY <2>4, <4>1, <4>2 DEF Readable
    <3> QED
      BY <3>2, <3>3
  <2>6. \A i \in Keys \ {k} : Readable(i)' = Readable(i)
    BY <2>4 DEF Readable
  <2>7. InTable(save[w]) => InTable(save[w])'
    BY <2>2, <2>3, <2>5, <2>6 DEF InTable, Written, Table
  <2> QED
    BY <1>2, <1>b, <2>2, <2>7, StepMoves, AloneStep
<1>3. ASSUME NEW w \in Savers, Load(w) PROVE AloneInv'
  <2>1. /\ save[w].pc = "writing" /\ save[w].todo = {} /\ save'[w] = HasRead(save[w], Table)
        /\ UNCHANGED <<rows, secret>>
    BY <1>3, StepMoves DEF Load
  <2>2. /\ save'[w].pc = "read" /\ save'[w].alone = save[w].alone /\ save'[w].read = Table
        /\ save'[w].patch = save[w].patch /\ save'[w].todo = {}
    BY <1>a, <2>1, TableType, ReadFacts
  <2>3. Table' = Table
    BY <2>1 DEF Table, Readable
  <2>4. InTable(save[w]) => InTable(save[w])'
    BY <2>1, <2>2, <2>3 DEF InTable, Written
  <2> QED
    BY <1>3, <1>b, <2>1, <2>2, <2>4, StepMoves, AloneStep
<1>4. ASSUME NEW w \in Savers, Apply(w) PROVE AloneInv'
  <2>1. /\ save[w].pc = "read" /\ save'[w] = HasApplied(save[w])
        /\ UNCHANGED <<rows, secret>> /\ overrides' = save[w].read
    BY <1>4, StepMoves DEF Apply
  <2>2. /\ save'[w].pc = "applied" /\ save'[w].alone = save[w].alone
        /\ save'[w].patch = save[w].patch /\ save'[w].todo = save[w].todo
    BY <1>a, <2>1, TableType, ReadFacts
  <2>3. Table' = Table
    BY <2>1 DEF Table, Readable
  <2>4. InTable(save[w]) => InTable(save[w])'
    BY <2>1, <2>2, <2>3 DEF InTable, Written
  <2> QED
    BY <1>4, <1>b, <2>1, <2>2, <2>4, StepMoves, AloneStep
<1>5. ASSUME NEW w \in Savers, SaveFails(w) \/ Reschedule(w) PROVE AloneInv'
  BY <1>5, StepMoves, IdleFacts, AloneStep
\* Nobody saves while the process starts.
<1>6. CASE Boot \/ BootFails
  BY <1>6 DEF Boot, BootFails, OffIdle, AloneInv
<1>7. CASE Restart
  BY <1>7, IdleFacts DEF Restart, AloneInv
<1>8. CASE GetEnv \/ UNCHANGED vars
  <2>1. UNCHANGED <<save, rows, secret, overrides>>
    BY <1>8 DEF GetEnv, vars
  <2> QED
    BY <1>b, <2>1, InTableKept DEF AloneInv
<1> QED
  BY <1>1, <1>2, <1>3, <1>4, <1>5, <1>6, <1>7, <1>8 DEF Next, SaveStep

\* What SavedInForce says of a step.
SuccessInForce ==
    \A w \in Savers :
         (save[w].pc = "applied" /\ save'[w].pc = "idle" /\ boot' = boot /\ save[w].alone) =>
           /\ overrides' = [k \in Keys |-> Readable(k)]
           /\ \A k \in DOMAIN save[w].patch :
                overrides'[k] = save[w].patch[k]

LEMMA SuccessStep ==
    MemoryType /\ SaveType /\ OffIdle /\ AloneInv /\ [Next]_vars => [SuccessInForce]_vars
<1> SUFFICES ASSUME MemoryType, SaveType, OffIdle, AloneInv, Next, NEW w \in Savers,
                    save[w].pc = "applied", save'[w].pc = "idle", boot' = boot, save[w].alone
             PROVE  /\ overrides' = Table
                    /\ \A k \in DOMAIN save[w].patch : overrides'[k] = save[w].patch[k]
  BY DEF SuccessInForce, Table
<1>1. overrides = Table /\ \A k \in DOMAIN save[w].patch : Table[k] = save[w].patch[k]
  BY DEF AloneInv, InTable, Written
<1>2. overrides' = overrides
  <2>1. ASSUME NEW v \in Savers, NEW patch \in Patches, Save(v, patch) PROVE overrides' = overrides
    BY <2>1 DEF Save
  <2>2. ASSUME NEW v \in Savers, Write(v) \/ Load(v) \/ SaveFails(v) \/ Reschedule(v)
        PROVE  overrides' = overrides
    BY <2>2 DEF Write, Load, SaveFails, Reschedule
  <2>3. ASSUME NEW v \in Savers, Apply(v) PROVE FALSE
    <3>1. save[v].pc = "read" /\ v # w /\ save' = [save EXCEPT ![v] = save'[v]]
      BY <2>3, StepMoves DEF Apply
    <3> QED
      BY <3>1 DEF SaveType
  <2>4. CASE GetEnv \/ Boot \/ BootFails \/ Restart
    BY <2>4 DEF GetEnv, Boot, BootFails, Restart
  <2> QED
    BY <2>1, <2>2, <2>3, <2>4 DEF Next, SaveStep
<1> QED
  BY <1>1, <1>2

\* A save that reports success and met no other has put the whole table into force, and what
\* it asked for with it, whatever forms were sent, failed or overlapped before.
THEOREM SuccessMeansInForce == Spec => SavedInForce
<1>1. MemoryType /\ SaveType /\ OffIdle /\ TimerInv /\ AloneInv /\ [Next]_vars
        => MemoryType' /\ SaveType' /\ OffIdle' /\ TimerInv' /\ AloneInv'
  BY SaveTypeNext, MemoryTypeNext, TimerNext, AloneNext
<1> QED
  BY <1>1, SettingsInit, SuccessStep, PTL DEF Spec, SavedInForce, SuccessInForce

-----------------------------------------------------------------------------
(***************************************************************************)
(* The notifier: where an event waits, and what the transports remember.   *)
(***************************************************************************)

\* The type of a delivery, as one record.
Posts == {"off", "hook", "lookup", "post", "ok", "failed"}
Pushes == {"off", "load", "send", "clean", "ok", "failed"}
DeliveryRecord ==
    [pc : {"idle", "sending"}, events : Seq(Events), post : Posts, host : Hosts \cup {Nowhere},
     channel : Channels \cup {Nowhere}, push : Pushes, verdict : {"ok", "failed"},
     found : SUBSET Endpoints, expired : SUBSET Endpoints]

\* What a delivery knows of where it posts, and of what it is to delete.
DeliveryFine ==
    /\ delivery \in DeliveryRecord
    /\ delivery.pc = "idle" => delivery = IdleDelivery
    /\ delivery.post \in {"lookup", "post"} => delivery.host \in Hosts
    /\ delivery.expired \subseteq gone

NotifierInv ==
    /\ NotifierTypeOK /\ DeliveryFine
    /\ \A h \in Hosts : channels[h] <= changes

\* The channel that is cached, and the one that is posted to, are the one that is configured:
\* unless there was a change that has not been paid for yet.
Current(host, c) ==
    host = mattermost /\ host \in Hosts /\ c = [host |-> host, id |-> channels[host]]
InOrder ==
    /\ channel # Nowhere => Current(mattermost, channel)
    /\ delivery.post = "post" => Current(delivery.host, delivery.channel)
    /\ delivery.post = "lookup" => delivery.host = mattermost
RefusalInv == refused <= changes /\ (~InOrder => refused < changes)

\* The delivery that is none.
LEMMA IdleTyped == IdleDelivery \in DeliveryRecord /\ IdleDelivery.pc = "idle"
                   /\ IdleDelivery.post = "off" /\ IdleDelivery.push = "off"
                   /\ IdleDelivery.expired = {} /\ IdleDelivery.events = <<>>
<1>1. IdleDelivery \in DeliveryRecord
  BY DEF IdleDelivery, DeliveryRecord, Posts, Pushes
<1>2. IdleDelivery.pc = "idle"
                   /\ IdleDelivery.post = "off" /\ IdleDelivery.push = "off"
                   /\ IdleDelivery.expired = {} /\ IdleDelivery.events = <<>>
  BY DEF IdleDelivery
<1> QED
  BY <1>1, <1>2

\* A step of the delivery, as one record after another.
LEMMA NextDelivery ==
    ASSUME NotifierInv, NEW new \in DeliveryRecord, delivery' = new,
           new.pc = "sending", new.expired \subseteq gone',
           new.post \in {"lookup", "post"} => new.host \in Hosts
    PROVE  DeliveryFine'
  BY DEF DeliveryFine

\* deliver begins: with the head of the chain, the first post and whether there is a push.
LEMMA DeliverFacts ==
    ASSUME NotifierInv, Deliver
    PROVE  /\ DeliveryFine' /\ delivery'.pc = "sending" /\ delivery'.events = Head(chain)
           /\ delivery'.post = FirstPost
           /\ delivery'.host = IF mattermost \in Hosts THEN mattermost ELSE Nowhere
           /\ delivery'.channel = IF FirstPost = "post" THEN channel ELSE Nowhere
<1> DEFINE h == IF mattermost \in Hosts THEN mattermost ELSE Nowhere
           c == IF FirstPost = "post" THEN channel ELSE Nowhere
           p == IF vapid THEN "load" ELSE "off"
           post == FirstPost
           events == Head(chain)
           new == [IdleDelivery EXCEPT !.pc = "sending", !.events = events, !.post = post,
                                       !.host = h, !.channel = c, !.push = p]
<1>1. delivery' = new
  BY DEF Deliver
<1>2. events \in Seq(Events)
  BY DEF Deliver, NotifierInv, NotifierTypeOK
<1>3. h \in Hosts \cup {Nowhere} /\ c \in Channels \cup {Nowhere} /\ p \in Pushes
  BY DEF NotifierInv, NotifierTypeOK, Pushes
<1>4. post \in Posts /\ (post \in {"lookup", "post"} => h \in Hosts)
  BY DEF FirstPost, Posts
<1> HIDE DEF h, c, p, post, events
<1>5. new \in DeliveryRecord
  BY <1>2, <1>3, <1>4, IdleTyped DEF DeliveryRecord
<1>6. /\ new.pc = "sending" /\ new.events = events /\ new.post = post /\ new.host = h
      /\ new.channel = c /\ new.expired = {}
  BY IdleTyped DEF DeliveryRecord
<1> HIDE DEF new
<1>7. DeliveryFine'
  BY <1>1, <1>4, <1>5, <1>6, NextDelivery
<1> QED
  BY <1>1, <1>6, <1>7 DEF h, c, post, events

\* A post that has ended.
LEMMA PostedFacts ==
    ASSUME NotifierInv, delivery.pc = "sending", NEW result \in {"ok", "failed"},
           delivery' = Posted(delivery, result), gone' = gone
    PROVE  /\ DeliveryFine' /\ delivery'.pc = "sending" /\ delivery'.events = delivery.events
           /\ delivery'.post = result
<1> DEFINE new == Posted(delivery, result)
<1>1. delivery \in DeliveryRecord /\ delivery.expired \subseteq gone
  BY DEF NotifierInv, DeliveryFine
<1>2. new \in DeliveryRecord
  BY <1>1 DEF DeliveryRecord, Posted, Posts
<1>3. /\ new.pc = delivery.pc /\ new.events = delivery.events /\ new.post = result
      /\ new.expired = delivery.expired
  BY <1>1 DEF DeliveryRecord, Posted
<1> HIDE DEF new
<1>4. DeliveryFine'
  BY <1>1, <1>2, <1>3, NextDelivery DEF new
<1> QED
  BY <1>3, <1>4 DEF new

\* A delivery that does anything is under way.
LEMMA Sending ==
    ASSUME NotifierInv, delivery.post \notin {"off"} \/ delivery.push \notin {"off"}
    PROVE  delivery.pc = "sending"
  BY IdleTyped DEF NotifierInv, DeliveryFine, NotifierTypeOK

\* What the steps of the transports do to the delivery.
LEMMA PostSteps ==
    ASSUME NotifierInv, Hook \/ Lookup \/ Post, gone' = gone
    PROVE  DeliveryFine' /\ delivery'.pc = "sending" /\ delivery'.events = delivery.events
<1>1. delivery \in DeliveryRecord /\ delivery.expired \subseteq gone
  BY DEF NotifierInv, DeliveryFine
<1>2. delivery.pc = "sending"
  BY Sending DEF Hook, Lookup, Post
<1>3. CASE Hook
  <2>1. PICK result \in {"ok", "failed"} : delivery' = [delivery EXCEPT !.post = result]
    BY <1>3 DEF Hook
  <2> DEFINE new == [delivery EXCEPT !.post = result]
  <2>2. new \in DeliveryRecord
    BY <1>1 DEF DeliveryRecord, Posts
  <2>3. /\ new.pc = delivery.pc /\ new.events = delivery.events /\ new.post = result
        /\ new.expired = delivery.expired
    BY <1>1 DEF DeliveryRecord
  <2>4. delivery' = new
    BY <2>1
  <2> HIDE DEF new
  <2> QED
    BY <1>1, <1>2, <2>2, <2>3, <2>4, NextDelivery
<1>4. CASE Lookup
  <2>1. delivery.post = "lookup" /\ delivery.host \in Hosts
    BY <1>4 DEF Lookup, NotifierInv, DeliveryFine
  <2>2. CASE delivery' = Posted(delivery, "failed")
    BY <1>2, <2>2, PostedFacts
  <2> DEFINE found == [host |-> delivery.host, id |-> channels[delivery.host]]
             post == IF mattermost \in Hosts THEN "post" ELSE "failed"
             host == IF mattermost \in Hosts THEN mattermost ELSE Nowhere
             new == [delivery EXCEPT !.post = post, !.host = host, !.channel = found]
  <2>3. CASE delivery' = new
    <3>1. found \in Channels
      BY <2>1 DEF Channels, NotifierInv, NotifierTypeOK
    <3>2. post \in Posts /\ host \in Hosts \cup {Nowhere} /\ (post = "post" => host \in Hosts)
      BY DEF Posts
    <3>3. post # "lookup"
      OBVIOUS
    <3> HIDE DEF found, post, host
    <3>4. new \in DeliveryRecord
      BY <1>1, <3>1, <3>2 DEF DeliveryRecord
    <3>5. /\ new.pc = delivery.pc /\ new.events = delivery.events /\ new.post = post
          /\ new.expired = delivery.expired /\ new.host = host
      BY <1>1 DEF DeliveryRecord
    <3> HIDE DEF new
    <3> QED
      BY <1>1, <1>2, <2>3, <3>2, <3>3, <3>4, <3>5, NextDelivery
  <2> QED
    BY <1>4, <2>2, <2>3 DEF Lookup
<1>5. CASE Post
  <2>1. PICK result \in {"ok", "failed"} : delivery' = Posted(delivery, result)
    BY <1>5 DEF Post, Refuse, Answered
  <2> QED
    BY <1>2, <2>1, PostedFacts
<1> QED
  BY <1>3, <1>4, <1>5

\* What the steps of web push do to the delivery.
LEMMA PushSteps ==
    ASSUME NotifierInv, LoadSubscriptions \/ SendAll \/ Clean, gone' = gone
    PROVE  /\ DeliveryFine' /\ delivery'.pc = "sending" /\ delivery'.events = delivery.events
           /\ delivery'.post = delivery.post /\ delivery'.host = delivery.host
           /\ delivery'.channel = delivery.channel
<1>1. /\ delivery \in DeliveryRecord /\ delivery.expired \subseteq gone
      /\ delivery.post \in {"lookup", "post"} => delivery.host \in Hosts
  BY DEF NotifierInv, DeliveryFine
<1>2. delivery.pc = "sending"
  BY Sending DEF LoadSubscriptions, SendAll, Clean
<1>3. ASSUME NEW push \in Pushes, NEW verdict \in {"ok", "failed"},
             NEW found \in SUBSET Endpoints, NEW expired \in SUBSET gone,
             delivery' = [delivery EXCEPT !.push = push, !.verdict = verdict, !.found = found,
                                          !.expired = expired]
      PROVE  /\ DeliveryFine' /\ delivery'.pc = "sending" /\ delivery'.events = delivery.events
             /\ delivery'.post = delivery.post /\ delivery'.host = delivery.host
             /\ delivery'.channel = delivery.channel
  <2> DEFINE new == [delivery EXCEPT !.push = push, !.verdict = verdict, !.found = found,
                                     !.expired = expired]
  <2>0. expired \in SUBSET Endpoints
    BY DEF NotifierInv, NotifierTypeOK
  <2>1. new \in DeliveryRecord
    BY <1>1, <2>0 DEF DeliveryRecord
  <2>2. /\ new.pc = delivery.pc /\ new.events = delivery.events /\ new.post = delivery.post
        /\ new.expired = expired /\ new.host = delivery.host /\ new.channel = delivery.channel
    BY <1>1 DEF DeliveryRecord
  <2>3. delivery' = new
    BY <1>3
  <2> HIDE DEF new
  <2>4. DeliveryFine'
    BY <1>1, <1>2, <1>3, <2>1, <2>2, <2>3, NextDelivery
  <2> QED
    BY <1>2, <2>2, <2>3, <2>4
<1>4. CASE LoadSubscriptions
  <2>1. PICK push \in {"ok", "send", "failed"} :
           delivery' = [delivery EXCEPT !.push = push, !.found = subscriptions]
    BY <1>4 DEF LoadSubscriptions
  <2>2. delivery.verdict \in {"ok", "failed"}
    BY <1>1 DEF DeliveryRecord
  <2>3. delivery' = [delivery EXCEPT !.push = push, !.verdict = delivery.verdict,
                                     !.found = subscriptions, !.expired = delivery.expired]
    BY <1>1, <2>1 DEF DeliveryRecord
  <2>4. push \in Pushes
    BY <2>1 DEF Pushes
  <2>5. subscriptions \in SUBSET Endpoints /\ delivery.expired \in SUBSET gone
    BY <1>1 DEF NotifierInv, NotifierTypeOK
  <2> QED
    BY <1>3, <2>2, <2>3, <2>4, <2>5
<1>5. CASE SendAll
  <2>1. PICK failing \in SUBSET (delivery.found \ gone) :
           LET found == delivery.found
               expired == Expired(found, failing)
               verdict == IF failing # {} /\ failing = found \ gone THEN "failed" ELSE "ok"
           IN delivery' = [delivery EXCEPT
                 !.push = IF expired # {} THEN "clean" ELSE verdict,
                 !.verdict = verdict, !.found = {}, !.expired = expired]
    BY <1>5 DEF SendAll
  <2> DEFINE found == delivery.found
             expired == Expired(found, failing)
             verdict == IF failing # {} /\ failing = found \ gone THEN "failed" ELSE "ok"
             push == IF expired # {} THEN "clean" ELSE verdict
  <2>2. expired \in SUBSET gone
    BY DEF Expired
  <2>3. verdict \in {"ok", "failed"}
    OBVIOUS
  <2>4. push \in Pushes
    BY <2>3 DEF Pushes
  <2>5. delivery' = [delivery EXCEPT !.push = push, !.verdict = verdict, !.found = {},
                                     !.expired = expired]
    BY <2>1
  <2> HIDE DEF found, expired, verdict, push
  <2> QED
    BY <1>3, <2>2, <2>3, <2>4, <2>5
<1>6. CASE Clean
  <2>1. delivery' = [delivery EXCEPT !.push = delivery.verdict, !.expired = {}]
    BY <1>6 DEF Clean
  <2>2. delivery.verdict \in {"ok", "failed"} /\ delivery.found \in SUBSET Endpoints
    BY <1>1 DEF DeliveryRecord
  <2>3. delivery' = [delivery EXCEPT !.push = delivery.verdict, !.verdict = delivery.verdict,
                                     !.found = delivery.found, !.expired = {}]
    BY <1>1, <2>1 DEF DeliveryRecord
  <2>4. delivery.verdict \in Pushes /\ {} \in SUBSET gone
    BY <2>2 DEF Pushes
  <2> QED
    BY <1>3, <2>2, <2>3, <2>4
<1> QED
  BY <1>4, <1>5, <1>6

\* The types of what is not the delivery.
Rest ==
    /\ mattermost \in Hosts \cup {"webhook", Nowhere} /\ vapid \in BOOLEAN
    /\ channels \in [Hosts -> 0..MaxChanges] /\ gone \subseteq Endpoints
    /\ raised \in [Events -> {"no"} \cup AllLevels]
    /\ buffer \in Seq(Events) /\ digest \in {"none", "set", "fired"}
    /\ chain \in Seq(Seq(Events))
    /\ channel \in Channels \cup {Nowhere}
    /\ subscriptions \subseteq Endpoints
    /\ outcome \in [Events -> {"none", "dropped", "delivered", "failed"}]
    /\ refused \in Nat /\ changes \in 0..MaxChanges
    /\ \A h \in Hosts : channels[h] <= changes

\* The invariant, by what each step changes: the delivery, and the rest.
LEMMA InvParts == NotifierInv <=> Rest /\ DeliveryFine
  BY DEF NotifierInv, NotifierTypeOK, DeliveryFine, DeliveryRecord, Rest, Posts, Pushes

\* The invariant holds at first ...
LEMMA NotifierInitial == NotifierInit => NotifierInv
<1> SUFFICES ASSUME NotifierInit PROVE NotifierInv
  OBVIOUS
<1>1. DeliveryFine
  BY IdleTyped DEF NotifierInit, DeliveryFine
<1>2. Rest
  BY NotifierAssumption DEF NotifierInit, Rest, AllLevels
<1> QED
  BY <1>1, <1>2, InvParts

\* ... is kept by every step ...
LEMMA NotifierInvNext == NotifierInv /\ [NotifierNext]_notifierVars => NotifierInv'
<1> SUFFICES ASSUME NotifierInv, [NotifierNext]_notifierVars PROVE NotifierInv'
  OBVIOUS
<1>0. Rest /\ DeliveryFine /\ delivery.expired \subseteq gone
  BY InvParts DEF DeliveryFine
<1>s. ASSUME Rest', UNCHANGED delivery, gone \subseteq gone'
      PROVE  NotifierInv'
  <2>1. DeliveryFine'
    BY <1>0, <1>s DEF DeliveryFine, IdleDelivery
  <2> QED
    BY <2>1, <1>s, InvParts, PTL
<1>1. CASE Configure
  <2>1. Rest'
    <3>1. mattermost' \in Hosts \cup {"webhook", Nowhere} /\ vapid' \in BOOLEAN
      BY <1>0, <1>1 DEF Configure, Rest
    <3>2. changes' = changes + 1 /\ changes' \in 0..MaxChanges
      BY <1>0, <1>1, NotifierAssumption DEF Configure, Change, Rest
    <3>3. \A h \in Hosts : channels'[h] <= changes'
      BY <1>0, <1>1, <3>2, NotifierAssumption DEF Configure, Rest
    <3> QED
      BY <1>0, <1>1, <3>1, <3>2, <3>3 DEF Configure, Rest
  <2> QED
    BY <1>1, <1>s, <2>1 DEF Configure
<1>2. CASE \E h \in Hosts : ReplaceChannel(h)
  <2> PICK h \in Hosts : ReplaceChannel(h)
    BY <1>2
  <2>1. changes' = changes + 1 /\ changes' \in 0..MaxChanges
    BY <1>0, NotifierAssumption DEF ReplaceChannel, Change, Rest
  <2>2. channels' = [channels EXCEPT ![h] = channels[h] + 1]
    BY DEF ReplaceChannel
  <2>3. \A g \in Hosts : channels[g] \in 0..MaxChanges /\ channels[g] <= changes
    BY <1>0 DEF Rest
  <2>4. \A g \in Hosts : channels'[g] \in 0..MaxChanges /\ channels'[g] <= changes'
    BY <1>0, <2>1, <2>2, <2>3, NotifierAssumption DEF Rest
  <2>5. channels' \in [Hosts -> 0..MaxChanges]
    BY <1>0, <2>2, <2>4 DEF Rest
  <2>6. Rest'
    BY <1>0, <2>1, <2>4, <2>5 DEF Rest, ReplaceChannel
  <2> QED
    BY <1>s, <2>6 DEF ReplaceChannel
<1>3. CASE \E p \in Endpoints : Subscribe(p) \/ Forget(p)
  <2> PICK p \in Endpoints : Subscribe(p) \/ Forget(p)
    BY <1>3
  <2>1. Rest'
    BY <1>0 DEF Rest, Subscribe, Forget, config
  <2> QED
    BY <1>s, <2>1 DEF Subscribe, Forget
<1>4. CASE \E e \in Events : Push(e)
  <2> PICK e \in Events : Push(e)
    BY <1>4
  <2>1. raised' \in [Events -> {"no"} \cup AllLevels]
    BY <1>0, NotifierAssumption DEF Push, Rest
  <2>2. outcome' \in [Events -> {"none", "dropped", "delivered", "failed"}]
    BY <1>0 DEF Push, Drop, Interrupt, Hold, Rest
  <2>3. buffer' \in Seq(Events) /\ chain' \in Seq(Seq(Events))
        /\ digest' \in {"none", "set", "fired"}
    <3>0. /\ buffer \in Seq(Events) /\ chain \in Seq(Seq(Events))
          /\ digest \in {"none", "set", "fired"}
      BY <1>0 DEF Rest
    <3>1. <<e>> \in Seq(Events) /\ Append(buffer, e) \in Seq(Events)
      BY <3>0
    <3>2. Append(chain, <<e>>) \in Seq(Seq(Events))
      BY <3>0, <3>1
    <3>3. CASE Drop(e)
      BY <3>0, <3>3 DEF Drop
    <3>4. CASE Interrupt(e)
      BY <3>0, <3>2, <3>4 DEF Interrupt
    <3>5. CASE Hold(e)
      BY <3>0, <3>1, <3>5 DEF Hold
    <3> QED
      BY <3>3, <3>4, <3>5 DEF Push
  <2>4. Rest'
    BY <1>0, <2>1, <2>2, <2>3 DEF Push, Rest, config
  <2> QED
    BY <1>s, <2>4 DEF Push
<1>5. CASE Flush
  <2>1. buffer' \in Seq(Events) /\ chain' \in Seq(Seq(Events)) /\ digest' = "none"
    BY <1>0, <1>5 DEF Flush, Rest
  <2>2. Rest'
    BY <1>0, <1>5, <2>1 DEF Flush, Rest, config
  <2> QED
    BY <1>5, <1>s, <2>2 DEF Flush
<1>6. CASE Deliver
  <2>1. chain' \in Seq(Seq(Events))
    BY <1>0, <1>6 DEF Deliver, Rest
  <2>2. Rest'
    BY <1>0, <1>6, <2>1 DEF Deliver, Rest, config
  <2> QED
    BY <1>6, <2>2, DeliverFacts, InvParts, PTL
<1>7. CASE DeliveryStep
  <2>0. UNCHANGED <<config, gone, raised, buffer, digest, chain>>
    BY <1>7 DEF DeliveryStep
  <2>r. ASSUME channel' \in Channels \cup {Nowhere}, subscriptions' \subseteq Endpoints,
               outcome' \in [Events -> {"none", "dropped", "delivered", "failed"}],
               refused' \in Nat
        PROVE  Rest'
    BY <1>0, <2>0, <2>r DEF Rest, config
  <2>1. CASE (Hook \/ Lookup \/ Post) /\ UNCHANGED <<subscriptions, outcome>>
    <3>1. DeliveryFine'
      BY <2>0, <2>1, PostSteps
    <3>2. channel' \in Channels \cup {Nowhere}
      <4>1. CASE Hook \/ Post
        BY <1>0, <4>1 DEF Hook, Post, Refuse, Answered, Rest
      <4>2. CASE Lookup
        <5>1. delivery.host \in Hosts /\ channels[delivery.host] \in 0..MaxChanges
          BY <1>0, <4>2 DEF Lookup, DeliveryFine, Rest
        <5> QED
          BY <1>0, <4>2, <5>1 DEF Lookup, Rest, Channels
      <4> QED
        BY <2>1, <4>1, <4>2
    <3>3. refused' \in Nat
      BY <1>0, <2>1 DEF Hook, Lookup, Post, Refuse, Answered, Rest
    <3>4. Rest'
      BY <1>0, <2>1, <2>r, <3>2, <3>3 DEF Rest
    <3> QED
      BY <3>1, <3>4, InvParts, PTL
  <2>2. CASE (LoadSubscriptions \/ SendAll \/ Clean) /\ UNCHANGED outcome
    <3>1. DeliveryFine'
      BY <2>0, <2>2, PushSteps
    <3>2. channel' = channel /\ refused' = refused
      BY <2>2 DEF LoadSubscriptions, SendAll, Clean
    <3>3. subscriptions' \subseteq subscriptions
      BY <2>2 DEF LoadSubscriptions, SendAll, Clean
    <3>4. Rest'
      BY <1>0, <2>2, <2>r, <3>2, <3>3 DEF Rest
    <3> QED
      BY <3>1, <3>4, InvParts, PTL
  <2>3. CASE Settle
    <3>1. DeliveryFine'
      BY <2>3, IdleTyped DEF Settle, DeliveryFine, IdleDelivery
    <3>2. outcome' \in [Events -> {"none", "dropped", "delivered", "failed"}]
      BY <1>0, <2>3 DEF Settle, Rest
    <3>3. Rest'
      BY <1>0, <2>3, <2>r, <3>2 DEF Rest, Settle
    <3> QED
      BY <3>1, <3>3, InvParts, PTL
  <2> QED
    BY <1>7, <2>1, <2>2, <2>3 DEF DeliveryStep
<1>8. CASE UNCHANGED notifierVars
  <2>1. Rest'
    BY <1>0, <1>8 DEF Rest, notifierVars, config
  <2> QED
    BY <1>8, <1>s, <2>1 DEF notifierVars
<1> QED
  BY <1>1, <1>2, <1>3, <1>4, <1>5, <1>6, <1>7, <1>8 DEF NotifierNext

\* ... and so always holds.
LEMMA NotifierInvariant == NotifierSpec => []NotifierInv
  BY NotifierInitial, NotifierInvNext, PTL DEF NotifierSpec

\* Type correctness, whatever events, changes and answers come in whatever order.
THEOREM NotifierTypesHold == NotifierSpec => []NotifierTypeOK
<1>1. NotifierInv => NotifierTypeOK
  BY DEF NotifierInv
<1> QED
  BY <1>1, NotifierInvariant, PTL

\* Whatever is cached, looked up or posted to out of date was paid for by a change that cost
\* nothing yet; a refusal pays for it, and leaves nothing that is out of date.
LEMMA RefusalNext ==
    NotifierInv /\ RefusalInv /\ [NotifierNext]_notifierVars => RefusalInv'
<1> SUFFICES ASSUME NotifierInv, RefusalInv, [NotifierNext]_notifierVars PROVE RefusalInv'
  OBVIOUS
<1>0. /\ Rest /\ DeliveryFine /\ refused \in Nat /\ changes \in Nat
      /\ mattermost \in Hosts \cup {"webhook", Nowhere}
      /\ delivery.post \in {"lookup", "post"} => delivery.host \in Hosts
  BY InvParts, NotifierAssumption DEF Rest, DeliveryFine
<1>c. ASSUME changes' = changes + 1, refused' = refused
      PROVE  RefusalInv'
  BY <1>0, <1>c DEF RefusalInv
<1>k. ASSUME UNCHANGED <<changes, refused>>, InOrder => InOrder'
      PROVE  RefusalInv'
  BY <1>0, <1>k DEF RefusalInv
<1>1. CASE Configure \/ \E h \in Hosts : ReplaceChannel(h)
  BY <1>1, <1>c DEF Configure, ReplaceChannel, Change
<1>2. CASE \/ \E p \in Endpoints : Subscribe(p) \/ Forget(p)
           \/ \E e \in Events : Push(e)
           \/ Flush \/ UNCHANGED notifierVars
  <2>1. UNCHANGED <<changes, refused, mattermost, channels, channel, delivery>>
    BY <1>2 DEF Subscribe, Forget, Push, Flush, notifierVars, config
  <2>2. InOrder => InOrder'
    BY <2>1 DEF InOrder, Current
  <2> QED
    BY <1>k, <2>1, <2>2
<1>3. CASE Deliver
  <2>1. UNCHANGED <<changes, refused, mattermost, channels, channel>>
    BY <1>3 DEF Deliver, config
  <2>2. InOrder => InOrder'
    <3>1. SUFFICES ASSUME InOrder PROVE InOrder'
      OBVIOUS
    <3>2. /\ delivery'.post = FirstPost
          /\ delivery'.host = IF mattermost \in Hosts THEN mattermost ELSE Nowhere
          /\ delivery'.channel = IF FirstPost = "post" THEN channel ELSE Nowhere
      BY <1>3, DeliverFacts
    <3> QED
      BY <2>1, <3>1, <3>2 DEF InOrder, Current, FirstPost
  <2> QED
    BY <1>k, <2>1, <2>2
<1>4. CASE DeliveryStep
  <2>0. UNCHANGED <<changes, mattermost, channels>>
    BY <1>4 DEF DeliveryStep, config
  <2>d. delivery \in DeliveryRecord
    BY <1>0 DEF DeliveryFine
  <2>1. CASE Hook
    <3>1. delivery'.post \notin {"lookup", "post"} /\ UNCHANGED <<channel, refused>>
      BY <2>1, <2>d DEF Hook, DeliveryRecord
    <3>2. InOrder => InOrder'
      BY <2>0, <3>1 DEF InOrder, Current
    <3> QED
      BY <1>k, <2>0, <3>1, <3>2
  <2>2. CASE Lookup
    <3> DEFINE found == [host |-> delivery.host, id |-> channels[delivery.host]]
    <3>1. UNCHANGED refused
      BY <2>2 DEF Lookup
    <3>2. CASE delivery' = Posted(delivery, "failed") /\ UNCHANGED channel
      <4>1. delivery'.post = "failed"
        BY <2>d, <3>2 DEF Posted, DeliveryRecord
      <4>2. InOrder => InOrder'
        BY <2>0, <3>2, <4>1 DEF InOrder, Current
      <4> QED
        BY <1>k, <2>0, <3>1, <4>2
    <3>3. CASE channel' = found
               /\ delivery' = [delivery EXCEPT
                    !.post = IF mattermost \in Hosts THEN "post" ELSE "failed",
                    !.host = IF mattermost \in Hosts THEN mattermost ELSE Nowhere,
                    !.channel = found]
      <4>1. /\ delivery'.channel = found
            /\ delivery'.host = IF mattermost \in Hosts THEN mattermost ELSE Nowhere
            /\ delivery'.post = IF mattermost \in Hosts THEN "post" ELSE "failed"
        <5> DEFINE post == IF mattermost \in Hosts THEN "post" ELSE "failed"
                   host == IF mattermost \in Hosts THEN mattermost ELSE Nowhere
        <5>1. delivery' = [delivery EXCEPT !.post = post, !.host = host, !.channel = found]
          BY <3>3
        <5> HIDE DEF post, host, found
        <5>2. delivery'.channel = found /\ delivery'.host = host /\ delivery'.post = post
          BY <2>d, <5>1 DEF DeliveryRecord
        <5> QED
          BY <5>2 DEF post, host, found
      <4>2. delivery.post = "lookup"
        BY <2>2 DEF Lookup
      <4>3. InOrder => InOrder'
        <5>1. SUFFICES ASSUME InOrder PROVE InOrder'
          OBVIOUS
        <5>2. delivery.host = mattermost /\ mattermost \in Hosts
          BY <1>0, <4>2, <5>1 DEF InOrder
        <5> QED
          BY <2>0, <3>3, <4>1, <5>2 DEF InOrder, Current
      <4> QED
        BY <1>k, <2>0, <3>1, <4>3
    <3> QED
      BY <2>2, <3>2, <3>3 DEF Lookup
  <2>3. CASE Post
    <3>0. delivery.post = "post"
      BY <2>3 DEF Post
    <3>1. delivery'.post \notin {"lookup", "post"}
      <4>1. PICK result \in {"ok", "failed"} : delivery' = Posted(delivery, result)
        BY <2>3 DEF Post, Refuse, Answered
      <4>2. delivery'.post = result
        BY <2>d, <4>1 DEF Posted, DeliveryRecord
      <4> QED
        BY <4>2
    <3>2. CASE Refuse /\ channel' = Nowhere
      <4>1. channel' = Nowhere /\ refused' = refused + 1
        BY <3>2 DEF Refuse
      <4>2. ~InOrder
        BY <3>0, <3>2 DEF Refuse, Stale, InOrder, Current
      <4>3. InOrder'
        BY <3>1, <4>1 DEF InOrder
      <4> QED
        BY <1>0, <2>0, <4>1, <4>2, <4>3 DEF RefusalInv
    <3>3. CASE Answered
      <4>1. UNCHANGED <<channel, refused>>
        BY <3>3 DEF Answered
      <4>2. InOrder => InOrder'
        BY <2>0, <3>1, <4>1 DEF InOrder, Current
      <4> QED
        BY <1>k, <2>0, <4>1, <4>2
    <3> QED
      BY <2>3, <3>2, <3>3 DEF Post
  <2>4. CASE LoadSubscriptions \/ SendAll \/ Clean
    <3>1. /\ delivery'.post = delivery.post /\ delivery'.host = delivery.host
          /\ delivery'.channel = delivery.channel /\ UNCHANGED <<channel, refused>>
      BY <1>4, <2>4, PushSteps DEF LoadSubscriptions, SendAll, Clean, DeliveryStep
    <3>2. InOrder => InOrder'
      BY <2>0, <3>1 DEF InOrder, Current
    <3> QED
      BY <1>k, <2>0, <3>1, <3>2
  <2>5. CASE Settle
    <3>1. delivery'.post = "off" /\ UNCHANGED <<channel, refused>>
      BY <2>5, IdleTyped DEF Settle
    <3>2. InOrder => InOrder'
      BY <2>0, <3>1 DEF InOrder, Current
    <3> QED
      BY <1>k, <2>0, <3>1, <3>2
  <2> QED
    BY <1>4, <2>1, <2>2, <2>3, <2>4, <2>5 DEF DeliveryStep
<1> QED
  BY <1>1, <1>2, <1>3, <1>4 DEF NotifierNext

\* Rows are deleted only of browsers that are gone.
LEMMA Kept ==
    NotifierInv /\ [NotifierNext]_notifierVars
        => [(subscriptions \ subscriptions') \subseteq gone']_notifierVars
<1> SUFFICES ASSUME NotifierInv, [NotifierNext]_notifierVars
             PROVE  (subscriptions \ subscriptions') \subseteq gone'
  OBVIOUS
<1>0. delivery.expired \subseteq gone
  BY DEF NotifierInv, DeliveryFine
<1>1. CASE \/ Configure \/ \E h \in Hosts : ReplaceChannel(h)
           \/ \E e \in Events : Push(e)
           \/ Flush \/ Deliver \/ UNCHANGED notifierVars
  BY <1>1 DEF Configure, ReplaceChannel, Push, Flush, Deliver, notifierVars
<1>2. CASE \E p \in Endpoints : Subscribe(p) \/ Forget(p)
  BY <1>2 DEF Subscribe, Forget
<1>3. CASE DeliveryStep
  <2>1. gone' = gone
    BY <1>3 DEF DeliveryStep
  <2>2. CASE Clean
    BY <1>0, <2>1, <2>2 DEF Clean
  <2>3. CASE ~Clean
    <3>1. subscriptions' = subscriptions
      BY <1>3, <2>3 DEF DeliveryStep, LoadSubscriptions, SendAll, Settle
    <3> QED
      BY <3>1
  <2> QED
    BY <2>2, <2>3
<1> QED
  BY <1>1, <1>2, <1>3 DEF NotifierNext

\* A channel or server that is replaced is answered 404 once at most, however lookups, posts,
\* other failures and changes interleave; and no subscription is deleted of a browser that
\* still holds it.
THEOREM FailuresContainedHolds == NotifierSpec => FailuresContained
<1>1. NotifierInit => RefusalInv
  <2> SUFFICES ASSUME NotifierInit PROVE RefusalInv
    OBVIOUS
  <2>1. InOrder
    BY IdleTyped DEF NotifierInit, InOrder
  <2> QED
    BY <2>1 DEF NotifierInit, RefusalInv
<1>2. RefusalInv => refused <= changes
  BY DEF RefusalInv
<1> QED
  BY <1>1, <1>2, NotifierInvariant, RefusalNext, Kept, PTL DEF NotifierSpec, FailuresContained

\* Where an event waits: as positions in the buffer, in the chain and in the delivery.
Waiting(e) == raised[e] \in AllLevels /\ outcome[e] = "none"
InBuffer(e) == {i \in DOMAIN buffer : buffer[i] = e}
InChain(e) == {i \in DOMAIN chain : e \in Range(chain[i])}
InDelivery(e) == {i \in DOMAIN delivery.events : delivery.events[i] = e}
Single(S) == \A i, j \in S : i = j
OneOf(B, C, D) == /\ Single(B) /\ Single(C) /\ Single(D)
                  /\ B = {} \/ (C = {} /\ D = {})
                  /\ C = {} \/ D = {}
Distinct(s) == \A i, j \in DOMAIN s : s[i] = s[j] => i = j

\* An event waits at one position of one of the three, or has been dealt with.
OnceInv ==
    /\ \A e \in Events :
         /\ OneOf(InBuffer(e), InChain(e), InDelivery(e))
         /\ Waiting(e) <=> InBuffer(e) \cup InChain(e) \cup InDelivery(e) # {}
         /\ raised[e] = "no" => outcome[e] = "none"
    /\ \A n \in DOMAIN chain : Distinct(chain[n])

\* A set of no two elements has one or none.
LEMMA SingleCounts ==
    ASSUME NEW S, Single(S)
    PROVE  Cardinality(S) = IF S = {} THEN 0 ELSE 1
<1>1. CASE S = {}
  BY <1>1, FS_EmptySet
<1>2. CASE S # {}
  <2> PICK x \in S : TRUE
    BY <1>2
  <2>1. S = {x}
    BY DEF Single
  <2> QED
    BY <1>2, <2>1, FS_Singleton
<1> QED
  BY <1>1, <1>2

\* Counting the places of an event.
LEMMA OnceFromInv == OnceInv => Once
<1> SUFFICES ASSUME OnceInv, NEW e \in Events
             PROVE  Places(e) = IF Waiting(e) THEN 1 ELSE 0
  BY DEF Once, Waiting
<1>1. OneOf(InBuffer(e), InChain(e), InDelivery(e))
      /\ (Waiting(e) <=> InBuffer(e) \cup InChain(e) \cup InDelivery(e) # {})
  BY DEF OnceInv
<1> DEFINE B == InBuffer(e)
           C == InChain(e)
           D == InDelivery(e)
           w == Waiting(e)
<1>2. Places(e) = Cardinality(B) + Cardinality(C) + Cardinality(D)
  BY DEF Places, InBuffer, InChain, InDelivery
<1>3. /\ Cardinality(B) = IF B = {} THEN 0 ELSE 1
      /\ Cardinality(C) = IF C = {} THEN 0 ELSE 1
      /\ Cardinality(D) = IF D = {} THEN 0 ELSE 1
  BY <1>1, SingleCounts DEF OneOf
<1>4. /\ B = {} \/ (C = {} /\ D = {})
      /\ C = {} \/ D = {}
      /\ w <=> ~(B = {} /\ C = {} /\ D = {})
  BY <1>1 DEF OneOf
<1> HIDE DEF B, C, D, w
<1>5. CASE B = {} /\ C = {} /\ D = {}
  <2>1. Places(e) = 0
    BY <1>2, <1>3, <1>5
  <2> QED
    BY <1>4, <1>5, <2>1 DEF w
<1>6. CASE ~(B = {} /\ C = {} /\ D = {})
  <2>1. Places(e) = 1
    BY <1>2, <1>3, <1>4, <1>6
  <2> QED
    BY <1>4, <1>6, <2>1 DEF w
<1> QED
  BY <1>5, <1>6

\* Nothing waits at first.
LEMMA OnceInitial == NotifierInit => OnceInv
<1> SUFFICES ASSUME NotifierInit PROVE OnceInv
  OBVIOUS
<1>1. buffer = <<>> /\ chain = <<>> /\ delivery.events = <<>>
  BY IdleTyped DEF NotifierInit
<1>2. \A e \in Events : /\ InBuffer(e) = {} /\ InChain(e) = {} /\ InDelivery(e) = {}
                        /\ raised[e] = "no" /\ outcome[e] = "none"
  BY <1>1 DEF InBuffer, InChain, InDelivery, NotifierInit
<1>3. \A e \in Events : ~Waiting(e)
  BY <1>2 DEF Waiting, AllLevels
<1> QED
  BY <1>1, <1>2, <1>3 DEF OnceInv, OneOf, Single

\* What a notification more does to where an event waits.
LEMMA ChainAppend ==
    ASSUME NotifierInv, NEW s \in Seq(Events), chain' = Append(chain, s)
    PROVE  /\ \A d \in Events : InChain(d)' = InChain(d) \cup
                                 (IF d \in Range(s) THEN {Len(chain) + 1} ELSE {})
           /\ \A n \in DOMAIN chain' : (n \in DOMAIN chain /\ chain'[n] = chain[n])
                                       \/ chain'[n] = s
<1>0. chain \in Seq(Seq(Events))
  BY DEF NotifierInv, NotifierTypeOK
<1>1. /\ DOMAIN chain' = 1..(Len(chain) + 1) /\ DOMAIN chain = 1..Len(chain)
      /\ Len(chain) \in Nat /\ chain'[Len(chain) + 1] = s
      /\ \A n \in 1..Len(chain) : chain'[n] = chain[n]
  BY <1>0
<1>2. \A n \in DOMAIN chain' : n \in DOMAIN chain \/ n = Len(chain) + 1
  BY <1>1
<1>3. ASSUME NEW d \in Events
      PROVE  InChain(d)' = InChain(d) \cup (IF d \in Range(s) THEN {Len(chain) + 1} ELSE {})
  <2>1. InChain(d)' = {i \in DOMAIN chain' : d \in Range(chain'[i])}
    BY DEF InChain
  <2>2. DOMAIN chain' = DOMAIN chain \cup {Len(chain) + 1}
    BY <1>1
  <2> QED
    BY <1>1, <2>1, <2>2 DEF InChain
<1> QED
  BY <1>1, <1>2, <1>3

\* What taking the head away does to where an event waits.
LEMMA ChainTail ==
    ASSUME NotifierInv, chain # <<>>, chain' = Tail(chain)
    PROVE  /\ \A d \in Events : InChain(d)' = {i \in DOMAIN chain' : i + 1 \in InChain(d)}
           /\ \A d \in Events : d \in Range(Head(chain)) <=> 1 \in InChain(d)
           /\ \A d \in Events : \A i \in InChain(d) : i = 1 \/ i - 1 \in InChain(d)'
           /\ \A n \in DOMAIN chain' : n + 1 \in DOMAIN chain /\ chain'[n] = chain[n + 1]
<1>0. chain \in Seq(Seq(Events))
  BY DEF NotifierInv, NotifierTypeOK
<1>1. /\ DOMAIN chain' = 1..(Len(chain) - 1) /\ DOMAIN chain = 1..Len(chain)
      /\ Len(chain) \in Nat /\ Len(chain) >= 1 /\ Head(chain) = chain[1]
      /\ \A n \in 1..(Len(chain) - 1) : chain'[n] = chain[n + 1]
  BY <1>0
<1>2. \A n \in DOMAIN chain' : n + 1 \in DOMAIN chain /\ chain'[n] = chain[n + 1]
  BY <1>1
<1>3. \A d \in Events : InChain(d)' = {i \in DOMAIN chain' : d \in Range(chain'[i])}
  BY DEF InChain
<1>4. \A d \in Events : InChain(d)' = {i \in DOMAIN chain' : i + 1 \in InChain(d)}
  BY <1>2, <1>3 DEF InChain
<1>5. \A d \in Events : d \in Range(Head(chain)) <=> 1 \in InChain(d)
  BY <1>1 DEF InChain
<1>6. ASSUME NEW d \in Events, NEW i \in InChain(d), i # 1
      PROVE  i - 1 \in InChain(d)'
  <2>1. i \in 1..Len(chain)
    BY <1>1 DEF InChain
  <2>2. i - 1 \in DOMAIN chain' /\ i - 1 + 1 = i
    BY <1>1, <1>6, <2>1
  <2> QED
    BY <1>4, <1>6, <2>2
<1> QED
  BY <1>2, <1>4, <1>5, <1>6

\* Every step moves an event as a whole, or ends its waiting together with its last place.
LEMMA OnceNext == NotifierInv /\ OnceInv /\ [NotifierNext]_notifierVars => OnceInv'
<1> SUFFICES ASSUME NotifierInv, OnceInv, [NotifierNext]_notifierVars PROVE OnceInv'
  OBVIOUS
<1>0. /\ raised \in [Events -> {"no"} \cup AllLevels] /\ buffer \in Seq(Events)
      /\ chain \in Seq(Seq(Events)) /\ delivery.events \in Seq(Events)
      /\ outcome \in [Events -> {"none", "dropped", "delivered", "failed"}]
  BY DEF NotifierInv, NotifierTypeOK
<1>o. /\ \A e \in Events :
           /\ OneOf(InBuffer(e), InChain(e), InDelivery(e))
           /\ Waiting(e) <=> InBuffer(e) \cup InChain(e) \cup InDelivery(e) # {}
           /\ raised[e] = "no" => outcome[e] = "none"
      /\ \A n \in DOMAIN chain : Distinct(chain[n])
  BY DEF OnceInv
<1>s. ASSUME UNCHANGED <<raised, buffer, chain, outcome>>, delivery'.events = delivery.events
      PROVE  OnceInv'
  <2>1. \A e \in Events : /\ InBuffer(e)' = InBuffer(e) /\ InChain(e)' = InChain(e)
                          /\ InDelivery(e)' = InDelivery(e)
    BY <1>s DEF InBuffer, InChain, InDelivery
  <2>2. \A e \in Events : Waiting(e)' <=> Waiting(e)
    BY <1>s DEF Waiting
  <2>3. \A e \in Events : OneOf(InBuffer(e)', InChain(e)', InDelivery(e)')
    BY <1>o, <2>1
  <2>4. \A e \in Events :
           Waiting(e)' <=> InBuffer(e)' \cup InChain(e)' \cup InDelivery(e)' # {}
    BY <1>o, <2>1, <2>2
  <2> QED
    BY <1>o, <1>s, <2>3, <2>4 DEF OnceInv
<1>1. CASE \/ Configure \/ \E h \in Hosts : ReplaceChannel(h)
           \/ \E p \in Endpoints : Subscribe(p) \/ Forget(p)
           \/ UNCHANGED notifierVars
  BY <1>1, <1>s DEF Configure, ReplaceChannel, Subscribe, Forget, notifierVars
<1>2. CASE \E e \in Events : Push(e)
  <2> PICK e \in Events : Push(e)
    BY <1>2
  <2>0. PICK level \in AllLevels : raised' = [raised EXCEPT ![e] = level]
    BY NotifierAssumption DEF Push
  <2>1. UNCHANGED delivery /\ raised[e] = "no" /\ "no" \notin AllLevels
    BY DEF Push, AllLevels
  <2>2. ~Waiting(e) /\ outcome[e] = "none"
    BY <1>o, <2>1 DEF Waiting
  <2>3. InBuffer(e) = {} /\ InChain(e) = {} /\ InDelivery(e) = {}
    BY <1>o, <2>2
  <2>4. \A d \in Events : InDelivery(d)' = InDelivery(d)
    BY <2>1 DEF InDelivery
  <2>5. \A d \in Events \ {e} : raised'[d] = raised[d]
    BY <1>0, <2>0
  <2>6. raised'[e] = level
    BY <1>0, <2>0
  <2>o. ASSUME \A d \in Events \ {e} : /\ InBuffer(d)' = InBuffer(d)
                                       /\ InChain(d)' = InChain(d)
                                       /\ outcome'[d] = outcome[d],
               OneOf(InBuffer(e)', InChain(e)', InDelivery(e)'),
               Waiting(e)' <=> InBuffer(e)' \cup InChain(e)' \cup InDelivery(e)' # {},
               \A n \in DOMAIN chain' : Distinct(chain'[n])
        PROVE  OnceInv'
    <3>1. \A d \in Events \ {e} : Waiting(d)' <=> Waiting(d)
      BY <2>5, <2>o DEF Waiting
    <3>2. \A d \in Events \ {e} : OneOf(InBuffer(d)', InChain(d)', InDelivery(d)')
      BY <1>o, <2>4, <2>o
    <3>3. \A d \in Events \ {e} :
             Waiting(d)' <=> InBuffer(d)' \cup InChain(d)' \cup InDelivery(d)' # {}
      BY <1>o, <2>4, <2>o, <3>1
    <3>4. \A d \in Events : raised'[d] = "no" => outcome'[d] = "none"
      BY <1>o, <2>1, <2>5, <2>6, <2>o
    <3> QED
      BY <2>o, <3>2, <3>3, <3>4 DEF OnceInv
  <2>7. CASE Drop(e)
    <3>1. /\ outcome' = [outcome EXCEPT ![e] = "dropped"] /\ UNCHANGED <<buffer, chain>>
      BY <2>7 DEF Drop
    <3>2. \A d \in Events : InBuffer(d)' = InBuffer(d) /\ InChain(d)' = InChain(d)
      BY <3>1 DEF InBuffer, InChain
    <3>3. ~Waiting(e)'
      BY <1>0, <3>1 DEF Waiting
    <3>4. OneOf(InBuffer(e)', InChain(e)', InDelivery(e)')
      BY <1>o, <2>4, <3>2
    <3>5. InBuffer(e)' \cup InChain(e)' \cup InDelivery(e)' = {}
      BY <2>3, <2>4, <3>2
    <3>6. \A d \in Events \ {e} : outcome'[d] = outcome[d]
      BY <1>0, <3>1
    <3>7. \A n \in DOMAIN chain' : Distinct(chain'[n])
      BY <1>o, <3>1
    <3> QED
      BY <2>o, <3>2, <3>3, <3>4, <3>5, <3>6, <3>7
  <2>8. CASE Interrupt(e)
    <3>1. chain' = Append(chain, <<e>>) /\ UNCHANGED <<buffer, outcome>>
      BY <2>8 DEF Interrupt
    <3>2. <<e>> \in Seq(Events) /\ Distinct(<<e>>) /\ Range(<<e>>) = {e}
      BY DEF Distinct, Range
    <3>3. /\ \A d \in Events : InChain(d)' = InChain(d) \cup
                                 (IF d \in Range(<<e>>) THEN {Len(chain) + 1} ELSE {})
          /\ \A n \in DOMAIN chain' : (n \in DOMAIN chain /\ chain'[n] = chain[n])
                                       \/ chain'[n] = <<e>>
      BY <3>1, <3>2, ChainAppend
    <3>4. \A d \in Events : InBuffer(d)' = InBuffer(d)
      BY <3>1 DEF InBuffer
    <3>5. InChain(e)' = {Len(chain) + 1}
      BY <2>3, <3>2, <3>3
    <3>6. \A d \in Events \ {e} : InChain(d)' = InChain(d)
      BY <3>2, <3>3
    <3>7. Waiting(e)'
      BY <2>0, <2>2, <2>6, <3>1 DEF Waiting
    <3>8. OneOf(InBuffer(e)', InChain(e)', InDelivery(e)')
      BY <2>3, <2>4, <3>4, <3>5 DEF OneOf, Single
    <3>9. \A n \in DOMAIN chain' : Distinct(chain'[n])
      BY <1>o, <3>2, <3>3
    <3> QED
      BY <2>o, <3>1, <3>4, <3>5, <3>6, <3>7, <3>8, <3>9
  <2>9. CASE Hold(e)
    <3>1. buffer' = Append(buffer, e) /\ UNCHANGED <<chain, outcome>>
      BY <2>9 DEF Hold
    <3>2. /\ DOMAIN buffer' = 1..(Len(buffer) + 1) /\ DOMAIN buffer = 1..Len(buffer)
          /\ Len(buffer) \in Nat /\ buffer'[Len(buffer) + 1] = e
          /\ \A n \in 1..Len(buffer) : buffer'[n] = buffer[n]
      BY <1>0, <3>1
    <3>3. DOMAIN buffer' = DOMAIN buffer \cup {Len(buffer) + 1}
      BY <3>2
    <3>4. \A d \in Events : InChain(d)' = InChain(d)
      BY <3>1 DEF InChain
    <3>5. \A d \in Events : InBuffer(d)' = {i \in DOMAIN buffer' : buffer'[i] = d}
      BY DEF InBuffer
    <3>6. InBuffer(e)' = InBuffer(e) \cup {Len(buffer) + 1}
      BY <3>2, <3>3, <3>5 DEF InBuffer
    <3>7. \A d \in Events \ {e} : InBuffer(d)' = InBuffer(d)
      BY <3>2, <3>3, <3>5 DEF InBuffer
    <3>8. InBuffer(e)' = {Len(buffer) + 1}
      BY <2>3, <3>6
    <3>9. Waiting(e)'
      BY <2>0, <2>2, <2>6, <3>1 DEF Waiting
    <3>10. OneOf(InBuffer(e)', InChain(e)', InDelivery(e)')
      BY <2>3, <2>4, <3>4, <3>8 DEF OneOf, Single
    <3>11. \A n \in DOMAIN chain' : Distinct(chain'[n])
      BY <1>o, <3>1
    <3> QED
      BY <2>o, <3>1, <3>4, <3>7, <3>8, <3>9, <3>10, <3>11
  <2> QED
    BY <2>7, <2>8, <2>9 DEF Push
<1>3. CASE Flush
  <2>1. /\ buffer' = <<>> /\ UNCHANGED <<raised, outcome, delivery>>
        /\ chain' = IF buffer = <<>> THEN chain ELSE Append(chain, buffer)
    BY <1>3 DEF Flush
  <2>2. \A d \in Events : InBuffer(d)' = {}
    BY <2>1 DEF InBuffer
  <2>3. \A d \in Events : InDelivery(d)' = InDelivery(d) /\ (Waiting(d)' <=> Waiting(d))
    BY <2>1 DEF InDelivery, Waiting
  <2>4. CASE buffer = <<>>
    <3>1. \A d \in Events : InBuffer(d) = {} /\ InChain(d)' = InChain(d)
      BY <2>1, <2>4 DEF InBuffer, InChain
    <3>2. \A d \in Events : OneOf(InBuffer(d)', InChain(d)', InDelivery(d)')
      BY <1>o, <2>2, <2>3, <3>1
    <3>3. \A d \in Events :
             Waiting(d)' <=> InBuffer(d)' \cup InChain(d)' \cup InDelivery(d)' # {}
      BY <1>o, <2>2, <2>3, <3>1
    <3> QED
      BY <1>o, <2>1, <2>4, <3>2, <3>3 DEF OnceInv
  <2>5. CASE buffer # <<>>
    <3>1. chain' = Append(chain, buffer)
      BY <2>1, <2>5
    <3>2. /\ \A d \in Events : InChain(d)' = InChain(d) \cup
                                 (IF d \in Range(buffer) THEN {Len(chain) + 1} ELSE {})
          /\ \A n \in DOMAIN chain' : (n \in DOMAIN chain /\ chain'[n] = chain[n])
                                       \/ chain'[n] = buffer
      BY <1>0, <3>1, ChainAppend
    <3>3. \A d \in Events : d \in Range(buffer) <=> InBuffer(d) # {}
      BY DEF InBuffer, Range
    <3>4. Distinct(buffer)
      <4> SUFFICES ASSUME NEW i \in DOMAIN buffer, NEW j \in DOMAIN buffer,
                          buffer[i] = buffer[j]
                   PROVE  i = j
        BY DEF Distinct
      <4>1. buffer[i] \in Events
        BY <1>0
      <4>2. i \in InBuffer(buffer[i]) /\ j \in InBuffer(buffer[i])
        BY DEF InBuffer
      <4> QED
        BY <1>o, <4>1, <4>2 DEF OneOf, Single
    <3>5. \A n \in DOMAIN chain' : Distinct(chain'[n])
      BY <1>o, <3>2, <3>4
    <3>6. ASSUME NEW d \in Events
          PROVE  /\ OneOf(InBuffer(d)', InChain(d)', InDelivery(d)')
                 /\ Waiting(d)' <=> InBuffer(d)' \cup InChain(d)' \cup InDelivery(d)' # {}
      <4>1. OneOf(InBuffer(d), InChain(d), InDelivery(d))
            /\ (Waiting(d) <=> InBuffer(d) \cup InChain(d) \cup InDelivery(d) # {})
        BY <1>o
      <4>2. CASE InBuffer(d) = {}
        <5>1. InChain(d)' = InChain(d)
          BY <3>2, <3>3, <4>2
        <5> QED
          BY <2>2, <2>3, <4>1, <4>2, <5>1
      <4>3. CASE InBuffer(d) # {}
        <5>1. InChain(d) = {} /\ InDelivery(d) = {}
          BY <4>1, <4>3 DEF OneOf
        <5>2. InChain(d)' = {Len(chain) + 1}
          BY <3>2, <3>3, <4>3, <5>1
        <5>3. OneOf(InBuffer(d)', InChain(d)', InDelivery(d)')
          BY <2>2, <2>3, <5>1, <5>2 DEF OneOf, Single
        <5> QED
          BY <2>2, <2>3, <4>1, <4>3, <5>2, <5>3
      <4> QED
        BY <4>2, <4>3
    <3> QED
      BY <1>o, <2>1, <3>5, <3>6 DEF OnceInv
  <2> QED
    BY <2>4, <2>5
<1>4. CASE Deliver
  <2>1. /\ UNCHANGED <<raised, buffer, outcome>> /\ delivery'.events = Head(chain)
        /\ chain # <<>> /\ chain' = Tail(chain)
    BY <1>4, DeliverFacts DEF Deliver
  <2>2. delivery.events = <<>>
    BY <1>4, IdleTyped DEF Deliver, NotifierInv, DeliveryFine
  <2>3. \A d \in Events : InDelivery(d) = {} /\ InBuffer(d)' = InBuffer(d)
                          /\ (Waiting(d)' <=> Waiting(d))
    BY <2>1, <2>2 DEF InDelivery, InBuffer, Waiting
  <2>4. /\ \A d \in Events : InChain(d)' = {i \in DOMAIN chain' : i + 1 \in InChain(d)}
        /\ \A d \in Events : d \in Range(Head(chain)) <=> 1 \in InChain(d)
        /\ \A d \in Events : \A i \in InChain(d) : i = 1 \/ i - 1 \in InChain(d)'
        /\ \A n \in DOMAIN chain' : n + 1 \in DOMAIN chain /\ chain'[n] = chain[n + 1]
    BY <2>1, ChainTail
  <2>5. \A n \in DOMAIN chain' : Distinct(chain'[n])
    BY <1>o, <2>4
  <2>6. Distinct(Head(chain)) /\ DOMAIN chain' \subseteq Nat
    BY <1>0, <1>o, <2>1
  <2>7. \A d \in Events : InDelivery(d)' = {i \in DOMAIN Head(chain) : Head(chain)[i] = d}
    BY <2>1 DEF InDelivery
  <2>8. \A d \in Events : /\ Single(InDelivery(d)')
                          /\ InDelivery(d)' # {} <=> 1 \in InChain(d)
    BY <2>4, <2>6, <2>7 DEF Single, Distinct, Range
  <2>9. ASSUME NEW d \in Events
        PROVE  /\ OneOf(InBuffer(d)', InChain(d)', InDelivery(d)')
               /\ Waiting(d)' <=> InBuffer(d)' \cup InChain(d)' \cup InDelivery(d)' # {}
    <3>1. OneOf(InBuffer(d), InChain(d), InDelivery(d))
          /\ (Waiting(d) <=> InBuffer(d) \cup InChain(d) \cup InDelivery(d) # {})
      BY <1>o
    <3>2. Single(InChain(d)')
      BY <2>4, <2>6, <3>1 DEF OneOf, Single
    <3>3. InChain(d)' # {} => InChain(d) # {} /\ 1 \notin InChain(d)
      <4> SUFFICES ASSUME NEW i \in InChain(d)' PROVE InChain(d) # {} /\ 1 \notin InChain(d)
        OBVIOUS
      <4>1. i \in DOMAIN chain' /\ i + 1 \in InChain(d)
        BY <2>4
      <4>2. i \in Nat /\ i # 0
        BY <1>0, <2>1, <4>1
      <4>3. i + 1 # 1
        BY <4>2
      <4> QED
        BY <3>1, <4>1, <4>3 DEF OneOf, Single
    <3>4. InChain(d) # {} => InChain(d)' # {} \/ 1 \in InChain(d)
      BY <2>4
    <3> QED
      BY <2>3, <2>8, <3>1, <3>2, <3>3, <3>4 DEF OneOf
  <2> QED
    BY <1>o, <2>1, <2>5, <2>9 DEF OnceInv
<1>5. CASE DeliveryStep
  <2>0. UNCHANGED <<raised, buffer, chain, gone>>
    BY <1>5 DEF DeliveryStep
  <2>1. CASE (Hook \/ Lookup \/ Post) /\ UNCHANGED <<subscriptions, outcome>>
    BY <1>s, <2>0, <2>1, PostSteps
  <2>2. CASE (LoadSubscriptions \/ SendAll \/ Clean) /\ UNCHANGED outcome
    BY <1>s, <2>0, <2>2, PushSteps
  <2>3. CASE Settle
    <3>1. delivery'.events = <<>>
      BY <2>3, IdleTyped DEF Settle
    <3>2. \A d \in Events : /\ InBuffer(d)' = InBuffer(d) /\ InChain(d)' = InChain(d)
                            /\ InDelivery(d)' = {}
                            /\ d \in Range(delivery.events) <=> InDelivery(d) # {}
      BY <2>0, <3>1 DEF InBuffer, InChain, InDelivery, Range
    <3>3. \A d \in Events : IF d \in Range(delivery.events)
                            THEN outcome'[d] \in {"delivered", "failed"}
                            ELSE outcome'[d] = outcome[d]
      BY <2>3 DEF Settle
    <3>4. ASSUME NEW d \in Events
          PROVE  /\ OneOf(InBuffer(d)', InChain(d)', InDelivery(d)')
                 /\ Waiting(d)' <=> InBuffer(d)' \cup InChain(d)' \cup InDelivery(d)' # {}
                 /\ raised'[d] = "no" => outcome'[d] = "none"
      <4>1. OneOf(InBuffer(d), InChain(d), InDelivery(d))
            /\ (Waiting(d) <=> InBuffer(d) \cup InChain(d) \cup InDelivery(d) # {})
            /\ (raised[d] = "no" => outcome[d] = "none")
        BY <1>o
      <4>2. CASE InDelivery(d) = {}
        <5>1. outcome'[d] = outcome[d]
          BY <3>2, <3>3, <4>2
        <5>2. Waiting(d)' <=> Waiting(d)
          BY <2>0, <5>1 DEF Waiting
        <5> QED
          BY <2>0, <3>2, <4>1, <4>2, <5>1, <5>2
      <4>3. CASE InDelivery(d) # {}
        <5>1. outcome'[d] \in {"delivered", "failed"} /\ Waiting(d)
          BY <3>2, <3>3, <4>1, <4>3
        <5>2. ~Waiting(d)' /\ raised'[d] # "no"
          BY <2>0, <5>1 DEF Waiting, AllLevels
        <5>3. InBuffer(d)' = {} /\ InChain(d)' = {} /\ InDelivery(d)' = {}
          BY <3>2, <4>1, <4>3 DEF OneOf
        <5> QED
          BY <5>2, <5>3 DEF OneOf, Single
      <4> QED
        BY <4>2, <4>3
    <3> QED
      BY <1>o, <2>0, <3>4 DEF OnceInv
  <2> QED
    BY <1>5, <2>1, <2>2, <2>3 DEF DeliveryStep
<1> QED
  BY <1>1, <1>2, <1>3, <1>4, <1>5 DEF NotifierNext

\* No event that was accepted is lost or told twice, however many digests, interruptions and
\* deliveries follow each other, whatever fails and whatever is configured meanwhile.
THEOREM OnceHolds == NotifierSpec => []Once
  BY NotifierInvariant, OnceInitial, OnceNext, OnceFromInv, PTL DEF NotifierSpec

-----------------------------------------------------------------------------
(***************************************************************************)
(* The list of missing books: what is picked, and what is asked for.       *)
(***************************************************************************)
\* The choice for a row is no place, or the place that was picked.
PickedAt(m, choice) ==
    IF choice \in {Unset, Best} THEN m = NoPick
    ELSE m # NoPick /\ m.copy = m.among[choice]

PickInv ==
    /\ DOMAIN shown \subseteq Ids
    /\ choices \in [Ids -> {Unset} \cup Nat]
    /\ meant = [id \in Ids |-> meant[id]]
    /\ \A id \in Ids : PickedAt(meant[id], choices[id])

\* What was ticked has been answered, or will be asked for yet.
BulkInv ==
    /\ bulk \in [of : {"none", "ticked", "group", "row"}, here : BOOLEAN, todo : {bulk.todo},
                 ticked : SUBSET Ids, answered : {bulk.answered}, failed : BOOLEAN]
    /\ bulk.todo \in Seq(ToSet(bulk.todo))
    /\ bulk.of = "none" => bulk.todo = <<>>
    /\ bulk.ticked \subseteq bulk.answered \cup {r.id : r \in ToSet(bulk.todo)}

\* Rows are rows of source books.
LEMMA RowsFacts ==
    ASSUME NEW books, NEW servers, NEW doubtful, NEW t \in Rows(books, servers, doubtful)
    PROVE  DOMAIN t \subseteq Ids
<1>1. ASSUME NEW C, NEW u \in Tables(C)
      PROVE  DOMAIN u \subseteq Ids
  BY <1>1 DEF Tables
<1>2. \E C : Rows(books, servers, doubtful) = Tables(C)
  BY Zenon DEF Rows
<1> QED
  BY <1>1, <1>2

\* There are finitely many of them.
LEMMA IdsFinite == IsFiniteSet(Ids)
<1>1. Records \in Seq(Books)
  BY ListAssumption
<1>2. Len(Records) \in Nat /\ DOMAIN Records = 1..Len(Records)
  BY <1>1
<1>3. IsFiniteSet(1..Len(Records))
  <2>1. 1 \in Int /\ Len(Records) \in Int
    BY <1>2
  <2> QED
    BY <2>1, FS_Interval
<1>4. Records \in Surjection(1..Len(Records), Ids)
  BY <1>1, <1>2 DEF Surjection, Ids, ToSet
<1> QED
  BY <1>3, <1>4, FS_Surjection

\* A finite set in some order.
LEMMA InSomeOrder ==
    ASSUME NEW S, IsFiniteSet(S)
    PROVE  SetToSeq(S) \in Seq(S) /\ ToSet(SetToSeq(S)) = S
<1> DEFINE n == Cardinality(S)
           s == SetToSeq(S)
<1>1. n \in Nat /\ ExistsBijection(1..n, S)
  BY FS_CardinalityType
<1>2. IsFiniteSet(1..n) /\ Cardinality(1..n) = n
  <2>1. 1 \in Int /\ n \in Int
    BY <1>1
  <2>2. IsFiniteSet(1..n) /\ Cardinality(1..n) = IF 1 > n THEN 0 ELSE n - 1 + 1
    BY <2>1, FS_Interval
  <2> HIDE DEF n
  <2> QED
    BY <1>1, <2>2
<1>3. \E f \in [1..n -> S] : IsInjective(f)
  BY <1>1 DEF ExistsBijection, Bijection, Injection
<1>4. s \in [1..n -> S] /\ IsInjective(s)
  BY <1>3 DEF SetToSeq
<1>5. s \in Injection(1..n, S)
  <2> HIDE DEF s
  <2> QED
    BY <1>4 DEF Injection
<1>6. s \in Surjection(1..n, S)
  <2> HIDE DEF s
  <2> QED
    BY <1>2, <1>5, FS_Injection
<1> HIDE DEF s, n
<1>7. DOMAIN s = 1..n
  BY <1>4
<1>8. s \in Seq(S)
  BY <1>1, <1>4
<1>9. ToSet(s) = S
  <2>1. \A x \in S : \E i \in 1..n : s[i] = x
    BY <1>6 DEF Surjection
  <2> QED
    BY <1>4, <1>7, <2>1 DEF ToSet
<1> QED
  BY <1>8, <1>9 DEF s

\* One request for each row that can be asked for.
LEMMA RequestFacts ==
    ASSUME DOMAIN shown \subseteq Ids, NEW ids
    PROVE  /\ RequestsFor(ids) \in Seq(ToSet(RequestsFor(ids)))
           /\ ToSet(RequestsFor(ids))
                = {[id |-> id, copy |-> Syncable(id)] : id \in ids \cap SyncableIds}
<1> DEFINE D == ids \cap SyncableIds
           S == {[id |-> id, copy |-> Syncable(id)] : id \in D}
           f == [id \in D |-> [id |-> id, copy |-> Syncable(id)]]
<1>1. IsFiniteSet(D)
  <2>1. D \subseteq Ids
    BY DEF SyncableIds
  <2> HIDE DEF D
  <2> QED
    BY <2>1, IdsFinite, FS_Subset
<1>2. f \in Surjection(D, S)
  <2> HIDE DEF D
  <2> QED
    BY DEF Surjection
<1>3. IsFiniteSet(S)
  <2> HIDE DEF D, S, f
  <2> QED
    BY <1>1, <1>2, FS_Surjection
<1>4. RequestsFor(ids) = SetToSeq(S)
  BY DEF RequestsFor
<1> HIDE DEF S
<1>5. SetToSeq(S) \in Seq(S) /\ ToSet(SetToSeq(S)) = S
  BY <1>3, InSomeOrder
<1> QED
  BY <1>4, <1>5 DEF S

\* What the page renders and remembers stays, is rendered anew, or is changed by a choice.
LEMMA PickStep ==
    ASSUME PickInv, [ListNext]_listVars
    PROVE  PickInv'
<1>1. ASSUME UNCHANGED <<shown, choices, meant>>
      PROVE  PickInv'
  BY <1>1 DEF PickInv
<1>2. ASSUME NEW ticked, Render(ticked)
      PROVE  PickInv'
  <2>1. DOMAIN shown' \subseteq Ids
    BY <1>2, RowsFacts DEF Render
  <2>2. CASE DOMAIN shown' = {}
    <3>1. choices' = [id \in Ids |-> Unset] /\ meant' = [id \in Ids |-> NoPick]
      BY <1>2, <2>2 DEF Render, NoChoices
    <3>2. \A id \in Ids : choices'[id] = Unset /\ meant'[id] = NoPick
      BY <3>1
    <3> QED
      BY <2>1, <3>1, <3>2 DEF PickInv, PickedAt
  <2>3. CASE DOMAIN shown' # {}
    <3>1. choices' = choices /\ meant' = meant
      BY <1>2, <2>3 DEF Render
    <3> QED
      BY <2>1, <3>1 DEF PickInv
  <2> QED
    BY <2>2, <2>3
<1>3. ASSUME NEW id \in DOMAIN shown, NEW place \in Best..Len(Records), Choose(id, place)
      PROVE  PickInv'
  <2> DEFINE copies == shown[id].copies
             m == IF place = Best THEN NoPick ELSE [copy |-> copies[place], among |-> copies]
  <2>1. id \in Ids /\ place \in Nat
    <3>1. Len(Records) \in Nat
      BY ListAssumption
    <3> QED
      BY <3>1 DEF PickInv, Best
  <2>2. /\ Len(copies) > 1 /\ choices' = [choices EXCEPT ![id] = place]
        /\ meant' = [meant EXCEPT ![id] = m] /\ shown' = shown
    BY <1>3 DEF Choose
  <2>3. PickedAt(m, place)
    <3>1. CASE place = Best
      BY <3>1 DEF PickedAt
    <3>2. CASE place # Best
      <4>1. m = [copy |-> copies[place], among |-> copies]
        BY <3>2
      <4>2. m.copy = copies[place] /\ m.among = copies
        BY <4>1
      <4>3. copies # <<>>
        BY <2>2
      <4>4. place # Unset
        BY <2>1, ListAssumption
      <4> HIDE DEF m, copies
      <4>5. m # NoPick
        BY <4>2, <4>3 DEF NoPick
      <4> QED
        BY <3>2, <4>2, <4>4, <4>5 DEF PickedAt
    <3> QED
      BY <3>1, <3>2
  <2> HIDE DEF m, copies
  <2>4. /\ choices' \in [Ids -> {Unset} \cup Nat] /\ meant' = [i \in Ids |-> meant'[i]]
        /\ choices'[id] = place /\ meant'[id] = m
        /\ \A i \in Ids : i # id => choices'[i] = choices[i] /\ meant'[i] = meant[i]
    BY <2>1, <2>2 DEF PickInv
  <2>5. \A i \in Ids : PickedAt(meant'[i], choices'[i])
    <3>1. ASSUME NEW i \in Ids, i # id PROVE PickedAt(meant'[i], choices'[i])
      BY <2>4, <3>1 DEF PickInv
    <3> QED
      BY <2>3, <2>4, <3>1
  <2> QED
    BY <2>2, <2>4, <2>5 DEF PickInv
<1>4. CASE \/ \E b \in Ids : Reindex(b)
           \/ \E id \in DOMAIN shown : Tick(id) \/ SyncBook(id)
           \/ \E g \in {shown[id].group : id \in DOMAIN shown} : TickGroup(g) \/ SyncGroup(g)
           \/ Clear \/ SyncSelected \/ EnqueueNext \/ EnqueueFails \/ UNCHANGED listVars
  <2>1. ASSUME NEW b, Reindex(b) PROVE UNCHANGED <<shown, choices, meant>>
    BY <2>1 DEF Reindex
  <2>2. ASSUME NEW id, Tick(id) PROVE UNCHANGED <<shown, choices, meant>>
    BY <2>2 DEF Tick, ticking
  <2>3. ASSUME NEW g, TickGroup(g) PROVE UNCHANGED <<shown, choices, meant>>
    BY <2>3 DEF TickGroup, ticking
  <2>4. ASSUME NEW of, NEW ids, Send(of, ids) PROVE UNCHANGED <<shown, choices, meant>>
    BY <2>4 DEF Send
  <2>5. ASSUME NEW id, SyncBook(id) PROVE UNCHANGED <<shown, choices, meant>>
    BY <2>4, <2>5 DEF SyncBook
  <2>6. ASSUME NEW g, SyncGroup(g) PROVE UNCHANGED <<shown, choices, meant>>
    BY <2>4, <2>6 DEF SyncGroup
  <2>7. ASSUME SyncSelected PROVE UNCHANGED <<shown, choices, meant>>
    BY <2>4, <2>7 DEF SyncSelected
  <2>8. ASSUME Clear \/ EnqueueNext \/ EnqueueFails \/ UNCHANGED listVars
        PROVE  UNCHANGED <<shown, choices, meant>>
    BY <2>8 DEF Clear, EnqueueNext, EnqueueFails, ticking, listVars
  <2>9. UNCHANGED <<shown, choices, meant>>
    BY <1>4, <2>1, <2>2, <2>3, <2>5, <2>6, <2>7, <2>8
  <2> QED
    BY <1>1, <2>9
<1>5. ASSUME NEW s \in Servers, ToggleSource(s) PROVE PickInv'
  BY <1>2, <1>5 DEF ToggleSource
<1>6. CASE ToggleUncertain
  BY <1>2, <1>6 DEF ToggleUncertain
<1>7. CASE Return
  <2>1. CASE bulk.of = "row" /\ bulk.failed
    BY <1>1, <1>7, <2>1 DEF Return
  <2>2. CASE ~(bulk.of = "row" /\ bulk.failed)
    BY <1>2, <1>7, <2>2 DEF Return
  <2> QED
    BY <2>1, <2>2
<1> QED
  BY <1>3, <1>4, <1>5, <1>6, <1>7 DEF ListNext

\* A request leaves the queue for the answers, or none is there.
LEMMA BulkStep ==
    ASSUME PickInv, BulkInv, [ListNext]_listVars
    PROVE  BulkInv'
<1> DEFINE Asked == {r.id : r \in ToSet(bulk.todo)}
<1>1. ASSUME UNCHANGED bulk
      PROVE  BulkInv'
  BY <1>1 DEF BulkInv
<1>2. ASSUME NEW here \in BOOLEAN, bulk' = [bulk EXCEPT !.here = here]
      PROVE  BulkInv'
  <2>1. /\ bulk'.of = bulk.of /\ bulk'.here = here /\ bulk'.todo = bulk.todo
        /\ bulk'.ticked = bulk.ticked /\ bulk'.answered = bulk.answered
        /\ bulk' \in [of : {"none", "ticked", "group", "row"}, here : BOOLEAN,
                      todo : {bulk.todo}, ticked : SUBSET Ids, answered : {bulk.answered},
                      failed : BOOLEAN]
    BY <1>2 DEF BulkInv
  <2> QED
    BY <2>1 DEF BulkInv
<1>3. ASSUME NEW of \in {"ticked", "group", "row"}, NEW ids, Send(of, ids),
             of = "ticked" => ids = selected
      PROVE  BulkInv'
  <2> DEFINE todo == RequestsFor(ids)
             ticked == IF of = "ticked" THEN selected \cap SyncableIds ELSE {}
             new == [of |-> of, here |-> TRUE, todo |-> todo, ticked |-> ticked,
                     answered |-> {}, failed |-> FALSE]
  <2>1. bulk' = new
    BY <1>3 DEF Send, IdleBulk
  <2>2. /\ todo \in Seq(ToSet(todo))
        /\ ToSet(todo) = {[id |-> id, copy |-> Syncable(id)] : id \in ids \cap SyncableIds}
    BY RequestFacts DEF PickInv
  <2>3. ticked \subseteq {r.id : r \in ToSet(todo)}
    <3>1. CASE of = "ticked"
      <4>1. ticked = ids \cap SyncableIds
        BY <1>3, <3>1
      <4>2. ASSUME NEW id \in ids \cap SyncableIds
            PROVE  \E r \in ToSet(todo) : r.id = id
        <5>1. [id |-> id, copy |-> Syncable(id)] \in ToSet(todo)
          BY <2>2
        <5> HIDE DEF todo
        <5> QED
          BY <5>1
      <4> HIDE DEF todo, ticked
      <4> QED
        BY <4>1, <4>2
    <3>2. CASE of # "ticked"
      BY <3>2
    <3> QED
      BY <3>1, <3>2
  <2>4. ticked \in SUBSET Ids
    BY DEF PickInv, SyncableIds
  <2> HIDE DEF todo, ticked
  <2>5. /\ bulk'.of = of /\ bulk'.todo = todo /\ bulk'.ticked = ticked /\ bulk'.answered = {}
        /\ bulk' \in [of : {"none", "ticked", "group", "row"}, here : BOOLEAN,
                      todo : {todo}, ticked : SUBSET Ids, answered : {{}}, failed : BOOLEAN]
    BY <2>1, <2>4
  <2> HIDE DEF new
  <2> QED
    BY <2>2, <2>3, <2>5 DEF BulkInv
<1>4. ASSUME NEW failed \in BOOLEAN, bulk.todo # <<>>,
             bulk' = [bulk EXCEPT !.todo = Tail(@), !.failed = failed,
                                  !.answered = @ \cup {Head(bulk.todo).id}]
      PROVE  BulkInv'
  <2> DEFINE T == ToSet(bulk.todo)
             rest == Tail(bulk.todo)
             told == bulk.answered \cup {Head(bulk.todo).id}
  <2>1. /\ bulk'.of = bulk.of /\ bulk'.todo = rest /\ bulk'.ticked = bulk.ticked
        /\ bulk'.answered = told
        /\ bulk' \in [of : {"none", "ticked", "group", "row"}, here : BOOLEAN,
                      todo : {rest}, ticked : SUBSET Ids, answered : {told}, failed : BOOLEAN]
    BY <1>4 DEF BulkInv
  <2>2. bulk.todo \in Seq(T)
    BY DEF BulkInv
  <2> HIDE DEF T
  <2>3. /\ Len(bulk.todo) \in Nat /\ DOMAIN bulk.todo = 1..Len(bulk.todo)
        /\ Len(rest) = Len(bulk.todo) - 1 /\ DOMAIN rest = 1..Len(rest) /\ Len(rest) \in Nat
        /\ rest = [n \in 1..Len(rest) |-> rest[n]]
        /\ \A n \in 1..Len(rest) : rest[n] = bulk.todo[n + 1]
        /\ Head(bulk.todo) = bulk.todo[1]
    BY <1>4, <2>2
  <2>4. T \subseteq {Head(bulk.todo)} \cup ToSet(rest)
    <3>1. ASSUME NEW r \in T, r # Head(bulk.todo)
          PROVE  r \in ToSet(rest)
      <4>1. PICK n \in DOMAIN bulk.todo : r = bulk.todo[n]
        BY <3>1 DEF T, ToSet
      <4>2. n # 1 /\ n \in 1..Len(bulk.todo)
        BY <2>3, <3>1, <4>1
      <4>3. n - 1 \in 1..Len(rest) /\ (n - 1) + 1 = n
        <5> HIDE DEF rest
        <5> QED
          BY <2>3, <4>2
      <4>4. rest[n - 1] = r
        BY <2>3, <4>1, <4>3
      <4> QED
        BY <2>3, <4>3, <4>4 DEF ToSet
    <3> QED
      BY <3>1
  <2>5. rest \in Seq(ToSet(rest))
    <3>1. \A n \in 1..Len(rest) : rest[n] \in ToSet(rest)
      BY <2>3 DEF ToSet
    <3> HIDE DEF rest
    <3> QED
      BY <2>3, <3>1
  <2>6. bulk.ticked \subseteq told \cup {r.id : r \in ToSet(rest)}
    <3>1. bulk.ticked \subseteq bulk.answered \cup {r.id : r \in T}
      BY DEF BulkInv, T
    <3> HIDE DEF rest
    <3> QED
      BY <2>4, <3>1
  <2>7. bulk.of # "none"
    BY <1>4 DEF BulkInv
  <2> HIDE DEF rest, told
  <2> QED
    BY <2>1, <2>5, <2>6, <2>7 DEF BulkInv
<1>5. ASSUME bulk' = IdleBulk
      PROVE  BulkInv'
  <2>1. <<>> \in Seq(ToSet(<<>>))
    OBVIOUS
  <2>2. bulk' \in [of : {"none", "ticked", "group", "row"}, here : BOOLEAN,
                   todo : {<<>>}, ticked : SUBSET Ids, answered : {{}}, failed : BOOLEAN]
    BY <1>5 DEF IdleBulk
  <2> QED
    BY <1>5, <2>1, <2>2 DEF BulkInv, IdleBulk
<1>6. CASE \/ \E b \in Ids : Reindex(b)
           \/ \E id \in DOMAIN shown :
                Tick(id) \/ \E place \in Best..Len(Records) : Choose(id, place)
           \/ \E g \in {shown[id].group : id \in DOMAIN shown} : TickGroup(g)
           \/ Clear \/ UNCHANGED listVars
  <2>1. UNCHANGED bulk
    BY <1>6 DEF Reindex, Tick, Choose, TickGroup, Clear, ticking, listVars
  <2> QED
    BY <1>1, <2>1
<1>7. CASE ToggleUncertain \/ \E s \in Servers : ToggleSource(s)
  <2>1. bulk' = [bulk EXCEPT !.here = @ /\ DOMAIN shown' # {}]
    BY <1>7 DEF ToggleUncertain, ToggleSource
  <2>2. (bulk.here /\ DOMAIN shown' # {}) \in BOOLEAN
    OBVIOUS
  <2> QED
    BY <1>2, <2>1, <2>2
<1>8. ASSUME NEW id, SyncBook(id) PROVE BulkInv'
  BY <1>3, <1>8 DEF SyncBook
<1>9. ASSUME NEW g, SyncGroup(g) PROVE BulkInv'
  BY <1>3, <1>9 DEF SyncGroup
<1>10. CASE SyncSelected
  BY <1>3, <1>10 DEF SyncSelected
<1>11. CASE EnqueueNext
  <2>1. bulk.failed \in BOOLEAN
    BY DEF BulkInv
  <2>2. bulk' = [bulk EXCEPT !.todo = Tail(@), !.failed = bulk.failed,
                             !.answered = @ \cup {Head(bulk.todo).id}]
    BY <1>11 DEF EnqueueNext, BulkInv
  <2>3. bulk.todo # <<>>
    BY <1>11 DEF EnqueueNext
  <2> QED
    BY <1>4, <2>1, <2>2, <2>3, Zenon
<1>12. CASE EnqueueFails
  <2>1. bulk' = [bulk EXCEPT !.todo = Tail(@), !.failed = TRUE,
                             !.answered = @ \cup {Head(bulk.todo).id}]
    BY <1>12 DEF EnqueueFails
  <2>2. bulk.todo # <<>>
    BY <1>12 DEF EnqueueFails
  <2> QED
    BY <1>4, <2>1, <2>2, Zenon
<1>13. CASE Return
  BY <1>5, <1>13 DEF Return
<1> QED
  BY <1>6, <1>7, <1>8, <1>9, <1>10, <1>11, <1>12, <1>13 DEF ListNext

\* Both always hold.
LEMMA ListInductive == ListSpec => [](PickInv /\ BulkInv)
<1>1. ListInit => PickInv /\ BulkInv
  <2> SUFFICES ASSUME ListInit PROVE PickInv /\ BulkInv
    OBVIOUS
  <2>1. DOMAIN shown \subseteq Ids
    BY RowsFacts DEF ListInit
  <2>2. \A id \in Ids : choices[id] = Unset /\ meant[id] = NoPick
    BY DEF ListInit, NoChoices
  <2>3. PickInv
    BY <2>1, <2>2 DEF ListInit, NoChoices, PickInv, PickedAt
  <2>4. <<>> \in Seq(ToSet(<<>>))
    OBVIOUS
  <2>5. BulkInv
    BY <2>4 DEF ListInit, IdleBulk, BulkInv
  <2> QED
    BY <2>3, <2>5
<1> QED
  BY <1>1, PickStep, BulkStep, PTL DEF ListSpec

\* Every button asks for what was picked, and for none of several recordings that nobody
\* picked (resolveCopy and toRequest in missing-list.tsx).
THEOREM PickKeptHolds == ListSpec => PickKept
<1> DEFINE Meant(r) ==
      /\ shown[r.id].differ => meant[r.id] # NoPick
      /\ meant[r.id] # NoPick /\ meant[r.id].among = shown[r.id].copies
           => r.copy = meant[r.id].copy
<1>1. ASSUME PickInv, BulkInv, ListNext, NEW r \in Sent
      PROVE  Meant(r)
  <2>1. bulk.of = "none" /\ bulk.todo = <<>> /\ r \in ToSet(bulk'.todo)
    BY <1>1 DEF Sent, BulkInv
  <2>2. \E of, ids : Send(of, ids)
    <3>1. CASE \E of, ids : Send(of, ids)
      BY <3>1
    <3>2. CASE ~ \E of, ids : Send(of, ids)
      <4>1. \/ UNCHANGED bulk
            \/ \E here \in BOOLEAN : bulk' = [bulk EXCEPT !.here = here]
        BY <1>1, <2>1, <3>2 DEF ListNext, Reindex, ToggleSource, ToggleUncertain, Tick, SyncBook,
             Choose, TickGroup, SyncGroup, Clear, SyncSelected, EnqueueNext, EnqueueFails,
             Return, ticking
      <4>2. bulk'.todo = <<>>
        BY <1>1, <2>1, <4>1 DEF BulkInv
      <4>3. ToSet(bulk'.todo) = {}
        BY <4>2 DEF ToSet
      <4> QED
        BY <2>1, <4>3
    <3> QED
      BY <3>1, <3>2
  <2>3. PICK id \in SyncableIds : r = [id |-> id, copy |-> Syncable(id)]
    <3>1. PICK of, ids : Send(of, ids)
      BY <2>2
    <3>2. bulk'.todo = RequestsFor(ids)
      BY <3>1 DEF Send, IdleBulk
    <3> QED
      BY <1>1, <2>1, <3>2, RequestFacts DEF PickInv
  <2>4. id \in Ids /\ PickedAt(meant[id], choices[id]) /\ Syncable(id) # Unset
    BY <1>1 DEF PickInv, SyncableIds
  <2>5. Resolve(shown[id], choices[id]) = Syncable(id)
    BY <2>4 DEF Syncable
  <2>6. r.id = id /\ r.copy = Syncable(id)
    BY <2>3
  <2>7. shown[id].differ => meant[id] # NoPick
    BY <2>4, <2>5 DEF Resolve, PickedAt
  <2>8. meant[id] # NoPick /\ meant[id].among = shown[id].copies => Syncable(id) = meant[id].copy
    BY <2>4, <2>5 DEF Resolve, PickedAt
  <2> QED
    BY <2>6, <2>7, <2>8
<1>2. PickInv /\ BulkInv /\ [ListNext]_listVars => [\A r \in Sent : Meant(r)]_listVars
  <2> HIDE DEF Meant
  <2> QED
    BY <1>1
<1> QED
  BY <1>2, ListInductive, PTL DEF ListSpec, PickKept

\* When the action returns, and the selection is emptied, every ticked book that could be
\* asked for has had its answer, whichever of them failed (syncManyAction in actions.ts).
THEOREM SelectionAnsweredHolds == ListSpec => SelectionAnswered
<1>1. ASSUME BulkInv, Return
      PROVE  bulk.ticked \subseteq bulk.answered
  <2>1. bulk.todo = <<>>
    BY <1>1 DEF Return
  <2>2. ToSet(bulk.todo) = {}
    BY <2>1 DEF ToSet
  <2> QED
    BY <1>1, <2>2 DEF BulkInv
<1>2. PickInv /\ BulkInv /\ [ListNext]_listVars
        => [Return => bulk.ticked \subseteq bulk.answered]_listVars
  BY <1>1
<1> QED
  BY <1>2, ListInductive, PTL DEF ListSpec, SelectionAnswered
=============================================================================
