---------------------------- MODULE MotionProofs ----------------------------
(* Proofs about Motion: for any number of webserver threads and settings. *)
EXTENDS Motion, TLAPS

USE ConstantsAssumption
USE DEF vars, peerVars, threadVars, boundVars

\* What the range of the field rests on.
LEMMA ClampInRange ==
    ASSUME NEW n \in Nat
    PROVE  Clamp(n) \in MinReset .. MaxReset
BY DEF Clamp

\* A clock that stops at MaxAge stays a clock.
LEMMA OlderAge ==
    ASSUME NEW n \in 0 .. MaxAge
    PROVE  Older(n) \in 0 .. MaxAge
BY DEF Older

\* Every step keeps the types.
LEMMA TypeStep ==
    ASSUME TypeOK, [Next]_vars
    PROVE  TypeOK'
<1> USE DEF TypeOK, HandlerLabels, WorkerLabels
<1>1. ASSUME NEW h \in Handlers, Report(h) \/ OnGetStep(h)
      PROVE  TypeOK'
    <2>1. CASE Report(h)
        BY <2>1 DEF Report, Step
    <2>2. CASE SaveTrue(h) \/ SetFlag(h)
        BY <2>2 DEF SaveTrue, SetFlag, Step
    <2>3. CASE SetTime(h)
        BY <2>3 DEF SetTime, Step
    <2>4. CASE RaiseTrue(h)
        BY <2>4 DEF RaiseTrue, Step
    <2>5. CASE ReadReset(h)
        BY <2>5 DEF ReadReset, Step
    <2>6. CASE AssignReset(h)
        BY <2>6 DEF AssignReset, Step
    <2>7. CASE ClampReset(h)
        <3>1. Clamp(resetAfter) \in Nat
            BY ClampInRange
        <3> QED BY <2>7, <3>1 DEF ClampReset, Step
    <2> QED BY <1>1, <2>1, <2>2, <2>3, <2>4, <2>5, <2>6, <2>7 DEF OnGetStep
<1>2. CASE WorkerStep
    BY <1>2 DEF WorkerStep, SeeFlag, SeeTime, UnsetFlag, ClearValue, SaveFalse, RaiseFalse,
                WorkerStepTo
<1>3. ASSUME NEW n \in Settings, Configure(n)
      PROVE  TypeOK'
    BY <1>3 DEF Configure
<1>4. CASE Tick
    BY <1>4, OlderAge DEF Tick
<1>5. CASE Restart
    <2>1. Clamp(setting) \in Nat
        BY ClampInRange
    <2>2. at' \in [Handlers -> HandlerLabels] /\ got' \in [Handlers -> Settings]
        BY <1>5 DEF Restart
    <2>3. value' \in BOOLEAN /\ flag' \in BOOLEAN /\ met' \in BOOLEAN /\ alone' \in BOOLEAN
        BY <1>5, Zenon DEF Restart
    <2> QED BY <1>5, <2>1, <2>2, <2>3 DEF Restart
<1>6. CASE UNCHANGED vars
    BY <1>6
<1> QED BY <1>1, <1>2, <1>3, <1>4, <1>5, <1>6 DEF Next

\* Every variable keeps its type (the state of the motion reset of one peer).
THEOREM TypeCorrect == Spec => []TypeOK
<1>1. Init => TypeOK
    <2> SUFFICES ASSUME Init PROVE TypeOK
        OBVIOUS
    <2>1. /\ value \in BOOLEAN /\ row \in BOOLEAN /\ flag \in BOOLEAN /\ told \in BOOLEAN
          /\ at \in [Handlers -> HandlerLabels] /\ workerAt \in WorkerLabels
          /\ met \in BOOLEAN /\ alone \in BOOLEAN
        BY Zenon DEF Init, HandlerLabels, WorkerLabels
    <2>2. /\ age \in 0 .. MaxAge /\ sinceReport \in 0 .. MaxAge
          /\ resetAfter \in Nat /\ setting \in Settings /\ got \in [Handlers -> Settings]
          /\ reports \in 0 .. MaxReports /\ crashes \in 0 .. MaxCrashes
        BY DEF Init
    <2> QED BY <2>1, <2>2 DEF TypeOK
<1> QED BY <1>1, TypeStep, PTL DEF Spec

\* A step of a request: it sets MOTION before its row and the row before the
\* flag, and leaves a step only when the next one takes over what it owes.
LEMMA OnGetKeepsMotion ==
    ASSUME TypeOK, NoStuckMotion, NEW h \in Handlers, Report(h) \/ OnGetStep(h)
    PROVE  NoStuckMotion'
<1> USE DEF TypeOK, NoStuckMotion, Step
<1>1. CASE Report(h)
    BY <1>1 DEF Report
<1>2. CASE SaveTrue(h)
    BY <1>2 DEF SaveTrue
<1>3. CASE SetFlag(h)
    BY <1>3 DEF SetFlag
<1>4. CASE SetTime(h) \/ RaiseTrue(h) \/ ReadReset(h) \/ AssignReset(h) \/ ClampReset(h)
    BY <1>4 DEF SetTime, RaiseTrue, ReadReset, AssignReset, ClampReset
<1> QED BY <1>1, <1>2, <1>3, <1>4 DEF OnGetStep

\* A step of the worker: it takes the flag away before it clears MOTION, and
\* MOTION before the row.
LEMMA WorkerKeepsMotion ==
    ASSUME TypeOK, NoStuckMotion, WorkerStep
    PROVE  NoStuckMotion'
<1> USE DEF TypeOK, NoStuckMotion, WorkerStepTo
<1>1. CASE UnsetFlag
    BY <1>1 DEF UnsetFlag
<1>2. CASE ClearValue
    BY <1>2 DEF ClearValue
<1>3. CASE SaveFalse
    BY <1>3 DEF SaveFalse
<1>4. CASE SeeFlag \/ SeeTime \/ RaiseFalse
    BY <1>4 DEF SeeFlag, SeeTime, RaiseFalse
<1> QED BY <1>1, <1>2, <1>3, <1>4, WorkerStep DEF WorkerStep

\* MOTION never stays set with nobody left to reset it, whatever the threads,
\* their order and the moment of a crash.
THEOREM MotionNeverStuck == Spec => []NoStuckMotion
<1>1. Init => NoStuckMotion
    BY DEF Init, NoStuckMotion
<1>2. TypeOK /\ NoStuckMotion /\ [Next]_vars => NoStuckMotion'
    <2> SUFFICES ASSUME TypeOK, NoStuckMotion, [Next]_vars
                 PROVE  NoStuckMotion'
        OBVIOUS
    <2>1. ASSUME NEW h \in Handlers, Report(h) \/ OnGetStep(h)
          PROVE  NoStuckMotion'
        BY <2>1, OnGetKeepsMotion
    <2>2. CASE WorkerStep
        BY <2>2, WorkerKeepsMotion
    <2>3. CASE Restart
        BY <2>3 DEF Restart, NoStuckMotion
    <2>4. CASE Tick \/ (\E n \in Settings : Configure(n)) \/ UNCHANGED vars
        BY <2>4 DEF Tick, Configure, NoStuckMotion
    <2> QED BY <2>1, <2>2, <2>3, <2>4 DEF Next
<1> QED BY <1>1, <1>2, TypeCorrect, PTL DEF Spec

\* The time the worker waits is a clamped one but for the gap between a
\* request's two assignments, with any number of requests at once.
THEOREM ResetAfterStaysInRange == Spec => []ResetAfterInRange
<1>1. Init => ResetAfterInRange
    BY DEF Init, ResetAfterInRange
<1>2. TypeOK /\ ResetAfterInRange /\ [Next]_vars => ResetAfterInRange'
    <2> SUFFICES ASSUME TypeOK, ResetAfterInRange, [Next]_vars
                 PROVE  ResetAfterInRange'
        OBVIOUS
    <2> USE DEF TypeOK, ResetAfterInRange
    <2>1. ASSUME NEW h \in Handlers, Report(h) \/ OnGetStep(h)
          PROVE  ResetAfterInRange'
        <3>1. CASE AssignReset(h)
            BY <3>1 DEF AssignReset, Step
        <3>2. CASE ClampReset(h)
            BY <3>2, ClampInRange DEF ClampReset
        <3>3. CASE \/ Report(h) \/ SaveTrue(h) \/ SetFlag(h) \/ SetTime(h) \/ RaiseTrue(h)
                   \/ ReadReset(h)
            BY <3>3 DEF Report, SaveTrue, SetFlag, SetTime, RaiseTrue, ReadReset, Step
        <3> QED BY <2>1, <3>1, <3>2, <3>3 DEF OnGetStep
    <2>2. CASE WorkerStep
        BY <2>2 DEF WorkerStep, SeeFlag, SeeTime, UnsetFlag, ClearValue, SaveFalse, RaiseFalse,
                    WorkerStepTo
    <2>3. CASE Restart
        BY <2>3, ClampInRange DEF Restart
    <2>4. CASE Tick \/ (\E n \in Settings : Configure(n)) \/ UNCHANGED vars
        BY <2>4 DEF Tick, Configure
    <2> QED BY <2>1, <2>2, <2>3, <2>4 DEF Next
<1> QED BY <1>1, <1>2, TypeCorrect, PTL DEF Spec

\* A step of a request keeps the worker's time that of the last call.
LEMMA OnGetKeepsTime ==
    ASSUME TypeOK, TimeIsLast, NEW h \in Handlers, Report(h) \/ OnGetStep(h)
    PROVE  TimeIsLast'
<1> USE DEF TypeOK, TimeIsLast, Step
<1>1. CASE Report(h)
    BY <1>1 DEF Report
<1>2. CASE SaveTrue(h) \/ SetFlag(h)
    BY <1>2 DEF SaveTrue, SetFlag
<1>3. CASE SetTime(h)
    BY <1>3 DEF SetTime
<1>4. CASE RaiseTrue(h) \/ ReadReset(h) \/ AssignReset(h) \/ ClampReset(h)
    BY <1>4 DEF RaiseTrue, ReadReset, AssignReset, ClampReset
<1> QED BY <1>1, <1>2, <1>3, <1>4 DEF OnGetStep

\* The flag comes back after a crash with the time of the restart, and nobody
\* sets the flag without setting the time next.
LEMMA TimeStaysLast == Spec => []TimeIsLast
<1>1. Init => TimeIsLast
    BY DEF Init, TimeIsLast
<1>2. TypeOK /\ TimeIsLast /\ [Next]_vars => TimeIsLast'
    <2> SUFFICES ASSUME TypeOK, TimeIsLast, [Next]_vars
                 PROVE  TimeIsLast'
        OBVIOUS
    <2> USE DEF TypeOK, TimeIsLast
    <2>1. ASSUME NEW h \in Handlers, Report(h) \/ OnGetStep(h)
          PROVE  TimeIsLast'
        BY <2>1, OnGetKeepsTime
    <2>2. CASE WorkerStep
        BY <2>2 DEF WorkerStep, SeeFlag, SeeTime, UnsetFlag, ClearValue, SaveFalse, RaiseFalse,
                    WorkerStepTo
    <2>3. CASE Restart
        BY <2>3 DEF Restart
    <2>4. CASE Tick
        BY <2>4 DEF Tick, Older
    <2>5. CASE (\E n \in Settings : Configure(n)) \/ UNCHANGED vars
        BY <2>5 DEF Configure
    <2> QED BY <2>1, <2>2, <2>3, <2>4, <2>5 DEF Next
<1> QED BY <1>1, <1>2, TypeCorrect, PTL DEF Spec

\* What the worker sees of the time when it decides, and that a call meets it
\* if it does anything before the clearing.
LEMMA DueStaysOld == Spec => []DueIsOld
<1>1. Init => DueIsOld
    BY DEF Init, DueIsOld
<1>2. TypeOK /\ TimeIsLast /\ ResetAfterInRange /\ DueIsOld /\ [Next]_vars => DueIsOld'
    <2> SUFFICES ASSUME TypeOK, TimeIsLast, ResetAfterInRange, DueIsOld, [Next]_vars
                 PROVE  DueIsOld'
        OBVIOUS
    <2> USE DEF TypeOK, DueIsOld, InGap
    <2>1. ASSUME NEW h \in Handlers, Report(h) \/ OnGetStep(h)
          PROVE  DueIsOld'
        BY <2>1 DEF OnGetStep, Report, SaveTrue, SetFlag, SetTime, RaiseTrue, ReadReset,
                    AssignReset, ClampReset, Step
    <2>2. CASE SeeTime
        BY <2>2 DEF SeeTime, WorkerStepTo, TimeIsLast, ResetAfterInRange
    <2>3. CASE SeeFlag \/ UnsetFlag \/ ClearValue \/ SaveFalse \/ RaiseFalse
        BY <2>3 DEF SeeFlag, UnsetFlag, ClearValue, SaveFalse, RaiseFalse, WorkerStepTo
    <2>4. CASE Tick
        BY <2>4 DEF Tick, Older
    <2>5. CASE Restart \/ (\E n \in Settings : Configure(n)) \/ UNCHANGED vars
        BY <2>5 DEF Restart, Configure
    <2> QED BY <2>1, <2>2, <2>3, <2>4, <2>5 DEF Next, WorkerStep
<1> QED BY <1>1, <1>2, TypeCorrect, TimeStaysLast, ResetAfterStaysInRange, PTL DEF Spec

\* A turn of the worker that meets no call clears MOTION only when the minimum
\* has passed since the last one: with any number of requests, settings and
\* crashes.
THEOREM ResetInTime == Spec => ResetNotEarly
<1> DEFINE Early ==
        workerAt = "clear" /\ workerAt' = "save" =>
            met \/ sinceReport >= MinReset \/ resetAfter = FieldInit \/ InGap
<1>1. DueIsOld /\ [Next]_vars => [Early]_vars
    BY DEF DueIsOld
<1> QED BY <1>1, DueStaysOld, PTL DEF Spec, ResetNotEarly

-----------------------------------------------------------------------------
(* The setting gets into use *)

\* A call that met no other one has the setting with it, from reading it on to
\* the clamped field, and is the only one in onGet.
AloneCarriesSetting ==
    alone =>
        /\ \A h, k \in Handlers : at[h] # "idle" /\ at[k] # "idle" => h = k
        /\ \A h \in Handlers :
              /\ at[h] = "assign" => got[h] = setting
              /\ at[h] = "clamp" => resetAfter = setting

\* Every step keeps both; a change of the setting only ends alone.
LEMMA StepCarriesSetting ==
    ASSUME TypeOK, AloneCarriesSetting, SettingInUse, [Next]_vars
    PROVE  AloneCarriesSetting' /\ SettingInUse'
<1> USE DEF TypeOK, AloneCarriesSetting, SettingInUse
<1>1. ASSUME NEW h \in Handlers, Report(h) \/ OnGetStep(h)
      PROVE  AloneCarriesSetting' /\ SettingInUse'
    <2>1. CASE Report(h)
        BY <2>1 DEF Report, Step
    <2>2. CASE SaveTrue(h) \/ SetFlag(h) \/ SetTime(h) \/ RaiseTrue(h)
        BY <2>2 DEF SaveTrue, SetFlag, SetTime, RaiseTrue, Step
    <2>3. CASE ReadReset(h) \/ AssignReset(h)
        BY <2>3 DEF ReadReset, AssignReset, Step
    <2>4. CASE ClampReset(h)
        BY <2>4 DEF ClampReset, Step
    <2> QED BY <1>1, <2>1, <2>2, <2>3, <2>4 DEF OnGetStep
<1>2. CASE WorkerStep
    BY <1>2 DEF WorkerStep, SeeFlag, SeeTime, UnsetFlag, ClearValue, SaveFalse, RaiseFalse,
                WorkerStepTo
<1>3. CASE Restart
    BY <1>3 DEF Restart
<1>4. CASE Tick \/ (\E n \in Settings : Configure(n)) \/ UNCHANGED vars
    BY <1>4 DEF Tick, Configure
<1> QED BY <1>1, <1>2, <1>3, <1>4 DEF Next

\* A changed setting is in use as soon as one call has met no other call: the
\* field may be older only where calls overlapped or none has come yet.
THEOREM SettingGetsIntoUse == Spec => []SettingInUse
<1>1. Init => AloneCarriesSetting /\ SettingInUse
    BY DEF Init, AloneCarriesSetting, SettingInUse
<1>2. TypeOK /\ AloneCarriesSetting /\ SettingInUse /\ [Next]_vars
         => AloneCarriesSetting' /\ SettingInUse'
    BY StepCarriesSetting
<1> QED BY <1>1, <1>2, TypeCorrect, PTL DEF Spec
=============================================================================
