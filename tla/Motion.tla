------------------------------- MODULE Motion -------------------------------
(***************************************************************************)
(* The MOTION variable of one IpCamPeer.  A camera that sees motion calls  *)
(* the peer's motion URL; a webserver thread sets MOTION (onGet), and the  *)
(* central's worker thread resets it (worker) once the last call lies      *)
(* RESET_MOTION_AFTER back.  Neither takes a lock: every step below is one *)
(* access to what the two share.                                           *)
(*                                                                         *)
(* Time is the age of _motionTime, counted up to MaxAge, beyond which      *)
(* nothing depends on it.                                                  *)
(***************************************************************************)
EXTENDS Naturals

CONSTANTS
    Handlers,           \* webserver threads
    Settings,           \* values RESET_MOTION_AFTER may be given
    DefaultSetting,     \* its default
    MinReset, MaxReset, \* the range _resetMotionAfter is clamped to
    FieldInit,          \* what _resetMotionAfter holds before it is first read
    MaxAge,             \* the age at which clocks stop counting
    MaxReports,         \* bound on the calls of the motion URL
    MaxCrashes          \* bound on the crashes of the process

ASSUME ConstantsAssumption ==
    /\ Settings \subseteq Nat /\ DefaultSetting \in Settings
    /\ MinReset \in Nat /\ MaxReset \in Nat /\ MinReset <= MaxReset
    /\ FieldInit \in Nat
    /\ MaxAge \in Nat /\ MaxReset < MaxAge
    /\ MaxReports \in Nat /\ MaxCrashes \in Nat

VARIABLES
    value,          \* MOTION in valuesCentral
    row,            \* MOTION in the database
    flag,           \* _motion
    age,            \* the time since _motionTime
    resetAfter,     \* _resetMotionAfter
    setting,        \* RESET_MOTION_AFTER in configCentral and the database
    told,           \* the value of MOTION in the last event
    at,             \* where each webserver thread is in onGet
    got,            \* the setting each of them has read
    workerAt,       \* where the worker thread is in worker()
    sinceReport,    \* the time since the last call of the motion URL
    met,            \* whether a call was in onGet during this turn of the worker
    alone,          \* whether the last call to begin has met no other call and
                    \* no change of the setting since
    reports, crashes

peerVars == <<value, row, flag, age, resetAfter>>
boundVars == <<reports, crashes>>
threadVars == <<at, got, workerAt, met>>
vars == <<peerVars, setting, told, threadVars, sinceReport, alone, boundVars>>

HandlerLabels == {"idle", "save", "flag", "time", "event", "read", "assign", "clamp"}
WorkerLabels == {"idle", "due", "unset", "clear", "save", "event"}

Clamp(n) == IF n < MinReset THEN MinReset ELSE IF n > MaxReset THEN MaxReset ELSE n
Older(n) == IF n < MaxAge THEN n + 1 ELSE n

\* A peer that createDevice has just built.
Init ==
    /\ value = FALSE /\ row = FALSE /\ flag = FALSE /\ told = FALSE
    /\ age = MaxAge /\ sinceReport = MaxAge
    /\ resetAfter = FieldInit /\ setting = DefaultSetting
    /\ at = [h \in Handlers |-> "idle"] /\ workerAt = "idle"
    /\ got = [h \in Handlers |-> DefaultSetting] /\ met = FALSE /\ alone = FALSE
    /\ reports = 0 /\ crashes = 0

-----------------------------------------------------------------------------
(* onGet of the motion URL *)

Step(h, from, to) ==
    /\ at[h] = from /\ at' = [at EXCEPT ![h] = to]
    /\ met' = (met \/ workerAt # "idle")
    /\ UNCHANGED workerAt

\* The camera got its answer; MOTION is set in valuesCentral, ...
Report(h) ==
    /\ Step(h, "idle", "save")
    /\ reports < MaxReports /\ reports' = reports + 1
    /\ value' = TRUE /\ sinceReport' = 0
    /\ alone' = \A k \in Handlers \ {h} : at[k] = "idle"
    /\ UNCHANGED <<row, flag, age, resetAfter, setting, told, got, crashes>>

\* ... saved, ...
SaveTrue(h) ==
    /\ Step(h, "save", "flag")
    /\ row' = TRUE
    /\ UNCHANGED <<value, flag, age, resetAfter, setting, told, got, sinceReport, alone, boundVars>>

\* ... and the worker is asked to reset it: first the flag, ...
SetFlag(h) ==
    /\ Step(h, "flag", "time")
    /\ flag' = TRUE
    /\ UNCHANGED <<value, row, age, resetAfter, setting, told, got, sinceReport, alone, boundVars>>

\* ... then the time.
SetTime(h) ==
    /\ Step(h, "time", "event")
    /\ age' = 0
    /\ UNCHANGED <<value, row, flag, resetAfter, setting, told, got, sinceReport, alone, boundVars>>

RaiseTrue(h) ==
    /\ Step(h, "event", "read")
    /\ told' = TRUE
    /\ UNCHANGED <<peerVars, setting, got, sinceReport, alone, boundVars>>

\* The setting is read, ...
ReadReset(h) ==
    /\ Step(h, "read", "assign")
    /\ got' = [got EXCEPT ![h] = setting]
    /\ UNCHANGED <<peerVars, setting, told, sinceReport, alone, boundVars>>

\* ... assigned to the field, ...
AssignReset_NoClamp(h) ==
    /\ Step(h, "assign", "idle")
    /\ resetAfter' = got[h] /\ got' = [got EXCEPT ![h] = DefaultSetting]
    /\ UNCHANGED <<value, row, flag, age, setting, told, sinceReport, alone, boundVars>>

AssignReset_Once(h) ==
    /\ Step(h, "assign", "clamp")
    /\ resetAfter' = (IF resetAfter = FieldInit THEN got[h] ELSE resetAfter)
    /\ got' = [got EXCEPT ![h] = DefaultSetting]
    /\ UNCHANGED <<value, row, flag, age, setting, told, sinceReport, alone, boundVars>>

AssignReset(h) ==
    /\ Step(h, "assign", "clamp")
    /\ resetAfter' = got[h] /\ got' = [got EXCEPT ![h] = DefaultSetting]
    /\ UNCHANGED <<value, row, flag, age, setting, told, sinceReport, alone, boundVars>>

\* ... and the field is clamped.
ClampReset(h) ==
    /\ Step(h, "clamp", "idle")
    /\ resetAfter' = Clamp(resetAfter)
    /\ UNCHANGED <<value, row, flag, age, setting, told, got, sinceReport, alone, boundVars>>

-----------------------------------------------------------------------------
(* worker() *)

WorkerStepTo(from, to) ==
    /\ workerAt = from /\ workerAt' = to
    /\ met' = (met /\ to # "idle")
    /\ UNCHANGED <<at, got>>

\* The two halves of the condition.
SeeFlag ==
    /\ flag
    /\ WorkerStepTo("idle", "due")
    /\ UNCHANGED <<peerVars, setting, told, sinceReport, alone, boundVars>>

SeeTime ==
    /\ \/ age >= resetAfter /\ WorkerStepTo("due", "unset")
       \/ age < resetAfter /\ WorkerStepTo("due", "idle")
    /\ UNCHANGED <<peerVars, setting, told, sinceReport, alone, boundVars>>

UnsetFlag ==
    /\ WorkerStepTo("unset", "clear")
    /\ flag' = FALSE
    /\ UNCHANGED <<value, row, age, resetAfter, setting, told, sinceReport, alone, boundVars>>

ClearValue ==
    /\ WorkerStepTo("clear", "save")
    /\ value' = FALSE
    /\ UNCHANGED <<row, flag, age, resetAfter, setting, told, sinceReport, alone, boundVars>>

SaveFalse_UnsetsFlag ==
    /\ WorkerStepTo("save", "event")
    /\ row' = FALSE /\ flag' = FALSE
    /\ UNCHANGED <<value, age, resetAfter, setting, told, sinceReport, alone, boundVars>>

SaveFalse ==
    /\ WorkerStepTo("save", "event")
    /\ row' = FALSE
    /\ UNCHANGED <<value, flag, age, resetAfter, setting, told, sinceReport, alone, boundVars>>

RaiseFalse ==
    /\ WorkerStepTo("event", "idle")
    /\ told' = FALSE
    /\ UNCHANGED <<peerVars, setting, sinceReport, alone, boundVars>>

-----------------------------------------------------------------------------
(* The rest of the world *)

\* putParamset stores a new RESET_MOTION_AFTER; the field keeps its value.
Configure_Milliseconds(n) ==
    /\ setting' = n * 1000
    /\ alone' = FALSE
    /\ UNCHANGED <<peerVars, told, threadVars, sinceReport, boundVars>>

Configure(n) ==
    /\ setting' = n
    /\ alone' = FALSE
    /\ UNCHANGED <<peerVars, told, threadVars, sinceReport, boundVars>>

Tick ==
    /\ age' = Older(age) /\ sinceReport' = Older(sinceReport)
    /\ <<age, sinceReport>>' # <<age, sinceReport>>
    /\ UNCHANGED <<value, row, flag, resetAfter, setting, told, threadVars, alone, boundVars>>

\* The process ends and load() reads the peer from the database: motion that
\* was saved gets its flag back, and a full wait.
Restart_FlagForgotten ==
    /\ crashes < MaxCrashes /\ crashes' = crashes + 1
    /\ at' = [h \in Handlers |-> "idle"] /\ workerAt' = "idle"
    /\ got' = [h \in Handlers |-> DefaultSetting] /\ met' = FALSE /\ alone' = TRUE
    /\ value' = row /\ flag' = FALSE /\ age' = MaxAge
    /\ resetAfter' = Clamp(setting)
    /\ UNCHANGED <<row, setting, told, sinceReport, reports>>

Restart_OldTime ==
    /\ crashes < MaxCrashes /\ crashes' = crashes + 1
    /\ at' = [h \in Handlers |-> "idle"] /\ workerAt' = "idle"
    /\ got' = [h \in Handlers |-> DefaultSetting] /\ met' = FALSE /\ alone' = TRUE
    /\ value' = row /\ flag' = row /\ age' = MaxAge
    /\ resetAfter' = Clamp(setting)
    /\ UNCHANGED <<row, setting, told, sinceReport, reports>>

Restart ==
    /\ crashes < MaxCrashes /\ crashes' = crashes + 1
    /\ at' = [h \in Handlers |-> "idle"] /\ workerAt' = "idle"
    /\ got' = [h \in Handlers |-> DefaultSetting] /\ met' = FALSE /\ alone' = TRUE
    /\ value' = row /\ flag' = row
    /\ age' = IF row THEN 0 ELSE MaxAge
    /\ resetAfter' = Clamp(setting)
    /\ UNCHANGED <<row, setting, told, sinceReport, reports>>

-----------------------------------------------------------------------------
OnGetStep(h) ==
    \/ SaveTrue(h) \/ SetFlag(h) \/ SetTime(h) \/ RaiseTrue(h)
    \/ ReadReset(h) \/ AssignReset(h) \/ ClampReset(h)

WorkerStep == SeeFlag \/ SeeTime \/ UnsetFlag \/ ClearValue \/ SaveFalse \/ RaiseFalse

Next ==
    \/ \E h \in Handlers : Report(h) \/ OnGetStep(h)
    \/ WorkerStep
    \/ \E n \in Settings : Configure(n)
    \/ Tick
    \/ Restart

Spec == Init /\ [][Next]_vars

\* A request that came in is served, the worker comes round again and again,
\* and time passes.
Fairness ==
    /\ \A h \in Handlers : WF_vars(OnGetStep(h))
    /\ WF_vars(WorkerStep)
    /\ WF_vars(Tick)

FairSpec == Spec /\ Fairness

-----------------------------------------------------------------------------
(* Properties *)

TypeOK ==
    /\ value \in BOOLEAN /\ row \in BOOLEAN /\ flag \in BOOLEAN /\ told \in BOOLEAN
    /\ age \in 0 .. MaxAge /\ sinceReport \in 0 .. MaxAge
    /\ resetAfter \in Nat /\ setting \in Settings
    /\ at \in [Handlers -> HandlerLabels] /\ workerAt \in WorkerLabels
    /\ got \in [Handlers -> Settings] /\ met \in BOOLEAN /\ alone \in BOOLEAN
    /\ reports \in 0 .. MaxReports /\ crashes \in 0 .. MaxCrashes

\* Whenever MOTION is set, in memory or in the database, somebody is still
\* bound to reset it: the flag is set, or the worker is about to clear what is
\* set, or a request is about to set the flag.  In every interleaving of the
\* worker and the requests, without a lock.
NoStuckMotion ==
    /\ value => \/ flag
                \/ workerAt = "clear"
                \/ \E h \in Handlers : at[h] \in {"save", "flag"}
    /\ row => \/ flag
              \/ workerAt \in {"clear", "save"}
              \/ \E h \in Handlers : at[h] = "flag"

\* _resetMotionAfter leaves the range of its setting only between the two
\* assignments of a request, or while it was never read.
ResetAfterInRange ==
    \/ resetAfter \in MinReset .. MaxReset
    \/ resetAfter = FieldInit
    \/ \E h \in Handlers : at[h] = "clamp"

\* A time the worker may go by is that of the last call, or a later one, unless
\* a call is on its way to set it.
TimeIsLast ==
    flag \/ workerAt = "due" =>
        \/ age <= sinceReport
        \/ \E h \in Handlers : at[h] \in {"save", "flag", "time"}

\* Once the camera is quiet, MOTION becomes FALSE and stays FALSE, in memory
\* and in the database, also when the process restarted in between.
MotionEnds == <>[](~value /\ ~row)

\* A changed RESET_MOTION_AFTER gets into use: when a call of the motion URL has
\* returned that met no other call and no further change, the worker waits for
\* the setting that is stored, within its range; after a restart at once.
SettingInUse ==
    alone /\ (\A h \in Handlers : at[h] = "idle") => resetAfter = Clamp(setting)

\* A call whose time may still be to come (onGet sets the flag first), or whose
\* new wait is not clamped yet.
InGap == \E h \in Handlers : at[h] \in {"save", "flag", "time", "clamp"}

\* The decision to reset rests on a wait of the minimum, unless a call was or is
\* in onGet in the same turn, or the setting was never read.
DueIsOld ==
    workerAt \in {"unset", "clear"} /\ ~met =>
        sinceReport >= MinReset \/ resetAfter = FieldInit \/ InGap

\* The minimum of RESET_MOTION_AFTER: the worker clears MOTION no earlier than
\* MinReset after the last call of the motion URL, also after a restart, if its
\* turn met no call; a call that comes between the worker's look at the time
\* and the clearing is reset at once, even if onGet is through with it.
ResetNotEarly ==
    [][workerAt = "clear" /\ workerAt' = "save" =>
           met \/ sinceReport >= MinReset \/ resetAfter = FieldInit \/ InGap]_vars

\* What clients are told ends with the reset too.
ClientsToldReset == told ~> ~told
=============================================================================
