------------------------------- MODULE Timers -------------------------------
(***************************************************************************)
(* The timers manager of the connectivity framework: a table of software   *)
(* timers multiplexed by TMR_Task on one free-running 16-bit TPM counter.  *)
(* The contexts are TMR_Task, whose callbacks call the API again; one task *)
(* that calls the API, of lower priority (TMR_Task runs between its steps  *)
(* and never the other way round) or of higher; the TPM interrupt, which   *)
(* only sets the task's event and is folded into the tick that raises it;  *)
(* and the low power module, external to the repository, that brackets a   *)
(* sleep with the two calls made for it.  Code between TmrIntDisableAll    *)
(* and TmrIntRestoreAll is one step.                                       *)
(***************************************************************************)
EXTENDS Naturals, FiniteSets

CONSTANTS
    N,          \* gTmrTotalTimers_c
    MOD,        \* period of the counter, 0x10000 in the code
    FOUR_MS,    \* mTicksFor4ms
    LATENCY,    \* ticks from the event to the run of TMR_Task
    PASS,       \* ticks one pass of TMR_Task takes, its callbacks included
    Use,        \* how timers are started: timer, interval in ticks, type (low power, single shot)
    CbTimer,    \* timers that callbacks start; the other task starts the rest
    HIGH,       \* the calling task has a higher priority than TMR_Task
    MAX_SLEEP   \* bound on the ticks of one sleep

Timer == 0 .. N - 1

(* Comment at mMaxToCountDown_c: a thread is executed at most in 4 ms. *)
ASSUME TimersAssumption ==
    /\ N \in Nat \ {0} /\ FOUR_MS \in Nat \ {0}
    /\ LATENCY \in 0 .. FOUR_MS /\ PASS \in 0 .. FOUR_MS
    /\ MOD \in Nat /\ MOD > 4 * FOUR_MS + 1
    /\ Use \subseteq [id : Timer, interval : Nat \ {0}, type : [lp : BOOLEAN, shot : BOOLEAN]]
    /\ CbTimer \subseteq Timer
    /\ HIGH \in BOOLEAN
    /\ MAX_SLEEP \in Nat

VARIABLES
    status,                 \* maTmrTimerStatusTable, status bits
    type,                   \* maTmrTimerStatusTable, type bits
    interval, remaining,    \* maTmrTimerTable
    numberOf,               \* numberOfActiveTimers and numberOfLowPowerActiveTimers
    timerHardwareIsRunning,
    previousTimeInTicks,
    event,                  \* mTimerThreadEventId
    task,                   \* TMR_Task: program counter and locals
    api,                    \* the calling task
    hw, cnt, cmp,           \* TPM: clock on, counter, channel compare value
    lag,                    \* ticks since TMR_Task was made ready or began its pass
    counted,                \* history: ticks of the counter since previousTimeInTicks was read
    age,                    \* history: ticks since the running timer was started or reloaded
    armed                   \* history: started, and not stopped by a caller since

table == <<status, type, interval, remaining, numberOf, timerHardwareIsRunning>>
tpm == <<hw, cnt, cmp>>
vars == <<table, previousTimeInTicks, event, task, api, tpm, lag, counted, age, armed>>

Type == [lp : BOOLEAN, shot : BOOLEAN]
Interval == {u.interval : u \in Use}
NoType == [lp |-> FALSE, shot |-> FALSE]     \* no type bit set
Waiting == [pc |-> "wait", id |-> 0, ticks |-> 0, next |-> 0, shot |-> FALSE]
Idle == [pc |-> "idle", id |-> 0, type |-> NoType, interval |-> 0]
Call(pc, u) == [pc |-> pc, id |-> u.id, type |-> u.type, interval |-> u.interval]

Running(t) == status[t] \in {"ready", "active"}
Diff(a, b) == (a + MOD - b) % MOD
Latest(t) == interval[t] + 2 * LATENCY + 3 * PASS + FOUR_MS - 1
Least(a, b) == IF a < b THEN a ELSE b

(* Mutant: the two thread latencies are not set aside. *)
mMax_full == MOD - 1
mMaxToCountDown == MOD - 1 - 2 * FOUR_MS

Init ==
    /\ status = [t \in Timer |-> "free"]
    /\ type = [t \in Timer |-> NoType]
    /\ interval = [t \in Timer |-> 0]
    /\ remaining = [t \in Timer |-> 0]
    /\ numberOf = [lp \in BOOLEAN |-> 0]
    /\ timerHardwareIsRunning = FALSE
    /\ previousTimeInTicks = 0
    /\ event = FALSE
    /\ task = Waiting /\ api = Idle
    /\ hw = FALSE /\ cnt = 0 /\ cmp = 1
    /\ lag = 0 /\ counted = 0
    /\ age = [t \in Timer |-> 0]
    /\ armed = [t \in Timer |-> FALSE]

-----------------------------------------------------------------------------
(* Time: the counter moves while its clock is on and interrupts at the     *)
(* compare value and at its overflow.  TMR_Task keeps the two deadlines.   *)
Tick ==
    /\ (IF task.pc # "wait" THEN lag < PASS ELSE event => lag < LATENCY)
    /\ cnt' = IF hw THEN (cnt + 1) % MOD ELSE cnt
    /\ event' = (event \/ (hw /\ cnt' \in {cmp, 0}))
    /\ counted' = IF hw THEN Least(counted + 1, MOD) ELSE counted
    /\ lag' = IF task.pc # "wait" \/ event THEN lag + 1 ELSE 0
    /\ age' = [t \in Timer |-> IF Running(t) THEN Least(age[t] + 1, Latest(t) + 1) ELSE age[t]]
    /\ UNCHANGED <<table, previousTimeInTicks, task, api, hw, cmp, armed>>

-----------------------------------------------------------------------------
(* Critical section of TMR_StopTimer: a running timer becomes inactive,    *)
(* and the last one switches the counter off.                              *)
(* Mutants: a ready timer stays counted; a ready timer is not stopped.     *)
Stop_keeps_count(t) ==
    LET left == [numberOf EXCEPT ![type[t].lp] = IF status[t] = "active" THEN @ - 1 ELSE @]
        off == Running(t) /\ left[TRUE] = 0 /\ left[FALSE] = 0 /\ timerHardwareIsRunning
    IN /\ status' = [status EXCEPT ![t] = IF Running(t) THEN "inactive" ELSE @]
       /\ numberOf' = left
       /\ timerHardwareIsRunning' = (timerHardwareIsRunning /\ ~off)
       /\ hw' = (hw /\ ~off)
       /\ age' = [age EXCEPT ![t] = 0]

Stop_active_only(t) ==
    LET stops == status[t] = "active"
        left == [numberOf EXCEPT ![type[t].lp] = IF stops THEN @ - 1 ELSE @]
        off == stops /\ left[TRUE] = 0 /\ left[FALSE] = 0 /\ timerHardwareIsRunning
    IN /\ status' = [status EXCEPT ![t] = IF stops THEN "inactive" ELSE @]
       /\ numberOf' = left
       /\ timerHardwareIsRunning' = (timerHardwareIsRunning /\ ~off)
       /\ hw' = (hw /\ ~off)
       /\ age' = [age EXCEPT ![t] = 0]

Stop(t) ==
    LET left == [numberOf EXCEPT ![type[t].lp] = IF Running(t) THEN @ - 1 ELSE @]
        off == Running(t) /\ left[TRUE] = 0 /\ left[FALSE] = 0 /\ timerHardwareIsRunning
    IN /\ status' = [status EXCEPT ![t] = IF Running(t) THEN "inactive" ELSE @]
       /\ numberOf' = left
       /\ timerHardwareIsRunning' = (timerHardwareIsRunning /\ ~off)
       /\ hw' = (hw /\ ~off)
       /\ age' = [age EXCEPT ![t] = 0]

(* The calling task runs: always if it is above TMR_Task, else while that waits. *)
ApiRuns == HIGH \/ (task.pc = "wait" /\ ~event)
TaskRuns == HIGH => api.pc = "idle"

(* TMR_AllocateTimer: the first free entry; its type bits keep their value. *)
TMR_AllocateTimer ==
    /\ api.pc = "idle" /\ ApiRuns
    /\ \E t \in Timer :
          /\ status[t] = "free" /\ \A u \in 0 .. t - 1 : status[u] # "free"
          /\ status' = [status EXCEPT ![t] = "inactive"]
    /\ UNCHANGED <<type, interval, remaining, numberOf, timerHardwareIsRunning, previousTimeInTicks,
                   event, task, api, tpm, lag, counted, age, armed>>

TMR_StopTimer(t) ==
    /\ api.pc = "idle" /\ ApiRuns
    /\ status[t] # "free"
    /\ Stop(t)
    /\ armed' = [armed EXCEPT ![t] = FALSE]
    /\ UNCHANGED <<type, interval, remaining, previousTimeInTicks, event, task, api, cnt, cmp,
                   lag, counted>>

(* TMR_FreeTimer: stop, then the status byte, type bits included, is cleared. *)
TMR_FreeTimer(t) ==
    /\ api.pc = "idle" /\ ApiRuns
    /\ status[t] # "free" /\ t \notin CbTimer
    /\ Stop(t)
    /\ armed' = [armed EXCEPT ![t] = FALSE]
    /\ api' = [Idle EXCEPT !.pc = "free", !.id = t]
    /\ UNCHANGED <<type, interval, remaining, previousTimeInTicks, event, task, cnt, cmp,
                   lag, counted>>

TMR_MarkTimerFree ==
    /\ api.pc = "free" /\ ApiRuns
    /\ status' = [status EXCEPT ![api.id] = "free"]
    /\ type' = [type EXCEPT ![api.id] = NoType]
    /\ api' = Idle
    /\ UNCHANGED <<interval, remaining, numberOf, timerHardwareIsRunning, previousTimeInTicks,
                   event, task, tpm, lag, counted, age, armed>>

(***************************************************************************)
(* TMR_StartTimer, and TMR_StartLowPowerTimer and the other wrappers that  *)
(* choose its type: the timer is stopped, its entry is written with        *)
(* interrupts enabled, and TMR_EnableTimer makes it ready.                 *)
(***************************************************************************)
TMR_StartTimer(u) ==
    /\ api.pc = "idle" /\ ApiRuns
    /\ status[u.id] # "free" /\ u.id \notin CbTimer
    /\ Stop(u.id)
    /\ armed' = [armed EXCEPT ![u.id] = FALSE]
    /\ api' = Call("write", u)
    /\ UNCHANGED <<type, interval, remaining, previousTimeInTicks, event, task, cnt, cmp,
                   lag, counted>>

TMR_WriteEntry ==
    /\ api.pc = "write" /\ ApiRuns
    /\ type' = [type EXCEPT ![api.id] = api.type]
    /\ interval' = [interval EXCEPT ![api.id] = api.interval]
    /\ remaining' = [remaining EXCEPT ![api.id] = api.interval]
    /\ api' = [Idle EXCEPT !.pc = "enable", !.id = api.id]
    /\ UNCHANGED <<status, numberOf, timerHardwareIsRunning, previousTimeInTicks, event, task, tpm,
                   lag, counted, age, armed>>

TMR_EnableTimer ==
    /\ api.pc = "enable" /\ ApiRuns
    /\ api' = Idle
    /\ LET t == api.id
           enables == status[t] = "inactive"
       IN /\ status' = [status EXCEPT ![t] = IF enables THEN "ready" ELSE @]
          /\ numberOf' = [numberOf EXCEPT ![type[t].lp] = IF enables THEN @ + 1 ELSE @]
          /\ event' = (event \/ enables)
          /\ age' = [age EXCEPT ![t] = IF enables THEN 0 ELSE @]
          /\ armed' = [armed EXCEPT ![t] = TRUE]
    /\ UNCHANGED <<type, interval, remaining, timerHardwareIsRunning, previousTimeInTicks, task, tpm,
                   lag, counted>>

-----------------------------------------------------------------------------
(* TMR_Task.  A pass reads the counter once. *)
TMR_Task_begin ==
    /\ task.pc = "wait" /\ event /\ TaskRuns
    /\ event' = FALSE
    /\ task' = [pc |-> "scan", id |-> 0, ticks |-> Diff(cnt, previousTimeInTicks), next |-> mMaxToCountDown,
               shot |-> FALSE]
    /\ previousTimeInTicks' = cnt
    /\ lag' = 0 /\ counted' = 0
    /\ UNCHANGED <<table, api, tpm, age, armed>>

ToNext(next) == [task EXCEPT !.pc = "scan", !.id = @ + 1, !.next = next, !.shot = FALSE]

(* Mutant: a timer that was just started is counted down like the others. *)
ready_counts ==
    /\ task.pc = "scan" /\ task.id \in Timer /\ TaskRuns
    /\ status[task.id] = "ready"
    /\ status' = [status EXCEPT ![task.id] = "active"]
    /\ task' = [task EXCEPT !.pc = "count", !.shot = type[task.id].shot]
    /\ UNCHANGED <<type, interval, remaining, numberOf, timerHardwareIsRunning, previousTimeInTicks,
                   event, api, tpm, lag, counted, age, armed>>

(* The status of the next timer: one just started counts down as of now. *)
TMR_Task_ready ==
    /\ task.pc = "scan" /\ task.id \in Timer /\ TaskRuns
    /\ status[task.id] = "ready"
    /\ status' = [status EXCEPT ![task.id] = "active"]
    /\ task' = ToNext(Least(task.next, remaining[task.id]))
    /\ UNCHANGED <<type, interval, remaining, numberOf, timerHardwareIsRunning, previousTimeInTicks,
                   event, api, tpm, lag, counted, age, armed>>

TMR_Task_active ==
    /\ task.pc = "scan" /\ task.id \in Timer /\ TaskRuns
    /\ status[task.id] \notin {"ready"}
    /\ task' = IF status[task.id] = "active" THEN [task EXCEPT !.pc = "count", !.shot = type[task.id].shot]
               ELSE ToNext(task.next)
    /\ UNCHANGED <<table, previousTimeInTicks, event, api, tpm, lag, counted, age, armed>>

(* An active timer is counted down by the ticks of the pass ... *)
TMR_Task_count ==
    /\ task.pc = "count" /\ TaskRuns
    /\ remaining[task.id] > task.ticks
    /\ remaining' = [remaining EXCEPT ![task.id] = @ - task.ticks]
    /\ task' = ToNext(Least(task.next, remaining'[task.id]))
    /\ UNCHANGED <<status, type, interval, numberOf, timerHardwareIsRunning, previousTimeInTicks,
                   event, api, tpm, lag, counted, age, armed>>

(* ... and when it has expired it is stopped or reloaded before its callback. *)
TMR_Task_expire ==
    /\ task.pc = "count" /\ TaskRuns
    /\ remaining[task.id] <= task.ticks
    /\ LET t == task.id IN
       IF task.shot
       THEN /\ remaining' = [remaining EXCEPT ![t] = 0]
            /\ Stop(t)
            /\ task' = [task EXCEPT !.pc = "call"]
       ELSE /\ remaining' = [remaining EXCEPT ![t] = interval[t]]
            /\ task' = [task EXCEPT !.pc = "call", !.next = Least(@, interval[t])]
            /\ age' = [age EXCEPT ![t] = 0]
            /\ UNCHANGED <<status, numberOf, timerHardwareIsRunning, hw>>
    /\ UNCHANGED <<type, interval, previousTimeInTicks, event, api, cnt, cmp, lag, counted, armed>>

(* The callback does nothing to the timers, stops one, or (re)starts one. *)
callback_return ==
    /\ task.pc = "call" /\ TaskRuns
    /\ task' = ToNext(task.next)
    /\ UNCHANGED <<table, previousTimeInTicks, event, api, tpm, lag, counted, age, armed>>

callback_stop(t) ==
    /\ task.pc = "call" /\ TaskRuns
    /\ status[t] # "free"
    /\ Stop(t)
    /\ armed' = [armed EXCEPT ![t] = FALSE]
    /\ task' = ToNext(task.next)
    /\ UNCHANGED <<type, interval, remaining, previousTimeInTicks, event, api, cnt, cmp, lag, counted>>

callback_start(u) ==
    /\ task.pc = "call" /\ TaskRuns
    /\ status[u.id] # "free" /\ u.id \in CbTimer
    /\ LET left == [numberOf EXCEPT ![type[u.id].lp] = IF Running(u.id) THEN @ - 1 ELSE @]
           off == Running(u.id) /\ left[TRUE] = 0 /\ left[FALSE] = 0 /\ timerHardwareIsRunning
       IN /\ numberOf' = [left EXCEPT ![u.type.lp] = @ + 1]
          /\ timerHardwareIsRunning' = (timerHardwareIsRunning /\ ~off)
          /\ hw' = (hw /\ ~off)
    /\ status' = [status EXCEPT ![u.id] = "ready"]
    /\ type' = [type EXCEPT ![u.id] = u.type]
    /\ interval' = [interval EXCEPT ![u.id] = u.interval]
    /\ remaining' = [remaining EXCEPT ![u.id] = u.interval]
    /\ event' = TRUE
    /\ age' = [age EXCEPT ![u.id] = 0]
    /\ armed' = [armed EXCEPT ![u.id] = TRUE]
    /\ task' = ToNext(task.next)
    /\ UNCHANGED <<previousTimeInTicks, api, cnt, cmp, lag, counted>>

(* Mutant: a time to the next interrupt that is too short is programmed as it is. *)
Programmed_as_is(next) == (next + previousTimeInTicks) % MOD

(* The compare value: at least 4 ms ahead of the counter. *)
Programmed(next) ==
    LET ticksdiff == Diff(cnt, previousTimeInTicks)
        far == IF ticksdiff >= next \/ next - ticksdiff < FOUR_MS THEN ticksdiff + FOUR_MS ELSE next
    IN (far + previousTimeInTicks) % MOD

TMR_Task_end ==
    /\ task.pc = "scan" /\ task.id = N /\ TaskRuns
    /\ (IF numberOf[TRUE] + numberOf[FALSE] > 0
        THEN /\ cmp' = Programmed(task.next)
             /\ hw' = TRUE /\ timerHardwareIsRunning' = TRUE
        ELSE /\ cmp' = cmp
             /\ hw' = (hw /\ ~timerHardwareIsRunning)
             /\ timerHardwareIsRunning' = FALSE)
    /\ task' = Waiting
    /\ lag' = 0
    /\ UNCHANGED <<status, type, interval, remaining, numberOf, previousTimeInTicks, event, api, cnt,
                   counted, age, armed>>

-----------------------------------------------------------------------------
(***************************************************************************)
(* A sleep of d ticks, by the idle task: TMR_NotCountedTicksBeforeSleep    *)
(* when only low power timers run, then, at the wake-up,                   *)
(* TMR_SyncLpmTimers with the ticks not counted plus the ticks slept, and  *)
(* TMR_MakeTMRThreadReady.  The module does not sleep past the first       *)
(* expiry, and all of it happens with interrupts disabled.                 *)
(***************************************************************************)
Synced(t, slept) ==
    IF status[t] = "active" /\ type[t].lp
    THEN (IF remaining[t] > slept THEN remaining[t] - slept ELSE 0)
    ELSE remaining[t]

Sleep(d) ==
    /\ task.pc = "wait" /\ ~event
    /\ api.pc = "idle"
    /\ numberOf[FALSE] = 0 /\ numberOf[TRUE] > 0
    /\ LET notCounted == Diff(cnt, previousTimeInTicks) IN
       /\ \A t \in Timer : Running(t) => d + notCounted <= remaining[t]
       /\ remaining' = [t \in Timer |-> Synced(t, notCounted + d)]
    /\ timerHardwareIsRunning' = FALSE
    /\ hw' = TRUE
    /\ previousTimeInTicks' = cnt
    /\ counted' = 0 /\ lag' = 0
    /\ event' = TRUE
    /\ age' = [t \in Timer |-> IF Running(t) THEN Least(age[t] + d, Latest(t) + 1) ELSE age[t]]
    /\ UNCHANGED <<status, type, interval, numberOf, task, api, cnt, cmp, armed>>

Next ==
    \/ Tick
    \/ TMR_AllocateTimer
    \/ TMR_MarkTimerFree
    \/ TMR_WriteEntry
    \/ TMR_EnableTimer
    \/ \E t \in Timer : TMR_StopTimer(t) \/ TMR_FreeTimer(t) \/ callback_stop(t)
    \/ \E u \in Use : TMR_StartTimer(u) \/ callback_start(u)
    \/ TMR_Task_begin
    \/ TMR_Task_ready
    \/ TMR_Task_active
    \/ TMR_Task_count
    \/ TMR_Task_expire
    \/ callback_return
    \/ TMR_Task_end
    \/ \E d \in 1 .. MAX_SLEEP : Sleep(d)

Spec == Init /\ [][Next]_vars

-----------------------------------------------------------------------------
TaskState == [pc : {"wait", "scan", "count", "call"}, id : 0 .. N, ticks : 0 .. MOD - 1,
              next : 0 .. MOD - 1, shot : BOOLEAN]
ApiState == [pc : {"idle", "free", "write", "enable"}, id : Timer, type : Type,
             interval : Interval \union {0}]

(* Types of the timer table, the counter and the two contexts. *)
TypeOK ==
    /\ status \in [Timer -> {"free", "inactive", "ready", "active"}]
    /\ type \in [Timer -> Type]
    /\ interval \in [Timer -> Interval \union {0}]
    /\ remaining \in [Timer -> Nat] /\ \A t \in Timer : remaining[t] <= interval[t]
    /\ numberOf \in [BOOLEAN -> 0 .. N]
    /\ timerHardwareIsRunning \in BOOLEAN /\ event \in BOOLEAN /\ hw \in BOOLEAN
    /\ cnt \in 0 .. MOD - 1 /\ cmp \in 0 .. MOD - 1 /\ previousTimeInTicks \in 0 .. MOD - 1
    /\ task \in TaskState
    /\ api \in ApiState
    /\ lag \in Nat /\ counted \in 0 .. MOD
    /\ age \in [Timer -> Nat]
    /\ armed \in [Timer -> BOOLEAN]

(* numberOfActiveTimers and numberOfLowPowerActiveTimers, which decide     *)
(* whether the counter runs and whether the MCU may sleep, count exactly   *)
(* the running timers of their kind, whatever starts, stops and expiries   *)
(* interleave.                                                             *)
ActiveCount ==
    /\ TypeOK
    /\ \A lp \in BOOLEAN : numberOf[lp] = Cardinality({t \in Timer : Running(t) /\ type[t].lp = lp})

(* Comment at mMaxToCountDown_c (TimersManager.c:164): currentTimeInTicks  *)
(* never rolls over previousTimeInTicks while a timer is counted down.     *)
NoRollOver == (\E t \in Timer : status[t] = "active") => counted < MOD

(* A timer does not expire before its interval has passed.  A timer that a *)
(* callback starts, or that is reloaded, counts from the counter reading   *)
(* at the beginning of that pass: it is early by at most one pass.         *)
NotEarly ==
    [][\A t \in Timer : TMR_Task_expire /\ task.id = t => age[t] + PASS >= interval[t]]_vars

(* A running timer expires late by at most the latency and the pass that   *)
(* begin its count, the 4 ms margin of the compare value behind the pass   *)
(* that programs it, and the latency and the pass that end it; it is never *)
(* forgotten, also when the counter was off or the MCU slept.              *)
OnTime == \A t \in Timer : Running(t) => age[t] <= Latest(t)

(* TMR_StopTimer (TimersManager.c:889): "Associated timer callback         *)
(* function is not called, even if the timer expires."                     *)
NoCallbackAfterStop == task.pc = "call" => armed[task.id]

(* TMR_NotCountedTicksBeforeSleep (TimersManager.c:1156): "The hw timer is *)
(* stopped but keep timerHardwareIsRunning = TRUE": without running timers *)
(* and with nothing left to do, the counter is off.                        *)
IdleCounterOff ==
    (task.pc = "wait" /\ ~event /\ \A t \in Timer : ~Running(t)) => ~hw
=============================================================================
