---------------------------- MODULE TimersProofs ----------------------------
(***************************************************************************)
(* Proofs about the timers manager, for every number of timers, every      *)
(* period of the counter and every latency within the 4 ms that the code   *)
(* allows for.                                                             *)
(***************************************************************************)
EXTENDS Timers, FiniteSetTheorems, TLAPS

(* The running timers of one kind. *)
Kind(lp) == {t \in Timer : Running(t) /\ type[t].lp = lp}

InPass == task.pc # "wait"

(* The timers that the pass has still to look at. *)
Ahead(t) == InPass /\ (t > task.id \/ (t = task.id /\ task.pc # "call"))

(* A call under way has stopped its timer, and no callback starts it. *)
CallInv ==
    /\ api.pc # "idle" => status[api.id] = "inactive" /\ api.id \notin CbTimer
    /\ api.pc = "write" => api.interval \in Interval
    /\ task.pc \in {"count", "call"} => task.id \in Timer

(* A timer that is ready will be looked at by this pass or by the next. *)
ReadyInv ==
    \A t \in Timer :
       status[t] = "ready" => event \/ (InPass /\ (t > task.id \/ (t = task.id /\ task.pc = "scan")))

(* The counter follows the reading of previousTimeInTicks, and the two     *)
(* deadlines of TMR_Task are kept.                                         *)
ClockInv ==
    /\ counted < MOD => cnt = (previousTimeInTicks + counted) % MOD
    /\ InPass => lag <= PASS /\ counted <= lag
    /\ ~InPass => lag <= LATENCY /\ (~event => lag = 0)

(* With an active timer the counter runs and interrupts before it comes    *)
(* round; TMR_Task then follows within its latency.                        *)
CompareInv ==
    /\ task.next <= mMaxToCountDown
    /\ ~InPass /\ (\E t \in Timer : status[t] = "active") =>
          /\ hw
          /\ event => counted <= mMaxToCountDown + lag
          /\ ~event => counted < Diff(cmp, previousTimeInTicks) /\ Diff(cmp, previousTimeInTicks) <= mMaxToCountDown

IInv ==
    /\ ActiveCount
    /\ CallInv
    /\ ReadyInv
    /\ ClockInv
    /\ CompareInv

(* What the steps keep besides the counts. *)
RestInv == CallInv /\ ReadyInv /\ ClockInv /\ CompareInv

-----------------------------------------------------------------------------
(* The calling task has the lower priority: a pass runs without it. *)

ArmedInv ==
    /\ \A t \in Timer : Running(t) => armed[t]
    /\ task.pc = "count" => status[task.id] = "active"
    /\ task.pc = "call" => armed[task.id]

(* A call about to make its timer ready has written the entry. *)
EntryInv ==
    api.pc = "enable" => remaining[api.id] = interval[api.id] /\ interval[api.id] > 0

(* Ticks of the counter that remaining[t] does not account for yet. *)
Uncounted(t) == IF Ahead(t) THEN task.ticks + counted ELSE counted

(* The compare value is at most so far ahead of the reading that t expires. *)
Reach(t) == remaining[t] + PASS + FOUR_MS - 1

AgeOf(t) ==
    /\ status[t] = "active" =>
          /\ age[t] <= interval[t] - remaining[t] + Uncounted(t) + LATENCY + PASS
          /\ interval[t] - remaining[t] + Uncounted(t) <= age[t] + PASS
          /\ Ahead(t) => task.ticks <= Reach(t) + LATENCY
          /\ InPass /\ ~Ahead(t) => task.next <= remaining[t] /\ remaining[t] > 0
          /\ ~InPass /\ ~event => Diff(cmp, previousTimeInTicks) <= Reach(t)
          /\ ~InPass /\ event => counted <= Reach(t) + lag
    /\ status[t] = "ready" =>
          /\ remaining[t] = interval[t]
          /\ ~InPass => age[t] <= IF hw THEN PASS + lag ELSE lag
          /\ Ahead(t) /\ hw => age[t] <= LATENCY + PASS + counted
          /\ InPass /\ ~Ahead(t) => age[t] <= lag
    /\ Running(t) /\ InPass /\ ~hw => age[t] <= LATENCY + lag
    /\ Running(t) => interval[t] > 0

AgeInv ==
    /\ InPass => task.next > 0
    /\ \A t \in Timer : AgeOf(t)

LowInv ==
    /\ IInv
    /\ ArmedInv
    /\ EntryInv
    /\ AgeInv

-----------------------------------------------------------------------------
(* The clock constants, and the longest time a pass counts down. *)
LEMMA ConstFacts ==
    /\ N \in Nat \ {0} /\ FOUR_MS \in Nat \ {0} /\ MOD \in Nat \ {0}
    /\ LATENCY \in Nat /\ LATENCY <= FOUR_MS
    /\ PASS \in Nat /\ PASS <= FOUR_MS
    /\ mMaxToCountDown \in 0 .. MOD - 1
    /\ mMaxToCountDown + 2 * FOUR_MS + 1 = MOD /\ mMaxToCountDown > 2 * FOUR_MS
  BY TimersAssumption DEF mMaxToCountDown

(* The uses of timers that the callers make of the interface. *)
LEMMA UseFacts ==
    /\ \A u \in Use : u.id \in Timer /\ u.interval \in Interval /\ u.type \in Type
    /\ \A i \in Interval : i \in Nat /\ i > 0
    /\ NoType \in Type
    /\ \A x \in Type : x.lp \in BOOLEAN /\ x.shot \in BOOLEAN
  BY TimersAssumption DEF Interval, Type, NoType

(* The timers are the indices of maTmrTimerTable. *)
LEMMA TimerFacts ==
    /\ Timer \subseteq Nat /\ 0 \in Timer
    /\ \A t \in Timer : t \in 0 .. N /\ t + 1 \in 0 .. N
    /\ IsFiniteSet(Timer) /\ Cardinality(Timer) = N
<1>1. N \in Nat /\ N > 0 /\ N - 1 \in Int /\ 0 \in Int
  BY ConstFacts
<1>2. IsFiniteSet(Timer) /\ Cardinality(Timer) = N
  BY <1>1, FS_Interval DEF Timer
<1> QED
  BY <1>1, <1>2 DEF Timer

(* The counter wraps at most once between two readings. *)
LEMMA WrapFacts ==
    /\ \A a \in Nat : a < MOD => a % MOD = a
    /\ \A a \in Nat : MOD <= a /\ a < 2 * MOD => a % MOD = a - MOD
    /\ \A a, b \in 0 .. MOD - 1 : Diff(a, b) = IF b <= a THEN a - b ELSE a - b + MOD
    /\ \A a, b \in 0 .. MOD - 1 : Diff(a, b) \in 0 .. MOD - 1
<1>1. \A a \in Nat : a < MOD => a % MOD = a
  BY ConstFacts
<1>2. \A a \in Nat : MOD <= a /\ a < 2 * MOD => a % MOD = a - MOD
  BY ConstFacts
<1>3. ASSUME NEW a \in 0 .. MOD - 1, NEW b \in 0 .. MOD - 1
      PROVE  /\ Diff(a, b) = IF b <= a THEN a - b ELSE a - b + MOD
             /\ Diff(a, b) \in 0 .. MOD - 1
  <2>1. a + MOD - b \in Nat /\ a + MOD - b < 2 * MOD
    BY ConstFacts
  <2> QED
    BY <1>1, <1>2, <2>1, ConstFacts DEF Diff
<1> QED
  BY <1>1, <1>2, <1>3

(* The records of the two contexts keep their types. *)
LEMMA TaskFacts ==
    /\ Waiting \in TaskState /\ Waiting.pc = "wait" /\ Waiting.id = 0 /\ Waiting.next = 0
    /\ \A x \in TaskState : /\ x.pc \in {"wait", "scan", "count", "call"} /\ x.id \in 0 .. N
                            /\ x.ticks \in 0 .. MOD - 1 /\ x.next \in 0 .. MOD - 1
                            /\ x.shot \in BOOLEAN
    /\ \A n, k \in 0 .. MOD - 1 :
          [pc |-> "scan", id |-> 0, ticks |-> k, next |-> n, shot |-> FALSE] \in TaskState
  BY ConstFacts DEF TaskState, Waiting

(* The context of TMR_Task when it goes on to the next timer. *)
LEMMA ToNextFacts ==
    ASSUME task \in TaskState, task.id \in Timer, NEW n \in 0 .. MOD - 1
    PROVE  /\ ToNext(n) \in TaskState
           /\ ToNext(n).pc = "scan" /\ ToNext(n).id = task.id + 1
           /\ ToNext(n).ticks = task.ticks /\ ToNext(n).next = n
  BY TimerFacts DEF TaskState, ToNext

(* The contexts of a call of the interface. *)
LEMMA ApiFacts ==
    /\ Idle \in ApiState /\ Idle.pc = "idle"
    /\ \A x \in ApiState : /\ x.pc \in {"idle", "free", "write", "enable"} /\ x.id \in Timer
                           /\ x.type \in Type /\ x.interval \in Interval \union {0}
    /\ \A u \in Use : /\ Call("write", u) \in ApiState /\ Call("write", u).pc = "write"
                      /\ Call("write", u).id = u.id /\ Call("write", u).interval = u.interval
    /\ \A t \in Timer, p \in {"free", "enable"} :
          /\ [Idle EXCEPT !.pc = p, !.id = t] \in ApiState
          /\ [Idle EXCEPT !.pc = p, !.id = t].pc = p
          /\ [Idle EXCEPT !.pc = p, !.id = t].id = t
  BY TimerFacts, UseFacts DEF ApiState, Idle, Call

(* A step that touches one timer changes the two counts by that timer. *)
LEMMA Recount ==
    ASSUME ActiveCount, NEW t \in Timer,
           \A u \in Timer \ {t} : Running(u)' <=> Running(u),
           \A u \in Timer \ {t} : Running(u) => type'[u].lp = type[u].lp,
           \A lp \in BOOLEAN :
              numberOf'[lp] = numberOf[lp] - (IF t \in Kind(lp) THEN 1 ELSE 0)
                                           + (IF t \in Kind(lp)' THEN 1 ELSE 0)
    PROVE  \A lp \in BOOLEAN : /\ numberOf'[lp] = Cardinality(Kind(lp)')
                               /\ numberOf'[lp] \in 0 .. N
<1> SUFFICES ASSUME NEW lp \in BOOLEAN
             PROVE  numberOf'[lp] = Cardinality(Kind(lp)') /\ numberOf'[lp] \in 0 .. N
  OBVIOUS
<1>1. Kind(lp)' \ {t} = Kind(lp) \ {t}
  BY DEF Kind
<1>2. Kind(lp) \in SUBSET Timer /\ Kind(lp)' \in SUBSET Timer
  BY DEF Kind
<1>3. IsFiniteSet(Kind(lp)) /\ IsFiniteSet(Kind(lp)') /\ Cardinality(Kind(lp)') <= N
  BY <1>2, TimerFacts, FS_Subset
<1>4. Cardinality(Kind(lp)) \in Nat /\ Cardinality(Kind(lp)') \in Nat
  BY <1>3, FS_CardinalityType
<1>5. Cardinality(Kind(lp) \ {t}) = IF t \in Kind(lp) THEN Cardinality(Kind(lp)) - 1 ELSE Cardinality(Kind(lp))
  BY <1>3, FS_RemoveElement
<1>6. Cardinality(Kind(lp)' \ {t}) = IF t \in Kind(lp)' THEN Cardinality(Kind(lp)') - 1 ELSE Cardinality(Kind(lp)')
  BY <1>3, FS_RemoveElement
<1>7. numberOf[lp] = Cardinality(Kind(lp))
  BY DEF ActiveCount, Kind
<1>8. Cardinality(Kind(lp)' \ {t}) = Cardinality(Kind(lp) \ {t})
  BY <1>1
<1>9. numberOf'[lp] = Cardinality(Kind(lp)')
  <2>1. CASE t \in Kind(lp) /\ t \in Kind(lp)'
    BY <1>4, <1>5, <1>6, <1>7, <1>8, <2>1
  <2>2. CASE t \in Kind(lp) /\ t \notin Kind(lp)'
    BY <1>4, <1>5, <1>6, <1>7, <1>8, <2>2
  <2>3. CASE t \notin Kind(lp) /\ t \in Kind(lp)'
    BY <1>4, <1>5, <1>6, <1>7, <1>8, <2>3
  <2>4. CASE t \notin Kind(lp) /\ t \notin Kind(lp)'
    BY <1>4, <1>5, <1>6, <1>7, <1>8, <2>4
  <2> QED
    BY <2>1, <2>2, <2>3, <2>4
<1> QED
  BY <1>3, <1>4, <1>9, ConstFacts

(* A kind without timers has none. *)
LEMMA KindEmpty ==
    ASSUME NEW S \in SUBSET Timer, Cardinality(S) = 0
    PROVE  S = {}
  BY TimerFacts, FS_Subset, FS_EmptySet

(* With a running timer one of the two counts is positive. *)
LEMMA SomeRunning ==
    ASSUME ActiveCount, NEW t \in Timer, Running(t)
    PROVE  numberOf[TRUE] + numberOf[FALSE] > 0
<1>1. PICK lp \in BOOLEAN : type[t].lp = lp
  BY UseFacts DEF ActiveCount, TypeOK
<1>2. t \in Kind(lp) /\ Kind(lp) \in SUBSET Timer
  BY <1>1 DEF Kind
<1>3. numberOf[lp] = Cardinality(Kind(lp))
  BY DEF ActiveCount, Kind
<1>4. numberOf[lp] # 0
  BY <1>2, <1>3, KindEmpty
<1>5. \A k \in BOOLEAN : numberOf[k] \in Nat
  BY ConstFacts DEF ActiveCount, TypeOK
<1>6. numberOf[TRUE] # 0 \/ numberOf[FALSE] # 0
  BY <1>4
<1>7. \A m, n \in Nat : m # 0 \/ n # 0 => m + n > 0
  OBVIOUS
<1> QED
  BY <1>5, <1>6, <1>7, Zenon

(* The critical section of TMR_StopTimer. *)
LEMMA StopFacts ==
    ASSUME ActiveCount, NEW t \in Timer, Stop(t), type' = type
    PROVE  /\ status' \in [Timer -> {"free", "inactive", "ready", "active"}]
           /\ status' = [status EXCEPT ![t] = IF Running(t) THEN "inactive" ELSE @]
           /\ numberOf' \in [BOOLEAN -> 0 .. N]
           /\ \A lp \in BOOLEAN : numberOf'[lp] = Cardinality(Kind(lp)')
           /\ timerHardwareIsRunning' \in BOOLEAN /\ hw' \in BOOLEAN
           /\ age' \in [Timer -> Nat]
           /\ (\E u \in Timer : Running(u)') => hw' = hw
<1>1. /\ status' = [status EXCEPT ![t] = IF Running(t) THEN "inactive" ELSE @]
      /\ status' \in [Timer -> {"free", "inactive", "ready", "active"}]
  BY DEF Stop, ActiveCount, TypeOK
<1>2. \A u \in Timer \ {t} : Running(u)' <=> Running(u)
  BY <1>1 DEF Running, ActiveCount, TypeOK
<1>3. ~Running(t)'
  BY <1>1 DEF Running, ActiveCount, TypeOK
<1>4. numberOf' = [numberOf EXCEPT ![type[t].lp] = IF Running(t) THEN @ - 1 ELSE @]
  BY DEF Stop
<1>5. \A lp \in BOOLEAN : numberOf'[lp] = numberOf[lp] - (IF t \in Kind(lp) THEN 1 ELSE 0)
                                                       + (IF t \in Kind(lp)' THEN 1 ELSE 0)
  <2>1. \A lp \in BOOLEAN : /\ t \notin Kind(lp)'
                            /\ t \in Kind(lp) <=> Running(t) /\ type[t].lp = lp
    BY <1>3 DEF Kind
  <2>2. \A lp \in BOOLEAN : numberOf[lp] \in Nat
    BY ConstFacts DEF ActiveCount, TypeOK
  <2>3. \A lp \in BOOLEAN :
           numberOf'[lp] = IF Running(t) /\ type[t].lp = lp THEN numberOf[lp] - 1 ELSE numberOf[lp]
    BY <1>4 DEF ActiveCount, TypeOK
  <2> QED
    BY <2>1, <2>2, <2>3
<1>6. \A lp \in BOOLEAN : numberOf'[lp] = Cardinality(Kind(lp)') /\ numberOf'[lp] \in 0 .. N
  BY <1>2, <1>5, Recount
<1>7. numberOf' \in [BOOLEAN -> 0 .. N]
  BY <1>4, <1>6 DEF ActiveCount, TypeOK
<1>8. timerHardwareIsRunning' \in BOOLEAN /\ hw' \in BOOLEAN /\ age' \in [Timer -> Nat]
  BY DEF Stop, ActiveCount, TypeOK
<1>9. ASSUME NEW u \in Timer, Running(u)'
      PROVE  hw' = hw
  <2>1. PICK lp \in BOOLEAN : type[u].lp = lp
    BY UseFacts DEF ActiveCount, TypeOK
  <2>2. u \in Kind(lp)' /\ Kind(lp)' \in SUBSET Timer
    BY <1>9, <2>1 DEF Kind
  <2>3. numberOf'[lp] # 0
    BY <1>6, <2>2, KindEmpty
  <2>4. ~(numberOf'[TRUE] = 0 /\ numberOf'[FALSE] = 0)
    BY <2>3
  <2> QED
    BY <2>4 DEF Stop, ActiveCount, TypeOK
<1> QED
  BY <1>1, <1>6, <1>7, <1>8, <1>9

(* Steps that keep the running timers and their kinds keep the counts. *)
LEMMA SameCount ==
    ASSUME ActiveCount, TypeOK', numberOf' = numberOf,
           \A u \in Timer : Running(u)' <=> Running(u),
           \A u \in Timer : Running(u) => type'[u].lp = type[u].lp
    PROVE  ActiveCount'
<1>1. \A lp \in BOOLEAN : Kind(lp)' = Kind(lp)
  BY DEF Kind
<1>2. \A lp \in BOOLEAN : numberOf'[lp] = Cardinality(Kind(lp)')
  BY <1>1 DEF ActiveCount, Kind
<1> QED
  BY <1>2 DEF ActiveCount, Kind

(* The counts of running timers stay exact: a tick of the TPM. *)
LEMMA CountTick ==
    ASSUME IInv, Tick
    PROVE  ActiveCount'
<1>1. cnt' \in 0 .. MOD - 1
  BY ConstFacts DEF Tick, IInv, ActiveCount, TypeOK
<1>2. counted' \in 0 .. MOD /\ lag' \in Nat
  BY ConstFacts DEF Tick, IInv, ActiveCount, TypeOK, Least
<1>3. age' \in [Timer -> Nat]
  <2>1. \A t \in Timer : interval[t] \in Nat
    BY UseFacts DEF IInv, ActiveCount, TypeOK
  <2>2. \A t \in Timer : Latest(t) + 1 \in Nat
    BY <2>1, ConstFacts DEF Latest
  <2> QED
    BY <2>2 DEF Tick, IInv, ActiveCount, TypeOK, Least
<1>4. event' \in BOOLEAN
  BY DEF Tick, IInv, ActiveCount, TypeOK
<1>5. TypeOK'
  BY <1>1, <1>2, <1>3, <1>4 DEF Tick, table, IInv, ActiveCount, TypeOK
<1> QED
  BY <1>5, SameCount DEF Tick, table, IInv, Running

(* TMR_AllocateTimer. *)
LEMMA CountAllocate ==
    ASSUME IInv, TMR_AllocateTimer
    PROVE  ActiveCount'
<1>1. TypeOK'
  BY DEF TMR_AllocateTimer, tpm, IInv, ActiveCount, TypeOK
<1>2. \A u \in Timer : Running(u)' <=> Running(u)
  BY DEF TMR_AllocateTimer, Running, IInv, ActiveCount, TypeOK
<1> QED
  BY <1>1, <1>2, SameCount DEF TMR_AllocateTimer, IInv

(* The second half of TMR_FreeTimer. *)
LEMMA CountMarkFree ==
    ASSUME IInv, TMR_MarkTimerFree
    PROVE  ActiveCount'
<1>1. api.id \in Timer /\ status[api.id] = "inactive"
  BY ApiFacts DEF TMR_MarkTimerFree, IInv, CallInv, ActiveCount, TypeOK
<1>2. TypeOK'
  BY <1>1, ApiFacts, UseFacts DEF TMR_MarkTimerFree, tpm, IInv, ActiveCount, TypeOK
<1>3. \A u \in Timer : Running(u)' <=> Running(u)
  BY <1>1 DEF TMR_MarkTimerFree, Running, IInv, ActiveCount, TypeOK
<1>4. \A u \in Timer : Running(u) => type'[u].lp = type[u].lp
  BY <1>1 DEF TMR_MarkTimerFree, Running, IInv, ActiveCount, TypeOK
<1> QED
  BY <1>2, <1>3, <1>4, SameCount DEF TMR_MarkTimerFree, IInv

(* The entry written by TMR_StartTimer. *)
LEMMA CountWriteEntry ==
    ASSUME IInv, TMR_WriteEntry
    PROVE  ActiveCount'
<1>1. api.id \in Timer /\ status[api.id] = "inactive" /\ api.type \in Type /\ api.interval \in Interval
  BY ApiFacts DEF TMR_WriteEntry, IInv, CallInv, ActiveCount, TypeOK
<1>2. TypeOK'
  <2>1. api' \in ApiState
    BY <1>1, ApiFacts DEF TMR_WriteEntry
  <2>2. remaining' \in [Timer -> Nat] /\ \A t \in Timer : remaining'[t] <= interval'[t]
    BY <1>1, UseFacts DEF TMR_WriteEntry, IInv, ActiveCount, TypeOK
  <2> QED
    BY <1>1, <2>1, <2>2 DEF TMR_WriteEntry, tpm, IInv, ActiveCount, TypeOK
<1>3. \A u \in Timer : Running(u)' <=> Running(u)
  BY DEF TMR_WriteEntry, Running
<1>4. \A u \in Timer : Running(u) => type'[u].lp = type[u].lp
  BY <1>1 DEF TMR_WriteEntry, Running, IInv, ActiveCount, TypeOK
<1> QED
  BY <1>2, <1>3, <1>4, SameCount DEF TMR_WriteEntry, IInv

(* The timer that TMR_EnableTimer makes ready and counts. *)
LEMMA CountEnable ==
    ASSUME IInv, TMR_EnableTimer
    PROVE  /\ ActiveCount'
           /\ api.id \in Timer
           /\ status[api.id] = "inactive"
           /\ status' = [status EXCEPT ![api.id] = "ready"]
           /\ age' = [age EXCEPT ![api.id] = 0]
           /\ event'
<1>1. PICK t \in Timer : t = api.id /\ status[t] = "inactive"
  BY ApiFacts DEF TMR_EnableTimer, IInv, CallInv, ActiveCount, TypeOK
<1>2. /\ status' = [status EXCEPT ![t] = "ready"]
      /\ numberOf' = [numberOf EXCEPT ![type[t].lp] = @ + 1]
      /\ event' = TRUE
      /\ age' = [age EXCEPT ![t] = 0]
      /\ armed' = [armed EXCEPT ![t] = TRUE]
      /\ api' = Idle
      /\ UNCHANGED <<type, interval, remaining, timerHardwareIsRunning, previousTimeInTicks, task, hw,
                     cnt, cmp, lag, counted>>
  BY <1>1 DEF TMR_EnableTimer, tpm
<1>3. \A u \in Timer \ {t} : Running(u)' <=> Running(u)
  BY <1>1, <1>2 DEF Running, IInv, ActiveCount, TypeOK
<1>4. ~Running(t) /\ Running(t)'
  BY <1>1, <1>2 DEF Running, IInv, ActiveCount, TypeOK
<1>5. \A lp \in BOOLEAN : numberOf'[lp] = numberOf[lp] - (IF t \in Kind(lp) THEN 1 ELSE 0)
                                                       + (IF t \in Kind(lp)' THEN 1 ELSE 0)
  <2>1. \A lp \in BOOLEAN : /\ t \notin Kind(lp)
                            /\ t \in Kind(lp)' <=> type[t].lp = lp
    BY <1>1, <1>2, <1>4 DEF Kind
  <2>2. \A lp \in BOOLEAN : numberOf[lp] \in Nat
    BY ConstFacts DEF IInv, ActiveCount, TypeOK
  <2>3. \A lp \in BOOLEAN :
           numberOf'[lp] = IF type[t].lp = lp THEN numberOf[lp] + 1 ELSE numberOf[lp]
    BY <1>2 DEF IInv, ActiveCount, TypeOK
  <2> QED
    BY <2>1, <2>2, <2>3
<1>6. \A lp \in BOOLEAN : numberOf'[lp] = Cardinality(Kind(lp)') /\ numberOf'[lp] \in 0 .. N
  BY <1>1, <1>2, <1>3, <1>5, Recount DEF IInv
<1>7. numberOf' \in [BOOLEAN -> 0 .. N]
  BY <1>2, <1>6 DEF IInv, ActiveCount, TypeOK
<1>8. TypeOK'
  BY <1>1, <1>2, <1>7, ApiFacts DEF IInv, ActiveCount, TypeOK
<1> QED
  BY <1>1, <1>2, <1>6, <1>8 DEF ActiveCount, Kind

(* The calls that begin by stopping a timer, and the callback that stops one. *)
LEMMA CountStop ==
    ASSUME IInv, NEW t \in Timer, Stop(t), type' = type,
           UNCHANGED <<interval, remaining, previousTimeInTicks, event, cnt, cmp, lag, counted>>,
           task' \in TaskState, api' \in ApiState,
           armed' = [armed EXCEPT ![t] = FALSE]
    PROVE  ActiveCount'
<1>1. /\ status' \in [Timer -> {"free", "inactive", "ready", "active"}]
      /\ numberOf' \in [BOOLEAN -> 0 .. N]
      /\ \A lp \in BOOLEAN : numberOf'[lp] = Cardinality(Kind(lp)')
      /\ timerHardwareIsRunning' \in BOOLEAN /\ hw' \in BOOLEAN
      /\ age' \in [Timer -> Nat]
  BY StopFacts DEF IInv
<1>2. TypeOK'
  BY <1>1 DEF IInv, ActiveCount, TypeOK
<1> QED
  BY <1>1, <1>2 DEF ActiveCount, Kind

(* The calls that stop a timer. *)
LEMMA CountApi ==
    ASSUME IInv,
           \/ \E t \in Timer : TMR_StopTimer(t) \/ TMR_FreeTimer(t)
           \/ \E u \in Use : TMR_StartTimer(u)
    PROVE  ActiveCount'
<1>1. task \in TaskState /\ api \in ApiState
  BY DEF IInv, ActiveCount, TypeOK
<1>2. ASSUME NEW t \in Timer, TMR_StopTimer(t)
      PROVE  ActiveCount'
  BY <1>1, <1>2, CountStop DEF TMR_StopTimer
<1>3. ASSUME NEW t \in Timer, TMR_FreeTimer(t)
      PROVE  ActiveCount'
  BY <1>1, <1>3, CountStop, ApiFacts DEF TMR_FreeTimer
<1>4. ASSUME NEW u \in Use, TMR_StartTimer(u)
      PROVE  ActiveCount'
  <2>1. u.id \in Timer /\ api' \in ApiState
    BY <1>4, UseFacts, ApiFacts DEF TMR_StartTimer
  <2> QED
    BY <1>1, <1>4, <2>1, CountStop DEF TMR_StartTimer
<1> QED
  BY <1>2, <1>3, <1>4

(* A callback that stops a timer. *)
LEMMA CountCallbackStop ==
    ASSUME IInv, NEW t \in Timer, callback_stop(t)
    PROVE  ActiveCount'
<1>1. api \in ApiState /\ task \in TaskState /\ task.id \in Timer /\ task.next \in 0 .. MOD - 1
  BY TaskFacts DEF callback_stop, IInv, CallInv, ActiveCount, TypeOK
<1>2. task' \in TaskState
  BY <1>1, ToNextFacts DEF callback_stop
<1> QED
  BY <1>1, <1>2, CountStop DEF callback_stop

(* A callback that starts a timer, running or not, counts it once. *)
LEMMA CountCallbackStart ==
    ASSUME IInv, NEW u \in Use, callback_start(u)
    PROVE  /\ ActiveCount'
           /\ (\E t \in Timer \ {u.id} : Running(t)) => hw' = hw
<1>1. PICK t \in Timer : t = u.id
  BY UseFacts
<1>2. PICK k \in BOOLEAN : k = type[t].lp
  BY UseFacts DEF IInv, ActiveCount, TypeOK
<1>3. PICK j \in BOOLEAN : j = u.type.lp
  BY UseFacts
<1> DEFINE left == [numberOf EXCEPT ![k] = IF Running(t) THEN @ - 1 ELSE @]
<1>4. /\ numberOf' = [left EXCEPT ![j] = @ + 1]
      /\ status' = [status EXCEPT ![t] = "ready"]
      /\ type' = [type EXCEPT ![t] = u.type]
  BY <1>1, <1>2, <1>3 DEF callback_start
<1>5. /\ \A v \in Timer \ {t} : Running(v)' <=> Running(v)
      /\ \A v \in Timer \ {t} : type'[v] = type[v]
      /\ Running(t)' /\ type'[t].lp = j
  BY <1>3, <1>4 DEF Running, IInv, ActiveCount, TypeOK
<1>6. \A lp \in BOOLEAN : numberOf[lp] \in Nat
  BY ConstFacts DEF IInv, ActiveCount, TypeOK
<1>7. \A lp \in BOOLEAN : left[lp] = numberOf[lp] - (IF t \in Kind(lp) THEN 1 ELSE 0)
  <2>1. \A lp \in BOOLEAN : t \in Kind(lp) <=> Running(t) /\ k = lp
    BY <1>2 DEF Kind
  <2>2. \A lp \in BOOLEAN : left[lp] = IF Running(t) /\ k = lp THEN numberOf[lp] - 1 ELSE numberOf[lp]
    BY DEF IInv, ActiveCount, TypeOK
  <2> HIDE DEF left
  <2> QED
    BY <1>6, <2>1, <2>2
<1>8. \A lp \in BOOLEAN : numberOf'[lp] = numberOf[lp] - (IF t \in Kind(lp) THEN 1 ELSE 0)
                                                       + (IF t \in Kind(lp)' THEN 1 ELSE 0)
  <2>1. \A lp \in BOOLEAN : t \in Kind(lp)' <=> j = lp
    BY <1>5 DEF Kind
  <2>2. \A lp \in BOOLEAN : left[lp] \in Int
    BY <1>6, <1>7
  <2>3. \A lp \in BOOLEAN : numberOf'[lp] = IF j = lp THEN left[lp] + 1 ELSE left[lp]
    BY <1>4 DEF IInv, ActiveCount, TypeOK
  <2> HIDE DEF left
  <2> QED
    BY <1>6, <1>7, <2>1, <2>2, <2>3
<1>9. \A lp \in BOOLEAN : numberOf'[lp] = Cardinality(Kind(lp)') /\ numberOf'[lp] \in 0 .. N
  BY <1>5, <1>8, Recount DEF IInv
<1>10. numberOf' \in [BOOLEAN -> 0 .. N]
  BY <1>4, <1>9 DEF IInv, ActiveCount, TypeOK
<1>11. timerHardwareIsRunning' \in BOOLEAN /\ hw' \in BOOLEAN
  BY DEF callback_start, IInv, ActiveCount, TypeOK
<1>12. task' \in TaskState
  <2>1. task \in TaskState /\ task.id \in Timer /\ task.next \in 0 .. MOD - 1
    BY TaskFacts DEF callback_start, IInv, CallInv, ActiveCount, TypeOK
  <2> QED
    BY <2>1, ToNextFacts DEF callback_start
<1>13. TypeOK'
  <2>1. u.type \in Type /\ u.interval \in Interval /\ u.interval \in Nat
    BY UseFacts
  <2>2. /\ interval' = [interval EXCEPT ![t] = u.interval]
        /\ remaining' = [remaining EXCEPT ![t] = u.interval]
        /\ age' = [age EXCEPT ![t] = 0] /\ armed' = [armed EXCEPT ![t] = TRUE]
        /\ event' \in BOOLEAN
        /\ UNCHANGED <<previousTimeInTicks, api, cnt, cmp, lag, counted>>
    BY <1>1 DEF callback_start
  <2> QED
    BY <1>4, <1>10, <1>11, <1>12, <2>1, <2>2 DEF IInv, ActiveCount, TypeOK
<1>14. ASSUME NEW v \in Timer \ {t}, Running(v)
       PROVE  hw' = hw
  <2>1. PICK lp \in BOOLEAN : type[v].lp = lp
    BY UseFacts DEF IInv, ActiveCount, TypeOK
  <2>2. v \in Kind(lp) \ {t} /\ Kind(lp) \in SUBSET Timer
    BY <1>14, <2>1 DEF Kind
  <2>3. /\ IsFiniteSet(Kind(lp)) /\ IsFiniteSet(Kind(lp) \ {t})
        /\ Cardinality(Kind(lp) \ {t}) = IF t \in Kind(lp) THEN Cardinality(Kind(lp)) - 1
                                         ELSE Cardinality(Kind(lp))
    BY <2>2, TimerFacts, FS_Subset, FS_RemoveElement
  <2>4. Cardinality(Kind(lp) \ {t}) # 0
    BY <2>2, <2>3, FS_EmptySet
  <2>5. numberOf[lp] = Cardinality(Kind(lp))
    BY DEF IInv, ActiveCount, Kind
  <2>6. left[lp] # 0
    <3> HIDE DEF left
    <3> QED
      BY <1>6, <1>7, <2>3, <2>4, <2>5
  <2>7. ~(left[TRUE] = 0 /\ left[FALSE] = 0)
    BY <2>6
  <2> QED
    BY <1>1, <1>2, <2>7 DEF callback_start, IInv, ActiveCount, TypeOK
<1> QED
  BY <1>1, <1>9, <1>13, <1>14 DEF ActiveCount, Kind

(* The smaller of two times. *)
LEMMA LeastFacts ==
    /\ \A a, b \in Nat : Least(a, b) \in Nat /\ Least(a, b) <= a /\ Least(a, b) <= b
    /\ \A a \in 0 .. MOD - 1, b \in Nat : Least(a, b) \in 0 .. MOD - 1
  BY ConstFacts DEF Least

(* A pass of TMR_Task: its beginning and the steps that stop no timer. *)
LEMMA CountPass ==
    ASSUME IInv,
           \/ TMR_Task_begin \/ TMR_Task_ready \/ TMR_Task_active \/ TMR_Task_count
           \/ callback_return
    PROVE  ActiveCount'
<1>1. task \in TaskState /\ task.next \in 0 .. MOD - 1
  BY TaskFacts DEF IInv, ActiveCount, TypeOK
<1>2. CASE TMR_Task_begin
  <2>1. Diff(cnt, previousTimeInTicks) \in 0 .. MOD - 1
    BY WrapFacts DEF IInv, ActiveCount, TypeOK
  <2>2. task' \in TaskState
    BY <1>2, <2>1, TaskFacts, ConstFacts DEF TMR_Task_begin
  <2>3. TypeOK'
    <3>1. previousTimeInTicks' \in 0 .. MOD - 1
      BY <1>2 DEF TMR_Task_begin, IInv, ActiveCount, TypeOK
    <3>2. lag' \in Nat /\ counted' \in 0 .. MOD
      BY <1>2, ConstFacts DEF TMR_Task_begin
    <3>3. event' \in BOOLEAN
      BY <1>2 DEF TMR_Task_begin
    <3> QED
      BY <1>2, <2>2, <3>1, <3>2, <3>3 DEF TMR_Task_begin, table, tpm, IInv, ActiveCount, TypeOK
  <2> QED
    BY <1>2, <2>3, SameCount DEF TMR_Task_begin, table, IInv, Running
<1>3. CASE TMR_Task_ready
  <2>1. PICK t \in Timer : t = task.id /\ status[t] = "ready"
    BY <1>3 DEF TMR_Task_ready
  <2>2. task' \in TaskState
    BY <1>1, <1>3, <2>1, LeastFacts, ToNextFacts DEF TMR_Task_ready, IInv, ActiveCount, TypeOK
  <2>3. TypeOK'
    BY <1>3, <2>1, <2>2 DEF TMR_Task_ready, tpm, IInv, ActiveCount, TypeOK
  <2>4. \A u \in Timer : Running(u)' <=> Running(u)
    BY <1>3, <2>1 DEF TMR_Task_ready, Running, IInv, ActiveCount, TypeOK
  <2> QED
    BY <1>3, <2>3, <2>4, SameCount DEF TMR_Task_ready, IInv
<1>4. CASE TMR_Task_active
  <2>1. PICK t \in Timer : t = task.id
    BY <1>4 DEF TMR_Task_active
  <2>2. task' \in TaskState
    <3>1. ToNext(task.next) \in TaskState
      BY <1>1, <2>1, ToNextFacts
    <3>2. type[t].shot \in BOOLEAN
      BY UseFacts DEF IInv, ActiveCount, TypeOK
    <3>3. [task EXCEPT !.pc = "count", !.shot = type[t].shot] \in TaskState
      BY <1>1, <3>2 DEF TaskState
    <3> QED
      BY <1>4, <2>1, <3>1, <3>3 DEF TMR_Task_active
  <2>3. TypeOK'
    BY <1>4, <2>2 DEF TMR_Task_active, table, tpm, IInv, ActiveCount, TypeOK
  <2> QED
    BY <1>4, <2>3, SameCount DEF TMR_Task_active, table, IInv, Running
<1>5. CASE TMR_Task_count
  <2>1. PICK t \in Timer : t = task.id
    BY <1>5 DEF TMR_Task_count, IInv, CallInv
  <2>2. task.ticks \in Nat /\ remaining[t] \in Nat /\ remaining[t] > task.ticks
    BY <1>1, <1>5, <2>1, TaskFacts, ConstFacts DEF TMR_Task_count, IInv, ActiveCount, TypeOK
  <2>3. /\ remaining' \in [Timer -> Nat] /\ remaining'[t] = remaining[t] - task.ticks
        /\ \A u \in Timer : remaining'[u] <= remaining[u]
    BY <1>5, <2>1, <2>2 DEF TMR_Task_count, IInv, ActiveCount, TypeOK
  <2>4. task' \in TaskState
    BY <1>1, <1>5, <2>1, <2>3, LeastFacts, ToNextFacts DEF TMR_Task_count
  <2>5. \A u \in Timer : remaining'[u] <= interval[u]
    <3>1. \A u \in Timer : interval[u] \in Nat
      BY UseFacts DEF IInv, ActiveCount, TypeOK
    <3> QED
      BY <2>3, <3>1 DEF IInv, ActiveCount, TypeOK
  <2>6. TypeOK'
    BY <1>5, <2>3, <2>4, <2>5 DEF TMR_Task_count, tpm, IInv, ActiveCount, TypeOK
  <2> QED
    BY <1>5, <2>6, SameCount DEF TMR_Task_count, IInv, Running
<1>6. CASE callback_return
  <2>1. task.id \in Timer
    BY <1>6 DEF callback_return, IInv, CallInv
  <2>2. task' \in TaskState
    BY <1>1, <1>6, <2>1, ToNextFacts DEF callback_return
  <2>3. TypeOK'
    BY <1>6, <2>2 DEF callback_return, table, tpm, IInv, ActiveCount, TypeOK
  <2> QED
    BY <1>6, <2>3, SameCount DEF callback_return, table, IInv, Running
<1> QED
  BY <1>2, <1>3, <1>4, <1>5, <1>6

(* An expiry stops a single shot timer and reloads any other. *)
LEMMA CountExpire ==
    ASSUME IInv, TMR_Task_expire
    PROVE  /\ ActiveCount'
           /\ task' \in TaskState /\ task'.pc = "call" /\ task'.id = task.id
           /\ task'.ticks = task.ticks
<1>1. PICK t \in Timer : t = task.id
  BY DEF TMR_Task_expire, IInv, CallInv
<1>2. task \in TaskState /\ task.next \in 0 .. MOD - 1
  BY TaskFacts DEF IInv, ActiveCount, TypeOK
<1>3. interval[t] \in Nat
  BY UseFacts DEF IInv, ActiveCount, TypeOK
<1>4. task' \in TaskState /\ task'.pc = "call" /\ task'.id = task.id /\ task'.ticks = task.ticks
  <2>1. CASE task.shot
    BY <1>2, <2>1 DEF TMR_Task_expire, TaskState
  <2>2. CASE ~task.shot
    <3>1. Least(task.next, interval[t]) \in 0 .. MOD - 1
      BY <1>2, <1>3, LeastFacts
    <3> QED
      BY <1>1, <1>2, <2>2, <3>1 DEF TMR_Task_expire, TaskState
  <2> QED
    BY <2>1, <2>2
<1>5. remaining' \in [Timer -> Nat] /\ \A u \in Timer : remaining'[u] <= interval[u]
  <2>1. \/ remaining' = [remaining EXCEPT ![t] = 0]
        \/ remaining' = [remaining EXCEPT ![t] = interval[t]]
    BY <1>1 DEF TMR_Task_expire
  <2> QED
    BY <1>3, <2>1 DEF IInv, ActiveCount, TypeOK
<1>6. CASE task.shot
  <2>1. Stop(t) /\ type' = type
    BY <1>1, <1>6 DEF TMR_Task_expire
  <2>2. /\ status' \in [Timer -> {"free", "inactive", "ready", "active"}]
        /\ numberOf' \in [BOOLEAN -> 0 .. N]
        /\ \A lp \in BOOLEAN : numberOf'[lp] = Cardinality(Kind(lp)')
        /\ timerHardwareIsRunning' \in BOOLEAN /\ hw' \in BOOLEAN
        /\ age' \in [Timer -> Nat]
    BY <2>1, StopFacts DEF IInv
  <2>3. TypeOK'
    BY <1>4, <1>5, <2>2 DEF TMR_Task_expire, IInv, ActiveCount, TypeOK
  <2> QED
    BY <1>4, <2>2, <2>3 DEF ActiveCount, Kind
<1>7. CASE ~task.shot
  <2>1. TypeOK'
    BY <1>1, <1>4, <1>5, <1>7 DEF TMR_Task_expire, IInv, ActiveCount, TypeOK
  <2> QED
    BY <1>4, <1>7, <2>1, SameCount DEF TMR_Task_expire, IInv, Running
<1> QED
  BY <1>6, <1>7

(* The end of a pass, which may stop the TPM. *)
LEMMA CountEnd ==
    ASSUME IInv, TMR_Task_end
    PROVE  ActiveCount'
<1>1. cmp' \in 0 .. MOD - 1
  <2>1. task.next \in 0 .. MOD - 1
    BY TaskFacts DEF IInv, ActiveCount, TypeOK
  <2>2. Diff(cnt, previousTimeInTicks) \in 0 .. MOD - 1
    BY WrapFacts DEF IInv, ActiveCount, TypeOK
  <2>3. Programmed(task.next) \in 0 .. MOD - 1
    BY <2>1, <2>2, ConstFacts DEF Programmed, IInv, ActiveCount, TypeOK
  <2> QED
    BY <2>3 DEF TMR_Task_end, IInv, ActiveCount, TypeOK
<1>2. hw' \in BOOLEAN /\ timerHardwareIsRunning' \in BOOLEAN
  BY DEF TMR_Task_end, IInv, ActiveCount, TypeOK
<1>3. TypeOK'
  BY <1>1, <1>2, TaskFacts DEF TMR_Task_end, IInv, ActiveCount, TypeOK
<1> QED
  BY <1>3, SameCount DEF TMR_Task_end, IInv, Running

(* The return from low power. *)
LEMMA CountSleep ==
    ASSUME IInv, NEW d \in 1 .. MAX_SLEEP, Sleep(d)
    PROVE  ActiveCount'
<1>1. d \in Nat /\ Diff(cnt, previousTimeInTicks) \in Nat
  <2>1. d \in Nat
    BY TimersAssumption
  <2>2. Diff(cnt, previousTimeInTicks) \in 0 .. MOD - 1
    BY WrapFacts DEF IInv, ActiveCount, TypeOK
  <2> QED
    BY <2>1, <2>2, ConstFacts
<1>2. remaining' \in [Timer -> Nat] /\ \A t \in Timer : remaining'[t] <= remaining[t]
  <2>1. PICK s \in Nat : s = Diff(cnt, previousTimeInTicks) + d
    BY <1>1
  <2>2. remaining' = [t \in Timer |-> Synced(t, s)]
    BY <2>1 DEF Sleep
  <2>3. \A t \in Timer : remaining[t] \in Nat /\ Synced(t, s) \in Nat /\ Synced(t, s) <= remaining[t]
    BY <2>1 DEF Synced, IInv, ActiveCount, TypeOK
  <2> QED
    BY <2>2, <2>3
<1>3. \A t \in Timer : interval[t] \in Nat /\ remaining'[t] <= interval[t]
  <2>1. \A t \in Timer : interval[t] \in Nat
    BY UseFacts DEF IInv, ActiveCount, TypeOK
  <2> QED
    BY <1>2, <2>1 DEF IInv, ActiveCount, TypeOK
<1>4. age' \in [Timer -> Nat]
  <2>1. \A t \in Timer : Latest(t) + 1 \in Nat
    BY <1>3, ConstFacts DEF Latest
  <2> QED
    BY <1>1, <2>1, LeastFacts DEF Sleep, IInv, ActiveCount, TypeOK
<1>5. TypeOK'
  <2>1. timerHardwareIsRunning' \in BOOLEAN /\ event' \in BOOLEAN /\ hw' \in BOOLEAN
    BY DEF Sleep
  <2>2. previousTimeInTicks' \in 0 .. MOD - 1
    BY DEF Sleep, IInv, ActiveCount, TypeOK
  <2>3. lag' \in Nat /\ counted' \in 0 .. MOD
    BY ConstFacts DEF Sleep
  <2> QED
    BY <1>2, <1>3, <1>4, <2>1, <2>2, <2>3 DEF Sleep, IInv, ActiveCount, TypeOK
<1> QED
  BY <1>5, SameCount DEF Sleep, IInv, Running

-----------------------------------------------------------------------------
(* The types of the state, as the arithmetic needs them. *)
LEMMA Typed ==
    ASSUME IInv
    PROVE  /\ status \in [Timer -> {"free", "inactive", "ready", "active"}]
           /\ task \in TaskState /\ task.pc \in {"wait", "scan", "count", "call"}
           /\ task.id \in Nat /\ task.id <= N /\ task.next \in 0 .. MOD - 1 /\ task.ticks \in Nat
           /\ api \in ApiState /\ api.id \in Timer
           /\ cnt \in 0 .. MOD - 1 /\ cmp \in 0 .. MOD - 1 /\ previousTimeInTicks \in 0 .. MOD - 1
           /\ lag \in Nat /\ counted \in Nat /\ counted <= MOD
           /\ event \in BOOLEAN /\ hw \in BOOLEAN
<1>1. TypeOK
  BY DEF IInv, ActiveCount
<1>2. /\ task \in TaskState /\ task.pc \in {"wait", "scan", "count", "call"} /\ task.id \in 0 .. N
      /\ task.next \in 0 .. MOD - 1 /\ task.ticks \in 0 .. MOD - 1
  BY <1>1, TaskFacts DEF TypeOK
<1>3. task.id \in Nat /\ task.id <= N /\ task.ticks \in Nat
  BY <1>2, ConstFacts
<1>4. api \in ApiState /\ api.id \in Timer
  BY <1>1, ApiFacts DEF TypeOK
<1>5. counted \in Nat /\ counted <= MOD
  BY <1>1, ConstFacts DEF TypeOK
<1> QED
  BY <1>1, <1>2, <1>3, <1>4, <1>5 DEF TypeOK

(* A sum of two readings wraps at most once. *)
LEMMA OneWrap ==
    ASSUME NEW a \in Nat, a < 2 * MOD
    PROVE  a % MOD = IF a < MOD THEN a ELSE a - MOD
<1>1. CASE a < MOD
  BY <1>1, ConstFacts
<1>2. CASE ~(a < MOD)
  BY <1>2, ConstFacts
<1> QED
  BY <1>1, <1>2

(* The difference of two readings is the number of ticks between them. *)
LEMMA DiffCount ==
    ASSUME NEW p \in 0 .. MOD - 1, NEW k \in 0 .. MOD - 1
    PROVE  (p + k) % MOD \in 0 .. MOD - 1 /\ Diff((p + k) % MOD, p) = k
<1>1. PICK s \in Nat : s = p + k /\ s < 2 * MOD
  BY ConstFacts
<1>2. PICK c : c = s % MOD
  OBVIOUS
<1>3. c = IF s < MOD THEN s ELSE s - MOD
  BY <1>1, <1>2, OneWrap
<1>4. c \in 0 .. MOD - 1
  BY <1>1, <1>3, ConstFacts
<1>5. Diff(c, p) = IF p <= c THEN c - p ELSE c - p + MOD
  BY <1>4, WrapFacts
<1>6. Diff(c, p) = k
  BY <1>1, <1>3, <1>4, <1>5, ConstFacts
<1> QED
  BY <1>1, <1>2, <1>4, <1>6

(* One tick more is one more from the previous reading. *)
LEMMA NextCount ==
    ASSUME NEW p \in 0 .. MOD - 1, NEW k \in Nat, k + 1 < MOD
    PROVE  /\ (((p + k) % MOD) + 1) % MOD = (p + (k + 1)) % MOD
           /\ \A x \in 0 .. MOD - 1 : Diff(x, p) = k + 1 => (p + (k + 1)) % MOD = x
<1>1. PICK s \in Nat, n \in Nat : s = p + k /\ n = p + (k + 1) /\ s < 2 * MOD /\ n < 2 * MOD
  BY ConstFacts
<1>2. PICK c : c = s % MOD
  OBVIOUS
<1>3. PICK e : e = n % MOD
  OBVIOUS
<1>4. c = IF s < MOD THEN s ELSE s - MOD
  BY <1>1, <1>2, OneWrap
<1>5. e = IF n < MOD THEN n ELSE n - MOD
  <2>1. n < 2 * MOD
    BY <1>1
  <2> QED
    BY <1>3, <2>1, OneWrap
<1>6. PICK m \in Nat : m = c + 1 /\ m < 2 * MOD
  <2>1. c + 1 \in Nat /\ c + 1 < 2 * MOD
    BY <1>1, <1>4, ConstFacts
  <2> QED
    BY <2>1
<1>7. PICK f : f = m % MOD
  OBVIOUS
<1>8. f = IF m < MOD THEN m ELSE m - MOD
  BY <1>6, <1>7, OneWrap
<1>9. f = e
  BY <1>1, <1>4, <1>5, <1>6, <1>8, ConstFacts
<1>10. ASSUME NEW x \in 0 .. MOD - 1, Diff(x, p) = k + 1
       PROVE  e = x
  <2>1. IF p <= x THEN x - p = k + 1 ELSE x - p + MOD = k + 1
    BY <1>10, WrapFacts
  <2> QED
    BY <1>1, <1>5, <2>1, ConstFacts
<1> QED
  BY <1>1, <1>2, <1>3, <1>6, <1>7, <1>9, <1>10

(* Before the interrupt the counter is behind the compare value; it moves  *)
(* One tick at a time and does not step over it.                           *)
LEMMA RestTick ==
    ASSUME IInv, Tick
    PROVE  RestInv'
<1> USE Typed
<1>1. /\ UNCHANGED <<status, task, api, previousTimeInTicks, hw, cmp>>
      /\ IF task.pc # "wait" THEN lag < PASS ELSE event => lag < LATENCY
      /\ cnt' = IF hw THEN (cnt + 1) % MOD ELSE cnt
      /\ event' = (event \/ (hw /\ cnt' \in {cmp, 0}))
      /\ lag' = IF task.pc # "wait" \/ event THEN lag + 1 ELSE 0
  BY DEF Tick, table
<1>2. counted' = IF hw /\ counted < MOD THEN counted + 1 ELSE counted
  BY ConstFacts DEF Tick, Least
<1>3. CallInv'
  BY <1>1 DEF IInv, CallInv
<1>4. ReadyInv'
  BY <1>1 DEF IInv, ReadyInv, InPass
<1>5. ASSUME hw, counted + 1 < MOD
      PROVE  /\ cnt' = (previousTimeInTicks + counted') % MOD
             /\ Diff(cmp, previousTimeInTicks) = counted' => event'
  <2>1. cnt = (previousTimeInTicks + counted) % MOD
    <3>1. counted < MOD
      BY <1>5, ConstFacts
    <3> QED
      BY <3>1, Zenon DEF IInv, ClockInv
  <2>2. cnt' = (previousTimeInTicks + (counted + 1)) % MOD
    BY <1>1, <1>5, <2>1, NextCount
  <2>3. counted' = counted + 1
    BY <1>2, <1>5, ConstFacts
  <2>4. Diff(cmp, previousTimeInTicks) = counted' => cnt' = cmp
    BY <1>5, <2>2, <2>3, NextCount
  <2> QED
    BY <1>1, <1>5, <2>2, <2>3, <2>4
<1>6. ClockInv'
  <2>1. counted' < MOD => cnt' = (previousTimeInTicks' + counted') % MOD
    BY <1>1, <1>2, <1>5, ConstFacts DEF IInv, ClockInv
  <2>2. (InPass => lag <= PASS /\ counted <= lag)'
    BY <1>1, <1>2, ConstFacts DEF IInv, ClockInv, InPass
  <2>3. (~InPass => lag <= LATENCY /\ (~event => lag = 0))'
    BY <1>1, ConstFacts DEF IInv, ClockInv, InPass
  <2> QED
    BY <2>1, <2>2, <2>3 DEF ClockInv
<1>7. CompareInv'
  <2>1. (task.next <= mMaxToCountDown)'
    BY <1>1 DEF IInv, CompareInv, mMaxToCountDown
  <2>2. ASSUME ~InPass, NEW t \in Timer, status[t] = "active"
        PROVE  /\ hw
               /\ event' => counted' <= mMaxToCountDown + lag'
               /\ ~event' => /\ counted' < Diff(cmp, previousTimeInTicks)
                             /\ Diff(cmp, previousTimeInTicks) <= mMaxToCountDown
    <3>1. CASE event
      BY <1>1, <1>2, <2>2, <3>1, ConstFacts DEF IInv, CompareInv, InPass
    <3>2. CASE ~event
      <4>1. /\ hw /\ counted < Diff(cmp, previousTimeInTicks)
            /\ Diff(cmp, previousTimeInTicks) <= mMaxToCountDown
            /\ Diff(cmp, previousTimeInTicks) \in 0 .. MOD - 1
        BY <2>2, <3>2, WrapFacts DEF IInv, CompareInv
      <4>2. counted + 1 < MOD /\ counted' = counted + 1
        BY <1>2, <4>1, ConstFacts
      <4>3. lag' = 0
        BY <1>1, <2>2, <3>2 DEF InPass
      <4> QED
        BY <1>5, <4>1, <4>2, <4>3, ConstFacts
    <3> QED
      BY <3>1, <3>2
  <2>3. (~InPass /\ (\E t \in Timer : status[t] = "active"))'
        => ~InPass /\ (\E t \in Timer : status[t] = "active")
    BY <1>1 DEF InPass
  <2> QED
    BY <1>1, <2>1, <2>2, <2>3 DEF CompareInv, Diff, mMaxToCountDown
<1> QED
  BY <1>3, <1>4, <1>6, <1>7 DEF RestInv

(* A step of the calling task that stops no timer. *)
LEMMA RestCall ==
    ASSUME IInv, TMR_AllocateTimer \/ TMR_MarkTimerFree \/ TMR_WriteEntry
    PROVE  RestInv'
<1>1. /\ UNCHANGED <<event, task, hw, cnt, cmp, lag, counted, previousTimeInTicks>>
      /\ \A t \in Timer : status'[t] \in {"ready", "active"} => status'[t] = status[t]
      /\ \A t \in Timer : status[t] \in {"ready", "active"} => status'[t] = status[t]
  <2>1. CASE TMR_AllocateTimer
    BY <2>1, Typed DEF TMR_AllocateTimer, tpm
  <2>2. CASE TMR_MarkTimerFree
    <3>1. PICK t \in Timer : t = api.id /\ status[t] = "inactive"
      BY <2>2, Typed DEF TMR_MarkTimerFree, IInv, CallInv
    <3> QED
      BY <2>2, <3>1, Typed DEF TMR_MarkTimerFree, tpm
  <2>3. CASE TMR_WriteEntry
    BY <2>3 DEF TMR_WriteEntry, tpm
  <2> QED
    BY <2>1, <2>2, <2>3
<1>2. CallInv'
  <2>1. CASE TMR_AllocateTimer
    BY <2>1, ApiFacts DEF TMR_AllocateTimer, IInv, CallInv
  <2>2. CASE TMR_MarkTimerFree
    BY <2>2, ApiFacts DEF TMR_MarkTimerFree, IInv, CallInv
  <2>3. CASE TMR_WriteEntry
    <3>1. PICK t \in Timer : t = api.id
      BY Typed
    <3>2. api'.pc = "enable" /\ api'.id = t
      BY <2>3, <3>1, ApiFacts DEF TMR_WriteEntry
    <3> QED
      BY <2>3, <3>1, <3>2 DEF TMR_WriteEntry, IInv, CallInv
  <2> QED
    BY <2>1, <2>2, <2>3
<1>3. ReadyInv'
  BY <1>1 DEF IInv, ReadyInv, InPass
<1>4. ClockInv'
  BY <1>1 DEF IInv, ClockInv, InPass
<1>5. CompareInv'
  BY <1>1 DEF IInv, CompareInv, InPass, Diff, mMaxToCountDown
<1> QED
  BY <1>2, <1>3, <1>4, <1>5 DEF RestInv

(* The rest of the invariant: TMR_EnableTimer wakes TMR_Task. *)
LEMMA RestEnable ==
    ASSUME IInv, TMR_EnableTimer
    PROVE  RestInv'
<1>1. PICK t \in Timer : /\ t = api.id /\ status[t] = "inactive"
                         /\ status' = [status EXCEPT ![t] = "ready"]
                         /\ event'
  BY CountEnable
<1>2. UNCHANGED <<task, hw, cnt, cmp, lag, counted, previousTimeInTicks>> /\ api' = Idle
  BY DEF TMR_EnableTimer, tpm
<1>3. CallInv'
  BY <1>2, ApiFacts DEF IInv, CallInv
<1>4. ReadyInv'
  BY <1>1 DEF ReadyInv
<1>5. ClockInv'
  BY <1>1, <1>2 DEF IInv, ClockInv, InPass
<1>6. CompareInv'
  <2>1. \A u \in Timer : status'[u] = "active" => status[u] = "active"
    BY <1>1, Typed
  <2>2. ASSUME ~InPass, NEW u \in Timer, status[u] = "active"
        PROVE  hw /\ counted <= mMaxToCountDown + lag
    <3>1. CASE event
      BY <2>2, <3>1 DEF IInv, CompareInv
    <3>2. CASE ~event
      <4>1. hw /\ counted < Diff(cmp, previousTimeInTicks) /\ Diff(cmp, previousTimeInTicks) <= mMaxToCountDown
        BY <2>2, <3>2 DEF IInv, CompareInv
      <4>2. Diff(cmp, previousTimeInTicks) \in 0 .. MOD - 1
        BY Typed, WrapFacts
      <4> QED
        BY <4>1, <4>2, Typed, ConstFacts
    <3> QED
      BY <3>1, <3>2
  <2> QED
    BY <1>1, <1>2, <2>1, <2>2 DEF IInv, CompareInv, InPass, mMaxToCountDown
<1> QED
  BY <1>3, <1>4, <1>5, <1>6 DEF RestInv

(* The steps that stop a timer: the counter keeps running for the others. *)
LEMMA RestStop ==
    ASSUME IInv, NEW t \in Timer, Stop(t), UNCHANGED <<type, event, cnt, cmp, lag, counted, previousTimeInTicks>>,
           task' = task,
           api'.pc # "idle" => api'.id = t /\ t \notin CbTimer /\ status[t] # "free",
           api'.pc = "write" => api'.interval \in Interval
    PROVE  RestInv'
<1>1. /\ status' = [status EXCEPT ![t] = IF Running(t) THEN "inactive" ELSE @]
      /\ (\E u \in Timer : Running(u)') => hw' = hw
  BY StopFacts DEF IInv
<1>2. \A u \in Timer : status'[u] \in {"ready", "active"} => status'[u] = status[u]
  BY <1>1, Typed
<1>3. CallInv'
  <2>1. status[t] # "free" => status'[t] = "inactive"
    BY <1>1, Typed DEF Running
  <2> QED
    BY <2>1 DEF IInv, CallInv
<1>4. ReadyInv'
  BY <1>2 DEF IInv, ReadyInv, InPass
<1>5. ClockInv'
  BY DEF IInv, ClockInv, InPass
<1>6. CompareInv'
  <2>1. (\E u \in Timer : status[u] = "active")' => (\E u \in Timer : status[u] = "active") /\ hw' = hw
    BY <1>1, <1>2 DEF Running
  <2> QED
    BY <2>1 DEF IInv, CompareInv, InPass, Diff, mMaxToCountDown
<1> QED
  BY <1>3, <1>4, <1>5, <1>6 DEF RestInv

(* The calls that stop a timer. *)
LEMMA RestApi ==
    ASSUME IInv,
           \/ \E t \in Timer : TMR_StopTimer(t) \/ TMR_FreeTimer(t)
           \/ \E u \in Use : TMR_StartTimer(u)
    PROVE  RestInv'
<1>1. ASSUME NEW t \in Timer, TMR_StopTimer(t)
      PROVE  RestInv'
  BY <1>1, RestStop DEF TMR_StopTimer
<1>2. ASSUME NEW t \in Timer, TMR_FreeTimer(t)
      PROVE  RestInv'
  <2>1. api'.pc = "free" /\ api'.id = t
    BY <1>2, ApiFacts DEF TMR_FreeTimer
  <2> QED
    BY <1>2, <2>1, RestStop DEF TMR_FreeTimer
<1>3. ASSUME NEW u \in Use, TMR_StartTimer(u)
      PROVE  RestInv'
  <2>1. PICK t \in Timer : t = u.id
    BY UseFacts
  <2>2. api'.pc = "write" /\ api'.id = t /\ api'.interval \in Interval
    BY <1>3, <2>1, ApiFacts, UseFacts DEF TMR_StartTimer
  <2> QED
    BY <1>3, <2>1, <2>2, RestStop DEF TMR_StartTimer
<1> QED
  BY <1>1, <1>2, <1>3

(* The start of a pass takes the reading. *)
LEMMA RestBegin ==
    ASSUME IInv, TMR_Task_begin
    PROVE  RestInv'
<1>1. /\ task'.pc = "scan" /\ task'.id = 0 /\ task'.next = mMaxToCountDown
      /\ previousTimeInTicks' = cnt /\ lag' = 0 /\ counted' = 0
      /\ UNCHANGED <<status, api, cnt>>
  BY DEF TMR_Task_begin, table, tpm
<1>2. CallInv'
  BY <1>1 DEF IInv, CallInv
<1>3. ReadyInv'
  BY <1>1, TimerFacts DEF ReadyInv, InPass
<1>4. ClockInv'
  <2>1. cnt = (cnt + 0) % MOD
    <3>1. cnt \in Nat /\ cnt < MOD
      BY Typed, ConstFacts
    <3>2. cnt % MOD = cnt /\ cnt + 0 = cnt
      BY <3>1, WrapFacts
    <3> QED
      BY <3>2
  <2> QED
    BY <1>1, <2>1, ConstFacts DEF ClockInv, InPass
<1>5. CompareInv'
  <2>1. mMaxToCountDown <= mMaxToCountDown
    BY ConstFacts
  <2> QED
    BY <1>1, <2>1 DEF CompareInv, InPass, mMaxToCountDown
<1> QED
  BY <1>2, <1>3, <1>4, <1>5 DEF RestInv

(* A step from one timer of the pass to the next. *)
LEMMA RestToNext ==
    ASSUME IInv, task.pc \in {"scan", "count", "call"}, task.id \in Timer,
           NEW n \in 0 .. MOD - 1, n <= task.next, task' = ToNext(n),
           UNCHANGED <<api, cnt, lag, counted, previousTimeInTicks>>,
           \A t \in Timer : status'[t] = "ready" =>
              event' \/ (status[t] = "ready" /\ event' = event /\ (task.pc = "scan" => t # task.id)),
           api.pc # "idle" => status'[api.id] = "inactive"
    PROVE  RestInv'
<1>1. task'.pc = "scan" /\ task'.id = task.id + 1 /\ task'.next = n
  BY Typed, ToNextFacts
<1>2. CallInv'
  BY <1>1 DEF IInv, CallInv
<1>3. ReadyInv'
  <2>1. ASSUME NEW t \in Timer, status[t] = "ready", ~event, task.pc = "scan" => t # task.id
        PROVE  t > task'.id \/ t = task'.id
    <3>1. t > task.id
      BY <2>1, Zenon DEF IInv, ReadyInv
    <3>2. t \in Nat /\ task.id \in Nat
      BY Typed, TimerFacts
    <3> QED
      BY <1>1, <3>1, <3>2
  <2> QED
    BY <1>1, <2>1 DEF ReadyInv, InPass
<1>4. ClockInv'
  BY <1>1 DEF IInv, ClockInv, InPass
<1>5. CompareInv'
  <2>1. n <= mMaxToCountDown
    BY Typed, ConstFacts DEF IInv, CompareInv
  <2> QED
    BY <1>1, <2>1 DEF CompareInv, InPass, mMaxToCountDown
<1> QED
  BY <1>2, <1>3, <1>4, <1>5 DEF RestInv

(* The steps of a pass between its start and its end. *)
LEMMA RestPass ==
    ASSUME IInv,
           \/ TMR_Task_ready \/ TMR_Task_active \/ TMR_Task_count
           \/ callback_return \/ \E t \in Timer : callback_stop(t)
           \/ \E u \in Use : callback_start(u)
    PROVE  RestInv'
<1>1. task.next \in 0 .. MOD - 1 /\ task.next \in Nat /\ task.next <= task.next
  BY Typed, ConstFacts
<1>2. \A t \in Timer : remaining[t] \in Nat
  BY DEF IInv, ActiveCount, TypeOK
<1>3. api.pc # "idle" => status[api.id] = "inactive" /\ api.id \in Timer
  BY Typed DEF IInv, CallInv
<1>4. CASE TMR_Task_ready
  <2>1. PICK t \in Timer : t = task.id /\ status[t] = "ready" /\ status' = [status EXCEPT ![t] = "active"]
    BY <1>4 DEF TMR_Task_ready
  <2>2. PICK n \in 0 .. MOD - 1 : n = Least(task.next, remaining[t]) /\ n <= task.next
    BY <1>1, <1>2, LeastFacts
  <2>3. \A u \in Timer : status'[u] = "ready" => status[u] = "ready" /\ u # t
    BY <2>1, Typed
  <2>4. api.pc # "idle" => status'[api.id] = "inactive"
    BY <1>3, <2>1, Typed
  <2> QED
    BY <1>4, <2>1, <2>2, <2>3, <2>4, RestToNext DEF TMR_Task_ready, tpm
<1>5. CASE TMR_Task_active
  <2>1. /\ task.pc = "scan" /\ task.id \in Timer /\ status[task.id] # "ready"
        /\ UNCHANGED <<status, event, api, cnt, lag, counted, previousTimeInTicks>>
    BY <1>5 DEF TMR_Task_active, table, tpm
  <2>2. CASE status[task.id] = "active"
    <3>1. task' = [task EXCEPT !.pc = "count", !.shot = type[task.id].shot]
      BY <1>5, <2>2 DEF TMR_Task_active
    <3>2. task'.pc = "count" /\ task'.id = task.id /\ task'.next = task.next
      BY <3>1, Typed DEF TaskState
    <3>3. CallInv'
      BY <2>1, <3>2 DEF IInv, CallInv
    <3>4. ReadyInv'
      BY <2>1, <3>2 DEF IInv, ReadyInv, InPass
    <3>5. ClockInv'
      BY <2>1, <3>2 DEF IInv, ClockInv, InPass
    <3>6. CompareInv'
      BY <2>1, <3>2 DEF IInv, CompareInv, InPass, mMaxToCountDown
    <3> QED
      BY <3>3, <3>4, <3>5, <3>6 DEF RestInv
  <2>3. CASE status[task.id] # "active"
    <3>1. task' = ToNext(task.next)
      BY <1>5, <2>3 DEF TMR_Task_active
    <3>2. \A u \in Timer : status'[u] = "ready" => status[u] = "ready" /\ event' = event /\ u # task.id
      BY <2>1
    <3>3. api.pc # "idle" => status'[api.id] = "inactive"
      BY <1>3, <2>1
    <3> QED
      BY <1>1, <2>1, <3>1, <3>2, <3>3, RestToNext
  <2> QED
    BY <2>2, <2>3
<1>6. CASE TMR_Task_count
  <2>1. /\ task.pc = "count" /\ task.id \in Timer
        /\ UNCHANGED <<status, event, api, cnt, lag, counted, previousTimeInTicks>>
    BY <1>6 DEF TMR_Task_count, tpm, IInv, CallInv
  <2>2. remaining'[task.id] \in Nat
    BY <1>6, <2>1, CountPass DEF ActiveCount, TypeOK
  <2>3. PICK n \in 0 .. MOD - 1 : n = Least(task.next, remaining'[task.id]) /\ n <= task.next
    BY <1>1, <2>2, LeastFacts
  <2>4. task' = ToNext(n)
    BY <1>6, <2>3 DEF TMR_Task_count
  <2>5. api.pc # "idle" => status'[api.id] = "inactive"
    BY <1>3, <2>1
  <2> QED
    BY <2>1, <2>3, <2>4, <2>5, RestToNext
<1>7. CASE callback_return
  <2>1. /\ task.pc = "call" /\ task.id \in Timer /\ task' = ToNext(task.next)
        /\ UNCHANGED <<status, event, api, cnt, lag, counted, previousTimeInTicks>>
    BY <1>7 DEF callback_return, table, tpm, IInv, CallInv
  <2>2. api.pc # "idle" => status'[api.id] = "inactive"
    BY <1>3, <2>1
  <2> QED
    BY <1>1, <2>1, <2>2, RestToNext
<1>8. ASSUME NEW t \in Timer, callback_stop(t)
      PROVE  RestInv'
  <2>1. /\ task.pc = "call" /\ task.id \in Timer /\ task' = ToNext(task.next)
        /\ UNCHANGED <<event, api, cnt, lag, counted, previousTimeInTicks>>
    BY <1>8 DEF callback_stop, IInv, CallInv
  <2>2. status' = [status EXCEPT ![t] = IF Running(t) THEN "inactive" ELSE @]
    BY <1>8, StopFacts DEF callback_stop, IInv
  <2>3. \A u \in Timer : status'[u] = "ready" => status[u] = "ready"
    BY <2>2, Typed
  <2>4. api.pc # "idle" => status'[api.id] = "inactive"
    BY <1>3, <2>2, Typed
  <2> QED
    BY <1>1, <2>1, <2>3, <2>4, RestToNext
<1>9. ASSUME NEW u \in Use, callback_start(u)
      PROVE  RestInv'
  <2>1. /\ task.pc = "call" /\ task.id \in Timer /\ task' = ToNext(task.next) /\ event'
        /\ u.id \in CbTimer /\ u.id \in Timer /\ status' = [status EXCEPT ![u.id] = "ready"]
        /\ UNCHANGED <<api, cnt, lag, counted, previousTimeInTicks>>
    BY <1>9, UseFacts DEF callback_start, IInv, CallInv
  <2>2. api.pc # "idle" => status'[api.id] = "inactive"
    BY <1>3, <2>1, Typed DEF IInv, CallInv
  <2> QED
    BY <1>1, <2>1, <2>2, RestToNext
<1> QED
  BY <1>4, <1>5, <1>6, <1>7, <1>8, <1>9

(* An expiry, which makes an interval timer active again. *)
LEMMA RestExpire ==
    ASSUME IInv, TMR_Task_expire
    PROVE  RestInv'
<1>1. PICK t \in Timer : t = task.id /\ task.pc = "count"
  BY DEF TMR_Task_expire, IInv, CallInv
<1>2. /\ task'.pc = "call" /\ task'.id = t
      /\ UNCHANGED <<event, api, cnt, cmp, lag, counted, previousTimeInTicks>>
  BY <1>1, CountExpire DEF TMR_Task_expire
<1>3. \A u \in Timer : /\ status'[u] \in {"ready", "active"} => status'[u] = status[u]
                       /\ status[u] = "inactive" => status'[u] = "inactive"
  <2>1. CASE task.shot
    <3>1. status' = [status EXCEPT ![t] = IF Running(t) THEN "inactive" ELSE @]
      BY <1>1, <2>1 DEF TMR_Task_expire, Stop
    <3> QED
      BY <3>1, Typed
  <2>2. CASE ~task.shot
    BY <2>2 DEF TMR_Task_expire
  <2> QED
    BY <2>1, <2>2
<1>4. CallInv'
  BY <1>1, <1>2, <1>3, Typed DEF IInv, CallInv
<1>5. ReadyInv'
  BY <1>1, <1>2, <1>3 DEF IInv, ReadyInv, InPass
<1>6. ClockInv'
  BY <1>1, <1>2 DEF IInv, ClockInv, InPass
<1>7. CompareInv'
  <2>1. task'.next \in Nat /\ task'.next <= task.next
    <3>1. CASE task.shot
      <4>1. task' = [task EXCEPT !.pc = "call"]
        BY <3>1 DEF TMR_Task_expire
      <4> QED
        BY <4>1, Typed, ConstFacts DEF TaskState
    <3>2. CASE ~task.shot
      <4>1. task' = [task EXCEPT !.pc = "call", !.next = Least(task.next, interval[t])]
        BY <1>1, <3>2 DEF TMR_Task_expire
      <4>2. task'.next = Least(task.next, interval[t])
        BY <4>1, Typed DEF TaskState
      <4>3. interval[t] \in Nat /\ task.next \in Nat
        BY Typed, UseFacts, ConstFacts DEF IInv, ActiveCount, TypeOK
      <4> QED
        BY <4>2, <4>3, LeastFacts
    <3> QED
      BY <3>1, <3>2
  <2>2. task'.next <= mMaxToCountDown
    BY <2>1, Typed, ConstFacts DEF IInv, CompareInv
  <2> QED
    BY <1>2, <2>2 DEF CompareInv, InPass, mMaxToCountDown
<1> QED
  BY <1>4, <1>5, <1>6, <1>7 DEF RestInv

(* The compare value is at least FOUR_MS ahead of the counter, and at most *)
(* MMaxToCountDown ahead of the reading that the next pass subtracts.      *)
LEMMA ProgrammedFacts ==
    ASSUME IInv, InPass, NEW n \in 0 .. MOD - 1, n = task.next
    PROVE  /\ Programmed(n) \in 0 .. MOD - 1
           /\ counted + FOUR_MS <= Diff(Programmed(n), previousTimeInTicks)
           /\ Diff(Programmed(n), previousTimeInTicks) <= mMaxToCountDown
           /\ n > 0 => Diff(Programmed(n), previousTimeInTicks) <= n + PASS + FOUR_MS - 1
<1>1. n <= mMaxToCountDown /\ counted <= PASS /\ counted \in Nat
  BY Typed, ConstFacts DEF IInv, CompareInv, ClockInv
<1>2. counted \in 0 .. MOD - 1 /\ counted < MOD
  BY <1>1, ConstFacts
<1>3. Diff(cnt, previousTimeInTicks) = counted
  <2>1. cnt = (previousTimeInTicks + counted) % MOD
    BY <1>2, Zenon DEF IInv, ClockInv
  <2> QED
    BY <1>2, <2>1, Typed, DiffCount
<1>4. PICK far \in 0 .. MOD - 1 :
         far = IF counted >= n \/ n - counted < FOUR_MS THEN counted + FOUR_MS ELSE n
  BY <1>1, ConstFacts
<1>5. Programmed(n) = (far + previousTimeInTicks) % MOD
  BY <1>3, <1>4 DEF Programmed
<1>6. Programmed(n) = (previousTimeInTicks + far) % MOD
  <2>1. far + previousTimeInTicks = previousTimeInTicks + far
    BY Typed, ConstFacts
  <2> QED
    BY <1>5, <2>1
<1>7. Programmed(n) \in 0 .. MOD - 1 /\ Diff(Programmed(n), previousTimeInTicks) = far
  BY <1>6, Typed, DiffCount
<1>8. /\ counted + FOUR_MS <= far
      /\ far <= mMaxToCountDown
      /\ n > 0 => far <= n + PASS + FOUR_MS - 1
  BY <1>1, <1>4, ConstFacts
<1> QED
  BY <1>7, <1>8

(* The end of a pass sets the compare value. *)
LEMMA RestEnd ==
    ASSUME IInv, TMR_Task_end
    PROVE  RestInv'
<1>1. /\ task.pc = "scan" /\ task.id = N /\ task' = Waiting /\ lag' = 0
      /\ UNCHANGED <<status, numberOf, previousTimeInTicks, event, api, cnt, counted>>
  BY DEF TMR_Task_end
<1>2. InPass /\ ~InPass' /\ task'.pc = "wait" /\ task'.next = 0
  BY <1>1, TaskFacts DEF InPass
<1>3. CallInv'
  BY <1>1, <1>2 DEF IInv, CallInv
<1>4. ReadyInv'
  <2>1. \A t \in Timer : ~(t > N) /\ t # N
    BY ConstFacts DEF Timer
  <2> QED
    BY <1>1, <2>1 DEF IInv, ReadyInv
<1>5. ClockInv'
  BY <1>1, <1>2, ConstFacts DEF IInv, ClockInv
<1>6. CompareInv'
  <2>1. ASSUME NEW t \in Timer, status[t] = "active"
        PROVE  /\ hw'
               /\ counted <= mMaxToCountDown
               /\ counted < Diff(cmp', previousTimeInTicks)
               /\ Diff(cmp', previousTimeInTicks) <= mMaxToCountDown
    <3>1. numberOf[TRUE] + numberOf[FALSE] > 0
      BY <2>1, SomeRunning DEF Running, IInv
    <3>2. cmp' = Programmed(task.next) /\ hw'
      BY <3>1 DEF TMR_Task_end
    <3>3. PICK n \in 0 .. MOD - 1 : n = task.next
      BY Typed
    <3>4. /\ Programmed(n) \in 0 .. MOD - 1
          /\ counted + FOUR_MS <= Diff(Programmed(n), previousTimeInTicks)
          /\ Diff(Programmed(n), previousTimeInTicks) <= mMaxToCountDown
      BY <1>2, <3>3, ProgrammedFacts
    <3>5. Diff(Programmed(n), previousTimeInTicks) \in 0 .. MOD - 1
      BY <3>4, Typed, WrapFacts
    <3>6. /\ counted <= mMaxToCountDown
          /\ counted < Diff(Programmed(n), previousTimeInTicks)
      BY <3>4, <3>5, Typed, ConstFacts
    <3> QED
      BY <3>2, <3>3, <3>4, <3>6
  <2>2. 0 <= mMaxToCountDown /\ mMaxToCountDown + 0 = mMaxToCountDown
    BY ConstFacts
  <2> QED
    BY <1>1, <1>2, <2>1, <2>2 DEF CompareInv, InPass, Diff, mMaxToCountDown
<1> QED
  BY <1>3, <1>4, <1>5, <1>6 DEF RestInv

(* The return from low power restarts the reading. *)
LEMMA RestSleep ==
    ASSUME IInv, NEW d \in 1 .. MAX_SLEEP, Sleep(d)
    PROVE  RestInv'
<1>1. /\ task.pc = "wait" /\ event' /\ hw' /\ counted' = 0 /\ lag' = 0 /\ previousTimeInTicks' = cnt
      /\ UNCHANGED <<status, task, api, cnt, cmp>>
  BY DEF Sleep
<1>2. CallInv'
  BY <1>1 DEF IInv, CallInv
<1>3. ReadyInv'
  BY <1>1 DEF ReadyInv
<1>4. ClockInv'
  <2>1. cnt = (cnt + 0) % MOD
    <3>1. cnt \in Nat /\ cnt < MOD
      BY Typed, ConstFacts
    <3>2. cnt % MOD = cnt /\ cnt + 0 = cnt
      BY <3>1, WrapFacts
    <3> QED
      BY <3>2
  <2> QED
    BY <1>1, <2>1, ConstFacts DEF ClockInv, InPass
<1>5. CompareInv'
  <2>1. 0 <= mMaxToCountDown + 0
    BY ConstFacts
  <2> QED
    BY <1>1, <2>1 DEF IInv, CompareInv, InPass, mMaxToCountDown
<1> QED
  BY <1>2, <1>3, <1>4, <1>5 DEF RestInv

-----------------------------------------------------------------------------
(* No timer runs initially. *)
LEMMA InitInv == Init => IInv
<1> SUFFICES ASSUME Init
             PROVE  IInv
  OBVIOUS
<1>1. TypeOK
  <2>1. \A t \in Timer : 0 <= 0
    OBVIOUS
  <2>2. cnt \in 0 .. MOD - 1 /\ cmp \in 0 .. MOD - 1 /\ previousTimeInTicks \in 0 .. MOD - 1
    BY ConstFacts DEF Init
  <2>3. numberOf \in [BOOLEAN -> 0 .. N] /\ counted \in 0 .. MOD
    BY ConstFacts DEF Init
  <2>4. remaining \in [Timer -> Nat] /\ \A t \in Timer : remaining[t] <= interval[t]
    BY <2>1 DEF Init
  <2>5. timerHardwareIsRunning \in BOOLEAN /\ event \in BOOLEAN /\ hw \in BOOLEAN
    BY DEF Init
  <2>6. type \in [Timer -> Type]
    BY UseFacts DEF Init
  <2> QED
    BY <2>2, <2>3, <2>4, <2>5, <2>6, TaskFacts, ApiFacts DEF Init, TypeOK
<1>2. \A lp \in BOOLEAN : Kind(lp) = {}
  BY DEF Init, Kind, Running
<1>3. \A lp \in BOOLEAN : numberOf[lp] = Cardinality(Kind(lp))
  BY <1>2, FS_EmptySet DEF Init
<1>4. ActiveCount
  BY <1>1, <1>3 DEF ActiveCount, Kind
<1>5. CallInv /\ ReadyInv
  BY ApiFacts, TaskFacts DEF Init, CallInv, ReadyInv
<1>6. ClockInv
  <2>1. (0 + 0) % MOD = 0
    BY ConstFacts
  <2> QED
    BY <2>1, ConstFacts, TaskFacts DEF Init, ClockInv, InPass
<1>7. CompareInv
  BY ConstFacts, TaskFacts DEF Init, CompareInv
<1> QED
  BY <1>4, <1>5, <1>6, <1>7 DEF IInv

(* The invariant is inductive. *)
LEMMA NextInv == IInv /\ [Next]_vars => IInv'
<1> SUFFICES ASSUME IInv, [Next]_vars
             PROVE  ActiveCount' /\ RestInv'
  BY DEF IInv, RestInv
<1>1. CASE Tick
  BY <1>1, CountTick, RestTick
<1>2. CASE TMR_AllocateTimer
  BY <1>2, CountAllocate, RestCall
<1>3. CASE TMR_MarkTimerFree
  BY <1>3, CountMarkFree, RestCall
<1>4. CASE TMR_WriteEntry
  BY <1>4, CountWriteEntry, RestCall
<1>5. CASE TMR_EnableTimer
  BY <1>5, CountEnable, RestEnable
<1>6. CASE \/ \E t \in Timer : TMR_StopTimer(t) \/ TMR_FreeTimer(t)
           \/ \E u \in Use : TMR_StartTimer(u)
  BY <1>6, CountApi, RestApi
<1>7. CASE \E t \in Timer : callback_stop(t)
  BY <1>7, CountCallbackStop, RestPass
<1>8. CASE \E u \in Use : callback_start(u)
  BY <1>8, CountCallbackStart, RestPass
<1>9. CASE TMR_Task_begin
  BY <1>9, CountPass, RestBegin
<1>10. CASE TMR_Task_ready \/ TMR_Task_active \/ TMR_Task_count \/ callback_return
  BY <1>10, CountPass, RestPass
<1>11. CASE TMR_Task_expire
  BY <1>11, CountExpire, RestExpire
<1>12. CASE TMR_Task_end
  BY <1>12, CountEnd, RestEnd
<1>13. CASE \E d \in 1 .. MAX_SLEEP : Sleep(d)
  BY <1>13, CountSleep, RestSleep
<1>14. CASE UNCHANGED vars
  <2>1. TypeOK'
    BY <1>14 DEF vars, table, tpm, IInv, ActiveCount, TypeOK
  <2>2. ActiveCount'
    BY <1>14, <2>1, SameCount DEF vars, table, IInv, Running
  <2>3. CallInv' /\ ReadyInv'
    BY <1>14 DEF vars, table, IInv, CallInv, ReadyInv, InPass
  <2>4. ClockInv'
    BY <1>14 DEF vars, tpm, IInv, ClockInv, InPass
  <2>5. CompareInv'
    BY <1>14 DEF vars, table, tpm, IInv, CompareInv, InPass, Diff, mMaxToCountDown
  <2> QED
    BY <2>2, <2>3, <2>4, <2>5 DEF RestInv
<1> QED
  BY <1>1, <1>2, <1>3, <1>4, <1>5, <1>6, <1>7, <1>8, <1>9, <1>10, <1>11, <1>12, <1>13, <1>14
     DEF Next

(* The counts, the clock and the compare value agree in every state, with  *)
(* callers of either priority.                                             *)
THEOREM Invariance == Spec => []IInv
  BY InitInv, NextInv, PTL DEF Spec

(* The two counters of running timers, which decide whether the TPM runs   *)
(* and whether the MCU may sleep, are exact, whatever calls, expiries and  *)
(* callbacks interleave and whatever the priority of the calling task.     *)
THEOREM ActiveCountHolds == Spec => []ActiveCount
<1>1. IInv => ActiveCount
  BY DEF IInv
<1> QED
  BY <1>1, Invariance, PTL

(* mMaxToCountDown_c leaves enough room: the counter never comes round to  *)
(* the reading that the next pass subtracts while a timer is active.       *)
THEOREM NoRollOverHolds == Spec => []NoRollOver
<1>1. IInv => NoRollOver
  <2> SUFFICES ASSUME IInv, NEW t \in Timer, status[t] = "active"
               PROVE  counted < MOD
    BY DEF NoRollOver
  <2>1. CASE InPass
    BY <2>1, Typed, ConstFacts DEF IInv, ClockInv
  <2>2. CASE ~InPass /\ event
    BY <2>2, Typed, ConstFacts DEF IInv, ClockInv, CompareInv
  <2>3. CASE ~InPass /\ ~event
    <3>1. Diff(cmp, previousTimeInTicks) \in 0 .. MOD - 1
      BY Typed, WrapFacts
    <3> QED
      BY <2>3, <3>1, Typed, ConstFacts DEF IInv, CompareInv
  <2> QED
    BY <2>1, <2>2, <2>3
<1> QED
  BY <1>1, Invariance, PTL

-----------------------------------------------------------------------------
(* The ages and times of a timer, as the arithmetic needs them. *)
LEMMA AgeTyped ==
    ASSUME IInv, NEW t \in Timer
    PROVE  /\ interval[t] \in Nat /\ remaining[t] \in Nat /\ age[t] \in Nat
           /\ remaining[t] <= interval[t]
           /\ t \in Nat
           /\ Uncounted(t) \in Nat
<1>1. interval[t] \in Nat /\ remaining[t] \in Nat /\ age[t] \in Nat /\ remaining[t] <= interval[t]
  BY UseFacts DEF IInv, ActiveCount, TypeOK
<1>2. t \in Nat
  BY TimerFacts
<1>3. Uncounted(t) \in Nat
  BY Typed DEF Uncounted
<1> QED
  BY <1>1, <1>2, <1>3

(* What the bounds give: no running timer is older than Latest. *)
LEMMA AgeBound ==
    ASSUME LowInv, NEW t \in Timer, Running(t)
    PROVE  age[t] <= Latest(t)
<1>1. IInv /\ AgeOf(t)
  BY DEF LowInv, AgeInv
<1> USE <1>1, Typed, AgeTyped, ConstFacts
<1>2. (InPass => lag <= PASS /\ counted <= lag) /\ (~InPass => lag <= LATENCY)
  BY DEF IInv, ClockInv
<1>3. CASE status[t] = "active" /\ Ahead(t)
  BY <1>2, <1>3 DEF AgeOf, Reach, Latest, Uncounted, Ahead
<1>4. CASE status[t] = "active" /\ ~Ahead(t) /\ InPass
  BY <1>2, <1>4 DEF AgeOf, Latest, Uncounted
<1>5. CASE status[t] = "active" /\ ~InPass /\ event
  <2>1. counted <= Reach(t) + lag
    BY <1>5 DEF AgeOf
  <2>2. Uncounted(t) = counted
    BY <1>5 DEF Uncounted, Ahead
  <2>3. age[t] <= interval[t] - remaining[t] + counted + LATENCY + PASS
    BY <1>5, <2>2 DEF AgeOf
  <2> QED
    BY <1>2, <1>5, <2>1, <2>3 DEF Reach, Latest
<1>6. CASE status[t] = "active" /\ ~InPass /\ ~event
  <2>1. Diff(cmp, previousTimeInTicks) <= Reach(t)
    BY <1>6 DEF AgeOf
  <2>2. Uncounted(t) = counted
    BY <1>6 DEF Uncounted, Ahead
  <2>3. age[t] <= interval[t] - remaining[t] + counted + LATENCY + PASS
    BY <1>6, <2>2 DEF AgeOf
  <2>4. counted < Diff(cmp, previousTimeInTicks)
    BY <1>6 DEF IInv, CompareInv
  <2>5. Diff(cmp, previousTimeInTicks) \in 0 .. MOD - 1
    BY WrapFacts
  <2> QED
    BY <1>6, <2>1, <2>3, <2>4, <2>5 DEF Reach, Latest
<1>7. CASE status[t] = "ready"
  BY <1>2, <1>7 DEF AgeOf, Latest, Running
<1> QED
  BY <1>3, <1>4, <1>5, <1>6, <1>7 DEF Running, Ahead

(* Nothing is said of the age of a stopped timer. *)
LEMMA AgeStopped ==
    ASSUME NEW t \in Timer, ~Running(t)'
    PROVE  AgeOf(t)'
  BY DEF AgeOf, Running

(* The bounds of a timer that the step leaves alone. *)
LEMMA AgeKept ==
    ASSUME IInv, NEW t \in Timer, AgeOf(t),
           status'[t] = status[t], interval'[t] = interval[t], remaining'[t] = remaining[t],
           age'[t] = age[t],
           Ahead(t)' <=> Ahead(t), InPass' <=> InPass, task'.ticks = task.ticks,
           Running(t) => hw' = hw,
           task'.next \in Nat, task'.next <= task.next,
           UNCHANGED <<event, cmp, previousTimeInTicks, lag, counted>>
    PROVE  AgeOf(t)'
<1>1. Uncounted(t)' = Uncounted(t)
  BY DEF Uncounted
<1>2. Reach(t)' = Reach(t)
  BY DEF Reach
<1>3. Diff(cmp, previousTimeInTicks)' = Diff(cmp, previousTimeInTicks)
  BY DEF Diff
<1>4. Running(t)' <=> Running(t)
  BY DEF Running
<1>5. InPass' /\ ~Ahead(t)' /\ status'[t] = "active" => task'.next <= remaining'[t] /\ remaining'[t] > 0
  BY Typed, AgeTyped, ConstFacts DEF AgeOf
<1>6. (status[t] = "active" =>
          /\ age[t] <= interval[t] - remaining[t] + Uncounted(t) + LATENCY + PASS
          /\ interval[t] - remaining[t] + Uncounted(t) <= age[t] + PASS
          /\ Ahead(t) => task.ticks <= Reach(t) + LATENCY
          /\ InPass /\ ~Ahead(t) => task.next <= remaining[t] /\ remaining[t] > 0
          /\ ~InPass /\ ~event => Diff(cmp, previousTimeInTicks) <= Reach(t)
          /\ ~InPass /\ event => counted <= Reach(t) + lag)'
  BY <1>1, <1>2, <1>3, <1>5 DEF AgeOf
<1>7. (status[t] = "ready" =>
          /\ remaining[t] = interval[t]
          /\ ~InPass => age[t] <= IF hw THEN PASS + lag ELSE lag
          /\ Ahead(t) /\ hw => age[t] <= LATENCY + PASS + counted
          /\ InPass /\ ~Ahead(t) => age[t] <= lag)'
  BY DEF AgeOf, Running
<1>8. (Running(t) /\ InPass /\ ~hw => age[t] <= LATENCY + lag)' /\ (Running(t) => interval[t] > 0)'
  BY <1>4 DEF AgeOf
<1> QED
  BY <1>6, <1>7, <1>8 DEF AgeOf

(* One tick: the ages of the running timers and the counter move together, *)
(* But for the ticks in which the counter is off.                          *)
LEMMA LowTick ==
    ASSUME LowInv, ~HIGH, Tick
    PROVE  ArmedInv' /\ EntryInv' /\ AgeInv'
<1>1. IInv
  BY DEF LowInv
<1> USE <1>1, Typed, ConstFacts
<1>2. /\ UNCHANGED <<status, interval, remaining, task, api, previousTimeInTicks, hw, cmp, armed>>
      /\ IF task.pc # "wait" THEN lag < PASS ELSE event => lag < LATENCY
      /\ event => event'
      /\ lag' = IF task.pc # "wait" \/ event THEN lag + 1 ELSE 0
  BY DEF Tick, table
<1>3. counted' = IF hw /\ counted < MOD THEN counted + 1 ELSE counted
  BY DEF Tick, Least
<1>4. ArmedInv' /\ EntryInv'
  BY <1>2 DEF LowInv, ArmedInv, EntryInv, Running
<1>5. (InPass => task.next > 0)'
  BY <1>2 DEF LowInv, AgeInv, InPass
<1>6. ASSUME NEW t \in Timer
      PROVE  AgeOf(t)'
  <2>1. CASE ~Running(t)
    BY <1>2, <2>1, AgeStopped DEF Running
  <2>2. CASE Running(t)
    <3> USE AgeTyped
    <3>1. age'[t] = age[t] + 1
      <4>1. age[t] <= Latest(t) /\ Latest(t) \in Nat
        BY <2>2, AgeBound DEF Latest
      <4> QED
        BY <2>2, <4>1 DEF Tick, Least
    <3>2. AgeOf(t)
      BY DEF LowInv, AgeInv
    <3>3. /\ Ahead(t)' <=> Ahead(t)
          /\ InPass' <=> InPass
          /\ Running(t)' <=> Running(t)
          /\ Reach(t)' = Reach(t)
          /\ Diff(cmp, previousTimeInTicks)' = Diff(cmp, previousTimeInTicks)
      BY <1>2 DEF Ahead, InPass, Running, Reach, Diff
    <3>4. (InPass => lag <= PASS /\ counted <= lag) /\ (~InPass => lag <= LATENCY /\ (~event => lag = 0))
      BY DEF IInv, ClockInv
    <3>5. status[t] = "active" => counted < MOD
      <4>1. CASE InPass
        BY <3>4, <4>1
      <4>2. CASE ~InPass /\ event
        BY <3>4, <4>2 DEF IInv, CompareInv
      <4>3. CASE ~InPass /\ ~event
        <5>1. Diff(cmp, previousTimeInTicks) \in 0 .. MOD - 1
          BY WrapFacts
        <5> QED
          BY <4>3, <5>1 DEF IInv, CompareInv
      <4> QED
        BY <4>1, <4>2, <4>3
    <3>6. CASE status[t] = "active" /\ hw
      <4>1. counted' = counted + 1 /\ Uncounted(t)' = Uncounted(t) + 1
        BY <1>2, <1>3, <3>3, <3>5, <3>6 DEF Uncounted
      <4>2. /\ age'[t] <= interval'[t] - remaining'[t] + Uncounted(t)' + LATENCY + PASS
            /\ interval'[t] - remaining'[t] + Uncounted(t)' <= age'[t] + PASS
        BY <1>2, <3>1, <3>2, <3>6, <4>1 DEF AgeOf
      <4>3. ASSUME ~InPass, event'
            PROVE  counted' <= Reach(t) + lag'
        <5>1. CASE event
          BY <1>2, <3>2, <3>6, <4>1, <4>3, <5>1 DEF AgeOf, InPass, Reach
        <5>2. CASE ~event
          <6>1. Diff(cmp, previousTimeInTicks) <= Reach(t) /\ counted < Diff(cmp, previousTimeInTicks)
            BY <3>2, <3>6, <4>3, <5>2 DEF AgeOf, IInv, CompareInv
          <6>2. Diff(cmp, previousTimeInTicks) \in 0 .. MOD - 1
            BY WrapFacts
          <6>3. lag' = 0
            BY <1>2, <4>3, <5>2 DEF InPass
          <6> QED
            BY <4>1, <6>1, <6>2, <6>3 DEF Reach
        <5> QED
          BY <5>1, <5>2
      <4> QED
        BY <1>2, <3>2, <3>3, <3>6, <4>2, <4>3 DEF AgeOf, Running
    <3>7. CASE status[t] = "active" /\ ~hw
      <4>1. InPass
        BY <3>7 DEF IInv, CompareInv
      <4>2. counted' = counted /\ Uncounted(t)' = Uncounted(t)
        BY <1>2, <1>3, <3>3, <3>7 DEF Uncounted
      <4>3. lag' = lag + 1 /\ lag < PASS
        BY <1>2, <4>1 DEF InPass
      <4>4. age[t] <= LATENCY + lag
        BY <2>2, <3>2, <3>7, <4>1 DEF AgeOf
      <4>5. /\ age'[t] <= interval'[t] - remaining'[t] + Uncounted(t)' + LATENCY + PASS
            /\ interval'[t] - remaining'[t] + Uncounted(t)' <= age'[t] + PASS
            /\ age'[t] <= LATENCY + lag'
        BY <1>2, <3>1, <3>2, <3>7, <4>2, <4>3, <4>4 DEF AgeOf
      <4> QED
        BY <1>2, <3>2, <3>3, <3>7, <4>1, <4>5 DEF AgeOf, Running
    <3>8. CASE status[t] = "ready" /\ InPass
      <4>1. lag' = lag + 1 /\ lag < PASS
        BY <1>2, <3>8 DEF InPass
      <4>2. hw => counted' = counted + 1
        BY <1>3, <3>4, <3>8
      <4> QED
        BY <1>2, <3>1, <3>2, <3>3, <3>8, <4>1, <4>2 DEF AgeOf, Running
    <3>9. CASE status[t] = "ready" /\ ~InPass
      <4>1. event /\ lag' = lag + 1
        BY <1>2, <3>9 DEF IInv, ReadyInv, InPass
      <4> QED
        BY <1>2, <3>1, <3>2, <3>3, <3>9, <4>1 DEF AgeOf, Ahead, Running
    <3> QED
      BY <2>2, <3>6, <3>7, <3>8, <3>9 DEF Running
  <2> QED
    BY <2>1, <2>2
<1> QED
  BY <1>4, <1>5, <1>6 DEF AgeInv

(* The calling task runs while TMR_Task waits for its event. *)
LEMMA ApiWaits ==
    ASSUME ~HIGH, ApiRuns
    PROVE  task.pc = "wait" /\ ~event /\ ~InPass /\ \A t \in Timer : ~Ahead(t)
  BY DEF ApiRuns, InPass, Ahead

(* What all the steps of the calling task that stop no timer leave alone. *)
LEMMA LowCall ==
    ASSUME LowInv, ~HIGH, TMR_AllocateTimer \/ TMR_MarkTimerFree \/ TMR_WriteEntry
    PROVE  ArmedInv' /\ EntryInv' /\ AgeInv'
<1>1. IInv
  BY DEF LowInv
<1> USE <1>1, Typed
<1>2. UNCHANGED <<event, task, hw, cmp, lag, counted, previousTimeInTicks, age, armed>>
  BY DEF TMR_AllocateTimer, TMR_MarkTimerFree, TMR_WriteEntry, tpm
<1>3. task.pc = "wait"
  BY ApiWaits DEF TMR_AllocateTimer, TMR_MarkTimerFree, TMR_WriteEntry
<1>4. \A t \in Timer : /\ Running(t)' => /\ status'[t] = status[t] /\ Running(t)
                                         /\ interval'[t] = interval[t] /\ remaining'[t] = remaining[t]
  <2>1. CASE TMR_AllocateTimer
    BY <2>1 DEF TMR_AllocateTimer, Running
  <2>2. CASE TMR_MarkTimerFree
    BY <2>2 DEF TMR_MarkTimerFree, Running
  <2>3. CASE TMR_WriteEntry
    <3>1. PICK t \in Timer : t = api.id /\ status[t] = "inactive"
      BY <2>3 DEF TMR_WriteEntry, IInv, CallInv
    <3> QED
      BY <2>3, <3>1 DEF TMR_WriteEntry, Running, IInv, ActiveCount, TypeOK
  <2> QED
    BY <2>1, <2>2, <2>3
<1>5. ArmedInv'
  BY <1>2, <1>3, <1>4 DEF LowInv, ArmedInv
<1>6. EntryInv'
  <2>1. CASE TMR_AllocateTimer
    BY <2>1 DEF TMR_AllocateTimer, EntryInv
  <2>2. CASE TMR_MarkTimerFree
    BY <2>2, ApiFacts DEF TMR_MarkTimerFree, EntryInv
  <2>3. CASE TMR_WriteEntry
    <3>1. PICK t \in Timer : t = api.id /\ api.interval \in Interval
      BY <2>3 DEF TMR_WriteEntry, IInv, CallInv
    <3>2. api'.id = t
      BY <2>3, <3>1, ApiFacts DEF TMR_WriteEntry
    <3>3. interval'[t] = api.interval /\ remaining'[t] = api.interval
      BY <2>3, <3>1 DEF TMR_WriteEntry, IInv, ActiveCount, TypeOK
    <3> QED
      BY <3>1, <3>2, <3>3, UseFacts DEF EntryInv
  <2> QED
    BY <2>1, <2>2, <2>3
<1>7. AgeInv'
  <2>1. (InPass => task.next > 0)'
    BY <1>2, <1>3 DEF InPass
  <2>2. ASSUME NEW t \in Timer
        PROVE  AgeOf(t)'
    <3>1. CASE ~Running(t)'
      BY <3>1, AgeStopped
    <3>2. CASE Running(t)'
      <4>1. AgeOf(t)
        BY DEF LowInv, AgeInv
      <4>2. (Ahead(t)' <=> Ahead(t)) /\ (InPass' <=> InPass)
        BY <1>2 DEF Ahead, InPass
      <4>3. task'.next \in Nat /\ task'.next <= task.next /\ task'.ticks = task.ticks
        BY <1>2, ConstFacts
      <4> QED
        BY <1>2, <1>4, <3>2, <4>1, <4>2, <4>3, AgeKept
    <3> QED
      BY <3>1, <3>2
  <2> QED
    BY <2>1, <2>2 DEF AgeInv
<1> QED
  BY <1>5, <1>6, <1>7

(* The ages: a timer becomes ready. *)
LEMMA LowEnable ==
    ASSUME LowInv, ~HIGH, TMR_EnableTimer
    PROVE  ArmedInv' /\ EntryInv' /\ AgeInv'
<1>1. IInv
  BY DEF LowInv
<1> USE <1>1, Typed
<1>2. PICK t \in Timer : /\ t = api.id /\ status[t] = "inactive"
                         /\ status' = [status EXCEPT ![t] = "ready"]
                         /\ age' = [age EXCEPT ![t] = 0]
                         /\ event'
  BY CountEnable
<1>3. /\ UNCHANGED <<interval, remaining, task, hw, cmp, lag, counted, previousTimeInTicks>> /\ api' = Idle
      /\ armed' = [armed EXCEPT ![t] = TRUE]
  BY <1>2 DEF TMR_EnableTimer, tpm
<1>4. task.pc = "wait" /\ ~event /\ ~InPass
  BY ApiWaits DEF TMR_EnableTimer
<1>5. ArmedInv'
  BY <1>2, <1>3, <1>4 DEF LowInv, ArmedInv, Running, IInv, ActiveCount, TypeOK
<1>6. EntryInv'
  BY <1>3, ApiFacts DEF EntryInv
<1>7. AgeInv'
  <2>1. ~InPass' /\ \A u \in Timer : ~Ahead(u)'
    BY <1>3, <1>4 DEF InPass, Ahead
  <2>2. AgeOf(t)'
    <3>1. remaining[t] = interval[t] /\ interval[t] > 0
      BY <1>2 DEF TMR_EnableTimer, LowInv, EntryInv
    <3>2. status'[t] = "ready" /\ age'[t] = 0
      BY <1>2 DEF IInv, ActiveCount, TypeOK
    <3> QED
      BY <1>3, <2>1, <3>1, <3>2, ConstFacts DEF AgeOf, Running
  <2>3. ASSUME NEW u \in Timer, u # t
        PROVE  AgeOf(u)'
    <3>1. status'[u] = status[u] /\ age'[u] = age[u] /\ AgeOf(u)
      BY <1>2, <2>3 DEF LowInv, AgeInv, IInv, ActiveCount, TypeOK
    <3>2. CASE status[u] = "active"
      <4>1. counted < Diff(cmp, previousTimeInTicks) /\ Diff(cmp, previousTimeInTicks) <= Reach(u)
        BY <1>4, <3>1, <3>2 DEF AgeOf, IInv, CompareInv
      <4>2. Diff(cmp, previousTimeInTicks) \in 0 .. MOD - 1
        BY WrapFacts
      <4>3. counted <= Reach(u) + lag
        BY <4>1, <4>2, AgeTyped, ConstFacts DEF Reach
      <4>4. Uncounted(u)' = Uncounted(u) /\ Reach(u)' = Reach(u)
        BY <1>3, <1>4, <2>1 DEF Uncounted, Reach, Ahead
      <4> QED
        BY <1>2, <1>3, <2>1, <3>1, <3>2, <4>3, <4>4 DEF AgeOf, Running
    <3>3. CASE status[u] # "active"
      <4>1. status[u] # "ready"
        BY <1>4 DEF IInv, ReadyInv
      <4> QED
        BY <3>1, <3>3, <4>1, AgeStopped DEF Running
    <3> QED
      BY <3>2, <3>3
  <2> QED
    BY <2>1, <2>2, <2>3 DEF AgeInv
<1> QED
  BY <1>5, <1>6, <1>7

(* Steps that stop t and leave the other timers alone. *)
LEMMA AgeStop ==
    ASSUME LowInv, NEW t \in Timer, Stop(t), type' = type,
           UNCHANGED <<interval, remaining, previousTimeInTicks, event, cmp, lag, counted>>,
           \A u \in Timer \ {t} : Running(u) => (Ahead(u)' <=> Ahead(u)),
           InPass' <=> InPass, task'.ticks = task.ticks, task'.next = task.next
    PROVE  AgeInv'
<1>1. IInv
  BY DEF LowInv
<1> USE <1>1, Typed
<1>2. /\ status' = [status EXCEPT ![t] = IF Running(t) THEN "inactive" ELSE @]
      /\ (\E u \in Timer : Running(u)') => hw' = hw
  BY StopFacts DEF IInv
<1>3. age' = [age EXCEPT ![t] = 0]
  BY DEF Stop
<1>4. (InPass => task.next > 0)'
  BY DEF LowInv, AgeInv
<1>5. AgeOf(t)'
  BY <1>2, AgeStopped DEF Running
<1>6. ASSUME NEW u \in Timer, u # t
      PROVE  AgeOf(u)'
  <2>1. status'[u] = status[u] /\ age'[u] = age[u] /\ AgeOf(u)
    BY <1>2, <1>3, <1>6 DEF LowInv, AgeInv, IInv, ActiveCount, TypeOK
  <2>2. CASE Running(u)
    <3>1. hw' = hw
      BY <1>2, <2>1, <2>2 DEF Running
    <3>2. task'.next \in Nat /\ task'.next <= task.next
      BY ConstFacts
    <3> QED
      BY <1>6, <2>1, <2>2, <3>1, <3>2, AgeKept
  <2>3. CASE ~Running(u)
    BY <2>1, <2>3, AgeStopped DEF Running
  <2> QED
    BY <2>2, <2>3
<1> QED
  BY <1>4, <1>5, <1>6 DEF AgeInv

(* A call stops a timer. *)
LEMMA LowApi ==
    ASSUME LowInv, ~HIGH,
           \/ \E t \in Timer : TMR_StopTimer(t) \/ TMR_FreeTimer(t)
           \/ \E u \in Use : TMR_StartTimer(u)
    PROVE  ArmedInv' /\ EntryInv' /\ AgeInv'
<1>1. IInv
  BY DEF LowInv
<1>2. PICK t \in Timer :
         /\ Stop(t)
         /\ armed' = [armed EXCEPT ![t] = FALSE]
         /\ UNCHANGED <<type, interval, remaining, previousTimeInTicks, event, task, cmp, lag, counted>>
         /\ api'.pc # "enable"
         /\ api.pc = "idle" /\ ApiRuns
  <2>1. ASSUME NEW t \in Timer, TMR_StopTimer(t)
        PROVE  Stop(t) /\ api'.pc # "enable" /\ api.pc = "idle" /\ ApiRuns
    BY <2>1 DEF TMR_StopTimer
  <2>2. ASSUME NEW t \in Timer, TMR_FreeTimer(t)
        PROVE  Stop(t) /\ api'.pc # "enable" /\ api.pc = "idle" /\ ApiRuns
    BY <2>2, ApiFacts DEF TMR_FreeTimer
  <2>3. ASSUME NEW u \in Use, TMR_StartTimer(u)
        PROVE  u.id \in Timer /\ Stop(u.id) /\ api'.pc # "enable" /\ api.pc = "idle" /\ ApiRuns
    BY <2>3, ApiFacts, UseFacts DEF TMR_StartTimer
  <2> QED
    BY <2>1, <2>2, <2>3 DEF TMR_StopTimer, TMR_FreeTimer, TMR_StartTimer
<1>3. task.pc = "wait"
  BY <1>2, ApiWaits
<1>4. ArmedInv'
  <2>1. status' = [status EXCEPT ![t] = IF Running(t) THEN "inactive" ELSE @]
    BY <1>2 DEF Stop
  <2>2. \A u \in Timer : Running(u)' => u # t /\ Running(u)
    BY <1>1, <2>1, Typed DEF Running
  <2>3. \A u \in Timer : u # t => armed'[u] = armed[u]
    BY <1>1, <1>2 DEF IInv, ActiveCount, TypeOK
  <2> QED
    BY <1>2, <1>3, <2>2, <2>3 DEF LowInv, ArmedInv
<1>5. EntryInv'
  BY <1>2 DEF EntryInv
<1>6. AgeInv'
  BY <1>2, AgeStop DEF Ahead, InPass
<1> QED
  BY <1>4, <1>5, <1>6

(* A pass begins: the ticks it subtracts are the ticks of the counter      *)
(* Since the last reading.                                                 *)
LEMMA LowBegin ==
    ASSUME LowInv, ~HIGH, TMR_Task_begin
    PROVE  ArmedInv' /\ EntryInv' /\ AgeInv'
<1>1. IInv
  BY DEF LowInv
<1> USE <1>1, Typed
<1>2. /\ task.pc = "wait" /\ event
      /\ task'.pc = "scan" /\ task'.id = 0 /\ task'.next = mMaxToCountDown
      /\ task'.ticks = Diff(cnt, previousTimeInTicks)
      /\ lag' = 0 /\ counted' = 0
      /\ UNCHANGED <<status, interval, remaining, api, hw, age, armed>>
  BY DEF TMR_Task_begin, table, tpm
<1>3. ArmedInv' /\ EntryInv'
  BY <1>2 DEF LowInv, ArmedInv, EntryInv, Running
<1>4. InPass' /\ ~InPass /\ \A t \in Timer : Ahead(t)' /\ ~Ahead(t)
  BY <1>2, TimerFacts DEF InPass, Ahead
<1>5. task'.next > 0
  BY <1>2, ConstFacts
<1>6. lag <= LATENCY
  BY <1>4 DEF IInv, ClockInv
<1>7. ASSUME NEW t \in Timer
      PROVE  AgeOf(t)'
  <2> USE AgeTyped
  <2>1. AgeOf(t)
    BY DEF LowInv, AgeInv
  <2>2. CASE status[t] = "active"
    <3>1. hw /\ counted <= mMaxToCountDown + lag
      BY <1>2, <1>4, <2>2 DEF IInv, CompareInv
    <3>2. counted \in 0 .. MOD - 1 /\ counted < MOD
      BY <1>6, <3>1, ConstFacts
    <3>3. cnt = (previousTimeInTicks + counted) % MOD
      BY <3>2, Zenon DEF IInv, ClockInv
    <3>4. task'.ticks = counted
      BY <1>2, <3>2, <3>3, DiffCount
    <3>5. Uncounted(t) = counted /\ Uncounted(t)' = counted
      BY <1>2, <1>4, <3>2, <3>4 DEF Uncounted
    <3>6. /\ age'[t] <= interval'[t] - remaining'[t] + Uncounted(t)' + LATENCY + PASS
          /\ interval'[t] - remaining'[t] + Uncounted(t)' <= age'[t] + PASS
      BY <1>2, <2>1, <2>2, <3>5 DEF AgeOf
    <3>7. task'.ticks <= Reach(t)' + LATENCY
      <4>1. counted <= Reach(t) + lag /\ Reach(t)' = Reach(t)
        BY <1>2, <1>4, <2>1, <2>2 DEF AgeOf, Reach
      <4> QED
        BY <1>6, <3>4, <4>1, ConstFacts DEF Reach
    <3> QED
      BY <1>2, <1>4, <2>1, <2>2, <3>1, <3>6, <3>7 DEF AgeOf, Running
  <2>3. CASE status[t] = "ready"
    <3>1. age[t] <= IF hw THEN PASS + lag ELSE lag
      BY <1>4, <2>1, <2>3 DEF AgeOf
    <3>2. (hw => age'[t] <= LATENCY + PASS + counted') /\ (~hw => age'[t] <= LATENCY + lag')
      BY <1>2, <1>6, <3>1, ConstFacts
    <3> QED
      BY <1>2, <1>4, <2>1, <2>3, <3>2 DEF AgeOf, Running
  <2>4. CASE ~Running(t)
    BY <1>2, <2>4, AgeStopped DEF Running
  <2> QED
    BY <2>2, <2>3, <2>4 DEF Running
<1> QED
  BY <1>3, <1>4, <1>5, <1>7 DEF AgeInv

(* Moving to the next timer puts the current one behind the pass. *)
LEMMA AheadNext ==
    ASSUME IInv, task.id \in Timer, task.pc # "wait",
           task'.pc = "scan", task'.id = task.id + 1, NEW u \in Timer
    PROVE  /\ InPass /\ InPass'
           /\ u # task.id => (Ahead(u)' <=> Ahead(u))
           /\ u = task.id => ~Ahead(u)'
<1>1. u \in Nat /\ task.id \in Nat
  BY TimerFacts
<1> QED
  BY <1>1 DEF InPass, Ahead

(* The steps of a pass that look at timer t and go on to the next. *)
LEMMA AgeToNext ==
    ASSUME LowInv, NEW t \in Timer, t = task.id, task.pc # "wait",
           NEW n \in 0 .. MOD - 1, n > 0, n <= task.next, task' = ToNext(n),
           UNCHANGED <<interval, hw, cmp, previousTimeInTicks, event, lag, counted, age>>,
           \A u \in Timer \ {t} : status'[u] = status[u] /\ remaining'[u] = remaining[u],
           AgeOf(t)'
    PROVE  AgeInv'
<1>1. IInv
  BY DEF LowInv
<1> USE <1>1, Typed
<1>2. task'.pc = "scan" /\ task'.id = task.id + 1 /\ task'.next = n /\ task'.ticks = task.ticks
  BY ToNextFacts
<1>3. (InPass => task.next > 0)'
  BY <1>2
<1>4. ASSUME NEW u \in Timer, u # t
      PROVE  AgeOf(u)'
  <2>1. AgeOf(u)
    BY DEF LowInv, AgeInv
  <2>2. (Ahead(u)' <=> Ahead(u)) /\ (InPass' <=> InPass)
    BY <1>2, <1>4, AheadNext
  <2>3. task'.next \in Nat /\ task'.next <= task.next
    BY <1>2, ConstFacts
  <2> QED
    BY <1>2, <1>4, <2>1, <2>2, <2>3, AgeKept
<1> QED
  BY <1>3, <1>4 DEF AgeInv

(* A pass makes a ready timer active. *)
LEMMA LowReady ==
    ASSUME LowInv, ~HIGH, TMR_Task_ready
    PROVE  ArmedInv' /\ EntryInv' /\ AgeInv'
<1>1. IInv
  BY DEF LowInv
<1> USE <1>1, Typed, ConstFacts
<1>2. PICK t \in Timer : t = task.id /\ task.pc = "scan" /\ status[t] = "ready" /\ status' = [status EXCEPT ![t] = "active"]
  BY DEF TMR_Task_ready
<1>3. UNCHANGED <<interval, remaining, api, hw, cmp, previousTimeInTicks, event, lag, counted, age, armed>>
  BY DEF TMR_Task_ready, tpm
<1>4. AgeOf(t) /\ task.next > 0 /\ InPass /\ Ahead(t)
  BY <1>2 DEF LowInv, AgeInv, InPass, Ahead
<1>5. remaining[t] = interval[t] /\ remaining[t] > 0 /\ remaining[t] \in Nat
  BY <1>2, <1>4, AgeTyped DEF AgeOf, Running
<1>6. PICK n \in 0 .. MOD - 1 : n = Least(task.next, remaining[t]) /\ n > 0 /\ n <= task.next /\ n <= remaining[t]
  <2>1. task.next \in Nat
    OBVIOUS
  <2>2. Least(task.next, remaining[t]) > 0
    BY <1>4, <1>5 DEF Least
  <2> QED
    BY <1>5, <2>1, <2>2, LeastFacts
<1>7. task' = ToNext(n)
  BY <1>2, <1>6 DEF TMR_Task_ready
<1>8. task'.pc = "scan" /\ task'.id = task.id + 1 /\ task'.next = n
  BY <1>2, <1>7, ToNextFacts
<1>9. ArmedInv'
  BY <1>2, <1>3, <1>8 DEF LowInv, ArmedInv, Running
<1>10. EntryInv'
  BY <1>3 DEF LowInv, EntryInv
<1>11. AgeOf(t)'
  <2>1. ~Ahead(t)' /\ InPass'
    BY <1>2, <1>8, AheadNext
  <2>2. Uncounted(t)' = counted
    BY <1>3, <2>1 DEF Uncounted
  <2>3. lag <= PASS /\ counted <= lag
    BY <1>4 DEF IInv, ClockInv
  <2>4. (hw => age[t] <= LATENCY + PASS + counted) /\ (~hw => age[t] <= LATENCY + lag)
    BY <1>2, <1>4 DEF AgeOf, Running
  <2>5. /\ age[t] <= interval[t] - remaining[t] + counted + LATENCY + PASS
        /\ interval[t] - remaining[t] + counted <= age[t] + PASS
    BY <1>5, <2>3, <2>4, AgeTyped
  <2>6. status'[t] = "active"
    BY <1>2
  <2> QED
    BY <1>3, <1>5, <1>6, <1>8, <2>1, <2>2, <2>4, <2>5, <2>6 DEF AgeOf
<1>12. \A u \in Timer \ {t} : status'[u] = status[u] /\ remaining'[u] = remaining[u]
  BY <1>2, <1>3
<1>13. AgeInv'
  BY <1>2, <1>3, <1>6, <1>7, <1>11, <1>12, AgeToNext
<1> QED
  BY <1>9, <1>10, <1>13

(* A pass passes an active timer. *)
LEMMA LowActive ==
    ASSUME LowInv, ~HIGH, TMR_Task_active
    PROVE  ArmedInv' /\ EntryInv' /\ AgeInv'
<1>1. IInv
  BY DEF LowInv
<1> USE <1>1, Typed
<1>2. /\ task.pc = "scan" /\ task.id \in Timer /\ status[task.id] # "ready"
      /\ UNCHANGED <<status, interval, remaining, api, hw, cmp, previousTimeInTicks, event, lag, counted,
                     age, armed>>
  BY DEF TMR_Task_active, table, tpm
<1>3. EntryInv'
  BY <1>2 DEF LowInv, EntryInv
<1>4. task.next > 0 /\ task.next \in 0 .. MOD - 1 /\ task.next <= task.next /\ task.next \in Nat
  BY <1>2, ConstFacts DEF LowInv, AgeInv, InPass
<1>5. CASE status[task.id] = "active"
  <2>1. task' = [task EXCEPT !.pc = "count", !.shot = type[task.id].shot]
    BY <1>5 DEF TMR_Task_active
  <2>2. task'.pc = "count" /\ task'.id = task.id /\ task'.next = task.next /\ task'.ticks = task.ticks
    BY <2>1 DEF TaskState
  <2>3. ArmedInv'
    BY <1>2, <1>5, <2>2 DEF LowInv, ArmedInv, Running
  <2>4. (InPass' <=> InPass) /\ \A u \in Timer : Ahead(u)' <=> Ahead(u)
    BY <1>2, <2>2 DEF InPass, Ahead
  <2>5. ASSUME NEW u \in Timer
        PROVE  AgeOf(u)'
    <3>1. AgeOf(u)
      BY DEF LowInv, AgeInv
    <3> QED
      BY <1>2, <1>4, <2>2, <2>4, <3>1, AgeKept
  <2> QED
    BY <1>3, <1>4, <2>2, <2>3, <2>5 DEF AgeInv
<1>6. CASE status[task.id] # "active"
  <2>1. task' = ToNext(task.next)
    BY <1>6 DEF TMR_Task_active
  <2>2. task'.pc = "scan"
    BY <1>2, <1>4, <2>1, ToNextFacts
  <2>3. ArmedInv'
    BY <1>2, <2>2 DEF LowInv, ArmedInv, Running
  <2>4. PICK t \in Timer : t = task.id
    BY <1>2
  <2>5. AgeOf(t)'
    BY <1>2, <1>6, <2>4, AgeStopped DEF Running
  <2> QED
    BY <1>2, <1>3, <1>4, <2>1, <2>3, <2>4, <2>5, AgeToNext
<1> QED
  BY <1>5, <1>6

(* A pass counts an active timer down. *)
LEMMA LowCount ==
    ASSUME LowInv, ~HIGH, TMR_Task_count
    PROVE  ArmedInv' /\ EntryInv' /\ AgeInv'
<1>1. IInv
  BY DEF LowInv
<1> USE <1>1, Typed, ConstFacts
<1>2. PICK t \in Timer : t = task.id /\ task.pc = "count" /\ status[t] = "active"
  BY DEF TMR_Task_count, IInv, CallInv, LowInv, ArmedInv
<1>3. /\ UNCHANGED <<status, interval, api, hw, cmp, previousTimeInTicks, event, lag, counted, age, armed>>
      /\ remaining' = [remaining EXCEPT ![t] = @ - task.ticks]
      /\ remaining[t] > task.ticks
  BY <1>2 DEF TMR_Task_count, tpm
<1>4. AgeOf(t) /\ task.next > 0 /\ InPass /\ Ahead(t)
  BY <1>2 DEF LowInv, AgeInv, InPass, Ahead
<1>5. /\ remaining'[t] = remaining[t] - task.ticks /\ remaining'[t] > 0 /\ remaining'[t] \in Nat
      /\ \A u \in Timer : u # t => remaining'[u] = remaining[u]
  BY <1>3, AgeTyped DEF IInv, ActiveCount, TypeOK
<1>6. PICK n \in 0 .. MOD - 1 : n = Least(task.next, remaining'[t]) /\ n > 0 /\ n <= task.next /\ n <= remaining'[t]
  <2>1. task.next \in Nat
    OBVIOUS
  <2>2. Least(task.next, remaining'[t]) > 0
    BY <1>4, <1>5 DEF Least
  <2> QED
    BY <1>5, <2>1, <2>2, LeastFacts
<1>7. task' = ToNext(n)
  BY <1>2, <1>6 DEF TMR_Task_count
<1>8. task'.pc = "scan" /\ task'.id = task.id + 1 /\ task'.next = n
  BY <1>2, <1>7, ToNextFacts
<1>9. ArmedInv'
  BY <1>2, <1>3, <1>8 DEF LowInv, ArmedInv, Running
<1>10. EntryInv'
  <2>1. api.pc # "idle" => api.id # t
    BY <1>2 DEF IInv, CallInv
  <2> QED
    BY <1>3, <1>5, <2>1 DEF LowInv, EntryInv
<1>11. AgeOf(t)'
  <2>1. ~Ahead(t)' /\ InPass'
    BY <1>2, <1>8, AheadNext
  <2>2. Uncounted(t)' = counted /\ Uncounted(t) = task.ticks + counted
    BY <1>3, <1>4, <2>1 DEF Uncounted
  <2>3. /\ age[t] <= interval[t] - remaining'[t] + counted + LATENCY + PASS
        /\ interval[t] - remaining'[t] + counted <= age[t] + PASS
    BY <1>2, <1>4, <1>5, <2>2, AgeTyped DEF AgeOf
  <2>4. (~hw => age[t] <= LATENCY + lag) /\ interval[t] > 0
    BY <1>2, <1>4 DEF AgeOf, Running
  <2> QED
    BY <1>2, <1>3, <1>5, <1>6, <1>8, <2>1, <2>2, <2>3, <2>4 DEF AgeOf
<1>12. \A u \in Timer \ {t} : status'[u] = status[u] /\ remaining'[u] = remaining[u]
  BY <1>3, <1>5
<1>13. AgeInv'
  BY <1>2, <1>3, <1>6, <1>7, <1>11, <1>12, AgeToNext
<1> QED
  BY <1>9, <1>10, <1>13

(* An expiry: a timer reloaded counts its new interval from this pass. *)
LEMMA LowExpire ==
    ASSUME LowInv, ~HIGH, TMR_Task_expire
    PROVE  ArmedInv' /\ EntryInv' /\ AgeInv'
<1>1. IInv
  BY DEF LowInv
<1> USE <1>1, Typed, ConstFacts
<1>2. PICK t \in Timer : t = task.id /\ task.pc = "count" /\ status[t] = "active"
  BY DEF TMR_Task_expire, IInv, CallInv, LowInv, ArmedInv
<1>3. UNCHANGED <<type, interval, api, cmp, previousTimeInTicks, event, lag, counted, armed>>
  BY DEF TMR_Task_expire
<1>4. task'.pc = "call" /\ task'.id = t /\ task'.ticks = task.ticks
  BY <1>2, CountExpire
<1>5. /\ InPass /\ InPass'
      /\ ~Ahead(t)'
      /\ \A u \in Timer : u # t => (Ahead(u)' <=> Ahead(u))
  BY <1>2, <1>4, TimerFacts DEF InPass, Ahead
<1>6. \A u \in Timer : /\ u # t => status'[u] = status[u] /\ remaining'[u] = remaining[u] /\ age'[u] = age[u]
                       /\ Running(u)' => Running(u)
  <2>1. CASE task.shot
    BY <1>2, <2>1 DEF TMR_Task_expire, Stop, Running, IInv, ActiveCount, TypeOK
  <2>2. CASE ~task.shot
    BY <1>2, <2>2 DEF TMR_Task_expire, Running, IInv, ActiveCount, TypeOK
  <2> QED
    BY <2>1, <2>2
<1>7. ArmedInv'
  BY <1>2, <1>3, <1>4, <1>6 DEF LowInv, ArmedInv, Running
<1>8. EntryInv'
  <2>1. api.pc # "idle" => api.id # t
    BY <1>2 DEF IInv, CallInv
  <2> QED
    BY <1>3, <1>6, <2>1 DEF LowInv, EntryInv
<1>9. interval[t] > 0 /\ interval[t] \in Nat /\ task.next > 0 /\ task.next \in Nat
  BY <1>2, <1>5, AgeTyped DEF LowInv, AgeInv, AgeOf, Running
<1>10. task'.next \in Nat /\ task'.next <= task.next /\ task'.next > 0 /\ (~task.shot => task'.next <= interval[t])
  <2>1. CASE task.shot
    <3>1. task' = [task EXCEPT !.pc = "call"]
      BY <2>1 DEF TMR_Task_expire
    <3> QED
      BY <1>9, <2>1, <3>1 DEF TaskState
  <2>2. CASE ~task.shot
    <3>1. task' = [task EXCEPT !.pc = "call", !.next = Least(task.next, interval[t])]
      BY <1>2, <2>2 DEF TMR_Task_expire
    <3>2. task'.next = Least(task.next, interval[t])
      BY <3>1 DEF TaskState
    <3> QED
      BY <1>9, <3>2 DEF Least
  <2> QED
    BY <2>1, <2>2
<1>11. \A u \in Timer : u # t /\ Running(u) => hw' = hw
  <2>1. CASE task.shot
    <3>1. Stop(t) /\ type' = type
      BY <1>2, <2>1 DEF TMR_Task_expire
    <3>2. (\E u \in Timer : Running(u)') => hw' = hw
      BY <3>1, StopFacts DEF IInv
    <3> QED
      BY <1>6, <3>2 DEF Running
  <2>2. CASE ~task.shot
    BY <2>2 DEF TMR_Task_expire
  <2> QED
    BY <2>1, <2>2
<1>12. ASSUME NEW u \in Timer, u # t
       PROVE  AgeOf(u)'
  <2>1. AgeOf(u)
    BY DEF LowInv, AgeInv
  <2> QED
    BY <1>3, <1>4, <1>5, <1>6, <1>10, <1>11, <1>12, <2>1, AgeKept
<1>13. AgeOf(t)'
  <2>1. CASE task.shot
    <3>1. ~Running(t)'
      BY <1>2, <2>1 DEF TMR_Task_expire, Stop, Running
    <3> QED
      BY <3>1, AgeStopped
  <2>2. CASE ~task.shot
    <3>1. status'[t] = "active" /\ remaining'[t] = interval[t] /\ age'[t] = 0 /\ interval'[t] = interval[t]
      BY <1>2, <1>3, <2>2 DEF TMR_Task_expire, IInv, ActiveCount, TypeOK
    <3>2. Uncounted(t)' = counted
      BY <1>3, <1>5 DEF Uncounted
    <3>3. lag <= PASS /\ counted <= lag
      BY <1>5 DEF IInv, ClockInv
    <3>4. /\ 0 <= interval[t] - interval[t] + counted + LATENCY + PASS
          /\ interval[t] - interval[t] + counted <= 0 + PASS
          /\ 0 <= LATENCY + lag
      BY <1>9, <3>3
    <3> QED
      BY <1>3, <1>5, <1>9, <1>10, <2>2, <3>1, <3>2, <3>4 DEF AgeOf
  <2> QED
    BY <2>1, <2>2
<1> QED
  BY <1>7, <1>8, <1>10, <1>12, <1>13 DEF AgeInv

(* A callback returns, or stops or starts a timer, and the pass goes on. *)
LEMMA LowCallback ==
    ASSUME LowInv, ~HIGH,
           callback_return \/ (\E t \in Timer : callback_stop(t)) \/ (\E u \in Use : callback_start(u))
    PROVE  ArmedInv' /\ EntryInv' /\ AgeInv'
<1>1. IInv
  BY DEF LowInv
<1> USE <1>1, Typed
<1>2. /\ task.pc = "call" /\ task.id \in Timer /\ task' = ToNext(task.next)
      /\ UNCHANGED <<api, cmp, previousTimeInTicks, lag, counted>>
  BY DEF callback_return, callback_stop, callback_start, tpm, IInv, CallInv
<1>3. /\ task'.pc = "scan" /\ task'.id = task.id + 1 /\ task'.next = task.next
      /\ task'.ticks = task.ticks
  BY <1>2, ToNextFacts
<1>4. \A u \in Timer : (Ahead(u)' <=> Ahead(u)) /\ InPass /\ InPass'
  <2>1. task.id \in Nat /\ \A u \in Timer : u \in Nat
    BY TimerFacts
  <2> QED
    BY <1>2, <1>3, <2>1 DEF Ahead, InPass
<1>5. task.next > 0 /\ task.next \in Nat /\ task.next <= task.next
  BY <1>2, ConstFacts DEF LowInv, AgeInv, InPass
<1>6. CASE callback_return
  <2>1. UNCHANGED <<status, interval, remaining, event, hw, age, armed>>
    BY <1>6 DEF callback_return, table, tpm
  <2>2. ArmedInv' /\ EntryInv'
    BY <1>2, <1>3, <2>1 DEF LowInv, ArmedInv, EntryInv, Running
  <2>3. ASSUME NEW u \in Timer
        PROVE  AgeOf(u)'
    <3>1. AgeOf(u)
      BY DEF LowInv, AgeInv
    <3> QED
      BY <1>2, <1>3, <1>4, <1>5, <2>1, <3>1, AgeKept
  <2> QED
    BY <1>3, <1>5, <2>2, <2>3 DEF AgeInv
<1>7. ASSUME NEW t \in Timer, callback_stop(t)
      PROVE  ArmedInv' /\ EntryInv' /\ AgeInv'
  <2>1. /\ Stop(t) /\ armed' = [armed EXCEPT ![t] = FALSE]
        /\ UNCHANGED <<type, interval, remaining, event>>
    BY <1>7 DEF callback_stop
  <2>2. AgeInv'
    BY <1>2, <1>3, <1>4, <2>1, AgeStop
  <2>3. status' = [status EXCEPT ![t] = IF Running(t) THEN "inactive" ELSE @]
    BY <2>1 DEF Stop
  <2>4. \A u \in Timer : Running(u)' => u # t /\ Running(u)
    BY <2>3 DEF Running
  <2>5. \A u \in Timer : u # t => armed'[u] = armed[u]
    BY <2>1 DEF IInv, ActiveCount, TypeOK
  <2>6. ArmedInv'
    BY <1>3, <2>4, <2>5 DEF LowInv, ArmedInv
  <2>7. EntryInv'
    BY <1>2, <2>1 DEF LowInv, EntryInv
  <2> QED
    BY <2>2, <2>6, <2>7
<1>8. ASSUME NEW u \in Use, callback_start(u)
      PROVE  ArmedInv' /\ EntryInv' /\ AgeInv'
  <2>1. PICK t \in Timer : t = u.id /\ t \in CbTimer
    BY <1>8, UseFacts DEF callback_start
  <2>2. /\ status' = [status EXCEPT ![t] = "ready"]
        /\ interval' = [interval EXCEPT ![t] = u.interval]
        /\ remaining' = [remaining EXCEPT ![t] = u.interval]
        /\ age' = [age EXCEPT ![t] = 0] /\ armed' = [armed EXCEPT ![t] = TRUE]
    BY <1>8, <2>1 DEF callback_start
  <2>3. /\ \A v \in Timer : v # t => /\ status'[v] = status[v] /\ interval'[v] = interval[v]
                                     /\ remaining'[v] = remaining[v] /\ age'[v] = age[v]
                                     /\ armed'[v] = armed[v]
        /\ status'[t] = "ready" /\ interval'[t] = u.interval /\ remaining'[t] = u.interval
        /\ age'[t] = 0 /\ armed'[t]
    BY <2>2 DEF IInv, ActiveCount, TypeOK
  <2>4. ArmedInv'
    BY <1>3, <2>3 DEF LowInv, ArmedInv, Running
  <2>5. EntryInv'
    <3>1. api.pc # "idle" => api.id # t
      BY <2>1 DEF IInv, CallInv
    <3> QED
      BY <1>2, <2>3, <3>1 DEF LowInv, EntryInv
  <2>6. AgeOf(t)'
    <3>1. u.interval \in Nat /\ u.interval > 0
      BY UseFacts
    <3>2. 0 <= LATENCY + lag /\ 0 <= LATENCY + PASS + counted /\ 0 <= lag
      BY ConstFacts
    <3> QED
      BY <1>2, <1>4, <2>3, <3>1, <3>2 DEF AgeOf
  <2>7. ASSUME NEW v \in Timer, v # t
        PROVE  AgeOf(v)'
    <3>1. AgeOf(v)
      BY DEF LowInv, AgeInv
    <3>2. Running(v) => hw' = hw
      BY <1>8, <2>1, <2>7, CountCallbackStart
    <3>3. Uncounted(v)' = Uncounted(v) /\ Reach(v)' = Reach(v) /\ (Running(v)' <=> Running(v))
      BY <1>2, <1>3, <1>4, <2>3, <2>7 DEF Uncounted, Reach, Running
    <3> QED
      BY <1>2, <1>3, <1>4, <2>3, <2>7, <3>1, <3>2, <3>3 DEF AgeOf, Running
  <2> QED
    BY <1>3, <1>5, <2>4, <2>5, <2>6, <2>7 DEF AgeInv
<1> QED
  BY <1>6, <1>7, <1>8

(* The end of a pass: the compare value is within reach of every timer. *)
LEMMA LowEnd ==
    ASSUME LowInv, ~HIGH, TMR_Task_end
    PROVE  ArmedInv' /\ EntryInv' /\ AgeInv'
<1>1. IInv
  BY DEF LowInv
<1> USE <1>1, Typed, ConstFacts
<1>2. /\ task.pc = "scan" /\ task.id = N /\ task' = Waiting /\ lag' = 0
      /\ UNCHANGED <<status, interval, remaining, numberOf, previousTimeInTicks, event, api, counted, age,
                     armed>>
  BY DEF TMR_Task_end
<1>3. task'.pc = "wait" /\ InPass /\ ~InPass'
  BY <1>2, TaskFacts DEF InPass
<1>4. ArmedInv' /\ EntryInv'
  BY <1>2, <1>3 DEF LowInv, ArmedInv, EntryInv, Running
<1>5. \A t \in Timer : ~Ahead(t) /\ ~Ahead(t)'
  <2>1. \A t \in Timer : ~(t > N) /\ t # N
    BY DEF Timer
  <2> QED
    BY <1>2, <1>3, <2>1 DEF Ahead
<1>6. lag <= PASS /\ counted <= lag /\ task.next > 0
  BY <1>3 DEF IInv, ClockInv, LowInv, AgeInv
<1>7. ASSUME NEW t \in Timer
      PROVE  AgeOf(t)'
  <2> USE AgeTyped
  <2>1. AgeOf(t)
    BY DEF LowInv, AgeInv
  <2>2. CASE ~Running(t)
    BY <1>2, <2>2, AgeStopped DEF Running
  <2>3. CASE Running(t)
    <3>1. numberOf[TRUE] + numberOf[FALSE] > 0
      BY <2>3, SomeRunning DEF IInv
    <3>2. cmp' = Programmed(task.next) /\ hw'
      BY <3>1 DEF TMR_Task_end
    <3>3. PICK n \in 0 .. MOD - 1 : n = task.next /\ n > 0
      BY <1>6
    <3>4. PICK reach \in 0 .. MOD - 1 : /\ reach = Diff(cmp', previousTimeInTicks)
                                        /\ reach <= n + PASS + FOUR_MS - 1
      <4>1. /\ Programmed(n) \in 0 .. MOD - 1
            /\ Diff(Programmed(n), previousTimeInTicks) <= n + PASS + FOUR_MS - 1
        BY <1>3, <3>3, ProgrammedFacts
      <4>2. Diff(Programmed(n), previousTimeInTicks) \in 0 .. MOD - 1
        BY <4>1, WrapFacts
      <4> QED
        BY <3>2, <3>3, <4>1, <4>2
    <3>5. CASE status[t] = "active"
      <4>1. n <= remaining[t] /\ remaining[t] > 0
        BY <1>3, <1>5, <2>1, <3>3, <3>5 DEF AgeOf
      <4>2. reach <= Reach(t) /\ counted <= Reach(t) + 0
        BY <1>6, <3>4, <4>1 DEF Reach
      <4>3. Uncounted(t)' = counted /\ Uncounted(t) = counted /\ Reach(t)' = Reach(t)
        BY <1>2, <1>5 DEF Uncounted, Reach
      <4>4. Diff(cmp, previousTimeInTicks)' = reach
        BY <1>2, <3>4 DEF Diff
      <4> QED
        BY <1>2, <1>3, <1>5, <2>1, <2>3, <3>5, <4>2, <4>3, <4>4 DEF AgeOf, Running
    <3>6. CASE status[t] = "ready"
      <4>1. age[t] <= PASS + 0
        BY <1>3, <1>5, <1>6, <2>1, <3>6 DEF AgeOf
      <4> QED
        BY <1>2, <1>3, <1>5, <2>1, <2>3, <3>2, <3>6, <4>1 DEF AgeOf, Running
    <3> QED
      BY <2>3, <3>5, <3>6 DEF Running
  <2> QED
    BY <2>2, <2>3
<1> QED
  BY <1>3, <1>4, <1>7 DEF AgeInv

(* A sleep: the ticks slept and not counted are taken off the timers.      *)
LEMMA LowSleep ==
    ASSUME LowInv, ~HIGH, NEW d \in 1 .. MAX_SLEEP, Sleep(d)
    PROVE  ArmedInv' /\ EntryInv' /\ AgeInv'
<1>1. IInv
  BY DEF LowInv
<1> USE <1>1, Typed, ConstFacts
<1>2. /\ task.pc = "wait" /\ ~event /\ api.pc = "idle" /\ numberOf[FALSE] = 0
      /\ event' /\ hw' /\ counted' = 0 /\ lag' = 0
      /\ UNCHANGED <<status, interval, task, api, armed>>
  BY DEF Sleep
<1>3. ArmedInv' /\ EntryInv'
  BY <1>2 DEF LowInv, ArmedInv, EntryInv, Running
<1>4. ~InPass /\ ~InPass' /\ \A t \in Timer : ~Ahead(t) /\ ~Ahead(t)'
  BY <1>2 DEF InPass, Ahead
<1>5. d \in Nat
  BY TimersAssumption
<1>6. ASSUME NEW t \in Timer
      PROVE  AgeOf(t)'
  <2> USE AgeTyped
  <2>1. AgeOf(t)
    BY DEF LowInv, AgeInv
  <2>2. CASE ~Running(t)
    BY <1>2, <2>2, AgeStopped DEF Running
  <2>3. CASE Running(t)
    <3>1. status[t] = "active"
      BY <1>2, <1>4, <2>3 DEF Running, IInv, ReadyInv
    <3>2. type[t].lp
      <4>1. PICK lp \in BOOLEAN : type[t].lp = lp
        BY UseFacts DEF IInv, ActiveCount, TypeOK
      <4>2. t \in Kind(lp) /\ Kind(lp) \in SUBSET Timer
        BY <2>3, <4>1 DEF Kind
      <4>3. numberOf[lp] = Cardinality(Kind(lp))
        BY DEF IInv, ActiveCount, Kind
      <4>4. numberOf[lp] # 0
        BY <4>2, <4>3, KindEmpty
      <4> QED
        BY <1>2, <4>1, <4>4
    <3>3. PICK reach \in 0 .. MOD - 1 : /\ reach = Diff(cmp, previousTimeInTicks)
                                        /\ counted < reach /\ reach <= Reach(t)
      <4>1. Diff(cmp, previousTimeInTicks) \in 0 .. MOD - 1
        BY WrapFacts
      <4> QED
        BY <1>2, <1>4, <2>1, <3>1, <4>1 DEF AgeOf, IInv, CompareInv
    <3>4. Diff(cnt, previousTimeInTicks) = counted
      <4>1. counted \in 0 .. MOD - 1 /\ counted < MOD
        BY <3>3
      <4>2. cnt = (previousTimeInTicks + counted) % MOD
        BY <4>1, Zenon DEF IInv, ClockInv
      <4> QED
        BY <4>1, <4>2, DiffCount
    <3>5. d + counted <= remaining[t]
      BY <2>3, <3>4 DEF Sleep
    <3>6. remaining'[t] = remaining[t] - (counted + d)
      <4>1. remaining'[t] = Synced(t, counted + d)
        BY <3>4 DEF Sleep
      <4> QED
        BY <1>5, <3>1, <3>2, <3>5, <4>1 DEF Synced
    <3>7. Uncounted(t) = counted /\ Uncounted(t)' = 0
      BY <1>2, <1>4 DEF Uncounted
    <3>8. age[t] <= interval[t] - remaining[t] + counted + LATENCY + PASS
      BY <2>1, <3>1, <3>7 DEF AgeOf
    <3>9. age'[t] = age[t] + d
      <4>1. Latest(t) \in Nat /\ age[t] + d <= Latest(t)
        BY <1>5, <3>5, <3>8 DEF Latest
      <4>2. age'[t] = Least(age[t] + d, Latest(t) + 1)
        BY <2>3 DEF Sleep
      <4> QED
        BY <1>5, <4>1, <4>2 DEF Least
    <3>10. /\ age'[t] <= interval[t] - remaining'[t] + 0 + LATENCY + PASS
           /\ interval[t] - remaining'[t] + 0 <= age'[t] + PASS
      BY <1>5, <2>1, <3>1, <3>5, <3>6, <3>7, <3>8, <3>9 DEF AgeOf
    <3>11. 0 <= Reach(t)' + 0
      BY <1>5, <3>5, <3>6 DEF Reach
    <3>12. interval[t] > 0
      BY <2>1, <2>3 DEF AgeOf
    <3> QED
      BY <1>2, <1>4, <3>1, <3>7, <3>10, <3>11, <3>12 DEF AgeOf
  <2> QED
    BY <2>2, <2>3
<1> QED
  BY <1>3, <1>4, <1>6 DEF AgeInv

(* The second invariant holds initially. *)
LEMMA LowInit == Init => LowInv
<1> SUFFICES ASSUME Init
             PROVE  LowInv
  OBVIOUS
<1>1. \A t \in Timer : ~Running(t)
  BY DEF Init, Running
<1>2. task.pc = "wait" /\ api.pc = "idle"
  BY TaskFacts, ApiFacts DEF Init
<1>3. ArmedInv /\ EntryInv
  BY <1>1, <1>2 DEF ArmedInv, EntryInv
<1>4. AgeInv
  BY <1>1, <1>2 DEF AgeInv, AgeOf, Running, InPass
<1> QED
  BY <1>3, <1>4, InitInv DEF LowInv

(* Is inductive when the callers have the lower priority. *)
LEMMA LowNext ==
    ASSUME ~HIGH
    PROVE  LowInv /\ [Next]_vars => LowInv'
<1> SUFFICES ASSUME LowInv, [Next]_vars
             PROVE  ArmedInv' /\ EntryInv' /\ AgeInv'
  BY NextInv DEF LowInv
<1>1. CASE Tick
  BY <1>1, LowTick
<1>2. CASE TMR_AllocateTimer \/ TMR_MarkTimerFree \/ TMR_WriteEntry
  BY <1>2, LowCall
<1>3. CASE TMR_EnableTimer
  BY <1>3, LowEnable
<1>4. CASE \/ \E t \in Timer : TMR_StopTimer(t) \/ TMR_FreeTimer(t)
           \/ \E u \in Use : TMR_StartTimer(u)
  BY <1>4, LowApi
<1>5. CASE callback_return \/ (\E t \in Timer : callback_stop(t)) \/ (\E u \in Use : callback_start(u))
  BY <1>5, LowCallback
<1>6. CASE TMR_Task_begin
  BY <1>6, LowBegin
<1>7. CASE TMR_Task_ready
  BY <1>7, LowReady
<1>8. CASE TMR_Task_active
  BY <1>8, LowActive
<1>9. CASE TMR_Task_count
  BY <1>9, LowCount
<1>10. CASE TMR_Task_expire
  BY <1>10, LowExpire
<1>11. CASE TMR_Task_end
  BY <1>11, LowEnd
<1>12. CASE \E d \in 1 .. MAX_SLEEP : Sleep(d)
  BY <1>12, LowSleep
<1>13. CASE UNCHANGED vars
  <2>1. ArmedInv' /\ EntryInv'
    BY <1>13 DEF vars, table, LowInv, ArmedInv, EntryInv, Running
  <2>2. AgeInv'
    BY <1>13
       DEF vars, table, tpm, LowInv, AgeInv, AgeOf, Uncounted, Reach, Ahead, InPass, Running, Diff
  <2> QED
    BY <2>1, <2>2
<1> QED
  BY <1>1, <1>2, <1>3, <1>4, <1>5, <1>6, <1>7, <1>8, <1>9, <1>10, <1>11, <1>12, <1>13 DEF Next

(* So holds. *)
LEMMA LowInvariance ==
    ASSUME ~HIGH
    PROVE  Spec => []LowInv
<1>1. LowInv /\ [Next]_vars => LowInv'
  BY LowNext
<1> QED
  BY <1>1, LowInit, PTL DEF Spec

(* With a calling task of lower priority than TMR_Task, no callback runs   *)
(* for a timer that was stopped, as the comment of TMR_StopTimer promises; *)
(* with one of higher priority MCTimersStop shows that one can.            *)
THEOREM NoCallbackAfterStopHolds ==
    ASSUME ~HIGH
    PROVE  Spec => []NoCallbackAfterStop
<1>1. LowInv => NoCallbackAfterStop
  BY DEF LowInv, ArmedInv, NoCallbackAfterStop
<1>2. Spec => []LowInv
  BY LowInvariance
<1> QED
  BY <1>1, <1>2, PTL

(* A running timer expires within its interval, two latencies, three       *)
(* passes and the 4 ms margin of the compare value, whatever the other     *)
(* timers do and however long the MCU sleeps.                              *)
THEOREM OnTimeHolds ==
    ASSUME ~HIGH
    PROVE  Spec => []OnTime
<1>1. LowInv => OnTime
  BY AgeBound DEF OnTime
<1>2. Spec => []LowInv
  BY LowInvariance
<1> QED
  BY <1>1, <1>2, PTL

(* A timer expires no earlier than one pass before its interval is over. *)
THEOREM NotEarlyHolds ==
    ASSUME ~HIGH
    PROVE  Spec => NotEarly
<1>1. LowInv /\ [Next]_vars => [\A t \in Timer : TMR_Task_expire /\ task.id = t => age[t] + PASS >= interval[t]]_vars
  <2> SUFFICES ASSUME LowInv, NEW t \in Timer, TMR_Task_expire, task.id = t
               PROVE  age[t] + PASS >= interval[t]
    OBVIOUS
  <2>1. IInv
    BY DEF LowInv
  <2>2. task.pc = "count" /\ remaining[t] <= task.ticks
    BY DEF TMR_Task_expire
  <2>3. status[t] = "active" /\ Ahead(t) /\ AgeOf(t)
    BY <2>2 DEF LowInv, ArmedInv, AgeInv, Ahead, InPass
  <2>4. Uncounted(t) = task.ticks + counted
    BY <2>3 DEF Uncounted
  <2>5. interval[t] - remaining[t] + (task.ticks + counted) <= age[t] + PASS
    BY <2>3, <2>4 DEF AgeOf
  <2> QED
    BY <2>1, <2>2, <2>5, Typed, AgeTyped, ConstFacts
<1>2. Spec => []LowInv
  BY LowInvariance
<1> QED
  BY <1>1, <1>2, PTL DEF Spec, NotEarly
=============================================================================
