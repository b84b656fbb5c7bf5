------------------------------- MODULE Mcmgr -------------------------------
(***************************************************************************)
(* The Multicore Manager on the two cores of the RV32M1.  Core 0 (master)  *)
(* starts and stops core 1 (remote) and hands it one word of startup data, *)
(* in two halves that the remote's MU interrupt asks for one by one.       *)
(* Events of one direction share one MU register.  MCMGR_TriggerEvent      *)
(* waits until the register is empty, in a task and in an interrupt alike; *)
(* MCMGR_TriggerEventForce, used by RPMsg-Lite, does not.                  *)
(*                                                                         *)
(* Each core has one task that calls the API, in the order that mcmgr.h    *)
(* asks for, and no task runs while its core is in the interrupt.  Calls   *)
(* that fail on a bad core number, address or pointer change nothing and   *)
(* have no action.  The callbacks that applications register for the       *)
(* other events are external and leave this state alone.                   *)
(***************************************************************************)
EXTENDS Naturals, FiniteSets

CONSTANTS
    DATA,           \* startup data: pairs <<low half, high half>>
    MODES,          \* start modes that the application uses
    RETRY,          \* whether it calls MCMGR_StartCore on a started core
    STARTS, STOPS,  \* bounds on its calls of MCMGR_StartCore and MCMGR_StopCore
    KICKS,          \* bound on the RPMsg kicks of each core
    APP_EVENTS,     \* bound on the application events of each core
    EARLY_EVENTS,   \* whether the master sends some before core 1 is started
    RESET_KEEPS,    \* whether MU words may survive a reset of core 1
    NoData, NoWord

ASSUME McmgrAssumption ==
    /\ MODES \subseteq {"sync", "async"} /\ MODES # {}
    /\ RETRY \in BOOLEAN /\ EARLY_EVENTS \in BOOLEAN
    /\ STARTS \in Nat /\ STOPS \in Nat /\ KICKS \in Nat /\ APP_EVENTS \in Nat
    /\ RESET_KEEPS \subseteq BOOLEAN /\ RESET_KEEPS # {}

Core == {"master", "remote"}
Other(c) == IF c = "master" THEN "remote" ELSE "master"

(* mcmgr_core_state_t and the events, with the data they carry. *)
CoreState == {"Reset", "GettingLow", "GettingHigh", "Running"}
Low == {d[1] : d \in DATA}
High == {d[2] : d \in DATA}
Half == Low \union High \union {0}
Word == [type : {"RemoteCoreUp", "RemoteRPMsg", "RemoteApplication"}, data : {0}]
          \union [type : {"StartupData"}, data : Half]
          \union [type : {"FeedStartupData"}, data : CoreState]
Event(type, data) == [type |-> type, data |-> data]

ASSUME DataAssumption ==
    /\ DATA \subseteq Low \X High
    /\ NoData \notin Half \X Half
    /\ NoWord \notin Word

VARIABLES
    ctx,        \* s_mcmgrCoresContext[1], in the memory of each core
    mu,         \* MU word on its way to each core
    ie,         \* whether mcmgr_late_init_internal enabled the interrupt
    isr,        \* interrupt context of each core
    task,       \* context of the task of each core
    rdip,       \* core 1 out of reset (MU_SR_RDIP)
    raip,       \* reset-assert interrupt pending at the master (MU_SR_RAIP)
    link,       \* whether RPMsg-Lite of core 1 has seen a kick of the master
    count,      \* calls made so far, for the bounds
    started,    \* the data of the StartCore call that started core 1
    got         \* what MCMGR_GetStartupData has returned on core 1

vars == <<ctx, mu, ie, isr, task, rdip, raip, link, count, started, got>>

NoIsr == [pc |-> "off", word |-> NoWord, state |-> "Reset"]
At(pc) == [pc |-> pc, word |-> NoWord, next |-> pc]
ResetContext == [state |-> "Reset", data |-> <<0, 0>>]

Init ==
    /\ ctx = [c \in Core |-> ResetContext]
    /\ mu = [c \in Core |-> NoWord]
    /\ ie = [c \in Core |-> FALSE]
    /\ isr = [c \in Core |-> NoIsr]
    /\ task = [c \in Core |-> IF c = "master" THEN At("start") ELSE At("held")]
    /\ rdip = FALSE
    /\ raip = FALSE
    /\ link = FALSE
    /\ count = [starts |-> 0, stops |-> 0, kicks |-> [c \in Core |-> 0], app |-> [c \in Core |-> 0]]
    /\ started = NoData
    /\ got = NoData

-----------------------------------------------------------------------------
Runs(c, pc) == task[c].pc = pc /\ isr[c].pc = "off"
Goto(c, pc) == task' = [task EXCEPT ![c] = At(pc)]

(* MCMGR_TriggerEvent in a task: the call that MU_SendMsg continues. *)
MCMGR_TriggerEvent(c, w, next) ==
    task' = [task EXCEPT ![c] = [pc |-> "wait", word |-> w, next |-> next]]

(* Mutant: MU_SendMsg does not wait. *)
MU_SendMsg_nowait(c) ==
    /\ Runs(c, "wait")
    /\ task' = [task EXCEPT ![c].pc = "write"]
    /\ UNCHANGED <<ctx, mu, ie, isr, rdip, raip, link, count, started, got>>

(* MU_SendMsg: the wait for an empty register, and the write. *)
MU_SendMsg_wait(c) ==
    /\ Runs(c, "wait")
    /\ mu[Other(c)] = NoWord
    /\ task' = [task EXCEPT ![c].pc = "write"]
    /\ UNCHANGED <<ctx, mu, ie, isr, rdip, raip, link, count, started, got>>

MU_SendMsg_write(c) ==
    /\ Runs(c, "write")
    /\ mu' = [mu EXCEPT ![Other(c)] = task[c].word]
    /\ Goto(c, task[c].next)
    /\ UNCHANGED <<ctx, ie, isr, rdip, raip, link, count, started, got>>

(* MCMGR_EarlyInit announces the core; it does not clear the MU. *)
MCMGR_EarlyInit(c) ==
    /\ Runs(c, "start")
    /\ MCMGR_TriggerEvent(c, Event("RemoteCoreUp", 0), "early")
    /\ UNCHANGED <<ctx, mu, ie, isr, rdip, raip, link, count, started, got>>

(* Mutant: the interrupt stays disabled. *)
MCMGR_Init_masked(c) ==
    /\ Runs(c, "early")
    /\ Goto(c, "idle")
    /\ UNCHANGED <<ctx, mu, ie, isr, rdip, raip, link, count, started, got>>

mcmgr_late_init_internal(c) == ie' = [ie EXCEPT ![c] = TRUE]

(* MCMGR_Init registers both handlers, then enables the interrupt. *)
MCMGR_Init(c) ==
    /\ Runs(c, "early")
    /\ mcmgr_late_init_internal(c)
    /\ Goto(c, "idle")
    /\ UNCHANGED <<ctx, mu, isr, rdip, raip, link, count, started, got>>

(* MU_BootCoreB returns when core 1 is out of reset. *)
MU_BootCoreB == rdip' = TRUE

(* mcmgr_start_core_internal refuses a core that is out of reset already.  *)
mcmgr_start_core_internal == ~rdip /\ MU_BootCoreB

(* MCMGR_StartCore: the data is stored before the core is found stopped or *)
(* started; a stopped core boots and initialises its memory.               *)
MCMGR_StartCore(data, mode) ==
    /\ Runs("master", "idle")
    /\ count.starts < STARTS
    /\ count' = [count EXCEPT !.starts = @ + 1]
    /\ \/ /\ mcmgr_start_core_internal
          /\ ctx' = [ctx EXCEPT !["master"].data = data, !["remote"] = ResetContext]
          /\ task' = [task EXCEPT !["master"] = IF mode = "sync" THEN At("sync") ELSE At("idle"),
                                  !["remote"] = At("start")]
          /\ started' = data
       \/ /\ rdip /\ RETRY
          /\ ctx' = [ctx EXCEPT !["master"].data = data]
          /\ UNCHANGED <<rdip, task, started>>
    /\ UNCHANGED <<mu, ie, isr, raip, link, got>>

(* Mutant: the loop ends when the exchange begins. *)
MCMGR_StartCore_sync_early ==
    /\ Runs("master", "sync")
    /\ ctx["master"].state # "Reset"
    /\ Goto("master", "idle")
    /\ UNCHANGED <<ctx, mu, ie, isr, rdip, raip, link, count, started, got>>

(* The loop that ends a synchronous start. *)
MCMGR_StartCore_sync ==
    /\ Runs("master", "sync")
    /\ ctx["master"].state = "Running"
    /\ Goto("master", "idle")
    /\ UNCHANGED <<ctx, mu, ie, isr, rdip, raip, link, count, started, got>>

(* MU_HardwareResetOtherCore resets core 1 wherever it is and holds it.    *)
(* Whether the MU words survive is up to the MU.                           *)
MU_HardwareResetOtherCore ==
    /\ rdip' = FALSE
    /\ raip' = TRUE
    /\ task' = [task EXCEPT !["remote"] = At("held")]
    /\ isr' = [isr EXCEPT !["remote"] = NoIsr]
    /\ ie' = [ie EXCEPT !["remote"] = FALSE]
    /\ \E keep \in RESET_KEEPS : mu' = IF keep THEN mu ELSE [c \in Core |-> NoWord]

mcmgr_stop_core_internal == rdip /\ MU_HardwareResetOtherCore

(* MCMGR_StopCore leaves the master's context of core 1 alone.  The core   *)
(* is stopped only if a call of MCMGR_StartCore is left to the bound.      *)
MCMGR_StopCore ==
    /\ Runs("master", "idle")
    /\ count.stops < STOPS /\ count.starts < STARTS
    /\ count' = [count EXCEPT !.stops = @ + 1]
    /\ mcmgr_stop_core_internal
    /\ started' = NoData
    /\ got' = NoData
    /\ link' = FALSE
    /\ UNCHANGED ctx

(* Mutant: every call before the data is complete asks for the low half. *)
MCMGR_GetStartupData_again ==
    /\ Runs("remote", "idle") /\ got = NoData
    /\ IF ctx["remote"].state # "Running"
       THEN MCMGR_TriggerEvent("remote", Event("FeedStartupData", "GettingLow"), "read")
       ELSE Goto("remote", "read")
    /\ UNCHANGED <<ctx, mu, ie, isr, rdip, raip, link, count, started, got>>

(* MCMGR_GetStartupData, called until it succeeds: the first call starts   *)
(* the exchange, and every call ends with a look at the state.             *)
MCMGR_GetStartupData ==
    /\ Runs("remote", "idle") /\ got = NoData
    /\ \/ /\ ctx["remote"].state = "Reset"
          /\ ctx' = [ctx EXCEPT !["remote"].state = "GettingLow"]
          /\ MCMGR_TriggerEvent("remote", Event("FeedStartupData", "GettingLow"), "read")
       \/ /\ ctx["remote"].state # "Reset"
          /\ Goto("remote", "read")
          /\ UNCHANGED ctx
    /\ UNCHANGED <<mu, ie, isr, rdip, raip, link, count, started, got>>

(* Mutant: the data is returned in any state. *)
mcmgr_get_startup_data_early ==
    /\ Runs("remote", "read")
    /\ got' = ctx["remote"].data
    /\ Goto("remote", "idle")
    /\ UNCHANGED <<ctx, mu, ie, isr, rdip, raip, link, count, started>>

mcmgr_get_startup_data_internal ==
    /\ Runs("remote", "read")
    /\ got' = IF ctx["remote"].state = "Running" THEN ctx["remote"].data ELSE NoData
    /\ Goto("remote", "idle")
    /\ UNCHANGED <<ctx, mu, ie, isr, rdip, raip, link, count, started>>

(* A core in its application: the master after MCMGR_Init, the remote once *)
(* it has its startup data.                                                *)
InApplication(c) == Runs(c, "idle") /\ (c = "remote" => got # NoData)

(* MCMGR_TriggerEventForce: the register is written as it is. *)
MCMGR_TriggerEventForce(c, w) == mu' = [mu EXCEPT ![Other(c)] = w]

(* platform_notify of RPMsg-Lite.  The remote sends only on a link that a  *)
(* kick of the master has brought up.                                      *)
platform_notify(c) ==
    /\ InApplication(c)
    /\ c = "remote" => link
    /\ count.kicks[c] < KICKS
    /\ count' = [count EXCEPT !.kicks[c] = @ + 1]
    /\ MCMGR_TriggerEventForce(c, Event("RemoteRPMsg", 0))
    /\ UNCHANGED <<ctx, ie, isr, task, rdip, raip, link, started, got>>

(* An event of the application. *)
application_event(c) ==
    /\ InApplication(c)
    /\ rdip \/ EARLY_EVENTS
    /\ count.app[c] < APP_EVENTS
    /\ count' = [count EXCEPT !.app[c] = @ + 1]
    /\ MCMGR_TriggerEvent(c, Event("RemoteApplication", 0), "idle")
    /\ UNCHANGED <<ctx, mu, ie, isr, rdip, raip, link, started, got>>

-----------------------------------------------------------------------------
(* mu_isr: a reset of the other core goes first; its callback is external. *)
mu_isr_reset ==
    /\ ie["master"] /\ isr["master"].pc = "off"
    /\ raip
    /\ raip' = FALSE
    /\ UNCHANGED <<ctx, mu, ie, isr, task, rdip, link, count, started, got>>

(* Mutant: the high half is not asked for. *)
MCMGR_StartupDataEventHandler_silent(c, chunk) ==
    /\ ctx' = [ctx EXCEPT ![c] = [state |-> "GettingHigh", data |-> <<chunk, 0>>]]
    /\ UNCHANGED isr

(* Mutant: the high half is added to the low one without the shift. *)
MCMGR_StartupDataEventHandler_unshifted(c, chunk) ==
    LET high == ctx[c].state = "GettingHigh"
        state == IF high THEN "Running" ELSE "GettingHigh"
    IN
    /\ ctx' = [ctx EXCEPT ![c] = [state |-> state,
                                  data |-> IF high THEN <<@.data[1] + chunk, 0>> ELSE <<chunk, 0>>]]
    /\ isr' = [isr EXCEPT ![c] = [pc |-> "send", word |-> Event("FeedStartupData", state),
                                  state |-> state]]

(* MCMGR_StartupDataEventHandler, up to its MCMGR_TriggerEvent. *)
MCMGR_StartupDataEventHandler(c, chunk) ==
    LET high == ctx[c].state = "GettingHigh"
        state == IF high THEN "Running" ELSE "GettingHigh"
    IN
    /\ ctx' = [ctx EXCEPT ![c] = [state |-> state,
                                  data |-> IF high THEN <<@.data[1], chunk>> ELSE <<chunk, 0>>]]
    /\ isr' = [isr EXCEPT ![c] = [pc |-> "send", word |-> Event("FeedStartupData", state),
                                  state |-> state]]

(* Mutant: the confirmation of the remote is not recorded. *)
MCMGR_FeedStartupDataEventHandler_deaf(c, chunk) ==
    \/ /\ chunk = "Running"
       /\ UNCHANGED <<ctx, isr>>
    \/ /\ chunk # "Running"
       /\ isr' = [isr EXCEPT ![c] =
                    [pc |-> "send", state |-> chunk,
                     word |-> Event("StartupData", ctx[c].data[IF chunk = "GettingHigh" THEN 2 ELSE 1])]]
       /\ UNCHANGED ctx

(* MCMGR_FeedStartupDataEventHandler: the half is sent before the state is *)
(* recorded.                                                               *)
MCMGR_FeedStartupDataEventHandler(c, chunk) ==
    \/ /\ chunk = "Running"
       /\ ctx' = [ctx EXCEPT ![c].state = chunk]
       /\ UNCHANGED isr
    \/ /\ chunk # "Running"
       /\ isr' = [isr EXCEPT ![c] =
                    [pc |-> "send", state |-> chunk,
                     word |-> Event("StartupData", ctx[c].data[IF chunk = "GettingHigh" THEN 2 ELSE 1])]]
       /\ UNCHANGED ctx

(* mcmgr_mu_channel_handler: the word is read and dispatched. *)
mcmgr_mu_channel_handler(c) ==
    /\ ie[c] /\ isr[c].pc = "off"
    /\ c = "master" => ~raip
    /\ mu[c] # NoWord
    /\ mu' = [mu EXCEPT ![c] = NoWord]
    /\ \/ mu[c].type = "StartupData" /\ MCMGR_StartupDataEventHandler(c, mu[c].data)
       \/ mu[c].type = "FeedStartupData" /\ MCMGR_FeedStartupDataEventHandler(c, mu[c].data)
       \/ mu[c].type \notin {"StartupData", "FeedStartupData"} /\ UNCHANGED <<ctx, isr>>
    /\ link' = (link \/ (c = "remote" /\ mu[c].type = "RemoteRPMsg" /\ got # NoData))
    /\ UNCHANGED <<ie, task, rdip, raip, count, started, got>>

(* MU_SendMsg in the interrupt.  It ends the remote's handler; the         *)
(* master's still has to record the state.                                 *)
isr_MU_SendMsg(c) ==
    /\ isr[c].pc = "send"
    /\ mu[Other(c)] = NoWord
    /\ mu' = [mu EXCEPT ![Other(c)] = isr[c].word]
    /\ isr' = [isr EXCEPT ![c] = IF isr[c].word.type = "StartupData"
                                 THEN [@ EXCEPT !.pc = "record"] ELSE NoIsr]
    /\ UNCHANGED <<ctx, ie, task, rdip, raip, link, count, started, got>>

isr_record(c) ==
    /\ isr[c].pc = "record"
    /\ ctx' = [ctx EXCEPT ![c].state = isr[c].state]
    /\ isr' = [isr EXCEPT ![c] = NoIsr]
    /\ UNCHANGED <<mu, ie, task, rdip, raip, link, count, started, got>>

-----------------------------------------------------------------------------
(* Everything within the bounds has happened and been handled. *)
Quiescent ==
    /\ \A c \in Core : Runs(c, "idle") /\ mu[c] = NoWord
    /\ got # NoData /\ ~raip
    /\ UNCHANGED vars

IsrStep(c) ==
    \/ mcmgr_mu_channel_handler(c)
    \/ isr_MU_SendMsg(c)
    \/ isr_record(c)

(* The steps of a task that the core takes by itself. *)
TaskStep(c) ==
    \/ MU_SendMsg_wait(c)
    \/ MU_SendMsg_write(c)
    \/ MCMGR_EarlyInit(c)
    \/ MCMGR_Init(c)

RemoteTaskStep ==
    \/ MCMGR_GetStartupData
    \/ mcmgr_get_startup_data_internal

Next ==
    \/ \E c \in Core : IsrStep(c) \/ TaskStep(c)
    \/ mu_isr_reset
    \/ RemoteTaskStep
    \/ MCMGR_StartCore_sync
    \/ \E data \in DATA, mode \in MODES : MCMGR_StartCore(data, mode)
    \/ MCMGR_StopCore
    \/ \E c \in Core : platform_notify(c) \/ application_event(c)
    \/ Quiescent

Spec == Init /\ [][Next]_vars

(***************************************************************************)
(* Fairness: the cores run and take pending interrupts, and the remote     *)
(* application asks for its startup data until it has it.  Nothing obliges *)
(* the master to start or to stop the core, or anyone to send an event.    *)
(***************************************************************************)
Fairness ==
    /\ \A c \in Core : WF_vars(IsrStep(c)) /\ WF_vars(TaskStep(c))
    /\ WF_vars(mu_isr_reset)
    /\ WF_vars(RemoteTaskStep)
    /\ WF_vars(MCMGR_StartCore_sync)

FairSpec == Spec /\ Fairness

-----------------------------------------------------------------------------
Context == [state : CoreState, data : Half \X Half]
IsrContext == [pc : {"off", "send", "record"}, word : Word \union {NoWord}, state : CoreState]
Label == {"held", "start", "early", "idle", "sync", "read"}
TaskContext == [pc : Label \union {"wait", "write"}, word : Word \union {NoWord}, next : Label]
Calls == [starts : 0 .. STARTS, stops : 0 .. STOPS, kicks : [Core -> 0 .. KICKS],
          app : [Core -> 0 .. APP_EVENTS]]

(* Types of the contexts, the words and the counters. *)
TypeOK ==
    /\ ctx \in [Core -> Context]
    /\ mu \in [Core -> Word \union {NoWord}]
    /\ ie \in [Core -> BOOLEAN]
    /\ isr \in [Core -> IsrContext]
    /\ task \in [Core -> TaskContext]
    /\ rdip \in BOOLEAN /\ raip \in BOOLEAN /\ link \in BOOLEAN
    /\ count \in Calls
    /\ started \in DATA \union {NoData}
    /\ got \in (Half \X Half) \union {NoData}

(* "Data which can be get by the other core on startup" (mcmgr.h:167): a   *)
(* successful MCMGR_GetStartupData returns the data of the call that       *)
(* started the core, both halves of it.                                    *)
StartupDataIntact == got # NoData => got = started

(* The words of the startup exchange that are under way, wherever they are. *)
Handshaking(c) ==
    (IF mu[c] # NoWord /\ mu[c].type \in {"StartupData", "FeedStartupData"} THEN {"mu"} ELSE {})
      \union (IF isr[c].pc = "send" THEN {"isr"} ELSE {})
      \union (IF task[c].pc \in {"wait", "write"} /\ task[c].word.type = "FeedStartupData"
              THEN {"task"} ELSE {})

(* The exchange is in lock step: there is never more than one word of it   *)
(* in the registers, the interrupts and the tasks of both cores together.  *)
(* The waiting loop of MU_SendMsg inside the interrupt rests on this.      *)
OneHandshakeWord ==
    Cardinality({p \in Core \X {"mu", "isr", "task"} : p[2] \in Handshaking(p[1])}) <= 1

(* "wait until previously sent data is processed"                          *)
(* (mcmgr_internal_core_api_rv32m1.c:282-283): no event but the forced one *)
(* ever takes the place of a word that the other core has not read.        *)
NoUnreadWordOverwritten ==
    [][\A c \in Core : mu[c] # NoWord =>
          \/ mu'[c] \in {mu[c], NoWord}
          \/ mu'[c].type = "RemoteRPMsg"]_vars

(* "Wait until the second core reads and confirms the startup data"        *)
(* (mcmgr.c:142): a synchronous start returns when the core that it        *)
(* started has the data.                                                   *)
SyncStartConfirmed ==
    [][MCMGR_StartCore_sync => ctx["remote"] = [state |-> "Running", data |-> started]]_vars

(* A started core gets its startup data unless it is stopped. *)
StartupDataArrives == rdip ~> (got # NoData \/ ~rdip)

(* "After calling this function, MCMGR_TriggerEvent() and/or MCMGR_Init()   *)
(* can be called" (mcmgr.h:143, on MCMGR_EarlyInit): a call of             *)
(* MCMGR_TriggerEvent returns.                                             *)
TriggerEventReturns == \A c \in Core : task[c].pc = "wait" ~> task[c].pc # "wait"

(* A synchronous start returns. *)
StartReturns == task["master"].pc = "sync" ~> task["master"].pc = "idle"
=============================================================================
