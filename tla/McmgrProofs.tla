---------------------------- MODULE McmgrProofs ----------------------------
(***************************************************************************)
(* Proofs about the Multicore Manager, for every set of startup data and   *)
(* every bound on the calls.                                               *)
(*                                                                         *)
(* The exchange of the startup data is a single word that moves through    *)
(* five places: the task of the remote that asks for the low half, the MU  *)
(* register of the master, the interrupt of the master, the MU register of *)
(* the remote, the interrupt of the remote.  The inductive invariant says  *)
(* that at most one of the places is taken, ties the word found there to   *)
(* the state of the remote, and ties the halves received so far to the     *)
(* data of the call that started the core.                                 *)
(***************************************************************************)
EXTENDS Mcmgr, FiniteSetTheorems, TLAPS

State == ctx["remote"].state

(* The five places of the startup word. *)
Sends(c) == task[c].pc \in {"wait", "write"}
InTask == Sends("remote") /\ task["remote"].word.type = "FeedStartupData"
InMuMaster == mu["master"] # NoWord /\ mu["master"].type = "FeedStartupData"
InIsrMaster == isr["master"].pc = "send"
InMuRemote == mu["remote"] # NoWord /\ mu["remote"].type = "StartupData"
InIsrRemote == isr["remote"].pc = "send"

(* Which context sends which word, and where a sending task goes on. *)
WordInv ==
    /\ mu["master"] # NoWord => mu["master"].type # "StartupData"
    /\ mu["remote"] # NoWord => mu["remote"].type # "FeedStartupData"
    /\ isr["master"].pc # "off" => isr["master"].word \in [type : {"StartupData"}, data : Half]
    /\ isr["remote"].pc # "record"
    /\ isr["remote"].pc = "send" => isr["remote"].word \in [type : {"FeedStartupData"}, data : CoreState]
    /\ \A c \in Core : Sends(c) =>
          \/ task[c].word = Event("RemoteCoreUp", 0) /\ task[c].next = "early"
          \/ task[c].word = Event("RemoteApplication", 0) /\ task[c].next = "idle"
          \/ task[c].word = Event("FeedStartupData", "GettingLow") /\ task[c].next = "read" /\ c = "remote"

(* The tasks: what the remote does before, during and after the exchange. *)
TaskInv ==
    /\ rdip <=> task["remote"].pc # "held"
    /\ task["remote"].pc # "sync" /\ task["master"].pc # "held"
    /\ ~rdip => isr["remote"].pc = "off" /\ ~ie["remote"]
    /\ task["remote"].pc \in {"start", "early"} => State = "Reset"
    /\ Sends("remote") /\ task["remote"].next = "early" => State = "Reset"
    /\ Sends("remote") /\ task["remote"].next = "idle" => got # NoData
    /\ task["master"].pc \in {"start", "early"} => ~rdip
    /\ Sends("master") /\ task["master"].next = "early" => ~rdip
    /\ got # NoData => rdip /\ State = "Running" /\ isr["remote"].pc = "off"

(* One place is taken at most. *)
PlaceInv ==
    /\ InTask => ~InMuMaster /\ ~InIsrMaster /\ ~InMuRemote /\ ~InIsrRemote
    /\ InMuMaster => ~InIsrMaster /\ ~InMuRemote /\ ~InIsrRemote
    /\ InIsrMaster => ~InMuRemote /\ ~InIsrRemote
    /\ InMuRemote => ~InIsrRemote

(* The word agrees with the state of the remote. *)
PhaseInv ==
    /\ InTask => State = "GettingLow"
    /\ InMuMaster => rdip /\ State # "Reset" /\ mu["master"].data = State
    /\ InIsrMaster => rdip /\ State = isr["master"].state
    /\ isr["master"].pc # "off" => isr["master"].state \in {"GettingLow", "GettingHigh"}
    /\ InMuRemote => rdip /\ State \in {"GettingLow", "GettingHigh"}
    /\ InIsrRemote => /\ State \in {"GettingHigh", "Running"}
                      /\ isr["remote"].word.data = State

(* The data that the master feeds does not change during the exchange. *)
Fixed == ~RETRY \/ task["master"].pc = "sync"

NextHalf == IF State = "GettingHigh" THEN started[2] ELSE started[1]

(* What the remote has received so far are halves of the startup data. *)
DataInv ==
    /\ rdip /\ Fixed =>
          /\ started \in DATA /\ ctx["master"].data = started
          /\ InIsrMaster => isr["master"].word.data = NextHalf
          /\ InMuRemote => mu["remote"].data = NextHalf
          /\ State = "GettingHigh" => ctx["remote"].data[1] = started[1]
          /\ State = "Running" => ctx["remote"].data = started
    /\ ~RETRY /\ got # NoData => got = started

(* Without a stop, a master that has the confirmation has all of it. *)
ConfirmedInv ==
    STOPS = 0 /\ ctx["master"].state = "Running" =>
        /\ rdip /\ State = "Running" /\ isr["master"].pc = "off"
        /\ ~InMuMaster /\ ~InMuRemote /\ ~InIsrRemote

(* No application event can meet the startup exchange: there are none, or  *)
(* the only start is synchronous and ends before the next call.  An event  *)
(* that meets it can overwrite a word (MCMcmgrEvent).                      *)
Undisturbed == APP_EVENTS = 0 \/ (MODES = {"sync"} /\ STOPS = 0)

(* A task that found the register empty finds it empty when it writes.     *)
RegisterInv ==
    /\ APP_EVENTS = 0 => \A c \in Core : Sends(c) => task[c].next # "idle"
    /\ MODES = {"sync"} /\ STOPS = 0 /\ rdip =>
          task["master"].pc = "sync" \/ ctx["master"].state = "Running"
    /\ Undisturbed => \A c \in Core : task[c].pc = "write" => mu[Other(c)] = NoWord

IInv ==
    /\ TypeOK
    /\ WordInv
    /\ TaskInv
    /\ PlaceInv
    /\ PhaseInv
    /\ DataInv
    /\ ConfirmedInv
    /\ RegisterInv

-----------------------------------------------------------------------------
(* The other core is the other one. *)
LEMMA CoreFacts ==
    /\ "master" \in Core /\ "remote" \in Core /\ "master" # "remote"
    /\ \A c \in Core : Other(c) \in Core /\ Other(c) # c
    /\ Other("master") = "remote" /\ Other("remote") = "master"
  BY DEF Core, Other

(* The words that the actions build are words of the MU. *)
LEMMA WordFacts ==
    /\ Event("RemoteCoreUp", 0) \in Word
    /\ Event("RemoteRPMsg", 0) \in Word
    /\ Event("RemoteApplication", 0) \in Word
    /\ \A s \in CoreState : Event("FeedStartupData", s) \in Word
    /\ \A h \in Half : Event("StartupData", h) \in Word
    /\ \A w \in Word : /\ w.type = "StartupData" => w.data \in Half
                       /\ w.type = "FeedStartupData" => w.data \in CoreState
  BY DEF Event, Word

(* The records of the two cores keep their types under the updates made. *)
LEMMA ContextFacts ==
    /\ ResetContext \in Context
    /\ \A x \in Context : x.state \in CoreState /\ x.data \in Half \X Half
    /\ \A x \in Context, s \in CoreState : [x EXCEPT !.state = s] \in Context
    /\ \A x \in Context, d \in Half \X Half : [x EXCEPT !.data = d] \in Context
    /\ \A s \in CoreState, d \in Half \X Half : [state |-> s, data |-> d] \in Context
    /\ \A d \in Half \X Half : d[1] \in Half /\ d[2] \in Half /\ d = <<d[1], d[2]>>
    /\ \A a, b \in Half : <<a, b>> \in Half \X Half
  BY DEF Context, ResetContext, CoreState, Half

(* The interrupt contexts that the handlers build have their type. *)
LEMMA IsrFacts ==
    /\ NoIsr \in IsrContext /\ NoIsr.pc = "off"
    /\ \A x \in IsrContext : /\ x.pc \in {"off", "send", "record"}
                             /\ x.word \in Word \union {NoWord}
                             /\ x.state \in CoreState
    /\ \A x \in IsrContext : [x EXCEPT !.pc = "record"] \in IsrContext
    /\ \A w \in Word, s \in CoreState : [pc |-> "send", word |-> w, state |-> s] \in IsrContext
  BY DEF IsrContext, NoIsr, CoreState

(* So have the task contexts. *)
LEMMA TaskFacts ==
    /\ \A p \in Label : At(p) \in TaskContext /\ At(p).pc = p
    /\ \A x \in TaskContext : /\ x.pc \in Label \union {"wait", "write"}
                              /\ x.word \in Word \union {NoWord}
                              /\ x.next \in Label
    /\ \A x \in TaskContext : [x EXCEPT !.pc = "write"] \in TaskContext
    /\ \A w \in Word, p \in Label : [pc |-> "wait", word |-> w, next |-> p] \in TaskContext
  BY DEF TaskContext, At

(* The bounds on the calls are natural numbers. *)
LEMMA CallFacts ==
    ASSUME NEW x \in Calls
    PROVE  /\ x.starts \in Nat /\ x.stops \in Nat
           /\ \A c \in Core : x.app[c] \in Nat
           /\ \A c \in Core : x.app[c] \in Nat
           /\ \A c \in Core : x.app[c] \in Nat
           /\ \A c \in Core : x.app[c] \in Nat
           /\ \A c \in Core : x.app[c] \in Nat
           /\ \A c \in Core : x.app[c] \in Nat
           /\ x.starts < STARTS => [x EXCEPT !.starts = @ + 1] \in Calls
           /\ x.stops < STOPS => [x EXCEPT !.stops = @ + 1] \in Calls
           /\ \A c \in Core : x.kicks[c] < KICKS => [x EXCEPT !.kicks[c] = @ + 1] \in Calls
           /\ \A c \in Core : x.app[c] < APP_EVENTS => [x EXCEPT !.app[c] = @ + 1] \in Calls
  BY McmgrAssumption DEF Calls

(* A pair of startup data is made of its halves. *)
LEMMA DataFacts ==
    /\ \A d \in DATA : d \in Half \X Half /\ d = <<d[1], d[2]>>
    /\ \A d \in DATA : d[1] \in Low /\ d[2] \in High
    /\ NoData \notin DATA
  BY DataAssumption DEF Half

-----------------------------------------------------------------------------
(* The types hold initially, and each group of actions keeps them: *)
LEMMA InitType == Init => TypeOK
<1> SUFFICES ASSUME Init PROVE TypeOK
  OBVIOUS
<1>1. count \in Calls
  BY McmgrAssumption DEF Init, Calls
<1>2. "start" \in Label /\ "held" \in Label
  BY DEF Label
<1> QED
  BY <1>1, <1>2, ContextFacts, IsrFacts, TaskFacts DEF Init, TypeOK

(* The interrupt handlers of either core. *)
LEMMA TypeIsr ==
    ASSUME TypeOK, NEW c \in Core, IsrStep(c)
    PROVE  TypeOK'
<1>1. CASE mcmgr_mu_channel_handler(c)
  <2> USE <1>1 DEF mcmgr_mu_channel_handler
  <2>1. mu[c] \in Word
    BY DEF TypeOK
  <2>2. CASE mu[c].type = "StartupData" /\ MCMGR_StartupDataEventHandler(c, mu[c].data)
    <3>1. mu[c].data \in Half /\ ctx[c] \in Context
      BY <2>1, <2>2, WordFacts DEF TypeOK
    <3>2. <<mu[c].data, 0>> \in Half \X Half /\ <<ctx[c].data[1], mu[c].data>> \in Half \X Half
      BY <3>1, ContextFacts DEF Half
    <3>3. {"GettingHigh", "Running"} \subseteq CoreState
      BY DEF CoreState
    <3>4. ctx' \in [Core -> Context]
      BY <2>2, <3>1, <3>2, <3>3, ContextFacts DEF TypeOK, MCMGR_StartupDataEventHandler
    <3>5. isr' \in [Core -> IsrContext]
      BY <2>2, <3>3, IsrFacts, WordFacts DEF TypeOK, MCMGR_StartupDataEventHandler
    <3> QED
      BY <3>4, <3>5 DEF TypeOK
  <2>3. CASE mu[c].type = "FeedStartupData" /\ MCMGR_FeedStartupDataEventHandler(c, mu[c].data)
    <3>1. mu[c].data \in CoreState /\ ctx[c] \in Context
      BY <2>1, <2>3, WordFacts DEF TypeOK
    <3>2. ctx[c].data[1] \in Half /\ ctx[c].data[2] \in Half
      BY <3>1, ContextFacts
    <3>3. ctx' \in [Core -> Context]
      BY <2>3, <3>1, ContextFacts DEF TypeOK, MCMGR_FeedStartupDataEventHandler
    <3>4. isr' \in [Core -> IsrContext]
      BY <2>3, <3>1, <3>2, IsrFacts, WordFacts DEF TypeOK, MCMGR_FeedStartupDataEventHandler
    <3> QED
      BY <3>3, <3>4 DEF TypeOK
  <2>4. CASE UNCHANGED <<ctx, isr>>
    BY <2>4 DEF TypeOK
  <2> QED
    BY <2>2, <2>3, <2>4
<1>2. CASE isr_MU_SendMsg(c)
  BY <1>2, CoreFacts, IsrFacts DEF TypeOK, isr_MU_SendMsg
<1>3. CASE isr_record(c)
  BY <1>3, CoreFacts, IsrFacts, ContextFacts DEF TypeOK, isr_record
<1> QED
  BY <1>1, <1>2, <1>3 DEF IsrStep

(* MCMGR_TriggerEvent and the init functions of either core. *)
LEMMA TypeTask ==
    ASSUME TypeOK, NEW c \in Core, TaskStep(c)
    PROVE  TypeOK'
<1>0. {"idle", "early"} \subseteq Label
  BY DEF Label
<1>1. CASE MU_SendMsg_wait(c)
  BY <1>1, CoreFacts, TaskFacts DEF TypeOK, MU_SendMsg_wait
<1>2. CASE MU_SendMsg_write(c)
  BY <1>2, CoreFacts, TaskFacts DEF TypeOK, MU_SendMsg_write, Goto
<1>3. CASE MCMGR_EarlyInit(c)
  BY <1>0, <1>3, CoreFacts, WordFacts, TaskFacts DEF TypeOK, MCMGR_EarlyInit, MCMGR_TriggerEvent
<1>4. CASE MCMGR_Init(c)
  BY <1>0, <1>4, CoreFacts, TaskFacts DEF TypeOK, MCMGR_Init, mcmgr_late_init_internal, Goto
<1> QED
  BY <1>1, <1>2, <1>3, <1>4 DEF TaskStep

(* The start-up of the remote. *)
LEMMA TypeRemote ==
    ASSUME TypeOK, RemoteTaskStep
    PROVE  TypeOK'
<1>0. {"idle", "read"} \subseteq Label /\ "GettingLow" \in CoreState
  BY DEF Label, CoreState
<1>1. CASE MCMGR_GetStartupData
  <2>1. ctx' \in [Core -> Context]
    BY <1>0, <1>1, CoreFacts, ContextFacts DEF TypeOK, MCMGR_GetStartupData
  <2>2. task' \in [Core -> TaskContext]
    BY <1>0, <1>1, CoreFacts, WordFacts, TaskFacts
       DEF TypeOK, MCMGR_GetStartupData, MCMGR_TriggerEvent, Goto
  <2> QED
    BY <1>1, <2>1, <2>2 DEF TypeOK, MCMGR_GetStartupData
<1>2. CASE mcmgr_get_startup_data_internal
  BY <1>0, <1>2, CoreFacts, TaskFacts, ContextFacts
     DEF TypeOK, mcmgr_get_startup_data_internal, Goto
<1> QED
  BY <1>1, <1>2 DEF RemoteTaskStep

(* The start and the stop of the second core by the master. *)
LEMMA TypeMaster ==
    ASSUME TypeOK,
           \/ mu_isr_reset \/ MCMGR_StartCore_sync \/ MCMGR_StopCore
           \/ \E data \in DATA, mode \in MODES : MCMGR_StartCore(data, mode)
    PROVE  TypeOK'
<1>0. {"idle", "sync", "start", "held"} \subseteq Label
  BY DEF Label
<1>1. CASE mu_isr_reset
  BY <1>1 DEF TypeOK, mu_isr_reset
<1>2. CASE MCMGR_StartCore_sync
  BY <1>0, <1>2, CoreFacts, TaskFacts DEF TypeOK, MCMGR_StartCore_sync, Goto
<1>3. CASE MCMGR_StopCore
  <2>1. mu' \in [Core -> Word \union {NoWord}]
    BY <1>3 DEF TypeOK, MCMGR_StopCore, mcmgr_stop_core_internal, MU_HardwareResetOtherCore
  <2>2. count' \in Calls
    BY <1>3, CallFacts DEF TypeOK, MCMGR_StopCore
  <2> QED
    BY <1>0, <1>3, <2>1, <2>2, CoreFacts, TaskFacts, IsrFacts
       DEF TypeOK, MCMGR_StopCore, mcmgr_stop_core_internal, MU_HardwareResetOtherCore
<1>4. ASSUME NEW data \in DATA, NEW mode \in MODES, MCMGR_StartCore(data, mode)
      PROVE  TypeOK'
  <2>1. count' \in Calls
    BY <1>4, CallFacts DEF TypeOK, MCMGR_StartCore
  <2>2. ctx["master"] \in Context /\ ctx["remote"] \in Context
    BY CoreFacts DEF TypeOK
  <2>3. ctx' \in [Core -> Context]
    BY <1>4, <2>2, CoreFacts, ContextFacts, DataFacts DEF TypeOK, MCMGR_StartCore
  <2>4. task' \in [Core -> TaskContext]
    BY <1>0, <1>4, CoreFacts, TaskFacts DEF TypeOK, MCMGR_StartCore
  <2> QED
    BY <1>4, <2>1, <2>3, <2>4
       DEF TypeOK, MCMGR_StartCore, mcmgr_start_core_internal, MU_BootCoreB
<1> QED
  BY <1>1, <1>2, <1>3, <1>4

(* The events of the applications. *)
LEMMA TypeApplication ==
    ASSUME TypeOK, NEW c \in Core, platform_notify(c) \/ application_event(c)
    PROVE  TypeOK'
<1>0. "idle" \in Label
  BY DEF Label
<1>1. CASE platform_notify(c)
  BY <1>1, CoreFacts, WordFacts, CallFacts DEF TypeOK, platform_notify, MCMGR_TriggerEventForce
<1>2. CASE application_event(c)
  BY <1>0, <1>2, CoreFacts, WordFacts, TaskFacts, CallFacts
     DEF TypeOK, application_event, MCMGR_TriggerEvent
<1> QED
  BY <1>1, <1>2

(* Every step keeps the types, whatever the application does and whatever  *)
(* The MU keeps when the second core is reset.                             *)
LEMMA TypeStep == TypeOK /\ [Next]_vars => TypeOK'
<1> SUFFICES ASSUME TypeOK, [Next]_vars PROVE TypeOK'
  OBVIOUS
<1>1. CASE UNCHANGED vars \/ Quiescent
  BY <1>1 DEF vars, Quiescent, TypeOK
<1> QED
  BY <1>1, TypeIsr, TypeTask, TypeRemote, TypeMaster, TypeApplication DEF Next

(* The state of mcmgr.c on both cores stays within its types. *)
THEOREM TypeCorrect == Spec => []TypeOK
  BY InitType, TypeStep, PTL DEF Spec

-----------------------------------------------------------------------------
(* No word of a previous life of the second core: it is never stopped, or  *)
(* the reset empties the MU registers.  With words that survive a reset    *)
(* the instance of MCMcmgrRestart fails: one is answered in the next life. *)
NoStaleWords == STOPS = 0 \/ RESET_KEEPS = {FALSE}

-----------------------------------------------------------------------------
(* Each action keeps the inductive invariant, one lemma per action or per  *)
(* case of it.  The handler takes a word that is not part of the exchange. *)
LEMMA HandleInv ==
    ASSUME IInv, TypeOK', NEW c \in Core, mcmgr_mu_channel_handler(c), mu[c].type \notin {"StartupData", "FeedStartupData"}
    PROVE  IInv'
<1>1. WordInv'
  BY DEF IInv, WordInv, Sends, mcmgr_mu_channel_handler
<1>2. TaskInv'
  BY DEF IInv, TaskInv, State, Sends, mcmgr_mu_channel_handler
<1>3. PlaceInv'
  BY DEF IInv, PlaceInv, Sends, InTask, InMuMaster, InIsrMaster, InMuRemote, InIsrRemote,
         mcmgr_mu_channel_handler
<1>4. PhaseInv'
  BY DEF IInv, PhaseInv, State, Sends, InTask, InMuMaster, InIsrMaster, InMuRemote, InIsrRemote,
         mcmgr_mu_channel_handler
<1>5. DataInv'
  BY DEF IInv, DataInv, State, InIsrMaster, InMuRemote, Fixed, NextHalf, mcmgr_mu_channel_handler
<1>6. ConfirmedInv'
  BY DEF IInv, ConfirmedInv, State, InMuMaster, InMuRemote, InIsrRemote, mcmgr_mu_channel_handler
<1>7. RegisterInv'
  BY DEF IInv, RegisterInv, Sends, mcmgr_mu_channel_handler
<1> QED
  BY <1>1, <1>2, <1>3, <1>4, <1>5, <1>6, <1>7 DEF IInv

(* The remote receives a half and will ask for the next one. *)
LEMMA StartupDataInv ==
    ASSUME IInv, TypeOK', mcmgr_mu_channel_handler("remote"), mu["remote"].type = "StartupData"
    PROVE  IInv'
<1>a. InMuRemote /\ State \in {"GettingLow", "GettingHigh"}
  BY DEF IInv, PhaseInv, InMuRemote, mcmgr_mu_channel_handler
<1>b. /\ ctx'["master"] = ctx["master"] /\ isr'["master"] = isr["master"]
      /\ mu'["master"] = mu["master"] /\ mu'["remote"] = NoWord
      /\ UNCHANGED <<ie, task, rdip, raip, count, started, got>>
  BY CoreFacts DEF TypeOK, mcmgr_mu_channel_handler, MCMGR_StartupDataEventHandler
<1>c. State' = IF State = "GettingHigh" THEN "Running" ELSE "GettingHigh"
  BY DEF State, TypeOK, mcmgr_mu_channel_handler, MCMGR_StartupDataEventHandler
<1>d. isr'["remote"] = [pc |-> "send", word |-> Event("FeedStartupData", State'), state |-> State']
  BY DEF State, TypeOK, mcmgr_mu_channel_handler, MCMGR_StartupDataEventHandler
<1>e. ctx'["remote"].data = IF State = "GettingHigh" THEN <<ctx["remote"].data[1], mu["remote"].data>>
                             ELSE <<mu["remote"].data, 0>>
  BY DEF State, TypeOK, mcmgr_mu_channel_handler, MCMGR_StartupDataEventHandler
<1>1. WordInv'
  BY <1>b, <1>c, <1>d DEF IInv, WordInv, Sends, CoreState, Event
<1>2. TaskInv'
  BY <1>a, <1>b DEF IInv, TaskInv, PhaseInv, Sends
<1>3. PlaceInv'
  BY <1>a, <1>b DEF IInv, PlaceInv, Sends, InTask, InMuMaster, InIsrMaster, InMuRemote
<1>4. PhaseInv'
  BY <1>a, <1>b, <1>c, <1>d
     DEF IInv, PlaceInv, PhaseInv, Sends, InTask, InMuMaster, InIsrMaster, InMuRemote, Event
<1>5. DataInv'
  <2> SUFFICES ASSUME rdip, Fixed
               PROVE  (/\ started \in DATA /\ ctx["master"].data = started
                       /\ State = "GettingHigh" => ctx["remote"].data[1] = started[1]
                       /\ State = "Running" => ctx["remote"].data = started)'
    BY <1>a, <1>b DEF IInv, DataInv, PlaceInv, InMuRemote, InIsrMaster, Fixed
  <2>1. started \in DATA /\ mu["remote"].data = NextHalf /\ ctx["master"].data = started
    BY <1>a DEF IInv, DataInv
  <2>2. CASE State = "GettingLow"
    BY <1>b, <1>c, <1>e, <2>1, <2>2 DEF NextHalf
  <2>3. CASE State = "GettingHigh"
    <3>1. ctx["remote"].data[1] = started[1]
      BY <2>3 DEF IInv, DataInv
    <3> QED
      BY <1>b, <1>e, <2>1, <2>3, <3>1, DataFacts DEF NextHalf
  <2> QED
    BY <1>a, <2>2, <2>3
<1>6. ConfirmedInv'
  BY <1>a, <1>b DEF IInv, ConfirmedInv
<1>7. RegisterInv'
  BY <1>b DEF IInv, RegisterInv, Sends, Other
<1> QED
  BY <1>1, <1>2, <1>3, <1>4, <1>5, <1>6, <1>7 DEF IInv

(* The master is asked for a half, or told that the remote runs. *)
LEMMA FeedInv ==
    ASSUME IInv, TypeOK', mcmgr_mu_channel_handler("master"), mu["master"].type = "FeedStartupData"
    PROVE  IInv'
<1>1. WordInv'
  BY CoreFacts
     DEF IInv, WordInv, Sends, TypeOK, Context, mcmgr_mu_channel_handler,
         MCMGR_FeedStartupDataEventHandler, Event
<1>2. TaskInv'
  BY CoreFacts
     DEF IInv, TaskInv, State, Sends, TypeOK, mcmgr_mu_channel_handler,
         MCMGR_FeedStartupDataEventHandler
<1>3. PlaceInv'
  BY CoreFacts
     DEF IInv, PlaceInv, Sends, InTask, InMuMaster, InMuRemote, InIsrRemote, TypeOK,
         mcmgr_mu_channel_handler, MCMGR_FeedStartupDataEventHandler
<1>4. PhaseInv'
  BY DEF IInv, PhaseInv, State, Sends, InTask, InMuMaster, InIsrMaster, InMuRemote, InIsrRemote,
         TypeOK, Context, CoreState, Core, mcmgr_mu_channel_handler,
         MCMGR_FeedStartupDataEventHandler
<1>5. DataInv'
  BY CoreFacts
     DEF IInv, PhaseInv, DataInv, State, InMuMaster, InIsrMaster, InMuRemote, Fixed, NextHalf,
         TypeOK, Context, mcmgr_mu_channel_handler, MCMGR_FeedStartupDataEventHandler, Event
<1>6. ConfirmedInv'
  BY DEF IInv, PlaceInv, PhaseInv, ConfirmedInv, State, InMuMaster, InMuRemote, InIsrRemote,
         TypeOK,
         Core, mcmgr_mu_channel_handler, MCMGR_FeedStartupDataEventHandler
<1>7. RegisterInv'
  BY DEF IInv, ConfirmedInv, RegisterInv, Sends, InMuMaster, mcmgr_mu_channel_handler
<1> QED
  BY <1>1, <1>2, <1>3, <1>4, <1>5, <1>6, <1>7 DEF IInv

(* The interrupt writes its answer to the MU. *)
LEMMA IsrSendInv ==
    ASSUME IInv, TypeOK', NEW c \in Core, isr_MU_SendMsg(c)
    PROVE  IInv'
<1>a. Undisturbed => task[c].pc # "write"
  <2>1. CASE c = "master"
    BY <2>1
       DEF IInv, WordInv, TaskInv, PhaseInv, ConfirmedInv, RegisterInv, Sends, InIsrMaster,
           Undisturbed, isr_MU_SendMsg
  <2>2. CASE c = "remote"
    <3>1. InIsrRemote /\ State \in {"GettingHigh", "Running"}
      BY <2>2 DEF IInv, PhaseInv, InIsrRemote, isr_MU_SendMsg
    <3>2. ~InTask /\ got = NoData
      BY <3>1 DEF IInv, TaskInv, PlaceInv, InIsrRemote
    <3> QED
      BY <2>2, <3>1, <3>2 DEF IInv, WordInv, TaskInv, Sends, InTask, Event
  <2> QED
    BY <2>1, <2>2 DEF Core
<1>b. \A e \in Core : e # c => e = Other(c) /\ Other(e) = c
  BY DEF Core, Other
<1>1. WordInv'
  BY <1>b, CoreFacts DEF IInv, WordInv, Sends, isr_MU_SendMsg, NoIsr
<1>2. TaskInv'
  BY DEF IInv, TaskInv, State, Sends, isr_MU_SendMsg
<1>3. PlaceInv'
  BY <1>b, CoreFacts
     DEF IInv, PlaceInv, Sends, InTask, InMuMaster, InIsrMaster, InMuRemote, InIsrRemote,
         TypeOK, isr_MU_SendMsg, NoIsr
<1>4. PhaseInv'
  BY DEF IInv, WordInv, TaskInv, PhaseInv, State, Sends, InTask, InMuMaster, InIsrMaster,
         InMuRemote,
         InIsrRemote, Core, isr_MU_SendMsg, NoIsr
<1>5. DataInv'
  BY <1>b, CoreFacts
     DEF IInv, DataInv, State, InIsrMaster, InMuRemote, Fixed, NextHalf, isr_MU_SendMsg, NoIsr
<1>6. ConfirmedInv'
  BY <1>b, CoreFacts DEF IInv, ConfirmedInv, InIsrRemote, isr_MU_SendMsg
<1>7. RegisterInv'
  BY <1>a, <1>b DEF IInv, RegisterInv, Sends, isr_MU_SendMsg
<1> QED
  BY <1>1, <1>2, <1>3, <1>4, <1>5, <1>6, <1>7 DEF IInv

(* The master records the state that the remote reported. *)
LEMMA RecordInv ==
    ASSUME IInv, TypeOK', NEW c \in Core, isr_record(c)
    PROVE  IInv'
<1>1. WordInv'
  BY DEF IInv, WordInv, Sends, isr_record, NoIsr
<1>2. TaskInv'
  BY DEF IInv, WordInv, TaskInv, State, Sends, isr_record
<1>3. PlaceInv'
  BY DEF IInv, PlaceInv, Sends, InTask, InMuMaster, InIsrMaster, InMuRemote, InIsrRemote,
         isr_record,
         NoIsr
<1>4. PhaseInv'
  BY DEF IInv, WordInv, PhaseInv, State, Sends, InTask, InMuMaster, InIsrMaster, InMuRemote,
         InIsrRemote, isr_record, NoIsr
<1>5. DataInv'
  BY DEF IInv, WordInv, DataInv, State, InIsrMaster, InMuRemote, Fixed, NextHalf, isr_record,
         NoIsr
<1>6. ConfirmedInv'
  BY DEF IInv, WordInv, PhaseInv, ConfirmedInv, Core, isr_record
<1>7. RegisterInv'
  BY DEF IInv, ConfirmedInv, RegisterInv, Sends, isr_record
<1> QED
  BY <1>1, <1>2, <1>3, <1>4, <1>5, <1>6, <1>7 DEF IInv

(* A task finds its transmit register empty. *)
LEMMA WaitInv ==
    ASSUME IInv, TypeOK', NEW c \in Core, MU_SendMsg_wait(c)
    PROVE  IInv'
<1>1. WordInv'
  BY DEF IInv, WordInv, Sends, MU_SendMsg_wait, Runs
<1>2. TaskInv'
  BY DEF IInv, TaskInv, State, Sends, MU_SendMsg_wait, Runs
<1>3. PlaceInv'
  BY DEF IInv, PlaceInv, Sends, InTask, InMuMaster, InIsrMaster, InMuRemote, InIsrRemote,
         MU_SendMsg_wait, Runs
<1>4. PhaseInv'
  BY DEF IInv, PhaseInv, State, Sends, InTask, InMuMaster, InIsrMaster, InMuRemote, InIsrRemote,
         MU_SendMsg_wait, Runs
<1>5. DataInv'
  BY DEF IInv, DataInv, State, InIsrMaster, InMuRemote, Fixed, NextHalf, MU_SendMsg_wait
<1>6. ConfirmedInv'
  BY DEF IInv, ConfirmedInv, State, InMuMaster, InMuRemote, InIsrRemote, MU_SendMsg_wait
<1>7. RegisterInv'
  BY DEF IInv, RegisterInv, Sends, MU_SendMsg_wait, Runs
<1> QED
  BY <1>1, <1>2, <1>3, <1>4, <1>5, <1>6, <1>7 DEF IInv

(* A task writes an event that is not part of the exchange. *)
LEMMA WriteUpInv ==
    ASSUME IInv, TypeOK', NEW c \in Core, MU_SendMsg_write(c), task[c].next # "read"
    PROVE  IInv'
<1>a. /\ task[c].word.type \notin {"FeedStartupData", "StartupData"}
      /\ task[c].next \in {"early", "idle"}
  BY DEF IInv, WordInv, Sends, MU_SendMsg_write, Runs, Event
<1>b. /\ task'[c].pc = task[c].next
      /\ \A e \in Core : e # c => task'[e] = task[e]
      /\ mu'[Other(c)] = task[c].word /\ mu'[c] = mu[c]
  BY CoreFacts DEF TypeOK, MU_SendMsg_write, Goto, At
<1>1. WordInv'
  BY <1>a, <1>b DEF IInv, WordInv, Sends, MU_SendMsg_write
<1>2. TaskInv'
  BY <1>a, <1>b, CoreFacts DEF IInv, TaskInv, State, Sends, MU_SendMsg_write, Runs
<1>3. PlaceInv'
  BY <1>a, <1>b
     DEF IInv, PlaceInv, Sends, InTask, InMuMaster, InIsrMaster, InMuRemote, InIsrRemote,
         MU_SendMsg_write, Goto
<1>4. PhaseInv'
  BY <1>a, <1>b, CoreFacts
     DEF IInv, PhaseInv, State, Sends, InTask, InMuMaster, InIsrMaster, InMuRemote, InIsrRemote,
         MU_SendMsg_write
<1>5. DataInv'
  BY <1>a, <1>b, CoreFacts
     DEF IInv, DataInv, State, InIsrMaster, InMuRemote, Fixed, NextHalf, MU_SendMsg_write
<1>6. ConfirmedInv'
  BY <1>a DEF IInv, ConfirmedInv, State, InMuMaster, InMuRemote, InIsrRemote, MU_SendMsg_write
<1>7. RegisterInv'
  BY <1>a, <1>b DEF IInv, RegisterInv, Sends, Core, Other, MU_SendMsg_write, Runs
<1> QED
  BY <1>1, <1>2, <1>3, <1>4, <1>5, <1>6, <1>7 DEF IInv

(* The remote asks for the low half: the exchange begins. *)
LEMMA WriteFeedInv ==
    ASSUME IInv, TypeOK', MU_SendMsg_write("remote"), task["remote"].next = "read"
    PROVE  IInv'
<1>a. InTask /\ task["remote"].word = Event("FeedStartupData", "GettingLow") 
  BY CoreFacts DEF IInv, WordInv, Sends, InTask, MU_SendMsg_write, Runs, Event
<1>b. /\ task'["remote"].pc = "read"
      /\ task'["master"] = task["master"]
      /\ mu'["master"] = Event("FeedStartupData", "GettingLow") /\ mu'["remote"] = mu["remote"]
  BY <1>a, CoreFacts DEF TypeOK, MU_SendMsg_write, Goto, At
<1>c. /\ mu'["master"].type = "FeedStartupData" /\ mu'["master"].data = "GettingLow"
  BY <1>b DEF Event
<1>1. WordInv'
  BY <1>c, CoreFacts DEF IInv, WordInv, Sends, MU_SendMsg_write, Goto, At
<1>2. TaskInv'
  BY DEF IInv, TaskInv, State, Sends, MU_SendMsg_write, Runs, Goto, At
<1>3. PlaceInv'
  BY CoreFacts
     DEF IInv, PlaceInv, Sends, InTask, InMuMaster, InIsrMaster, InMuRemote, InIsrRemote,
         TypeOK, MU_SendMsg_write, Runs, Goto, At
<1>4. PhaseInv'
  BY <1>c, CoreFacts
     DEF IInv, TaskInv, PhaseInv, State, Sends, InTask, InIsrMaster, InIsrRemote, TypeOK,
         MU_SendMsg_write, Runs
<1>5. DataInv'
  BY CoreFacts
     DEF IInv, DataInv, State, InIsrMaster, InMuRemote, Fixed, NextHalf, MU_SendMsg_write, Goto
<1>6. ConfirmedInv'
  BY <1>c, CoreFacts
     DEF IInv, PhaseInv, ConfirmedInv, Sends, InTask, TypeOK, MU_SendMsg_write, Runs
<1>7. RegisterInv'
  BY DEF IInv, RegisterInv, Sends, TypeOK, Core, Other, MU_SendMsg_write, Goto, At
<1> QED
  BY <1>1, <1>2, <1>3, <1>4, <1>5, <1>6, <1>7 DEF IInv

(* MCMGR_EarlyInit tells the peer that the core is up. *)
LEMMA EarlyInitInv ==
    ASSUME IInv, TypeOK', NEW c \in Core, MCMGR_EarlyInit(c)
    PROVE  IInv'
<1>1. WordInv'
  BY DEF IInv, WordInv, Sends, MCMGR_EarlyInit, MCMGR_TriggerEvent
<1>2. TaskInv'
  BY DEF IInv, TaskInv, State, Sends, MCMGR_EarlyInit, Runs, MCMGR_TriggerEvent
<1>3. PlaceInv'
  BY DEF IInv, PlaceInv, Sends, InTask, InMuMaster, InIsrMaster, InMuRemote, InIsrRemote,
         MCMGR_EarlyInit, MCMGR_TriggerEvent, Event
<1>4. PhaseInv'
  BY DEF IInv, PhaseInv, State, Sends, InTask, InMuMaster, InIsrMaster, InMuRemote, InIsrRemote,
         MCMGR_EarlyInit, MCMGR_TriggerEvent, Event
<1>5. DataInv'
  BY DEF IInv, DataInv, State, InIsrMaster, InMuRemote, Fixed, NextHalf, MCMGR_EarlyInit,
         MCMGR_TriggerEvent
<1>6. ConfirmedInv'
  BY DEF IInv, ConfirmedInv, State, InMuMaster, InMuRemote, InIsrRemote, MCMGR_EarlyInit
<1>7. RegisterInv'
  BY DEF IInv, RegisterInv, Sends, MCMGR_EarlyInit, Runs, MCMGR_TriggerEvent
<1> QED
  BY <1>1, <1>2, <1>3, <1>4, <1>5, <1>6, <1>7 DEF IInv

(* MCMGR_Init enables the interrupt. *)
LEMMA MInitInv ==
    ASSUME IInv, TypeOK', NEW c \in Core, MCMGR_Init(c)
    PROVE  IInv'
<1>1. WordInv'
  BY DEF IInv, WordInv, Sends, MCMGR_Init, Goto, At
<1>2. TaskInv'
  BY DEF IInv, TaskInv, State, Sends, MCMGR_Init, Runs, Goto, At, mcmgr_late_init_internal
<1>3. PlaceInv'
  BY DEF IInv, PlaceInv, Sends, InTask, InMuMaster, InIsrMaster, InMuRemote, InIsrRemote,
         MCMGR_Init,
         Goto, At
<1>4. PhaseInv'
  BY DEF IInv, PhaseInv, State, Sends, InTask, InMuMaster, InIsrMaster, InMuRemote, InIsrRemote,
         MCMGR_Init, Goto, At
<1>5. DataInv'
  BY DEF IInv, DataInv, State, InIsrMaster, InMuRemote, Fixed, NextHalf, MCMGR_Init, Goto, At
<1>6. ConfirmedInv'
  BY DEF IInv, ConfirmedInv, State, InMuMaster, InMuRemote, InIsrRemote, MCMGR_Init
<1>7. RegisterInv'
  BY DEF IInv, RegisterInv, Sends, MCMGR_Init, Runs, Goto, At
<1> QED
  BY <1>1, <1>2, <1>3, <1>4, <1>5, <1>6, <1>7 DEF IInv

(* MCMGR_GetStartupData begins. *)
LEMMA GetDataInv ==
    ASSUME IInv, TypeOK', MCMGR_GetStartupData
    PROVE  IInv'
<1>1. WordInv'
  BY DEF IInv, WordInv, Sends, TypeOK, MCMGR_GetStartupData, Goto, At, MCMGR_TriggerEvent
<1>2. TaskInv'
  BY CoreFacts
     DEF IInv, TaskInv, Sends, TypeOK, MCMGR_GetStartupData, Runs, Goto, At, MCMGR_TriggerEvent
<1>3. PlaceInv'
  BY DEF IInv, PlaceInv, PhaseInv, State, Sends, InTask, InMuMaster, InIsrMaster, InMuRemote,
         InIsrRemote, TypeOK, MCMGR_GetStartupData, Goto, At
<1>4. PhaseInv'
  BY CoreFacts
     DEF IInv, PhaseInv, State, Sends, InTask, InMuMaster, InIsrMaster, InMuRemote, InIsrRemote,
         TypeOK, Context, MCMGR_GetStartupData, Goto, At
<1>5. DataInv'
  BY CoreFacts
     DEF IInv, DataInv, State, InIsrMaster, InMuRemote, Fixed, NextHalf, TypeOK, Context,
         MCMGR_GetStartupData, Goto, MCMGR_TriggerEvent
<1>6. ConfirmedInv'
  BY CoreFacts
     DEF IInv, ConfirmedInv, State, InMuMaster, InMuRemote, InIsrRemote, TypeOK,
         MCMGR_GetStartupData
<1>7. RegisterInv'
  BY CoreFacts
     DEF IInv, RegisterInv, Sends, TypeOK, MCMGR_GetStartupData, Goto, At, MCMGR_TriggerEvent
<1> QED
  BY <1>1, <1>2, <1>3, <1>4, <1>5, <1>6, <1>7 DEF IInv

(* MCMGR_GetStartupData returns what the exchange brought. *)
LEMMA ReadDataInv ==
    ASSUME IInv, TypeOK', mcmgr_get_startup_data_internal
    PROVE  IInv'
<1>1. WordInv'
  BY DEF IInv, WordInv, Sends, mcmgr_get_startup_data_internal, Goto, At
<1>2. TaskInv'
  BY DEF IInv, TaskInv, State, Sends, mcmgr_get_startup_data_internal, Runs, Goto, At
<1>3. PlaceInv'
  BY DEF IInv, PlaceInv, Sends, InTask, InMuMaster, InIsrMaster, InMuRemote, InIsrRemote,
         mcmgr_get_startup_data_internal, Goto, At
<1>4. PhaseInv'
  BY DEF IInv, PhaseInv, State, Sends, InTask, InMuMaster, InIsrMaster, InMuRemote, InIsrRemote,
         mcmgr_get_startup_data_internal, Goto, At
<1>5. DataInv'
  BY DEF IInv, TaskInv, DataInv, State, InIsrMaster, InMuRemote, Fixed, NextHalf,
         mcmgr_get_startup_data_internal, Runs, Goto
<1>6. ConfirmedInv'
  BY DEF IInv, ConfirmedInv, State, InMuMaster, InMuRemote, InIsrRemote,
         mcmgr_get_startup_data_internal
<1>7. RegisterInv'
  BY DEF IInv, RegisterInv, Sends, mcmgr_get_startup_data_internal, Goto, At
<1> QED
  BY <1>1, <1>2, <1>3, <1>4, <1>5, <1>6, <1>7 DEF IInv

(* The second core leaves its reset. *)
LEMMA ResetInv ==
    ASSUME IInv, TypeOK', mu_isr_reset
    PROVE  IInv'
<1>1. WordInv'
  BY DEF IInv, WordInv, Sends, mu_isr_reset
<1>2. TaskInv'
  BY DEF IInv, TaskInv, State, Sends, mu_isr_reset
<1>3. PlaceInv'
  BY DEF IInv, PlaceInv, Sends, InTask, InMuMaster, InIsrMaster, InMuRemote, InIsrRemote,
         mu_isr_reset
<1>4. PhaseInv'
  BY DEF IInv, PhaseInv, State, Sends, InTask, InMuMaster, InIsrMaster, InMuRemote, InIsrRemote,
         mu_isr_reset
<1>5. DataInv'
  BY DEF IInv, DataInv, State, InIsrMaster, InMuRemote, Fixed, NextHalf, mu_isr_reset
<1>6. ConfirmedInv'
  BY DEF IInv, ConfirmedInv, State, InMuMaster, InMuRemote, InIsrRemote, mu_isr_reset
<1>7. RegisterInv'
  BY DEF IInv, RegisterInv, Sends, mu_isr_reset
<1> QED
  BY <1>1, <1>2, <1>3, <1>4, <1>5, <1>6, <1>7 DEF IInv

(* A synchronous MCMGR_StartCore returns. *)
LEMMA SyncInv ==
    ASSUME IInv, TypeOK', MCMGR_StartCore_sync
    PROVE  IInv'
<1>1. WordInv'
  BY DEF IInv, WordInv, Sends, MCMGR_StartCore_sync, Goto, At
<1>2. TaskInv'
  BY DEF IInv, TaskInv, State, Sends, MCMGR_StartCore_sync, Goto, At
<1>3. PlaceInv'
  BY DEF IInv, PlaceInv, Sends, InTask, InMuMaster, InIsrMaster, InMuRemote, InIsrRemote,
         MCMGR_StartCore_sync, Goto
<1>4. PhaseInv'
  BY DEF IInv, PhaseInv, State, Sends, InTask, InMuMaster, InIsrMaster, InMuRemote, InIsrRemote,
         MCMGR_StartCore_sync, Goto
<1>5. DataInv'
  BY DEF IInv, DataInv, State, InIsrMaster, InMuRemote, Fixed, NextHalf, MCMGR_StartCore_sync,
         Runs
<1>6. ConfirmedInv'
  BY DEF IInv, ConfirmedInv, State, InMuMaster, InMuRemote, InIsrRemote, MCMGR_StartCore_sync
<1>7. RegisterInv'
  BY DEF IInv, RegisterInv, Sends, MCMGR_StartCore_sync, Goto, At
<1> QED
  BY <1>1, <1>2, <1>3, <1>4, <1>5, <1>6, <1>7 DEF IInv

(* MCMGR_StopCore puts the second core into reset. *)
LEMMA StopInv ==
    ASSUME NoStaleWords, IInv, TypeOK', MCMGR_StopCore
    PROVE  IInv'
<1>a. STOPS # 0 /\ mu' = [c \in Core |-> NoWord]
  <2>1. count.stops \in Nat /\ count.stops < STOPS
    BY CallFacts DEF IInv, TypeOK, MCMGR_StopCore
  <2>2. STOPS # 0
    BY <2>1
  <2>3. RESET_KEEPS = {FALSE}
    BY <2>2, Zenon DEF NoStaleWords
  <2> QED
    BY <2>2, <2>3 DEF MCMGR_StopCore, mcmgr_stop_core_internal, MU_HardwareResetOtherCore
<1>b. /\ isr'["remote"].pc = "off" /\ isr'["master"] = isr["master"] /\ isr["master"].pc = "off"
      /\ task'["remote"].pc = "held" /\ task'["master"] = task["master"] /\ task["master"].pc = "idle"
  BY DEF TypeOK, MCMGR_StopCore, Runs, mcmgr_stop_core_internal, MU_HardwareResetOtherCore, At,
         NoIsr
<1>c. ~rdip' /\ ~ie'["remote"] /\ got' = NoData /\ UNCHANGED ctx
  BY DEF TypeOK, MCMGR_StopCore, mcmgr_stop_core_internal, MU_HardwareResetOtherCore
<1>1. WordInv'
  BY <1>a, <1>b DEF WordInv, Sends, Core
<1>2. TaskInv'
  BY <1>b, <1>c DEF TaskInv, Sends
<1>3. PlaceInv'
  BY <1>a, <1>b, CoreFacts DEF PlaceInv, InMuMaster, InIsrMaster, InMuRemote, InIsrRemote
<1>4. PhaseInv'
  BY <1>a, <1>b, CoreFacts
     DEF PhaseInv, Sends, InTask, InMuMaster, InIsrMaster, InMuRemote, InIsrRemote
<1>5. DataInv'
  BY <1>c DEF DataInv
<1>6. ConfirmedInv'
  BY <1>a DEF ConfirmedInv
<1>7. RegisterInv'
  BY <1>b, <1>c DEF RegisterInv, Sends, Core
<1> QED
  BY <1>1, <1>2, <1>3, <1>4, <1>5, <1>6, <1>7 DEF IInv

(* MCMGR_StartCore stores the data and boots the second core. *)
LEMMA BootInv ==
    ASSUME IInv, TypeOK', NEW data \in DATA, NEW mode \in MODES, MCMGR_StartCore(data, mode), ~rdip
    PROVE  IInv'
<1>a. /\ ctx'["master"].data = data /\ ctx'["master"].state = ctx["master"].state
      /\ ctx'["remote"] = ResetContext /\ State' = "Reset"
      /\ started' = data /\ rdip' /\ UNCHANGED <<mu, ie, isr, got>>
  BY DEF State, TypeOK, Context, Core, MCMGR_StartCore, mcmgr_start_core_internal, MU_BootCoreB,
         ResetContext
<1>b. /\ task'["remote"].pc = "start" /\ task["master"].pc = "idle" /\ isr["master"].pc = "off"
      /\ task'["master"].pc = IF mode = "sync" THEN "sync" ELSE "idle"
  BY CoreFacts DEF TypeOK, MCMGR_StartCore, Runs, At
<1>c. ~InTask /\ ~InMuMaster /\ ~InIsrMaster /\ ~InMuRemote /\ ~InIsrRemote /\ got = NoData
  BY DEF IInv, TaskInv, PhaseInv, Sends, InTask, InIsrRemote
<1>1. WordInv'
  BY <1>a, <1>b DEF IInv, WordInv, Sends, Core
<1>2. TaskInv'
  BY <1>a, <1>b DEF IInv, TaskInv, Sends
<1>3. PlaceInv'
  BY <1>a, <1>b
     DEF IInv, PlaceInv, Sends, InTask, InMuMaster, InIsrMaster, InMuRemote, InIsrRemote
<1>4. PhaseInv'
  BY <1>a, <1>b, <1>c
     DEF PhaseInv, Sends, InTask, InMuMaster, InIsrMaster, InMuRemote, InIsrRemote
<1>5. DataInv'
  BY <1>a, <1>c DEF DataInv, InIsrMaster, InMuRemote
<1>6. ConfirmedInv'
  BY <1>a DEF IInv, ConfirmedInv
<1>7. RegisterInv'
  BY <1>b DEF RegisterInv, Sends, Core
<1> QED
  BY <1>1, <1>2, <1>3, <1>4, <1>5, <1>6, <1>7 DEF IInv

(* MCMGR_StartCore called again on a core that is being started. *)
LEMMA RetryInv ==
    ASSUME IInv, TypeOK', NEW data \in DATA, NEW mode \in MODES, MCMGR_StartCore(data, mode), rdip
    PROVE  IInv'
<1>1. WordInv'
  BY DEF IInv, WordInv, Sends, MCMGR_StartCore, mcmgr_start_core_internal
<1>2. TaskInv'
  BY CoreFacts
     DEF IInv, TaskInv, State, Sends, TypeOK, MCMGR_StartCore, mcmgr_start_core_internal
<1>3. PlaceInv'
  BY DEF IInv, PlaceInv, Sends, InTask, InMuMaster, InIsrMaster, InMuRemote, InIsrRemote,
         MCMGR_StartCore, mcmgr_start_core_internal
<1>4. PhaseInv'
  BY CoreFacts
     DEF IInv, PhaseInv, State, Sends, InTask, InMuMaster, InIsrMaster, InMuRemote, InIsrRemote,
         TypeOK, MCMGR_StartCore, mcmgr_start_core_internal
<1>5. DataInv'
  BY DEF DataInv, Fixed, MCMGR_StartCore, Runs, mcmgr_start_core_internal
<1>6. ConfirmedInv'
  BY CoreFacts
     DEF IInv, ConfirmedInv, State, InMuMaster, InMuRemote, InIsrRemote, TypeOK, Context,
         MCMGR_StartCore, mcmgr_start_core_internal
<1>7. RegisterInv'
  BY DEF IInv, ConfirmedInv, RegisterInv, State, Sends, TypeOK, Context, Other, MCMGR_StartCore,
         Runs, mcmgr_start_core_internal
<1> QED
  BY <1>1, <1>2, <1>3, <1>4, <1>5, <1>6, <1>7 DEF IInv

(* The master learns that the remote is up. *)
LEMMA NotifyInv ==
    ASSUME IInv, TypeOK', NEW c \in Core, platform_notify(c)
    PROVE  IInv'
<1>1. WordInv'
  BY DEF IInv, WordInv, Sends, platform_notify, MCMGR_TriggerEventForce, Event
<1>2. TaskInv'
  BY DEF IInv, TaskInv, State, Sends, platform_notify
<1>3. PlaceInv'
  BY DEF IInv, PlaceInv, Sends, InTask, InMuMaster, InIsrMaster, InMuRemote, InIsrRemote,
         platform_notify, MCMGR_TriggerEventForce, Event
<1>4. PhaseInv'
  BY DEF IInv, PhaseInv, State, Sends, InTask, InMuMaster, InIsrMaster, InMuRemote, InIsrRemote,
         platform_notify, MCMGR_TriggerEventForce, Event
<1>5. DataInv'
  BY DEF IInv, DataInv, State, InIsrMaster, InMuRemote, Fixed, NextHalf, platform_notify,
         MCMGR_TriggerEventForce, Event
<1>6. ConfirmedInv'
  BY DEF IInv, ConfirmedInv, State, InMuMaster, InMuRemote, InIsrRemote, platform_notify,
         MCMGR_TriggerEventForce, Event
<1>7. RegisterInv'
  BY DEF IInv, RegisterInv, Sends, Core, Other, platform_notify, InApplication, Runs,
         MCMGR_TriggerEventForce
<1> QED
  BY <1>1, <1>2, <1>3, <1>4, <1>5, <1>6, <1>7 DEF IInv

(* An application triggers an event. *)
LEMMA AppEventInv ==
    ASSUME IInv, TypeOK', NEW c \in Core, application_event(c)
    PROVE  IInv'
<1>a. APP_EVENTS # 0
  <2>1. count.app[c] \in Nat /\ count.app[c] < APP_EVENTS
    BY CallFacts DEF IInv, TypeOK, application_event
  <2> QED
    BY <2>1
<1>1. WordInv'
  BY DEF IInv, WordInv, Sends, application_event, MCMGR_TriggerEvent
<1>2. TaskInv'
  BY DEF IInv, TaskInv, State, Sends, application_event, InApplication, MCMGR_TriggerEvent
<1>3. PlaceInv'
  BY DEF IInv, PlaceInv, Sends, InTask, InMuMaster, InIsrMaster, InMuRemote, InIsrRemote,
         application_event, MCMGR_TriggerEvent, Event
<1>4. PhaseInv'
  BY DEF IInv, PhaseInv, State, Sends, InTask, InMuMaster, InIsrMaster, InMuRemote, InIsrRemote,
         application_event, MCMGR_TriggerEvent, Event
<1>5. DataInv'
  BY DEF IInv, DataInv, State, InIsrMaster, InMuRemote, Fixed, NextHalf, application_event,
         MCMGR_TriggerEvent
<1>6. ConfirmedInv'
  BY DEF IInv, ConfirmedInv, State, InMuMaster, InMuRemote, InIsrRemote, application_event
<1>7. RegisterInv'
  BY <1>a DEF IInv, RegisterInv, application_event, InApplication, Runs, MCMGR_TriggerEvent
<1> QED
  BY <1>1, <1>2, <1>3, <1>4, <1>5, <1>6, <1>7 DEF IInv

-----------------------------------------------------------------------------
(* Both cores start in reset with empty registers. *)
LEMMA InitInv == Init => IInv
<1> SUFFICES ASSUME Init PROVE IInv
  OBVIOUS
<1>1. TypeOK
  BY InitType
<1>2. /\ \A c \in Core : mu[c] = NoWord /\ isr[c].pc = "off" /\ ~ie[c]
      /\ task["master"].pc = "start" /\ task["remote"].pc = "held"
      /\ ctx["remote"].state = "Reset" /\ ctx["master"].state = "Reset"
      /\ rdip = FALSE /\ got = NoData
  BY CoreFacts DEF Init, NoIsr, At, ResetContext
<1>3. WordInv /\ TaskInv /\ PlaceInv /\ PhaseInv
  BY <1>2, CoreFacts
     DEF WordInv, TaskInv, PlaceInv, PhaseInv, State, Sends, InTask, InMuMaster, InIsrMaster,
         InMuRemote, InIsrRemote, Core
<1>4. DataInv /\ ConfirmedInv /\ RegisterInv
  BY <1>2, CoreFacts DEF DataInv, ConfirmedInv, RegisterInv, Sends, Core
<1> QED
  BY <1>1, <1>3, <1>4 DEF IInv

(* The interrupts keep the invariant: a word is read by the core that it   *)
(* Is meant for.                                                           *)
LEMMA IsrInv ==
    ASSUME IInv, TypeOK', NEW c \in Core, IsrStep(c)
    PROVE  IInv'
<1>1. CASE mcmgr_mu_channel_handler(c)
  <2>1. CASE mu[c].type \notin {"StartupData", "FeedStartupData"}
    BY <1>1, <2>1, HandleInv
  <2>2. CASE mu[c].type = "StartupData"
    <3>1. c = "remote"
      BY <1>1, <2>2 DEF mcmgr_mu_channel_handler, IInv, WordInv, Core
    <3> QED
      BY <1>1, <2>2, <3>1, StartupDataInv
  <2>3. CASE mu[c].type = "FeedStartupData"
    <3>1. c = "master"
      BY <1>1, <2>3 DEF mcmgr_mu_channel_handler, IInv, WordInv, Core
    <3> QED
      BY <1>1, <2>3, <3>1, FeedInv
  <2> QED
    BY <2>1, <2>2, <2>3
<1> QED
  BY <1>1, IsrSendInv, RecordInv DEF IsrStep

(* So do the tasks: only the remote asks for startup data. *)
LEMMA TaskStepInv ==
    ASSUME IInv, TypeOK', NEW c \in Core, TaskStep(c)
    PROVE  IInv'
<1>1. CASE MU_SendMsg_write(c)
  <2>1. CASE task[c].next = "read"
    <3>1. c = "remote"
      BY <1>1, <2>1 DEF MU_SendMsg_write, Runs, IInv, WordInv, Sends, Core
    <3> QED
      BY <1>1, <2>1, <3>1, WriteFeedInv
  <2> QED
    BY <1>1, <2>1, WriteUpInv
<1> QED
  BY <1>1, WaitInv, EarlyInitInv, MInitInv DEF TaskStep

(* The invariant is inductive. *)
LEMMA NextInv ==
    ASSUME NoStaleWords
    PROVE  IInv /\ [Next]_vars => IInv'
<1> SUFFICES ASSUME IInv, [Next]_vars PROVE IInv'
  OBVIOUS
<1>1. TypeOK'
  BY TypeStep DEF IInv
<1>2. CASE UNCHANGED vars \/ Quiescent
  <2>1. UNCHANGED vars
    BY <1>2 DEF Quiescent
  <2> QED
    BY <1>1, <2>1
       DEF vars, IInv, WordInv, TaskInv, PlaceInv, PhaseInv, DataInv, ConfirmedInv, RegisterInv,
           State, Sends, InTask, InMuMaster, InIsrMaster, InMuRemote, InIsrRemote, Fixed, NextHalf
<1>3. CASE \E c \in Core : IsrStep(c) \/ TaskStep(c)
  BY <1>1, <1>3, IsrInv, TaskStepInv
<1>4. CASE RemoteTaskStep
  BY <1>1, <1>4, GetDataInv, ReadDataInv DEF RemoteTaskStep
<1>5. CASE mu_isr_reset \/ MCMGR_StartCore_sync \/ MCMGR_StopCore
  BY <1>1, <1>5, ResetInv, SyncInv, StopInv
<1>6. CASE \E data \in DATA, mode \in MODES : MCMGR_StartCore(data, mode)
  BY <1>1, <1>6, BootInv, RetryInv
<1>7. CASE \E c \in Core : platform_notify(c) \/ application_event(c)
  BY <1>1, <1>7, NotifyInv, AppEventInv
<1> QED
  BY <1>2, <1>3, <1>4, <1>5, <1>6, <1>7 DEF Next

(* The invariant holds when no word of a stopped core outlives its reset.  *)
THEOREM Invariance ==
    ASSUME NoStaleWords
    PROVE  Spec => []IInv
<1>1. IInv /\ [Next]_vars => IInv'
  BY NextInv
<1> QED
  BY <1>1, InitInv, PTL DEF Spec

-----------------------------------------------------------------------------
(* The places of PlaceInv are the only ones for a word of the exchange. *)
LEMMA OneWord == IInv => OneHandshakeWord
<1> SUFFICES ASSUME IInv PROVE OneHandshakeWord
  OBVIOUS
<1> DEFINE Words == {p \in Core \X {"mu", "isr", "task"} : p[2] \in Handshaking(p[1])}
<1>1. ASSUME NEW p \in Words
      PROVE  \/ p = <<"remote", "task">> /\ InTask
             \/ p = <<"master", "mu">> /\ InMuMaster
             \/ p = <<"master", "isr">> /\ InIsrMaster
             \/ p = <<"remote", "mu">> /\ InMuRemote
             \/ p = <<"remote", "isr">> /\ InIsrRemote
  <2>1. PICK c \in Core, x \in {"mu", "isr", "task"} : p = <<c, x>> /\ x \in Handshaking(c)
    OBVIOUS
  <2>2. CASE c = "master"
    <3>1. x = "mu" => InMuMaster
      BY <2>1, <2>2 DEF Handshaking, IInv, WordInv, InMuMaster
    <3>2. x = "isr" => InIsrMaster
      BY <2>1, <2>2 DEF Handshaking, InIsrMaster
    <3>3. x # "task"
      BY <2>1, <2>2, CoreFacts DEF Handshaking, IInv, WordInv, Sends, Event
    <3> QED
      BY <2>1, <2>2, <3>1, <3>2, <3>3
  <2>3. CASE c = "remote"
    <3>1. x = "mu" => InMuRemote
      BY <2>1, <2>3 DEF Handshaking, IInv, WordInv, InMuRemote
    <3>2. x = "isr" => InIsrRemote
      BY <2>1, <2>3 DEF Handshaking, InIsrRemote
    <3>3. x = "task" => InTask
      BY <2>1, <2>3 DEF Handshaking, InTask, Sends
    <3> QED
      BY <2>1, <2>3, <3>1, <3>2, <3>3
  <2> QED
    BY <2>2, <2>3 DEF Core
<1>2. \A p, q \in Words : p = q
  BY <1>1 DEF IInv, PlaceInv
<1>3. Cardinality(Words) <= 1
  <2>1. CASE Words = {}
    BY <2>1, FS_EmptySet
  <2>2. CASE Words # {}
    <3>1. PICK p : Words = {p}
      BY <1>2, <2>2
    <3>2. Cardinality({p}) = 1
      BY FS_Singleton
    <3> HIDE DEF Words
    <3> QED
      BY <3>1, <3>2
  <2> QED
    BY <2>1, <2>2
<1> QED
  BY <1>3 DEF OneHandshakeWord

(* The exchange of the startup data is in lock step, however the calls,    *)
(* the kicks and the application events of the cores interleave.           *)
THEOREM OneHandshakeWordHolds ==
    ASSUME NoStaleWords
    PROVE  Spec => []OneHandshakeWord
  BY Invariance, OneWord, PTL

(* A core gets both halves of the data that it was started with, restarts  *)
(* included, when MCMGR_StartCore is not called for a started core.        *)
THEOREM StartupDataIntactHolds ==
    ASSUME NoStaleWords, ~RETRY
    PROVE  Spec => []StartupDataIntact
<1>1. IInv => StartupDataIntact
  BY DEF IInv, DataInv, StartupDataIntact
<1> QED
  BY <1>1, Invariance, PTL

(* A step of MU_SendMsg overwrites no unread word when no application      *)
(* event can meet the exchange: there are none, or the one start of the    *)
(* core is synchronous.                                                    *)
LEMMA RegisterStep ==
    ASSUME Undisturbed, IInv, [Next]_vars, NEW c \in Core, mu[c] # NoWord
    PROVE  mu'[c] \in {mu[c], NoWord} \/ mu'[c].type = "RemoteRPMsg"
<1>1. ASSUME NEW e \in Core, IsrStep(e) \/ TaskStep(e)
      PROVE  mu'[c] \in {mu[c], NoWord}
  <2>1. CASE IsrStep(e)
    BY <2>1, CoreFacts
       DEF IInv, TypeOK, IsrStep, mcmgr_mu_channel_handler, isr_MU_SendMsg, isr_record
  <2>2. CASE MU_SendMsg_write(e)
    BY <2>2, CoreFacts DEF IInv, TypeOK, RegisterInv, MU_SendMsg_write, Runs
  <2>3. CASE MU_SendMsg_wait(e) \/ MCMGR_EarlyInit(e) \/ MCMGR_Init(e)
    BY <2>3 DEF MU_SendMsg_wait, MCMGR_EarlyInit, MCMGR_Init
  <2> QED
    BY <1>1, <2>1, <2>2, <2>3 DEF TaskStep
<1>2. CASE MCMGR_StopCore
  BY <1>2 DEF MCMGR_StopCore, mcmgr_stop_core_internal, MU_HardwareResetOtherCore
<1>3. ASSUME NEW e \in Core, platform_notify(e)
      PROVE  mu'[c] = mu[c] \/ mu'[c].type = "RemoteRPMsg"
  BY <1>3, CoreFacts DEF IInv, TypeOK, platform_notify, MCMGR_TriggerEventForce, Event
<1>4. CASE \/ mu_isr_reset \/ RemoteTaskStep \/ MCMGR_StartCore_sync \/ Quiescent \/ UNCHANGED vars
           \/ \E data \in DATA, mode \in MODES : MCMGR_StartCore(data, mode)
           \/ \E e \in Core : application_event(e)
  BY <1>4
     DEF mu_isr_reset, RemoteTaskStep, MCMGR_GetStartupData, mcmgr_get_startup_data_internal,
         MCMGR_StartCore_sync, Quiescent, vars, MCMGR_StartCore, application_event
<1> QED
  BY <1>1, <1>2, <1>3, <1>4 DEF Next

(* MCMGR_TriggerEvent waits for its transmit register, and the interrupt,  *)
(* which does not, finds it empty: only a forced kick of RPMsg-Lite        *)
(* overwrites a word that the other core has not read.                     *)
THEOREM NoUnreadWordOverwrittenHolds ==
    ASSUME NoStaleWords, Undisturbed
    PROVE  Spec => NoUnreadWordOverwritten
<1>1. IInv /\ [Next]_vars =>
        [\A c \in Core : mu[c] # NoWord =>
            \/ mu'[c] \in {mu[c], NoWord}
            \/ mu'[c].type = "RemoteRPMsg"]_vars
  BY RegisterStep
<1>2. Spec => []IInv
  BY Invariance
<1> QED
  BY <1>1, <1>2, PTL DEF Spec, NoUnreadWordOverwritten

(* While core 1 is never stopped, a synchronous start returns only when    *)
(* core 1 has the startup data, whatever else the application does.        *)
THEOREM SyncStartConfirmedHolds ==
    ASSUME STOPS = 0
    PROVE  Spec => SyncStartConfirmed
<1>1. IInv /\ [Next]_vars =>
        [MCMGR_StartCore_sync => ctx["remote"] = [state |-> "Running", data |-> started]]_vars
  <2> SUFFICES ASSUME IInv, MCMGR_StartCore_sync
               PROVE  ctx["remote"] = [state |-> "Running", data |-> started]
    OBVIOUS
  <2>1. ctx["master"].state = "Running" /\ task["master"].pc = "sync"
    BY DEF MCMGR_StartCore_sync, Runs
  <2>2. rdip /\ State = "Running" /\ Fixed
    BY <2>1 DEF IInv, ConfirmedInv, Fixed
  <2>3. ctx["remote"].state = "Running" /\ ctx["remote"].data = started
    BY <2>2 DEF IInv, DataInv, State
  <2>4. ctx["remote"] \in Context
    BY CoreFacts DEF IInv, TypeOK
  <2> QED
    BY <2>3, <2>4 DEF Context
<1>2. Spec => []IInv
  BY Invariance DEF NoStaleWords
<1> QED
  BY <1>1, <1>2, PTL DEF Spec, SyncStartConfirmed
=============================================================================
