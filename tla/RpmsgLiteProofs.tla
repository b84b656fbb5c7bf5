-------------------------- MODULE RpmsgLiteProofs --------------------------
(***************************************************************************)
(* Proofs about RPMsg-Lite between the two cores, for every number of      *)
(* tasks, buffers and messages.  First types and start-up, then the safety *)
(* of rpmsg_lite.c: both vrings are used as virtqueue.c requires, messages *)
(* arrive in order, once and intact, and updates of a ring exclude each    *)
(* other.                                                                  *)
(***************************************************************************)
EXTENDS RpmsgLite, FiniteSetTheorems, SequenceTheorems, TLAPS

(* The contexts that work on a buffer have one. *)
TaskHas == {"fill", "enqueue", "publish", "release", "released"}
IsrHas == {"deliver", "free", "publish"}

DescInv ==
    /\ \A t \in Task : task[t].pc \in TaskHas => task[t].d \in Desc
    /\ \A c \in Core : isr[c].pc \in IsrHas => isr[c].d \in Desc
    /\ \A c \in Core : \A i \in DOMAIN queue[c] : queue[c][i].d \in Desc

TypeInv == TypeOK /\ DescInv

(* Before the rings are filled nothing happens but the two init functions. *)
Quiet ==
    /\ \A c \in Core : mu[c] = NoWord /\ link_state[c] = 0 /\ isr[c].pc = "off" /\ queue[c] = <<>>
    /\ \A t \in Task : task[t].pc = "idle" /\ task[t].nocopy = NoDesc

UseInv ==
    /\ boot["master"] # "start" => RingsFilled
    /\ ~RingsFilled => Quiet
    /\ \A c \in Core : isr[c].pc # "off" => boot[c] # "freed"

BaseInv == TypeInv /\ UseInv

-----------------------------------------------------------------------------
(* Sizes of the rings, and the types of index arithmetic.                  *)
LEMMA ConstFacts ==
    /\ NENTRIES \in Nat /\ NENTRIES > 0 /\ IDX_MOD \in Nat /\ IDX_MOD > NENTRIES
    /\ 0 \in Desc /\ 0 \in Index /\ NoDesc \notin Desc
    /\ \A i \in Index : IdxInc(i) \in Index /\ Slot(i) \in Desc
<1>1. NENTRIES \in Nat /\ NENTRIES > 0 /\ IDX_MOD \in Nat
  BY VringAssumption
<1>2. PICK q \in 2 .. IDX_MOD : IDX_MOD = q * NENTRIES
  BY VringAssumption
<1>3. IDX_MOD > NENTRIES
  BY <1>1, <1>2
<1>4. \A i \in Index : IdxInc(i) \in Index /\ Slot(i) \in Desc
  BY <1>1, <1>3 DEF IdxInc, Slot, Index, Desc
<1> QED
  BY <1>1, <1>3, <1>4, RpmsgAssumption DEF Desc, Index

(* What one core's transmit vring and rings are, the other core's receive  *)
(* vring and rings are.                                                    *)
LEMMA CoreFacts ==
    /\ \A c \in Core : /\ Rvq(c) \in Vq /\ Tvq(c) \in Vq /\ Rvq(c) # Tvq(c)
                       /\ Takes(c) \in Ring /\ Gives(c) \in Ring /\ Takes(c) # Gives(c)
                       /\ Other(c) \in Core /\ Other(c) # c /\ Other(Other(c)) = c
                       /\ Tvq(Other(c)) = Rvq(c) /\ Rvq(Other(c)) = Tvq(c)
                       /\ Takes(Other(c)) = Gives(c) /\ Gives(Other(c)) = Takes(c)
    /\ \A t \in Task : CoreOf(t) \in Core /\ t \in TasksOf(CoreOf(t))
    /\ \A c \in Core : \A t \in TasksOf(c) : t \in Task /\ CoreOf(t) = c
  BY RpmsgAssumption
     DEF Core, Rvq, Tvq, Vq, Takes, Gives, Ring, Other, CoreOf, Task, TasksOf

(* The number of the next message is within its bound.                     *)
LEMMA MsgFacts ==
    ASSUME TypeOK, NEW c \in Core, NEW dst \in Dests(c), calls[c] < MsgBound(c)
    PROVE  NewMsg(c, dst) \in Msg /\ calls[c] + 1 \in Nat /\ calls[c] + 1 <= MsgBound(c)
  BY RpmsgAssumption DEF TypeOK, LogTypes, NewMsg, Msg, Dests, MsgBound, Core

-----------------------------------------------------------------------------
(* The initial state.                                                      *)
LEMMA InitBase == Init => BaseInv
<1> SUFFICES ASSUME Init PROVE BaseInv
  OBVIOUS
<1>1. TypeOK
  BY ConstFacts, RpmsgAssumption
     DEF Init, TypeOK, RingTypes, LinkTypes, ContextTypes, LogTypes, ZeroedRing, Boot, IsrState,
         TaskState, MsgBound, Vq, Core
<1>2. DescInv
  BY DEF Init, DescInv, TaskHas, IsrHas
<1>3. UseInv
  BY DEF Init, UseInv, Quiet, Core
<1> QED
  BY <1>1, <1>2, <1>3 DEF BaseInv, TypeInv

(* The fields of a task's context.                                         *)
LEMMA TaskFacts ==
    ASSUME ContextTypes, NEW t \in Task
    PROVE  /\ task[t] \in TaskState
           /\ task[t].d \in Desc \union {NoDesc} /\ task[t].msg \in Msg \union {Empty}
           /\ task[t].tick \in Nat /\ task[t].timeout \in TIMEOUTS \union {0}
           /\ task[t].nocopy \in Desc \union {NoDesc}
  BY DEF ContextTypes, TaskState

(* An entry of a ring is a descriptor.                                     *)
LEMMA EntryFacts ==
    ASSUME RingTypes, NEW v \in Vq, NEW r \in Ring
    PROVE  OldestEntry(v, r) \in Desc
  BY ConstFacts DEF RingTypes, OldestEntry

(* rpmsg_lite_master_init fills the rings before anybody can use them.     *)
LEMMA MasterInitFillBase ==
    ASSUME BaseInv, NEW v \in Vq, master_init_fill(v)
    PROVE  BaseInv'
<1>1. RingTypes'
  <2>1. PICK r \in Ring : WriteEntry(v, r, vq_desc_head_idx[v]) /\ PublishEntry(v, r)
    BY DEF master_init_fill, Ring
  <2>2. RingTypes /\ vq_desc_head_idx[v] \in Desc /\ vq_desc_head_idx[v] + 1 \in 0 .. NENTRIES
    <3>1. RingTypes /\ vq_desc_head_idx[v] < NENTRIES
      BY DEF BaseInv, TypeInv, TypeOK, master_init_fill
    <3>2. vq_desc_head_idx[v] \in 0 .. NENTRIES
      BY <3>1 DEF RingTypes
    <3> QED
      BY <3>1, <3>2, ConstFacts DEF Desc
  <2>3. ring' \in [Vq -> [Ring -> [Desc -> Desc]]]
    BY <2>1, <2>2 DEF RingTypes, WriteEntry
  <2>4. idx' \in [Vq -> [Ring -> Index]]
    BY <2>1, <2>2, ConstFacts DEF RingTypes, PublishEntry
  <2> QED
    BY <2>2, <2>3, <2>4 DEF RingTypes, master_init_fill
<1>2. LinkTypes'
  BY DEF BaseInv, TypeInv, TypeOK, LinkTypes, master_init_fill
<1>3. ContextTypes'
  <2>1. isr' \in [Core -> IsrState]
    BY DEF BaseInv, TypeInv, TypeOK, ContextTypes, master_init_fill
  <2>2. task' \in [Task -> TaskState]
    BY DEF BaseInv, TypeInv, TypeOK, ContextTypes, master_init_fill
  <2>3. lock' \in [Core -> Task \union {NoTask}]
    BY DEF BaseInv, TypeInv, TypeOK, ContextTypes, master_init_fill
  <2>4. queue' \in [Core -> Seq(QueueEntry)] /\ \A e \in Core : Len(queue'[e]) <= NENTRIES
    BY DEF BaseInv, TypeInv, TypeOK, ContextTypes, master_init_fill
  <2> QED
    BY <2>1, <2>2, <2>3, <2>4 DEF ContextTypes
<1>4. LogTypes'
  BY DEF BaseInv, TypeInv, TypeOK, LogTypes, master_init_fill, logVars
<1>5. DescInv'
  BY DEF BaseInv, TypeInv, TypeOK, DescInv, master_init_fill
<1>6. UseInv'
  BY DEF BaseInv, TypeInv, TypeOK, UseInv, Quiet, RingsFilled, RingTypes, master_init_fill
<1> QED
  BY <1>1, <1>2, <1>3, <1>4, <1>5, <1>6 DEF BaseInv, TypeInv, TypeOK

(* rpmsg_lite_master_init enables the link.                                *)
LEMMA MasterInitLinkBase ==
    ASSUME BaseInv, master_init_link
    PROVE  BaseInv'
<1>1. RingTypes'
  BY DEF BaseInv, TypeInv, TypeOK, RingTypes, master_init_link, ringVars
<1>2. LinkTypes'
  BY DEF BaseInv, TypeInv, TypeOK, LinkTypes, Core, Boot, master_init_link
<1>3. ContextTypes'
  <2>1. isr' \in [Core -> IsrState]
    BY DEF BaseInv, TypeInv, TypeOK, ContextTypes, master_init_link
  <2>2. task' \in [Task -> TaskState]
    BY DEF BaseInv, TypeInv, TypeOK, ContextTypes, master_init_link
  <2>3. lock' \in [Core -> Task \union {NoTask}]
    BY DEF BaseInv, TypeInv, TypeOK, ContextTypes, master_init_link
  <2>4. queue' \in [Core -> Seq(QueueEntry)] /\ \A e \in Core : Len(queue'[e]) <= NENTRIES
    BY DEF BaseInv, TypeInv, TypeOK, ContextTypes, master_init_link
  <2> QED
    BY <2>1, <2>2, <2>3, <2>4 DEF ContextTypes
<1>4. LogTypes'
  BY DEF BaseInv, TypeInv, TypeOK, LogTypes, master_init_link, logVars
<1>5. DescInv'
  BY DEF BaseInv, TypeInv, TypeOK, DescInv, master_init_link
<1>6. UseInv'
  BY DEF BaseInv, TypeInv, TypeOK, UseInv, RingsFilled, LinkTypes, master_init_link, ringVars
<1> QED
  BY <1>1, <1>2, <1>3, <1>4, <1>5, <1>6 DEF BaseInv, TypeInv, TypeOK

(* rpmsg_lite_master_init notifies the remote.                             *)
LEMMA MasterInitKickBase ==
    ASSUME BaseInv, master_init_kick
    PROVE  BaseInv'
<1>1. RingTypes'
  BY DEF BaseInv, TypeInv, TypeOK, RingTypes, master_init_kick, ringVars
<1>0. boot' = [boot EXCEPT !["master"] = "up"] /\ mu' = [mu EXCEPT !["remote"] = 0]
  BY DEF master_init_kick, virtqueue_kick, platform_notify, Other, Rvq
<1>2. LinkTypes'
  BY <1>0 DEF BaseInv, TypeInv, TypeOK, LinkTypes, Boot, Vq, master_init_kick
<1>3. ContextTypes'
  <2>1. isr' \in [Core -> IsrState]
    BY DEF BaseInv, TypeInv, TypeOK, ContextTypes, master_init_kick
  <2>2. task' \in [Task -> TaskState]
    BY DEF BaseInv, TypeInv, TypeOK, ContextTypes, master_init_kick
  <2>3. lock' \in [Core -> Task \union {NoTask}]
    BY DEF BaseInv, TypeInv, TypeOK, ContextTypes, master_init_kick
  <2>4. queue' \in [Core -> Seq(QueueEntry)] /\ \A e \in Core : Len(queue'[e]) <= NENTRIES
    BY DEF BaseInv, TypeInv, TypeOK, ContextTypes, master_init_kick
  <2> QED
    BY <2>1, <2>2, <2>3, <2>4 DEF ContextTypes
<1>4. LogTypes'
  BY DEF BaseInv, TypeInv, TypeOK, LogTypes, master_init_kick, logVars
<1>5. DescInv'
  BY DEF BaseInv, TypeInv, TypeOK, DescInv, master_init_kick
<1>6. UseInv'
  BY <1>0
     DEF BaseInv, TypeInv, TypeOK, UseInv, RingsFilled, LinkTypes, Core, master_init_kick,
         ringVars
<1> QED
  BY <1>1, <1>2, <1>3, <1>4, <1>5, <1>6 DEF BaseInv, TypeInv, TypeOK

(* The steps of rpmsg_lite_remote_init, none of which touches a ring.      *)
LEMMA RemoteInitBase ==
    ASSUME BaseInv, NEW p \in Boot, NEW q \in Boot, RemoteInitStep(p, q),
           link_state' = [link_state EXCEPT !["remote"] = 0] \/ UNCHANGED link_state
    PROVE  BaseInv'
<1>1. RingTypes'
  BY DEF BaseInv, TypeInv, TypeOK, RingTypes, RemoteInitStep, ringVars
<1>2. LinkTypes'
  BY DEF BaseInv, TypeInv, TypeOK, LinkTypes, RemoteInitStep
<1>3. ContextTypes'
  <2>1. isr' \in [Core -> IsrState]
    BY DEF BaseInv, TypeInv, TypeOK, ContextTypes, RemoteInitStep
  <2>2. task' \in [Task -> TaskState]
    BY DEF BaseInv, TypeInv, TypeOK, ContextTypes, RemoteInitStep
  <2>3. lock' \in [Core -> Task \union {NoTask}]
    BY DEF BaseInv, TypeInv, TypeOK, ContextTypes, RemoteInitStep
  <2>4. queue' \in [Core -> Seq(QueueEntry)] /\ \A e \in Core : Len(queue'[e]) <= NENTRIES
    BY DEF BaseInv, TypeInv, TypeOK, ContextTypes, RemoteInitStep
  <2> QED
    BY <2>1, <2>2, <2>3, <2>4 DEF ContextTypes
<1>4. LogTypes'
  BY DEF BaseInv, TypeInv, TypeOK, LogTypes, RemoteInitStep, logVars
<1>5. DescInv'
  BY DEF BaseInv, TypeInv, TypeOK, DescInv, RemoteInitStep
<1>6. UseInv'
  BY DEF BaseInv, TypeInv, TypeOK, UseInv, Quiet, RingsFilled, LinkTypes, RemoteInitStep, ringVars
<1> QED
  BY <1>1, <1>2, <1>3, <1>4, <1>5, <1>6 DEF BaseInv, TypeInv, TypeOK

(* The steps of rpmsg_lite_deinit.                                         *)
LEMMA DeinitBase ==
    ASSUME BaseInv, NEW c \in Core, NEW p \in Boot, p # "start", NEW q \in Boot, DeinitStep(c, p, q),
           link_state' = [link_state EXCEPT ![c] = 0] \/ UNCHANGED link_state
    PROVE  BaseInv'
<1>1. RingTypes'
  BY DEF BaseInv, TypeInv, TypeOK, RingTypes, DeinitStep, ringVars
<1>2. LinkTypes'
  BY DEF BaseInv, TypeInv, TypeOK, LinkTypes, DeinitStep
<1>3. ContextTypes'
  <2>1. isr' \in [Core -> IsrState]
    BY DEF BaseInv, TypeInv, TypeOK, ContextTypes, DeinitStep
  <2>2. task' \in [Task -> TaskState]
    BY DEF BaseInv, TypeInv, TypeOK, ContextTypes, DeinitStep
  <2>3. lock' \in [Core -> Task \union {NoTask}]
    BY DEF BaseInv, TypeInv, TypeOK, ContextTypes, DeinitStep
  <2>4. queue' \in [Core -> Seq(QueueEntry)] /\ \A e \in Core : Len(queue'[e]) <= NENTRIES
    BY DEF BaseInv, TypeInv, TypeOK, ContextTypes, DeinitStep
  <2> QED
    BY <2>1, <2>2, <2>3, <2>4 DEF ContextTypes
<1>4. LogTypes'
  BY DEF BaseInv, TypeInv, TypeOK, LogTypes, DeinitStep, logVars
<1>5. DescInv'
  BY DEF BaseInv, TypeInv, TypeOK, DescInv, DeinitStep
<1>6. UseInv'
  BY DEF BaseInv, TypeInv, TypeOK, UseInv, Quiet, RingsFilled, LinkTypes, DeinitStep, ringVars
<1> QED
  BY <1>1, <1>2, <1>3, <1>4, <1>5, <1>6 DEF BaseInv, TypeInv, TypeOK

(* The MU interrupt begins.                                                *)
LEMMA EnvIsrBase ==
    ASSUME BaseInv, NEW c \in Core, env_isr(c)
    PROVE  BaseInv'
<1>1. /\ isr[c].pc = "off" /\ mu[c] # NoWord /\ mu' = [mu EXCEPT ![c] = NoWord]
      /\ UNCHANGED <<ringVars, logVars, buf, boot, task, lock, queue>>
      /\ \/ UNCHANGED <<isr, link_state>>
         \/ link_state' = [link_state EXCEPT ![c] = 1] /\ UNCHANGED isr
         \/ isr' = [isr EXCEPT ![c].pc = "check"] /\ UNCHANGED link_state /\ boot[c] # "freed"
  BY DEF env_isr, virtqueue_notification, rpmsg_lite_tx_callback, rpmsg_lite_rx_callback, IsrTable
<1>2. RingTypes' /\ LogTypes'
  BY <1>1 DEF BaseInv, TypeInv, TypeOK, RingTypes, LogTypes, ringVars, logVars
<1>3. LinkTypes'
  BY <1>1 DEF BaseInv, TypeInv, TypeOK, LinkTypes
<1>4. ContextTypes'
  BY <1>1 DEF BaseInv, TypeInv, TypeOK, ContextTypes, IsrState
<1>5. DescInv'
  BY <1>1 DEF BaseInv, TypeInv, TypeOK, ContextTypes, IsrState, DescInv, IsrHas
<1>6. UseInv'
  BY <1>1
     DEF BaseInv, TypeInv, TypeOK, ContextTypes, LinkTypes, IsrState, UseInv, Quiet, RingsFilled,
         ringVars
<1> QED
  BY <1>2, <1>3, <1>4, <1>5, <1>6 DEF BaseInv, TypeInv, TypeOK

(* The receive callback looks for an entry.                                *)
LEMMA RxCheckBase ==
    ASSUME BaseInv, NEW c \in Core, rx_check(c)
    PROVE  BaseInv'
<1>1. RingTypes'
  BY DEF BaseInv, TypeInv, TypeOK, RingTypes, rx_check, ringVars
<1>2. LinkTypes'
  BY DEF BaseInv, TypeInv, TypeOK, LinkTypes, rx_check
<1>3. ContextTypes'
  <2>1. isr' \in [Core -> IsrState]
    <3>1. PICK p \in {"read", "off"} : isr' = [isr EXCEPT ![c].pc = p]
      BY DEF rx_check
    <3>2. isr \in [Core -> IsrState]
      BY DEF BaseInv, TypeInv, TypeOK, ContextTypes
    <3> QED
      BY <3>1, <3>2 DEF IsrState
  <2>2. task' \in [Task -> TaskState]
    BY DEF BaseInv, TypeInv, TypeOK, ContextTypes, rx_check
  <2>3. lock' \in [Core -> Task \union {NoTask}]
    BY DEF BaseInv, TypeInv, TypeOK, ContextTypes, rx_check
  <2>4. queue' \in [Core -> Seq(QueueEntry)] /\ \A e \in Core : Len(queue'[e]) <= NENTRIES
    BY DEF BaseInv, TypeInv, TypeOK, ContextTypes, rx_check
  <2> QED
    BY <2>1, <2>2, <2>3, <2>4 DEF ContextTypes
<1>4. LogTypes'
  BY DEF BaseInv, TypeInv, TypeOK, LogTypes, rx_check, logVars
<1>5. DescInv'
  BY DEF BaseInv, TypeInv, DescInv, rx_check, IsrHas
<1>6. UseInv'
  BY DEF BaseInv, TypeInv, TypeOK, UseInv, Quiet, RingsFilled, rx_check, ringVars
<1> QED
  BY <1>1, <1>2, <1>3, <1>4, <1>5, <1>6 DEF BaseInv, TypeInv, TypeOK

(* The receive callback takes an entry.                                    *)
LEMMA RxReadBase ==
    ASSUME BaseInv, NEW c \in Core, rx_read(c)
    PROVE  BaseInv'
<1>1. RingTypes'
  BY ConstFacts, CoreFacts DEF BaseInv, TypeInv, TypeOK, RingTypes, rx_read, SkipEntry
<1>2. LinkTypes'
  BY DEF BaseInv, TypeInv, TypeOK, LinkTypes, rx_read
<1>3. ContextTypes'
  <2>1. isr' \in [Core -> IsrState]
    BY ConstFacts, CoreFacts
       DEF BaseInv, TypeInv, TypeOK, ContextTypes, RingTypes, IsrState, rx_read, OldestEntry
  <2>2. task' \in [Task -> TaskState]
    BY DEF BaseInv, TypeInv, TypeOK, ContextTypes, rx_read
  <2>3. lock' \in [Core -> Task \union {NoTask}]
    BY DEF BaseInv, TypeInv, TypeOK, ContextTypes, rx_read
  <2>4. queue' \in [Core -> Seq(QueueEntry)] /\ \A e \in Core : Len(queue'[e]) <= NENTRIES
    BY DEF BaseInv, TypeInv, TypeOK, ContextTypes, rx_read
  <2> QED
    BY <2>1, <2>2, <2>3, <2>4 DEF ContextTypes
<1>4. LogTypes'
  BY DEF BaseInv, TypeInv, TypeOK, LogTypes, rx_read, logVars
<1>5. DescInv'
  BY ConstFacts, CoreFacts DEF BaseInv, TypeInv, TypeOK, DescInv, RingTypes, rx_read, OldestEntry
<1>6. UseInv'
  BY DEF BaseInv, TypeInv, TypeOK, UseInv, Quiet, RingsFilled, rx_read, ringVars
<1> QED
  BY <1>1, <1>2, <1>3, <1>4, <1>5, <1>6 DEF BaseInv, TypeInv, TypeOK

(* A message goes to the queue of its endpoint only while there is room.   *)
LEMMA RxDeliverBase ==
    ASSUME BaseInv, NEW c \in Core, rx_deliver(c)
    PROVE  BaseInv'
<1>1. RingTypes'
  BY DEF BaseInv, TypeInv, TypeOK, RingTypes, rx_deliver, ringVars
<1>2. LinkTypes'
  BY DEF BaseInv, TypeInv, TypeOK, LinkTypes, rx_deliver
<1>3. ContextTypes'
  <2>1. isr' \in [Core -> IsrState]
    <3>1. \/ isr' = [isr EXCEPT ![c] = [pc |-> "check", d |-> NoDesc]]
          \/ isr' = [isr EXCEPT ![c].pc = "free"]
      BY DEF rx_deliver
    <3>2. isr \in [Core -> IsrState]
      BY DEF BaseInv, TypeInv, TypeOK, ContextTypes
    <3> QED
      BY <3>1, <3>2 DEF IsrState
  <2>2. task' \in [Task -> TaskState]
    BY DEF BaseInv, TypeInv, TypeOK, ContextTypes, rx_deliver
  <2>3. lock' \in [Core -> Task \union {NoTask}]
    BY DEF BaseInv, TypeInv, TypeOK, ContextTypes, rx_deliver
  <2>4. queue' \in [Core -> Seq(QueueEntry)] /\ \A e \in Core : Len(queue'[e]) <= NENTRIES
    <3>1. \/ UNCHANGED queue
          \/ \E x \in QueueEntry : /\ queue' = [queue EXCEPT ![c] = Append(@, x)]
                                   /\ ~(Len(queue[c]) >= NENTRIES)
      <4>1. [d |-> isr[c].d, msg |-> buf[Rvq(c)][isr[c].d]] \in QueueEntry
        BY CoreFacts
           DEF BaseInv, TypeInv, TypeOK, RingTypes, DescInv, IsrHas, QueueEntry, rx_deliver
      <4> QED
        BY <4>1 DEF rx_deliver, rpmsg_queue_rx_cb, QueueFull, env_put_queue
    <3>2. /\ queue \in [Core -> Seq(QueueEntry)]
          /\ \A e \in Core : Len(queue[e]) \in Nat /\ Len(queue[e]) <= NENTRIES
      BY DEF BaseInv, TypeInv, TypeOK, ContextTypes
    <3>3. ASSUME NEW x \in QueueEntry, queue' = [queue EXCEPT ![c] = Append(@, x)],
                 ~(Len(queue[c]) >= NENTRIES)
          PROVE  queue' \in [Core -> Seq(QueueEntry)] /\ \A e \in Core : Len(queue'[e]) <= NENTRIES
      <4>1. Append(queue[c], x) \in Seq(QueueEntry) /\ Len(Append(queue[c], x)) = Len(queue[c]) + 1
        BY <3>2
      <4> QED
        BY <3>2, <3>3, <4>1, ConstFacts
    <3> QED
      BY <3>1, <3>2, <3>3
  <2> QED
    BY <2>1, <2>2, <2>3, <2>4 DEF ContextTypes
<1>4. LogTypes'
  BY ConstFacts, CoreFacts, RpmsgAssumption, SMTT(20)
     DEF BaseInv, TypeInv, TypeOK, LogTypes, ContextTypes, RingTypes, DescInv, rx_deliver,
         env_put_queue, rpmsg_queue_rx_cb, QueueFull, QueueEntry, IsrState, IsrHas, ringVars,
         logVars
<1>5. DescInv'
  <2>1. \A e \in Core :
          \/ queue'[e] = queue[e]
          \/ e = c /\ queue'[e] = Append(queue[e], [d |-> isr[c].d, msg |-> buf[Rvq(c)][isr[c].d]])
    BY DEF BaseInv, TypeInv, TypeOK, ContextTypes, rx_deliver, env_put_queue
  <2>2. isr[c].d \in Desc /\ \A e \in Core : queue[e] \in Seq(QueueEntry)
    BY DEF BaseInv, TypeInv, TypeOK, ContextTypes, DescInv, IsrHas, rx_deliver
  <2>3. \A e \in Core : \A i \in DOMAIN queue'[e] : queue'[e][i].d \in Desc
    <3> TAKE e \in Core
    <3>1. CASE queue'[e] = queue[e]
      BY <3>1 DEF BaseInv, TypeInv, DescInv
    <3>2. CASE /\ e = c
               /\ queue'[e] = Append(queue[e], [d |-> isr[c].d, msg |-> buf[Rvq(c)][isr[c].d]])
      <4>1. \A i \in DOMAIN queue'[e] : \/ i \in DOMAIN queue[e] /\ queue'[e][i] = queue[e][i]
                                        \/ queue'[e][i].d = isr[c].d
        BY <2>2, <3>2
      <4> QED
        BY <2>2, <4>1 DEF BaseInv, TypeInv, DescInv
    <3> QED
      BY <2>1, <3>1, <3>2
  <2>4. \/ isr' = [isr EXCEPT ![c] = [pc |-> "check", d |-> NoDesc]]
        \/ isr' = [isr EXCEPT ![c].pc = "free"]
    BY DEF rx_deliver
  <2>5. \A e \in Core : isr'[e].pc \in IsrHas => isr'[e].d \in Desc
    <3>1. \A e \in Core : e # c => isr'[e] = isr[e]
      BY <2>4 DEF BaseInv, TypeInv, TypeOK, ContextTypes
    <3>2. isr'[c].pc \in IsrHas => isr'[c].d = isr[c].d
      BY <2>4 DEF BaseInv, TypeInv, TypeOK, ContextTypes, IsrState, IsrHas
    <3> QED
      BY <2>2, <3>1, <3>2 DEF BaseInv, TypeInv, DescInv
  <2> QED
    BY <2>3, <2>5 DEF BaseInv, TypeInv, DescInv, rx_deliver
<1>6. UseInv'
  BY DEF BaseInv, TypeInv, TypeOK, UseInv, Quiet, RingsFilled, ContextTypes, Core, rx_deliver,
         IsrState, ringVars
<1> QED
  BY <1>1, <1>2, <1>3, <1>4, <1>5, <1>6 DEF BaseInv, TypeInv, TypeOK

(* The callback writes the entry of a buffer that it gives back.           *)
LEMMA RxFreeBase ==
    ASSUME BaseInv, NEW c \in Core, rx_free(c)
    PROVE  BaseInv'
<1>1. RingTypes'
  BY ConstFacts, CoreFacts
     DEF BaseInv, TypeInv, TypeOK, RingTypes, DescInv, rx_free, WriteEntry, IsrHas
<1>2. LinkTypes'
  BY DEF BaseInv, TypeInv, TypeOK, LinkTypes, rx_free
<1>3. ContextTypes'
  <2>1. isr' \in [Core -> IsrState]
    BY DEF BaseInv, TypeInv, TypeOK, ContextTypes, rx_free, IsrState
  <2>2. task' \in [Task -> TaskState]
    BY DEF BaseInv, TypeInv, TypeOK, ContextTypes, rx_free
  <2>3. lock' \in [Core -> Task \union {NoTask}]
    BY DEF BaseInv, TypeInv, TypeOK, ContextTypes, rx_free
  <2>4. queue' \in [Core -> Seq(QueueEntry)] /\ \A e \in Core : Len(queue'[e]) <= NENTRIES
    BY DEF BaseInv, TypeInv, TypeOK, ContextTypes, rx_free
  <2> QED
    BY <2>1, <2>2, <2>3, <2>4 DEF ContextTypes
<1>4. LogTypes'
  BY DEF BaseInv, TypeInv, TypeOK, LogTypes, rx_free, logVars
<1>5. DescInv'
  BY DEF BaseInv, TypeInv, DescInv, rx_free, IsrHas
<1>6. UseInv'
  BY DEF BaseInv, TypeInv, TypeOK, UseInv, Quiet, RingsFilled, rx_free, ringVars
<1> QED
  BY <1>1, <1>2, <1>3, <1>4, <1>5, <1>6 DEF BaseInv, TypeInv, TypeOK

(* The callback publishes it.                                              *)
LEMMA RxFreePublishBase ==
    ASSUME BaseInv, NEW c \in Core, rx_free_publish(c)
    PROVE  BaseInv'
<1>1. RingTypes'
  BY ConstFacts, CoreFacts DEF BaseInv, TypeInv, TypeOK, RingTypes, rx_free_publish, PublishEntry
<1>2. LinkTypes'
  BY DEF BaseInv, TypeInv, TypeOK, LinkTypes, rx_free_publish
<1>3. ContextTypes'
  <2>1. isr' \in [Core -> IsrState]
    BY DEF BaseInv, TypeInv, TypeOK, ContextTypes, IsrState, rx_free_publish
  <2>2. task' \in [Task -> TaskState]
    BY DEF BaseInv, TypeInv, TypeOK, ContextTypes, rx_free_publish
  <2>3. lock' \in [Core -> Task \union {NoTask}]
    BY DEF BaseInv, TypeInv, TypeOK, ContextTypes, rx_free_publish
  <2>4. queue' \in [Core -> Seq(QueueEntry)] /\ \A e \in Core : Len(queue'[e]) <= NENTRIES
    BY DEF BaseInv, TypeInv, TypeOK, ContextTypes, rx_free_publish
  <2> QED
    BY <2>1, <2>2, <2>3, <2>4 DEF ContextTypes
<1>4. LogTypes'
  BY DEF BaseInv, TypeInv, TypeOK, LogTypes, rx_free_publish, logVars
<1>5. DescInv'
  BY DEF BaseInv, TypeInv, DescInv, rx_free_publish, IsrHas
<1>6. UseInv'
  BY DEF BaseInv, TypeInv, TypeOK, UseInv, Quiet, RingsFilled, rx_free_publish, ringVars
<1> QED
  BY <1>1, <1>2, <1>3, <1>4, <1>5, <1>6 DEF BaseInv, TypeInv, TypeOK

(* rpmsg_lite_send is called.                                              *)
LEMMA RpmsgLiteSendBase ==
    ASSUME BaseInv, NEW t \in Task, rpmsg_lite_send(t)
    PROVE  BaseInv'
<1>1. RingTypes'
  BY DEF BaseInv, TypeInv, TypeOK, RingTypes, rpmsg_lite_send, ringVars
<1>2. LinkTypes'
  BY DEF BaseInv, TypeInv, TypeOK, LinkTypes, rpmsg_lite_send
<1>3. ContextTypes'
  <2>1. isr' \in [Core -> IsrState]
    BY DEF BaseInv, TypeInv, TypeOK, ContextTypes, rpmsg_lite_send
  <2>2. task' \in [Task -> TaskState]
    <3>1. PICK m \in Msg, x \in TIMEOUTS :
             task' = [task EXCEPT ![t].pc = "alloc", ![t].msg = m, ![t].timeout = x]
      BY MsgFacts, CoreFacts DEF rpmsg_lite_send, MaySend, BaseInv, TypeInv, TypeOK
    <3>2. task \in [Task -> TaskState]
      BY DEF BaseInv, TypeInv, TypeOK, ContextTypes
    <3>3. [task[t] EXCEPT !.pc = "alloc", !.msg = m, !.timeout = x] \in TaskState
      BY TaskFacts DEF BaseInv, TypeInv, TypeOK, TaskState
    <3> QED
      BY <3>1, <3>2, <3>3
  <2>3. lock' \in [Core -> Task \union {NoTask}]
    BY DEF BaseInv, TypeInv, TypeOK, ContextTypes, rpmsg_lite_send
  <2>4. queue' \in [Core -> Seq(QueueEntry)] /\ \A e \in Core : Len(queue'[e]) <= NENTRIES
    BY DEF BaseInv, TypeInv, TypeOK, ContextTypes, rpmsg_lite_send
  <2> QED
    BY <2>1, <2>2, <2>3, <2>4 DEF ContextTypes
<1>4. LogTypes'
  BY ConstFacts, CoreFacts, MsgFacts, RpmsgAssumption, SMTT(20)
     DEF BaseInv, TypeInv, TypeOK, LogTypes, ContextTypes, RingTypes, DescInv, rpmsg_lite_send,
         Runs, TaskState, TaskHas, MaySend, ringVars, logVars
<1>5. DescInv'
  BY DEF BaseInv, TypeInv, TypeOK, DescInv, ContextTypes, rpmsg_lite_send, TaskHas
<1>6. UseInv'
  BY CoreFacts DEF BaseInv, UseInv, Quiet, RingsFilled, rpmsg_lite_send, MaySend, ringVars
<1> QED
  BY <1>1, <1>2, <1>3, <1>4, <1>5, <1>6 DEF BaseInv, TypeInv, TypeOK

(* rpmsg_lite_alloc_tx_buffer is called.                                   *)
LEMMA RpmsgLiteAllocTxBufferBase ==
    ASSUME BaseInv, NEW t \in Task, rpmsg_lite_alloc_tx_buffer(t)
    PROVE  BaseInv'
<1>1. RingTypes'
  BY DEF BaseInv, TypeInv, TypeOK, RingTypes, rpmsg_lite_alloc_tx_buffer, ringVars
<1>2. LinkTypes'
  BY DEF BaseInv, TypeInv, TypeOK, LinkTypes, rpmsg_lite_alloc_tx_buffer
<1>3. ContextTypes'
  <2>1. isr' \in [Core -> IsrState]
    BY DEF BaseInv, TypeInv, TypeOK, ContextTypes, rpmsg_lite_alloc_tx_buffer
  <2>2. task' \in [Task -> TaskState]
    <3>1. PICK x \in TIMEOUTS : task' = [task EXCEPT ![t].pc = "alloc", ![t].timeout = x]
      BY DEF rpmsg_lite_alloc_tx_buffer
    <3>2. task \in [Task -> TaskState]
      BY DEF BaseInv, TypeInv, TypeOK, ContextTypes
    <3> QED
      BY <3>1, <3>2 DEF TaskState
  <2>3. lock' \in [Core -> Task \union {NoTask}]
    BY DEF BaseInv, TypeInv, TypeOK, ContextTypes, rpmsg_lite_alloc_tx_buffer
  <2>4. queue' \in [Core -> Seq(QueueEntry)] /\ \A e \in Core : Len(queue'[e]) <= NENTRIES
    BY DEF BaseInv, TypeInv, TypeOK, ContextTypes, rpmsg_lite_alloc_tx_buffer
  <2> QED
    BY <2>1, <2>2, <2>3, <2>4 DEF ContextTypes
<1>4. LogTypes'
  BY DEF BaseInv, TypeInv, TypeOK, LogTypes, rpmsg_lite_alloc_tx_buffer, logVars
<1>5. DescInv'
  BY DEF BaseInv, TypeInv, TypeOK, DescInv, ContextTypes, rpmsg_lite_alloc_tx_buffer, TaskHas
<1>6. UseInv'
  BY CoreFacts
     DEF BaseInv, UseInv, Quiet, RingsFilled, rpmsg_lite_alloc_tx_buffer, MaySend, ringVars
<1> QED
  BY <1>1, <1>2, <1>3, <1>4, <1>5, <1>6 DEF BaseInv, TypeInv, TypeOK

(* A sender looks for a free buffer.                                       *)
LEMMA TxAllocBase ==
    ASSUME BaseInv, NEW t \in Task, tx_alloc(t)
    PROVE  BaseInv'
<1>1. RingTypes'
  BY DEF BaseInv, TypeInv, TypeOK, RingTypes, tx_alloc, ringVars
<1>2. LinkTypes'
  BY DEF BaseInv, TypeInv, TypeOK, LinkTypes, tx_alloc
<1>3. ContextTypes'
  <2>1. isr' \in [Core -> IsrState]
    BY DEF BaseInv, TypeInv, TypeOK, ContextTypes, tx_alloc
  <2>2. task' \in [Task -> TaskState]
    <3>1. PICK s \in TaskState : task' = [task EXCEPT ![t] = s]
      BY TaskFacts DEF tx_alloc, Returned, TaskState, BaseInv, TypeInv, TypeOK, ContextTypes
    <3> QED
      BY <3>1 DEF BaseInv, TypeInv, TypeOK, ContextTypes, TaskState
  <2>3. lock' \in [Core -> Task \union {NoTask}]
    BY DEF BaseInv, TypeInv, TypeOK, ContextTypes, tx_alloc
  <2>4. queue' \in [Core -> Seq(QueueEntry)] /\ \A e \in Core : Len(queue'[e]) <= NENTRIES
    BY DEF BaseInv, TypeInv, TypeOK, ContextTypes, tx_alloc
  <2> QED
    BY <2>1, <2>2, <2>3, <2>4 DEF ContextTypes
<1>4. LogTypes'
  BY DEF BaseInv, TypeInv, TypeOK, LogTypes, tx_alloc, logVars
<1>5. DescInv'
  <2>1. \A u \in Task : task'[u] = task[u] \/ task'[u].pc \notin TaskHas
    BY TaskFacts
       DEF BaseInv, TypeInv, TypeOK, ContextTypes, tx_alloc, Returned, TaskState, TaskHas
  <2> QED
    BY <2>1 DEF BaseInv, TypeInv, DescInv, tx_alloc
<1>6. UseInv'
  BY DEF BaseInv, UseInv, Quiet, RingsFilled, tx_alloc, Runs, ringVars
<1> QED
  BY <1>1, <1>2, <1>3, <1>4, <1>5, <1>6 DEF BaseInv, TypeInv, TypeOK

(* A sender that found none has slept.                                     *)
LEMMA TxSleepBase ==
    ASSUME BaseInv, NEW t \in Task, tx_sleep(t)
    PROVE  BaseInv'
<1>1. RingTypes'
  BY DEF BaseInv, TypeInv, TypeOK, RingTypes, tx_sleep, ringVars
<1>2. LinkTypes'
  BY DEF BaseInv, TypeInv, TypeOK, LinkTypes, tx_sleep
<1>3. ContextTypes'
  <2>1. isr' \in [Core -> IsrState]
    BY DEF BaseInv, TypeInv, TypeOK, ContextTypes, tx_sleep
  <2>2. task' \in [Task -> TaskState]
    <3>1. PICK x \in Nat : task' = [task EXCEPT ![t].pc = "alloc", ![t].tick = x]
      <4>1. task[t].tick \in Nat /\ task[t].tick + 1 \in Nat
        BY TaskFacts DEF BaseInv, TypeInv, TypeOK
      <4> QED
        BY <4>1 DEF tx_sleep
    <3>2. task \in [Task -> TaskState]
      BY DEF BaseInv, TypeInv, TypeOK, ContextTypes
    <3> QED
      BY <3>1, <3>2 DEF TaskState
  <2>3. lock' \in [Core -> Task \union {NoTask}]
    BY DEF BaseInv, TypeInv, TypeOK, ContextTypes, tx_sleep
  <2>4. queue' \in [Core -> Seq(QueueEntry)] /\ \A e \in Core : Len(queue'[e]) <= NENTRIES
    BY DEF BaseInv, TypeInv, TypeOK, ContextTypes, tx_sleep
  <2> QED
    BY <2>1, <2>2, <2>3, <2>4 DEF ContextTypes
<1>4. LogTypes'
  BY DEF BaseInv, TypeInv, TypeOK, LogTypes, tx_sleep, logVars
<1>5. DescInv'
  BY DEF BaseInv, TypeInv, TypeOK, DescInv, ContextTypes, tx_sleep, TaskHas
<1>6. UseInv'
  BY DEF BaseInv, UseInv, Quiet, RingsFilled, tx_sleep, Runs, ringVars
<1> QED
  BY <1>1, <1>2, <1>3, <1>4, <1>5, <1>6 DEF BaseInv, TypeInv, TypeOK

(* A sender takes a buffer.                                                *)
LEMMA TxTakeBase ==
    ASSUME BaseInv, NEW t \in Task, tx_take(t)
    PROVE  BaseInv'
<1>1. RingTypes'
  BY ConstFacts, CoreFacts DEF BaseInv, TypeInv, TypeOK, RingTypes, tx_take, SkipEntry
<1>2. LinkTypes'
  BY DEF BaseInv, TypeInv, TypeOK, LinkTypes, tx_take
<1>3. ContextTypes'
  <2>1. isr' \in [Core -> IsrState]
    BY DEF BaseInv, TypeInv, TypeOK, ContextTypes, tx_take
  <2>2. task' \in [Task -> TaskState]
    <3>1. PICK s \in TaskState : task' = [task EXCEPT ![t] = s]
      <4>1. OldestEntry(Tvq(CoreOf(t)), Takes(CoreOf(t))) \in Desc
        BY CoreFacts, EntryFacts DEF BaseInv, TypeInv, TypeOK
      <4>2. PICK d \in Desc :
               task' = [task EXCEPT ![t] =
                   IF task[t].msg = Empty THEN [Returned(t) EXCEPT !.nocopy = d]
                   ELSE [@ EXCEPT !.pc = "fill", !.d = d, !.tick = 0, !.timeout = 0]]
        BY <4>1 DEF tx_take
      <4>3. [Returned(t) EXCEPT !.nocopy = d] \in TaskState
        BY TaskFacts DEF BaseInv, TypeInv, TypeOK, Returned, TaskState
      <4>4. [task[t] EXCEPT !.pc = "fill", !.d = d, !.tick = 0, !.timeout = 0] \in TaskState
        BY TaskFacts DEF BaseInv, TypeInv, TypeOK, TaskState
      <4> QED
        BY <4>2, <4>3, <4>4
    <3> QED
      BY <3>1 DEF BaseInv, TypeInv, TypeOK, ContextTypes, TaskState
  <2>3. lock' \in [Core -> Task \union {NoTask}]
    BY DEF BaseInv, TypeInv, TypeOK, ContextTypes, tx_take
  <2>4. queue' \in [Core -> Seq(QueueEntry)] /\ \A e \in Core : Len(queue'[e]) <= NENTRIES
    BY DEF BaseInv, TypeInv, TypeOK, ContextTypes, tx_take
  <2> QED
    BY <2>1, <2>2, <2>3, <2>4 DEF ContextTypes
<1>4. LogTypes'
  BY DEF BaseInv, TypeInv, TypeOK, LogTypes, tx_take, logVars
<1>5. DescInv'
  BY ConstFacts, CoreFacts
     DEF BaseInv, TypeInv, TypeOK, DescInv, RingTypes, tx_take, TaskHas, Returned, OldestEntry
<1>6. UseInv'
  BY DEF BaseInv, UseInv, Quiet, RingsFilled, tx_take, Runs
<1> QED
  BY <1>1, <1>2, <1>3, <1>4, <1>5, <1>6 DEF BaseInv, TypeInv, TypeOK

(* A sender copies its message.                                            *)
LEMMA TxFillBase ==
    ASSUME BaseInv, NEW t \in Task, tx_fill(t)
    PROVE  BaseInv'
<1>1. RingTypes'
  BY CoreFacts
     DEF BaseInv, TypeInv, TypeOK, RingTypes, ContextTypes, DescInv, tx_fill, Runs, TaskState,
         TaskHas, ringVars
<1>2. LinkTypes'
  BY DEF BaseInv, TypeInv, TypeOK, LinkTypes, tx_fill
<1>3. ContextTypes'
  <2>1. isr' \in [Core -> IsrState]
    BY DEF BaseInv, TypeInv, TypeOK, ContextTypes, tx_fill
  <2>2. task' \in [Task -> TaskState]
    <3>1. task' = [task EXCEPT ![t].pc = "enqueue"]
      BY DEF tx_fill
    <3> QED
      BY <3>1 DEF BaseInv, TypeInv, TypeOK, ContextTypes, TaskState
  <2>3. lock' \in [Core -> Task \union {NoTask}]
    BY DEF BaseInv, TypeInv, TypeOK, ContextTypes, tx_fill
  <2>4. queue' \in [Core -> Seq(QueueEntry)] /\ \A e \in Core : Len(queue'[e]) <= NENTRIES
    BY DEF BaseInv, TypeInv, TypeOK, ContextTypes, tx_fill
  <2> QED
    BY <2>1, <2>2, <2>3, <2>4 DEF ContextTypes
<1>4. LogTypes'
  BY DEF BaseInv, TypeInv, TypeOK, LogTypes, tx_fill, logVars
<1>5. DescInv'
  BY DEF BaseInv, TypeInv, DescInv, tx_fill, Runs, TaskHas
<1>6. UseInv'
  BY DEF BaseInv, UseInv, Quiet, RingsFilled, tx_fill, Runs, ringVars
<1> QED
  BY <1>1, <1>2, <1>3, <1>4, <1>5, <1>6 DEF BaseInv, TypeInv, TypeOK

(* rpmsg_lite_send_nocopy is called with a buffer that was allocated.      *)
LEMMA RpmsgLiteSendNocopyBase ==
    ASSUME BaseInv, NEW t \in Task, rpmsg_lite_send_nocopy(t)
    PROVE  BaseInv'
<1>1. RingTypes'
  BY DEF BaseInv, TypeInv, TypeOK, ContextTypes, rpmsg_lite_send_nocopy, TaskState
<1>2. LinkTypes'
  BY DEF BaseInv, TypeInv, TypeOK, LinkTypes, rpmsg_lite_send_nocopy
<1>3. ContextTypes'
  <2>1. isr' \in [Core -> IsrState]
    BY DEF BaseInv, TypeInv, TypeOK, ContextTypes, rpmsg_lite_send_nocopy
  <2>2. task' \in [Task -> TaskState]
    <3>1. PICK m \in Msg, x \in Desc \union {NoDesc} :
             task' = [task EXCEPT ![t].pc = "enqueue", ![t].msg = m, ![t].d = x,
                                  ![t].nocopy = NoDesc]
      <4>1. task[t].nocopy \in Desc \union {NoDesc} /\ CoreOf(t) \in Core /\ TypeOK
        BY TaskFacts, CoreFacts DEF BaseInv, TypeInv, TypeOK
      <4>2. \A dst \in Dests(CoreOf(t)) : NewMsg(CoreOf(t), dst) \in Msg
        BY <4>1, MsgFacts DEF rpmsg_lite_send_nocopy, MaySend
      <4> QED
        BY <4>1, <4>2 DEF rpmsg_lite_send_nocopy
    <3>2. task \in [Task -> TaskState]
      BY DEF BaseInv, TypeInv, TypeOK, ContextTypes
    <3>3. [task[t] EXCEPT !.pc = "enqueue", !.msg = m, !.d = x, !.nocopy = NoDesc] \in TaskState
      BY TaskFacts DEF BaseInv, TypeInv, TypeOK, TaskState
    <3> QED
      BY <3>1, <3>2, <3>3
  <2>3. lock' \in [Core -> Task \union {NoTask}]
    BY DEF BaseInv, TypeInv, TypeOK, ContextTypes, rpmsg_lite_send_nocopy
  <2>4. queue' \in [Core -> Seq(QueueEntry)] /\ \A e \in Core : Len(queue'[e]) <= NENTRIES
    BY DEF BaseInv, TypeInv, TypeOK, ContextTypes, rpmsg_lite_send_nocopy
  <2> QED
    BY <2>1, <2>2, <2>3, <2>4 DEF ContextTypes
<1>4. LogTypes'
  BY ConstFacts, CoreFacts, MsgFacts, RpmsgAssumption, SMTT(20)
     DEF BaseInv, TypeInv, TypeOK, LogTypes, ContextTypes, RingTypes, DescInv,
         rpmsg_lite_send_nocopy, Runs, TaskState, TaskHas, MaySend, ringVars, logVars
<1>5. DescInv'
  BY DEF BaseInv, TypeInv, TypeOK, ContextTypes, rpmsg_lite_send_nocopy, TaskState
<1>6. UseInv'
  BY DEF BaseInv, TypeInv, TypeOK, UseInv, Quiet, RingsFilled, rpmsg_lite_send_nocopy, ringVars
<1> QED
  BY <1>1, <1>2, <1>3, <1>4, <1>5, <1>6 DEF BaseInv, TypeInv, TypeOK

(* A sender writes the entry of its buffer.                                *)
LEMMA TxEnqueueBase ==
    ASSUME BaseInv, NEW t \in Task, tx_enqueue(t)
    PROVE  BaseInv'
<1>1. RingTypes'
  BY ConstFacts, CoreFacts
     DEF BaseInv, TypeInv, TypeOK, RingTypes, DescInv, tx_enqueue, Runs, TaskHas, WriteEntry
<1>2. LinkTypes'
  BY DEF BaseInv, TypeInv, TypeOK, LinkTypes, tx_enqueue
<1>3. ContextTypes'
  <2>1. isr' \in [Core -> IsrState]
    BY DEF BaseInv, TypeInv, TypeOK, ContextTypes, tx_enqueue
  <2>2. task' \in [Task -> TaskState]
    <3>1. task' = [task EXCEPT ![t].pc = "publish"]
      BY DEF tx_enqueue
    <3> QED
      BY <3>1 DEF BaseInv, TypeInv, TypeOK, ContextTypes, TaskState
  <2>3. lock' \in [Core -> Task \union {NoTask}]
    BY DEF BaseInv, TypeInv, TypeOK, ContextTypes, tx_enqueue
  <2>4. queue' \in [Core -> Seq(QueueEntry)] /\ \A e \in Core : Len(queue'[e]) <= NENTRIES
    BY DEF BaseInv, TypeInv, TypeOK, ContextTypes, tx_enqueue
  <2> QED
    BY <2>1, <2>2, <2>3, <2>4 DEF ContextTypes
<1>4. LogTypes'
  BY DEF BaseInv, TypeInv, TypeOK, LogTypes, tx_enqueue, logVars
<1>5. DescInv'
  BY DEF BaseInv, TypeInv, DescInv, tx_enqueue, Runs, TaskHas
<1>6. UseInv'
  BY DEF BaseInv, UseInv, Quiet, RingsFilled, tx_enqueue, Runs
<1> QED
  BY <1>1, <1>2, <1>3, <1>4, <1>5, <1>6 DEF BaseInv, TypeInv, TypeOK

(* A sender publishes it.                                                  *)
LEMMA TxPublishBase ==
    ASSUME BaseInv, NEW t \in Task, tx_publish(t)
    PROVE  BaseInv'
<1>1. RingTypes'
  BY ConstFacts, CoreFacts DEF BaseInv, TypeInv, TypeOK, RingTypes, tx_publish, PublishEntry
<1>2. LinkTypes'
  BY DEF BaseInv, TypeInv, TypeOK, LinkTypes, tx_publish
<1>3. ContextTypes'
  <2>1. isr' \in [Core -> IsrState]
    BY DEF BaseInv, TypeInv, TypeOK, ContextTypes, tx_publish
  <2>2. task' \in [Task -> TaskState]
    <3>1. task' = [task EXCEPT ![t].pc = "kick", ![t].d = NoDesc, ![t].msg = Empty]
      BY DEF tx_publish
    <3>2. task \in [Task -> TaskState]
      BY DEF BaseInv, TypeInv, TypeOK, ContextTypes
    <3>3. [task[t] EXCEPT !.pc = "kick", !.d = NoDesc, !.msg = Empty] \in TaskState
      BY TaskFacts DEF BaseInv, TypeInv, TypeOK, TaskState
    <3> QED
      BY <3>1, <3>2, <3>3
  <2>3. lock' \in [Core -> Task \union {NoTask}]
    BY DEF BaseInv, TypeInv, TypeOK, ContextTypes, tx_publish
  <2>4. queue' \in [Core -> Seq(QueueEntry)] /\ \A e \in Core : Len(queue'[e]) <= NENTRIES
    BY DEF BaseInv, TypeInv, TypeOK, ContextTypes, tx_publish
  <2> QED
    BY <2>1, <2>2, <2>3, <2>4 DEF ContextTypes
<1>4. LogTypes'
  BY ConstFacts, CoreFacts, RpmsgAssumption, SMTT(20)
     DEF BaseInv, TypeInv, TypeOK, LogTypes, ContextTypes, RingTypes, DescInv, tx_publish, Runs,
         TaskState, TaskHas, PublishEntry, ringVars, logVars
<1>5. DescInv'
  BY DEF BaseInv, TypeInv, TypeOK, DescInv, ContextTypes, tx_publish, TaskHas
<1>6. UseInv'
  BY DEF BaseInv, UseInv, Quiet, RingsFilled, tx_publish, Runs
<1> QED
  BY <1>1, <1>2, <1>3, <1>4, <1>5, <1>6 DEF BaseInv, TypeInv, TypeOK

(* A sender notifies the peer.                                             *)
LEMMA TxKickBase ==
    ASSUME BaseInv, NEW t \in Task, tx_kick(t)
    PROVE  BaseInv'
<1>1. RingTypes'
  BY DEF BaseInv, TypeInv, TypeOK, RingTypes, tx_kick, ringVars
<1>2. LinkTypes'
  BY CoreFacts DEF BaseInv, TypeInv, TypeOK, LinkTypes, tx_kick, virtqueue_kick, platform_notify
<1>3. ContextTypes'
  <2>1. isr' \in [Core -> IsrState]
    BY DEF BaseInv, TypeInv, TypeOK, ContextTypes, tx_kick
  <2>2. task' \in [Task -> TaskState]
    <3>1. task' = [task EXCEPT ![t].pc = "idle"]
      BY DEF tx_kick
    <3> QED
      BY <3>1 DEF BaseInv, TypeInv, TypeOK, ContextTypes, TaskState
  <2>3. lock' \in [Core -> Task \union {NoTask}]
    BY DEF BaseInv, TypeInv, TypeOK, ContextTypes, tx_kick
  <2>4. queue' \in [Core -> Seq(QueueEntry)] /\ \A e \in Core : Len(queue'[e]) <= NENTRIES
    BY DEF BaseInv, TypeInv, TypeOK, ContextTypes, tx_kick
  <2> QED
    BY <2>1, <2>2, <2>3, <2>4 DEF ContextTypes
<1>4. LogTypes'
  BY DEF BaseInv, TypeInv, TypeOK, LogTypes, tx_kick, logVars
<1>5. DescInv'
  BY DEF BaseInv, TypeInv, DescInv, tx_kick, TaskHas
<1>6. UseInv'
  BY DEF BaseInv, UseInv, Quiet, RingsFilled, tx_kick, Runs, ringVars
<1> QED
  BY <1>1, <1>2, <1>3, <1>4, <1>5, <1>6 DEF BaseInv, TypeInv, TypeOK

(* A task takes a message out of its queue.                                *)
LEMMA RpmsgQueueRecvBase ==
    ASSUME BaseInv, NEW t \in Task, rpmsg_queue_recv(t)
    PROVE  BaseInv'
<1>1. RingTypes'
  BY DEF BaseInv, TypeInv, TypeOK, RingTypes, rpmsg_queue_recv, ringVars
<1>2. LinkTypes'
  BY DEF BaseInv, TypeInv, TypeOK, LinkTypes, rpmsg_queue_recv
<1>3. ContextTypes'
  <2>1. isr' \in [Core -> IsrState]
    BY DEF BaseInv, TypeInv, TypeOK, ContextTypes, rpmsg_queue_recv
  <2>2. task' \in [Task -> TaskState]
    <3>1. PICK e \in QueueEntry :
             task' = [task EXCEPT ![t].pc = "release", ![t].d = e.d, ![t].msg = e.msg]
      BY CoreFacts, HeadTailProperties
         DEF rpmsg_queue_recv, BaseInv, TypeInv, TypeOK, ContextTypes
    <3>2. task \in [Task -> TaskState]
      BY DEF BaseInv, TypeInv, TypeOK, ContextTypes
    <3>3. [task[t] EXCEPT !.pc = "release", !.d = e.d, !.msg = e.msg] \in TaskState
      BY TaskFacts DEF BaseInv, TypeInv, TypeOK, TaskState, QueueEntry
    <3> QED
      BY <3>1, <3>2, <3>3
  <2>3. lock' \in [Core -> Task \union {NoTask}]
    BY DEF BaseInv, TypeInv, TypeOK, ContextTypes, rpmsg_queue_recv
  <2>4. queue' \in [Core -> Seq(QueueEntry)] /\ \A e \in Core : Len(queue'[e]) <= NENTRIES
    <3>1. PICK c \in Core : queue[c] # <<>> /\ queue' = [queue EXCEPT ![c] = Tail(@)]
      BY CoreFacts DEF rpmsg_queue_recv
    <3>2. /\ queue \in [Core -> Seq(QueueEntry)]
          /\ \A e \in Core : Len(queue[e]) \in Nat /\ Len(queue[e]) <= NENTRIES
      BY DEF BaseInv, TypeInv, TypeOK, ContextTypes
    <3>3. Tail(queue[c]) \in Seq(QueueEntry) /\ Len(Tail(queue[c])) = Len(queue[c]) - 1
      BY <3>1, <3>2
    <3> QED
      BY <3>1, <3>2, <3>3, ConstFacts
  <2> QED
    BY <2>1, <2>2, <2>3, <2>4 DEF ContextTypes
<1>4. LogTypes'
  BY DEF BaseInv, TypeInv, TypeOK, LogTypes, rpmsg_queue_recv, logVars
<1>5. DescInv'
  BY CoreFacts DEF BaseInv, TypeInv, TypeOK, DescInv, ContextTypes, rpmsg_queue_recv
<1>6. UseInv'
  <2>1. RingsFilled
    BY CoreFacts DEF BaseInv, UseInv, Quiet, rpmsg_queue_recv
  <2> QED
    BY <2>1 DEF BaseInv, UseInv, RingsFilled, rpmsg_queue_recv, ringVars
<1> QED
  BY <1>1, <1>2, <1>3, <1>4, <1>5, <1>6 DEF BaseInv, TypeInv, TypeOK

(* A task gives its buffer back: the entry.                                *)
LEMMA RpmsgLiteReleaseRxBufferBase ==
    ASSUME BaseInv, NEW t \in Task, rpmsg_lite_release_rx_buffer(t)
    PROVE  BaseInv'
<1>1. RingTypes'
  BY ConstFacts, CoreFacts
     DEF BaseInv, TypeInv, TypeOK, RingTypes, DescInv, rpmsg_lite_release_rx_buffer, Runs,
         TaskHas, WriteEntry
<1>2. LinkTypes'
  BY DEF BaseInv, TypeInv, TypeOK, LinkTypes, rpmsg_lite_release_rx_buffer
<1>3. ContextTypes'
  <2>1. isr' \in [Core -> IsrState]
    BY DEF BaseInv, TypeInv, TypeOK, ContextTypes, rpmsg_lite_release_rx_buffer
  <2>2. task' \in [Task -> TaskState]
    <3>1. task' = [task EXCEPT ![t].pc = "released", ![t].msg = Empty]
      BY DEF rpmsg_lite_release_rx_buffer
    <3>2. task \in [Task -> TaskState]
      BY DEF BaseInv, TypeInv, TypeOK, ContextTypes
    <3> QED
      BY <3>1, <3>2 DEF TaskState
  <2>3. lock' \in [Core -> Task \union {NoTask}]
    BY DEF BaseInv, TypeInv, TypeOK, ContextTypes, rpmsg_lite_release_rx_buffer
  <2>4. queue' \in [Core -> Seq(QueueEntry)] /\ \A e \in Core : Len(queue'[e]) <= NENTRIES
    BY DEF BaseInv, TypeInv, TypeOK, ContextTypes, rpmsg_lite_release_rx_buffer
  <2> QED
    BY <2>1, <2>2, <2>3, <2>4 DEF ContextTypes
<1>4. LogTypes'
  BY DEF BaseInv, TypeInv, TypeOK, LogTypes, rpmsg_lite_release_rx_buffer, logVars
<1>5. DescInv'
  BY DEF BaseInv, TypeInv, TypeOK, DescInv, ContextTypes, rpmsg_lite_release_rx_buffer, Runs,
         TaskHas
<1>6. UseInv'
  BY DEF BaseInv, UseInv, Quiet, RingsFilled, rpmsg_lite_release_rx_buffer, Runs
<1> QED
  BY <1>1, <1>2, <1>3, <1>4, <1>5, <1>6 DEF BaseInv, TypeInv, TypeOK

(* A task gives its buffer back: the index.                                *)
LEMMA ReleasePublishBase ==
    ASSUME BaseInv, NEW t \in Task, release_publish(t)
    PROVE  BaseInv'
<1>1. RingTypes'
  BY ConstFacts, CoreFacts DEF BaseInv, TypeInv, TypeOK, RingTypes, release_publish, PublishEntry
<1>2. LinkTypes'
  BY DEF BaseInv, TypeInv, TypeOK, LinkTypes, release_publish
<1>3. ContextTypes'
  <2>1. isr' \in [Core -> IsrState]
    BY DEF BaseInv, TypeInv, TypeOK, ContextTypes, release_publish
  <2>2. task' \in [Task -> TaskState]
    <3>1. task' = [task EXCEPT ![t].pc = "idle", ![t].d = NoDesc]
      BY DEF release_publish
    <3>2. task \in [Task -> TaskState]
      BY DEF BaseInv, TypeInv, TypeOK, ContextTypes
    <3> QED
      BY <3>1, <3>2 DEF TaskState
  <2>3. lock' \in [Core -> Task \union {NoTask}]
    BY DEF BaseInv, TypeInv, TypeOK, ContextTypes, release_publish
  <2>4. queue' \in [Core -> Seq(QueueEntry)] /\ \A e \in Core : Len(queue'[e]) <= NENTRIES
    BY DEF BaseInv, TypeInv, TypeOK, ContextTypes, release_publish
  <2> QED
    BY <2>1, <2>2, <2>3, <2>4 DEF ContextTypes
<1>4. LogTypes'
  BY DEF BaseInv, TypeInv, TypeOK, LogTypes, release_publish, logVars
<1>5. DescInv'
  BY DEF BaseInv, TypeInv, TypeOK, DescInv, ContextTypes, release_publish, TaskHas
<1>6. UseInv'
  BY DEF BaseInv, UseInv, Quiet, RingsFilled, release_publish, Runs
<1> QED
  BY <1>1, <1>2, <1>3, <1>4, <1>5, <1>6 DEF BaseInv, TypeInv, TypeOK

(* A step that changes nothing, or only waits. *)
LEMMA StutterBase ==
    ASSUME BaseInv, UNCHANGED vars
    PROVE  BaseInv'
  BY DEF vars, ringVars, logVars, BaseInv, TypeInv, TypeOK, RingTypes, LinkTypes, ContextTypes,
         LogTypes, DescInv, UseInv, Quiet, RingsFilled

(* Types and start-up are kept by every step of either core. *)
LEMMA NextBase == BaseInv /\ [Next]_vars => BaseInv'
<1> SUFFICES ASSUME BaseInv, [Next]_vars PROVE BaseInv'
  OBVIOUS
<1>1. CASE BootStep
  <2>1. ASSUME NEW p \in Boot, NEW q \in Boot, RemoteInitStep(p, q),
               link_state' = [link_state EXCEPT !["remote"] = 0] \/ UNCHANGED link_state
        PROVE  BaseInv'
    BY <2>1, RemoteInitBase
  <2> QED
    BY <1>1, <2>1, MasterInitFillBase, MasterInitLinkBase, MasterInitKickBase
       DEF BootStep, remote_env_init, remote_init_rvq, remote_init_tvq, remote_init_link, Boot
<1>2. ASSUME NEW c \in Core, IsrStep(c)
      PROVE  BaseInv'
  BY <1>2, EnvIsrBase, RxCheckBase, RxReadBase, RxDeliverBase, RxFreeBase, RxFreePublishBase
     DEF IsrStep
<1>3. ASSUME NEW c \in Core, deinit_link(c) \/ deinit_rvq(c) \/ deinit_free(c)
      PROVE  BaseInv'
  BY <1>3, DeinitBase DEF deinit_link, deinit_rvq, deinit_free, Boot
<1>4. ASSUME NEW t \in Task, TaskStep(t)
      PROVE  BaseInv'
  <2>1. CASE CallStep(t)
    BY <2>1, TxAllocBase, TxSleepBase, TxTakeBase, TxFillBase, TxEnqueueBase, TxPublishBase,
       TxKickBase, RpmsgLiteReleaseRxBufferBase, ReleasePublishBase DEF CallStep
  <2> QED
    BY <1>4, <2>1, RpmsgLiteSendBase, RpmsgLiteAllocTxBufferBase, RpmsgLiteSendNocopyBase,
       RpmsgQueueRecvBase DEF TaskStep
<1>5. CASE Quiescent \/ UNCHANGED vars
  BY <1>5, StutterBase DEF Quiescent
<1> QED
  BY <1>1, <1>2, <1>3, <1>4, <1>5 DEF Next

(* Types and start-up hold in every reachable state. *)
LEMMA BaseInvariance == Spec => []BaseInv
  BY InitBase, NextBase, PTL DEF Spec

(* Rings, buffers, contexts, queues and logs stay in their types; a queue  *)
(* never grows beyond its size.                                            *)
THEOREM TypeCorrect == Spec => []TypeOK
<1>1. BaseInv => TypeOK
  BY DEF BaseInv, TypeInv
<1> QED
  BY <1>1, BaseInvariance, PTL

(* However the start of the two cores interleaves, with or without a       *)
(* handshake of the applications, the remote uses no vring that is not     *)
(* filled, and no callback runs after rpmsg_lite_deinit has freed its      *)
(* virtqueue.                                                              *)
THEOREM RingsUsableHolds == Spec => []RingsUsable
<1>1. BaseInv => RingsUsable
  BY DEF BaseInv, UseInv, Quiet, RingsUsable, Core, Task
<1> QED
  BY <1>1, BaseInvariance, PTL

-----------------------------------------------------------------------------
(* The invariant of virtqueue.c (VirtqueueProofs) is taken over for both   *)
(* vrings through INSTANCE. It is kept because each step of a task, of the *)
(* interrupt or of the initialisation is one step of one vring: WriteStep, *)
(* PublishStep, SeeStep, ReadStep and FillStep, once for all callers. What *)
(* the invariant adds says who holds a buffer (LockInv, ModeInv, OnceInv)  *)
(* and what it holds (SendInv, LogInv, IntactInv).                         *)

(* The proofs about virtqueue.c, for the vring the master receives on and  *)
(* for the one it sends on.                                                *)
P0 == INSTANCE VirtqueueProofs WITH
    PREFILL <- "avail", idx <- idx[0], ring <- ring[0], consIdx <- consIdx[0],
    vq_desc_head_idx <- vq_desc_head_idx[0],
    putting <- puttingBar(0), reading <- readingBar(0), held <- heldBar(0)

P1 == INSTANCE VirtqueueProofs WITH
    PREFILL <- "used", idx <- idx[1], ring <- ring[1], consIdx <- consIdx[1],
    vq_desc_head_idx <- vq_desc_head_idx[1],
    putting <- puttingBar(1), reading <- readingBar(1), held <- heldBar(1)

(* The descriptor that core c puts on vring v, and whether it reads an entry. *)
PutDesc(c, v) == IF Putters(c, v) = {} THEN NoDesc ELSE CHOOSE d \in Putters(c, v) : TRUE
ReadFlag(c, v) ==
    IF v = Tvq(c) THEN \E t \in TasksOf(c) : task[t].pc = "take" ELSE isr[c].pc = "read"

(* The invariant and the steps of virtqueue.c for vring v. *)
VInv(v) == IF v = 0 THEN P0!IInv ELSE P1!IInv
VNext(v) == IF v = 0 THEN [V0!Next]_V0!vars ELSE [V1!Next]_V1!vars

(* The entries of ring r that its reader has not taken yet: how many, and  *)
(* the k-th.                                                               *)
Pend(v, r) == IdxDiff(idx[v][r], consIdx[v][r])
Ent(v, r, k) == ring[v][r][Slot(consIdx[v][r] + k)]

(* Core c has the contexts of vring v that it had. *)
SameUse(c, v) ==
    /\ HeldBy(c, v)' = HeldBy(c, v)
    /\ PutDesc(c, v)' = PutDesc(c, v)
    /\ ReadFlag(c, v)' = ReadFlag(c, v)

(* The rings of v stay as they are. *)
SameRing(v) ==
    /\ idx'[v] = idx[v] /\ ring'[v] = ring[v] /\ consIdx'[v] = consIdx[v]
    /\ vq_desc_head_idx'[v] = vq_desc_head_idx[v]

(* rpmsg_lite_master_init has put all buffers of v into its ring. *)
Filled(v) == vq_desc_head_idx[v] = NENTRIES

-----------------------------------------------------------------------------
(* No core receives on endpoints of both kinds. *)
NotMixed == \A c \in Core : ~({"queue", "release"} \subseteq Dests(c))

(* The messages core c may send, and whether its own endpoints use the     *)
(* queue.                                                                  *)
Msgs(c) == {m \in Msg : m.dst \in Dests(c)}
QueueMode(c) == "release" \notin Dests(Other(c))

(* The lock is held by the task between the two steps of an update. *)
InLock == {"take", "publish", "kick", "released"}
LockInv == \A t \in Task : task[t].pc \in InLock => lock[CoreOf(t)] = t

(* What a task sends is a message for an endpoint of the peer. *)
SendInv ==
    \A t \in Task :
       /\ task[t].pc # "release" => task[t].msg \in Msgs(CoreOf(t)) \union {Empty}
       /\ task[t].pc \in {"fill", "enqueue", "publish"} => task[t].msg # Empty
       /\ task[t].pc \in {"idle", "kick", "released"} => task[t].msg = Empty
       /\ task[t].pc \in {"alloc", "sleep", "take"} /\ task[t].msg = Empty
             => task[t].nocopy = NoDesc

(* Buffers are released by the interrupt or by tasks, never by both. *)
ModeInv ==
    \A c \in Core :
       IF QueueMode(c) THEN isr[c].pc \notin {"free", "publish"}
       ELSE queue[c] = <<>> /\ \A t \in TasksOf(c) : task[t].pc \notin {"release", "released"}

(* Two contexts of a core never hold the same buffer. *)
TxHolds(t, x) ==
    \/ task[t].pc \in {"fill", "enqueue"} /\ x = task[t].d
    \/ x # NoDesc /\ x = task[t].nocopy
TxOnce(c) ==
    \A t \in TasksOf(c) :
       /\ task[t].pc \in {"fill", "enqueue"} => task[t].d # task[t].nocopy
       /\ \A u \in TasksOf(c) \ {t} : \A x \in Desc : ~(TxHolds(t, x) /\ TxHolds(u, x))
RxOnce(c) ==
    /\ \A i, j \in DOMAIN queue[c] : queue[c][i].d = queue[c][j].d => i = j
    /\ \A t \in TasksOf(c) : task[t].pc = "release" =>
          /\ \A i \in DOMAIN queue[c] : queue[c][i].d # task[t].d
          /\ \A u \in TasksOf(c) \ {t} : task[u].pc = "release" => task[u].d # task[t].d
          /\ isr[c].pc \in {"deliver", "free"} => isr[c].d # task[t].d
    /\ isr[c].pc \in {"deliver", "free"} => \A i \in DOMAIN queue[c] : queue[c][i].d # isr[c].d
OnceInv == \A c \in Core : TxOnce(c) /\ RxOnce(c)

(* What c has published is what the peer has seen, then what it has in     *)
(* hand, then what is pending in the vring.                                *)
InHand(c) == IF isr[c].pc = "deliver" THEN 1 ELSE 0
LogOf(c) ==
    LET o == Other(c)
        n == Len(rcvdLog[o])
    IN
    /\ Len(sentLog[c]) = n + InHand(o) + Pend(Tvq(c), Gives(c))
    /\ \A i \in 1 .. Len(sentLog[c]) : sentLog[c][i] \in Msgs(c)
    /\ \A i \in 1 .. n : rcvdLog[o][i] = sentLog[c][i]
    /\ isr[o].pc = "deliver" => buf[Tvq(c)][isr[o].d] = sentLog[c][n + 1]
    /\ \A k \in 0 .. Pend(Tvq(c), Gives(c)) - 1 :
          buf[Tvq(c)][Ent(Tvq(c), Gives(c), k)] = sentLog[c][n + InHand(o) + k + 1]
LogInv == \A c \in Core : LogOf(c)

(* Buffers in hand keep their messages. *)
IntactInv ==
    /\ \A c \in Core : \A i \in DOMAIN queue[c] : buf[Rvq(c)][queue[c][i].d] = queue[c][i].msg
    /\ \A t \in Task :
          /\ task[t].pc = "release" => buf[Rvq(CoreOf(t))][task[t].d] = task[t].msg
          /\ task[t].pc \in {"enqueue", "publish"} => buf[Tvq(CoreOf(t))][task[t].d] = task[t].msg

(* The inductive invariant. *)
IInv ==
    /\ BaseInv
    /\ \A v \in Vq : VInv(v)
    /\ LockInv
    /\ SendInv
    /\ ModeInv
    /\ OnceInv
    /\ LogInv
    /\ IntactInv

(* The contexts of a vring as virtqueue.c sees them, spelled out for the   *)
(* two cores, before and after a step.                                     *)
LEMMA BarValues ==
    ASSUME NEW v \in Vq
    PROVE  /\ puttingBar(v) = [r \in {"avail", "used"} |->
                 IF r = "avail" THEN PutDesc("master", v) ELSE PutDesc("remote", v)]
           /\ readingBar(v) = [r \in {"avail", "used"} |->
                 IF r = "avail" THEN ReadFlag("remote", v) ELSE ReadFlag("master", v)]
           /\ heldBar(v) = [s \in {"driver", "device"} |->
                 IF s = "driver" THEN HeldBy("master", v) ELSE HeldBy("remote", v)]
           /\ puttingBar(v)' = [r \in {"avail", "used"} |->
                 IF r = "avail" THEN PutDesc("master", v)' ELSE PutDesc("remote", v)']
           /\ readingBar(v)' = [r \in {"avail", "used"} |->
                 IF r = "avail" THEN ReadFlag("remote", v)' ELSE ReadFlag("master", v)']
           /\ heldBar(v)' = [s \in {"driver", "device"} |->
                 IF s = "driver" THEN HeldBy("master", v)' ELSE HeldBy("remote", v)']
<1>1. /\ Giver("avail") = "master"
      /\ Giver("used") = "remote"
      /\ Other("master") = "remote"
      /\ Other("remote") = "master"
  BY DEF Giver, Other
<1>2. /\ puttingBar(v) = [r \in Ring |-> PutDesc(Giver(r), v)]
      /\ puttingBar(v)' = [r \in Ring |-> PutDesc(Giver(r), v)']
  BY DEF puttingBar, PutDesc
<1>3. /\ readingBar(v) = [r \in Ring |-> ReadFlag(Other(Giver(r)), v)]
      /\ readingBar(v)' = [r \in Ring |-> ReadFlag(Other(Giver(r)), v)']
  BY DEF readingBar, ReadFlag
<1>4. /\ heldBar(v) = [s \in {"driver", "device"} |->
            HeldBy(IF s = "driver" THEN "master" ELSE "remote", v)]
      /\ heldBar(v)' = [s \in {"driver", "device"} |->
            HeldBy(IF s = "driver" THEN "master" ELSE "remote", v)']
  BY DEF heldBar
<1>5. /\ puttingBar(v) = [r \in {"avail", "used"} |->
            IF r = "avail" THEN PutDesc("master", v) ELSE PutDesc("remote", v)]
      /\ puttingBar(v)' = [r \in {"avail", "used"} |->
            IF r = "avail" THEN PutDesc("master", v)' ELSE PutDesc("remote", v)']
  BY <1>1, <1>2 DEF Ring
<1>6. /\ readingBar(v) = [r \in {"avail", "used"} |->
            IF r = "avail" THEN ReadFlag("remote", v) ELSE ReadFlag("master", v)]
      /\ readingBar(v)' = [r \in {"avail", "used"} |->
            IF r = "avail" THEN ReadFlag("remote", v)' ELSE ReadFlag("master", v)']
  BY <1>1, <1>3 DEF Ring
<1>7. /\ heldBar(v) = [s \in {"driver", "device"} |->
            IF s = "driver" THEN HeldBy("master", v) ELSE HeldBy("remote", v)]
      /\ heldBar(v)' = [s \in {"driver", "device"} |->
            IF s = "driver" THEN HeldBy("master", v)' ELSE HeldBy("remote", v)']
  BY <1>4
<1> QED
  BY <1>5, <1>6, <1>7

(* What the invariant of virtqueue.c says of a vring in use. *)
VFacts(v) ==
    /\ \A r \in Ring : /\ Pend(v, r) \in Nat /\ Pend(v, r) <= NENTRIES
                       /\ Pend(v, r) = 0 <=> idx[v][r] = consIdx[v][r]
                       /\ \A k \in Nat : Ent(v, r, k) \in Desc
    /\ \A r \in Ring, c \in Core : \A k \in 0 .. Pend(v, r) - 1 :
          Ent(v, r, k) \notin HeldBy(c, v) /\ Ent(v, r, k) # PutDesc(c, v)
    /\ \A c, e \in Core : PutDesc(c, v) \notin HeldBy(e, v)
    /\ \A c \in Core : /\ HeldBy(c, v) \subseteq Desc
                       /\ PutDesc(c, v) \in Desc \union {NoDesc}
                       /\ ReadFlag(c, v) => consIdx[v][Takes(c)] # idx[v][Takes(c)]
                       /\ HeldBy(c, v) \intersect HeldBy(Other(c), v) = {}
                       /\ PutDesc(c, v) = PutDesc(Other(c), v) => PutDesc(c, v) = NoDesc

(* The invariant of virtqueue.c, in the terms of this module. *)
LEMMA VInvFacts ==
    ASSUME NEW v \in Vq, VInv(v)
    PROVE  VFacts(v)
<1>1. CASE v = 0
  <2>0. /\ \A r \in Ring : Pend(v, r) = P0!Pending(r) /\ \A k \in Nat : Ent(v, r, k) = P0!Entry(r, k)
        /\ P0!Ring = Ring /\ P0!Side = {"driver", "device"} /\ P0!Desc = Desc /\ P0!Index = Index
    BY <1>1
       DEF Pend, Ent, P0!Pending, P0!Entry, P0!IdxDiff, IdxDiff, P0!Slot, Slot, P0!Ring, Ring,
           P0!Side, P0!Desc, Desc, P0!Index, Index
  <2>1. P0!IInv /\ P0!TypeOK /\ P0!NoBufferLost /\ P0!SingleOwner /\ P0!ReadingInv
    BY <1>1 DEF VInv, P0!IInv
  <2>2. \A r \in Ring : P0!Pending(r) \in Nat /\ (P0!Pending(r) = 0 <=> idx[0][r] = consIdx[0][r])
    BY <2>1, P0!PendingType, RpmsgAssumption, VringAssumption DEF P0!Desc, Desc, P0!Ring, Ring
  <2>3. \A r \in Ring : P0!Pending(r) <= NENTRIES
    BY <2>1, P0!RoomInRing, RpmsgAssumption, VringAssumption DEF P0!Desc, Desc, P0!Ring, Ring
  <2>4. \A r \in Ring, k \in Nat : P0!Entry(r, k) \in Desc
    BY <2>1, P0!EntryType, RpmsgAssumption, VringAssumption DEF P0!Desc, Desc, P0!Ring, Ring
  <2>5. \A r \in Ring :
          /\ Pend(v, r) \in Nat /\ Pend(v, r) <= NENTRIES
          /\ Pend(v, r) = 0 <=> idx[v][r] = consIdx[v][r]
          /\ \A k \in Nat : Ent(v, r, k) \in Desc
    BY <1>1, <2>0, <2>2, <2>3, <2>4
  <2>6. \A r, q \in Ring, s \in {"driver", "device"} : \A k \in 0 .. Pend(v, r) - 1 :
          Ent(v, r, k) \notin heldBar(v)[s] /\ Ent(v, r, k) # puttingBar(v)[q]
    <3> TAKE r, q \in Ring, s \in {"driver", "device"}
    <3> TAKE k \in 0 .. Pend(v, r) - 1
    <3>1. k \in Nat /\ k \in 0 .. P0!Pending(r) - 1
      BY <2>0, <2>5
    <3> QED
      BY <1>1, <2>0, <2>1, <3>1 DEF P0!SingleOwner
  <2>7. /\ \A r \in Ring, s \in {"driver", "device"} : puttingBar(v)[r] \notin heldBar(v)[s]
        /\ puttingBar(v)["avail"] = puttingBar(v)["used"] => puttingBar(v)["avail"] = NoDesc
        /\ \A d \in Desc : ~(d \in heldBar(v)["driver"] /\ d \in heldBar(v)["device"])
    BY <1>1, <2>0, <2>1 DEF P0!SingleOwner
  <2>8. /\ puttingBar(v) \in [Ring -> Desc \union {NoDesc}]
        /\ heldBar(v) \in [{"driver", "device"} -> SUBSET Desc]
        /\ \A r \in Ring : readingBar(v)[r] => consIdx[v][r] # idx[v][r]
    BY <1>1, <2>0, <2>1 DEF P0!TypeOK, P0!ReadingInv
  <2>9. /\ puttingBar(v)["avail"] = PutDesc("master", v) /\ puttingBar(v)["used"] = PutDesc("remote", v)
        /\ readingBar(v)["used"] = ReadFlag("master", v) /\ readingBar(v)["avail"] = ReadFlag("remote", v)
        /\ heldBar(v)["driver"] = HeldBy("master", v) /\ heldBar(v)["device"] = HeldBy("remote", v)
    BY BarValues
  <2>a. \A r \in Ring, c \in Core : \A k \in 0 .. Pend(v, r) - 1 :
          Ent(v, r, k) \notin HeldBy(c, v) /\ Ent(v, r, k) # PutDesc(c, v)
    BY <2>6, <2>9 DEF Core, Ring
  <2>b. \A c, e \in Core : PutDesc(c, v) \notin HeldBy(e, v)
    BY <2>7, <2>9 DEF Core, Ring
  <2>c. \A c \in Core : HeldBy(c, v) \subseteq Desc /\ PutDesc(c, v) \in Desc \union {NoDesc}
    BY <2>8, <2>9 DEF Core, Ring
  <2>d. \A c \in Core : ReadFlag(c, v) => consIdx[v][Takes(c)] # idx[v][Takes(c)]
    BY <2>8, <2>9 DEF Core, Ring, Takes
  <2>e. \A c \in Core :
          /\ HeldBy(c, v) \intersect HeldBy(Other(c), v) = {}
          /\ PutDesc(c, v) = PutDesc(Other(c), v) => PutDesc(c, v) = NoDesc
    BY <2>7, <2>9, <2>c DEF Core, Other
  <2> QED
    BY <2>5, <2>a, <2>b, <2>c, <2>d, <2>e, Zenon DEF VFacts
<1>2. CASE v = 1
  <2>0. /\ \A r \in Ring : Pend(v, r) = P1!Pending(r) /\ \A k \in Nat : Ent(v, r, k) = P1!Entry(r, k)
        /\ P1!Ring = Ring /\ P1!Side = {"driver", "device"} /\ P1!Desc = Desc /\ P1!Index = Index
    BY <1>2
       DEF Pend, Ent, P1!Pending, P1!Entry, P1!IdxDiff, IdxDiff, P1!Slot, Slot, P1!Ring, Ring,
           P1!Side, P1!Desc, Desc, P1!Index, Index
  <2>1. P1!IInv /\ P1!TypeOK /\ P1!NoBufferLost /\ P1!SingleOwner /\ P1!ReadingInv
    BY <1>2 DEF VInv, P1!IInv
  <2>2. \A r \in Ring : P1!Pending(r) \in Nat /\ (P1!Pending(r) = 0 <=> idx[1][r] = consIdx[1][r])
    BY <2>1, P1!PendingType, RpmsgAssumption, VringAssumption DEF P1!Ring, P1!Desc, Desc, Ring
  <2>3. \A r \in Ring : P1!Pending(r) <= NENTRIES
    BY <2>1, P1!RoomInRing, RpmsgAssumption, VringAssumption DEF P1!Ring, P1!Desc, Desc, Ring
  <2>4. \A r \in Ring, k \in Nat : P1!Entry(r, k) \in Desc
    BY <2>1, P1!EntryType, RpmsgAssumption, VringAssumption DEF P1!Ring, P1!Desc, Desc, Ring
  <2>5. \A r \in Ring :
          /\ Pend(v, r) \in Nat /\ Pend(v, r) <= NENTRIES
          /\ Pend(v, r) = 0 <=> idx[v][r] = consIdx[v][r]
          /\ \A k \in Nat : Ent(v, r, k) \in Desc
    BY <1>2, <2>0, <2>2, <2>3, <2>4
  <2>6. \A r, q \in Ring, s \in {"driver", "device"} : \A k \in 0 .. Pend(v, r) - 1 :
          Ent(v, r, k) \notin heldBar(v)[s] /\ Ent(v, r, k) # puttingBar(v)[q]
    <3> TAKE r, q \in Ring, s \in {"driver", "device"}
    <3> TAKE k \in 0 .. Pend(v, r) - 1
    <3>1. k \in Nat /\ k \in 0 .. P1!Pending(r) - 1
      BY <2>0, <2>5
    <3> QED
      BY <1>2, <2>0, <2>1, <3>1 DEF P1!SingleOwner
  <2>7. /\ \A r \in Ring, s \in {"driver", "device"} : puttingBar(v)[r] \notin heldBar(v)[s]
        /\ puttingBar(v)["avail"] = puttingBar(v)["used"] => puttingBar(v)["avail"] = NoDesc
        /\ \A d \in Desc : ~(d \in heldBar(v)["driver"] /\ d \in heldBar(v)["device"])
    BY <1>2, <2>0, <2>1 DEF P1!SingleOwner
  <2>8. /\ puttingBar(v) \in [Ring -> Desc \union {NoDesc}]
        /\ heldBar(v) \in [{"driver", "device"} -> SUBSET Desc]
        /\ \A r \in Ring : readingBar(v)[r] => consIdx[v][r] # idx[v][r]
    BY <1>2, <2>0, <2>1 DEF P1!TypeOK, P1!ReadingInv
  <2>9. /\ puttingBar(v)["avail"] = PutDesc("master", v) /\ puttingBar(v)["used"] = PutDesc("remote", v)
        /\ readingBar(v)["used"] = ReadFlag("master", v) /\ readingBar(v)["avail"] = ReadFlag("remote", v)
        /\ heldBar(v)["driver"] = HeldBy("master", v) /\ heldBar(v)["device"] = HeldBy("remote", v)
    BY BarValues
  <2>a. \A r \in Ring, c \in Core : \A k \in 0 .. Pend(v, r) - 1 :
          Ent(v, r, k) \notin HeldBy(c, v) /\ Ent(v, r, k) # PutDesc(c, v)
    BY <2>6, <2>9 DEF Core, Ring
  <2>b. \A c, e \in Core : PutDesc(c, v) \notin HeldBy(e, v)
    BY <2>7, <2>9 DEF Core, Ring
  <2>c. \A c \in Core : HeldBy(c, v) \subseteq Desc /\ PutDesc(c, v) \in Desc \union {NoDesc}
    BY <2>8, <2>9 DEF Core, Ring
  <2>d. \A c \in Core : ReadFlag(c, v) => consIdx[v][Takes(c)] # idx[v][Takes(c)]
    BY <2>8, <2>9 DEF Core, Ring, Takes
  <2>e. \A c \in Core :
          /\ HeldBy(c, v) \intersect HeldBy(Other(c), v) = {}
          /\ PutDesc(c, v) = PutDesc(Other(c), v) => PutDesc(c, v) = NoDesc
    BY <2>7, <2>9, <2>c DEF Core, Other
  <2> QED
    BY <2>5, <2>a, <2>b, <2>c, <2>d, <2>e, Zenon DEF VFacts
<1> QED
  BY <1>1, <1>2 DEF Vq

(* A core that writes a descriptor it holds into the next slot takes a step *)
(* of virtqueue.c (WriteSlot), and the pending entries stay.               *)
LEMMA WriteStep ==
    ASSUME NEW v \in Vq, VInv(v), NEW c \in Core, NEW d \in Desc,
           Filled(v), PutDesc(c, v) = NoDesc, d \in HeldBy(c, v),
           ring'[v] = [ring[v] EXCEPT ![Gives(c)][Slot(idx[v][Gives(c)])] = d],
           idx'[v] = idx[v], consIdx'[v] = consIdx[v], vq_desc_head_idx'[v] = vq_desc_head_idx[v],
           PutDesc(c, v)' = d, HeldBy(c, v)' = HeldBy(c, v) \ {d}, ReadFlag(c, v)' = ReadFlag(c, v),
           SameUse(Other(c), v)
    PROVE  /\ VInv(v)'
           /\ VNext(v)
           /\ \A k \in 0 .. Pend(v, Gives(c)) - 1 : Ent(v, Gives(c), k)' = Ent(v, Gives(c), k)
<1>1. CASE v = 0
  <2>0. V0!WriteSlot(Gives(c), d) /\ P0!WriteSlot(Gives(c), d)
    <3>1. CASE c = "master"
      BY <1>1, <3>1, BarValues
         DEF Filled, Gives, SameUse, Other, V0!WriteSlot, P0!WriteSlot, V0!Filled, P0!Filled,
             V0!Producer, P0!Producer, V0!Slot, P0!Slot, Slot
    <3>2. CASE c = "remote"
      BY <1>1, <3>2, BarValues
         DEF Filled, Gives, SameUse, Other, V0!WriteSlot, P0!WriteSlot, V0!Filled, P0!Filled,
             V0!Producer, P0!Producer, V0!Slot, P0!Slot, Slot
    <3> QED
      BY <3>1, <3>2 DEF Core
  <2>1. P0!IInv'
    BY <1>1, <2>0, CoreFacts, P0!WriteSlotInv, RpmsgAssumption, VringAssumption
       DEF P0!Desc, Desc, P0!Ring, Ring, VInv
  <2>2. V0!Next
    BY <2>0, ConstFacts
       DEF V0!Next, V0!virtqueue_add_buffer, V0!virtqueue_add_consumed_buffer, Gives, Takes,
           V0!Desc, Desc
  <2>3. \A k \in 0 .. Pend(v, Gives(c)) - 1 : Ent(v, Gives(c), k)' = Ent(v, Gives(c), k)
    <3>1. P0!IInv /\ P0!TypeOK /\ P0!NoBufferLost /\ Gives(c) \in P0!Ring /\ d \in P0!Desc
      BY <1>1, CoreFacts DEF VInv, P0!IInv, P0!Ring, Ring, P0!Desc, Desc
    <3>2. P0!Pending(Gives(c)) < NENTRIES
      <4>1. \E x \in P0!Side : heldBar(0)[x] # {}
        BY <1>1, <2>0, <3>1 DEF P0!WriteSlot, P0!Producer, P0!Side
      <4> QED
        BY <3>1, <4>1, P0!RoomInRing, RpmsgAssumption, VringAssumption
           DEF P0!Desc, Desc, P0!Ring, Ring
    <3>3. \A k \in 0 .. P0!Pending(Gives(c)) - 1 : P0!Entry(Gives(c), k)' = P0!Entry(Gives(c), k)
      <4>1. /\ ring[0]' = [ring[0] EXCEPT ![Gives(c)][P0!Slot(idx[0][Gives(c)])] = d]
            /\ consIdx[0]'[Gives(c)] = consIdx[0][Gives(c)]
        BY <1>1 DEF P0!Slot, Slot
      <4> QED
        BY <3>1, <3>2, <4>1, P0!WriteKeepsEntries, RpmsgAssumption, VringAssumption
           DEF P0!Desc, Desc, P0!Ring, Ring
    <3> QED
      BY <1>1, <3>3 DEF P0!Pending, P0!Entry, Pend, Ent, P0!IdxDiff, IdxDiff, P0!Slot, Slot
  <2> QED
    BY <1>1, <2>1, <2>2, <2>3 DEF VInv, VNext
<1>2. CASE v = 1
  <2>0. V1!WriteSlot(Gives(c), d) /\ P1!WriteSlot(Gives(c), d)
    <3>1. CASE c = "master"
      BY <1>2, <3>1, BarValues
         DEF Filled, Gives, SameUse, Other, V1!WriteSlot, P1!WriteSlot, V1!Filled, P1!Filled,
             V1!Producer, P1!Producer, V1!Slot, P1!Slot, Slot
    <3>2. CASE c = "remote"
      BY <1>2, <3>2, BarValues
         DEF Filled, Gives, SameUse, Other, V1!WriteSlot, P1!WriteSlot, V1!Filled, P1!Filled,
             V1!Producer, P1!Producer, V1!Slot, P1!Slot, Slot
    <3> QED
      BY <3>1, <3>2 DEF Core
  <2>1. P1!IInv'
    BY <1>2, <2>0, CoreFacts, P1!WriteSlotInv, RpmsgAssumption, VringAssumption
       DEF P1!Ring, P1!Desc, Desc, Ring, VInv
  <2>2. V1!Next
    BY <2>0, ConstFacts
       DEF V1!Next, V1!virtqueue_add_buffer, V1!virtqueue_add_consumed_buffer, Gives, Takes,
           V1!Desc, Desc
  <2>3. \A k \in 0 .. Pend(v, Gives(c)) - 1 : Ent(v, Gives(c), k)' = Ent(v, Gives(c), k)
    <3>1. P1!IInv /\ P1!TypeOK /\ P1!NoBufferLost /\ Gives(c) \in P1!Ring /\ d \in P1!Desc
      BY <1>2, CoreFacts DEF VInv, P1!IInv, P1!Ring, Ring, P1!Desc, Desc
    <3>2. P1!Pending(Gives(c)) < NENTRIES
      <4>1. \E x \in P1!Side : heldBar(1)[x] # {}
        BY <1>2, <2>0, <3>1 DEF P1!WriteSlot, P1!Producer, P1!Side
      <4> QED
        BY <3>1, <4>1, P1!RoomInRing, RpmsgAssumption, VringAssumption
           DEF P1!Ring, P1!Desc, Desc, Ring
    <3>3. \A k \in 0 .. P1!Pending(Gives(c)) - 1 : P1!Entry(Gives(c), k)' = P1!Entry(Gives(c), k)
      <4>1. /\ ring[1]' = [ring[1] EXCEPT ![Gives(c)][P1!Slot(idx[1][Gives(c)])] = d]
            /\ consIdx[1]'[Gives(c)] = consIdx[1][Gives(c)]
        BY <1>2 DEF P1!Slot, Slot
      <4> QED
        BY <3>1, <3>2, <4>1, P1!WriteKeepsEntries, RpmsgAssumption, VringAssumption
           DEF P1!Ring, P1!Desc, Desc, Ring
    <3> QED
      BY <1>2, <3>3 DEF P1!Pending, P1!Entry, Pend, Ent, P1!IdxDiff, IdxDiff, P1!Slot, Slot
  <2> QED
    BY <1>2, <2>1, <2>2, <2>3 DEF VInv, VNext
<1> QED
  BY <1>1, <1>2 DEF Vq

(* A core that advances the index of its ring takes a step of virtqueue.c  *)
(* (PublishSlot): the descriptor it put is the last pending entry.         *)
LEMMA PublishStep ==
    ASSUME NEW v \in Vq, VInv(v), NEW c \in Core, 
           PutDesc(c, v) # NoDesc,
           idx'[v] = [idx[v] EXCEPT ![Gives(c)] = IdxInc(@)],
           ring'[v] = ring[v], consIdx'[v] = consIdx[v], vq_desc_head_idx'[v] = vq_desc_head_idx[v],
           PutDesc(c, v)' = NoDesc, HeldBy(c, v)' = HeldBy(c, v), ReadFlag(c, v)' = ReadFlag(c, v),
           SameUse(Other(c), v)
    PROVE  /\ VInv(v)'
           /\ VNext(v)
           /\ Pend(v, Gives(c))' = Pend(v, Gives(c)) + 1
           /\ \A k \in Nat : k = Pend(v, Gives(c)) => Ent(v, Gives(c), k)' = PutDesc(c, v)
<1>1. CASE v = 0
  <2>0. V0!PublishSlot(Gives(c)) /\ P0!PublishSlot(Gives(c))
    <3>1. CASE c = "master"
      BY <1>1, <3>1, BarValues
         DEF Gives, SameUse, Other, V0!PublishSlot, P0!PublishSlot, V0!IdxInc, P0!IdxInc, IdxInc
    <3>2. CASE c = "remote"
      BY <1>1, <3>2, BarValues
         DEF Gives, SameUse, Other, V0!PublishSlot, P0!PublishSlot, V0!IdxInc, P0!IdxInc, IdxInc
    <3> QED
      BY <3>1, <3>2 DEF Core
  <2>1. P0!IInv'
    BY <1>1, <2>0, CoreFacts, P0!PublishSlotInv, RpmsgAssumption, VringAssumption
       DEF P0!Desc, Desc, P0!Ring, Ring, VInv
  <2>2. V0!Next
    BY <2>0, ConstFacts
       DEF V0!Next, V0!vq_ring_update_avail, V0!vq_ring_update_used, Gives, Takes, V0!Desc, Desc
  <2>3. /\ Pend(v, Gives(c))' = Pend(v, Gives(c)) + 1
        /\ \A k \in Nat : k = Pend(v, Gives(c)) => Ent(v, Gives(c), k)' = PutDesc(c, v)
    <3>1. P0!IInv /\ P0!TypeOK /\ P0!NoBufferLost /\ P0!PuttingInv /\ Gives(c) \in P0!Ring
      BY <1>1, CoreFacts DEF VInv, P0!IInv, P0!Ring, Ring
    <3>2. P0!Pending(Gives(c)) < NENTRIES
      BY <2>0, <3>1, P0!RoomInRing, RpmsgAssumption, VringAssumption
         DEF P0!Desc, Desc, P0!Ring, Ring, P0!PublishSlot
    <3>3. /\ idx[0]' = [idx[0] EXCEPT ![Gives(c)] = P0!IdxInc(@)]
          /\ consIdx[0]' = consIdx[0]
          /\ ring[0]' = ring[0]
      BY <1>1 DEF P0!IdxInc, IdxInc, OldestEntry, SameRing
    <3>4. /\ P0!Pending(Gives(c))' = P0!Pending(Gives(c)) + 1
          /\ \A k \in Nat : k = P0!Pending(Gives(c)) =>
                P0!Entry(Gives(c), k)' = ring[0]'[Gives(c)][P0!Slot(idx[0][Gives(c)])]
      BY <3>1, <3>2, <3>3, P0!PublishEffect, RpmsgAssumption, VringAssumption
         DEF P0!Desc, Desc, P0!Ring, Ring
    <3>5. ring[0][Gives(c)][P0!Slot(idx[0][Gives(c)])] = puttingBar(0)[Gives(c)]
      BY <2>0, <3>1 DEF P0!PuttingInv, P0!PublishSlot
    <3>6. puttingBar(0)[Gives(c)] = PutDesc(c, v)
      BY <1>1, BarValues DEF Gives, Core
    <3> QED
      BY <1>1, <3>3, <3>4, <3>5, <3>6
         DEF P0!Pending, P0!Entry, Pend, Ent, P0!IdxDiff, IdxDiff, P0!Slot, Slot
  <2> QED
    BY <1>1, <2>1, <2>2, <2>3 DEF VInv, VNext
<1>2. CASE v = 1
  <2>0. V1!PublishSlot(Gives(c)) /\ P1!PublishSlot(Gives(c))
    <3>1. CASE c = "master"
      BY <1>2, <3>1, BarValues
         DEF Gives, SameUse, Other, V1!PublishSlot, P1!PublishSlot, V1!IdxInc, P1!IdxInc, IdxInc
    <3>2. CASE c = "remote"
      BY <1>2, <3>2, BarValues
         DEF Gives, SameUse, Other, V1!PublishSlot, P1!PublishSlot, V1!IdxInc, P1!IdxInc, IdxInc
    <3> QED
      BY <3>1, <3>2 DEF Core
  <2>1. P1!IInv'
    BY <1>2, <2>0, CoreFacts, P1!PublishSlotInv, RpmsgAssumption, VringAssumption
       DEF P1!Ring, P1!Desc, Desc, Ring, VInv
  <2>2. V1!Next
    BY <2>0, ConstFacts
       DEF V1!Next, V1!vq_ring_update_avail, V1!vq_ring_update_used, Gives, Takes, V1!Desc, Desc
  <2>3. /\ Pend(v, Gives(c))' = Pend(v, Gives(c)) + 1
        /\ \A k \in Nat : k = Pend(v, Gives(c)) => Ent(v, Gives(c), k)' = PutDesc(c, v)
    <3>1. P1!IInv /\ P1!TypeOK /\ P1!NoBufferLost /\ P1!PuttingInv /\ Gives(c) \in P1!Ring
      BY <1>2, CoreFacts DEF VInv, P1!IInv, P1!Ring, Ring
    <3>2. P1!Pending(Gives(c)) < NENTRIES
      BY <2>0, <3>1, P1!RoomInRing, RpmsgAssumption, VringAssumption
         DEF P1!Ring, P1!Desc, Desc, Ring, P1!PublishSlot
    <3>3. /\ idx[1]' = [idx[1] EXCEPT ![Gives(c)] = P1!IdxInc(@)]
          /\ consIdx[1]' = consIdx[1]
          /\ ring[1]' = ring[1]
      BY <1>2 DEF P1!IdxInc, IdxInc, OldestEntry, SameRing
    <3>4. /\ P1!Pending(Gives(c))' = P1!Pending(Gives(c)) + 1
          /\ \A k \in Nat : k = P1!Pending(Gives(c)) =>
                P1!Entry(Gives(c), k)' = ring[1]'[Gives(c)][P1!Slot(idx[1][Gives(c)])]
      BY <3>1, <3>2, <3>3, P1!PublishEffect, RpmsgAssumption, VringAssumption
         DEF P1!Ring, P1!Desc, Desc, Ring
    <3>5. ring[1][Gives(c)][P1!Slot(idx[1][Gives(c)])] = puttingBar(1)[Gives(c)]
      BY <2>0, <3>1 DEF P1!PuttingInv, P1!PublishSlot
    <3>6. puttingBar(1)[Gives(c)] = PutDesc(c, v)
      BY <1>2, BarValues DEF Gives, Core
    <3> QED
      BY <1>2, <3>3, <3>4, <3>5, <3>6
         DEF P1!Pending, P1!Entry, Pend, Ent, P1!IdxDiff, IdxDiff, P1!Slot, Slot
  <2> QED
    BY <1>2, <2>1, <2>2, <2>3 DEF VInv, VNext
<1> QED
  BY <1>1, <1>2 DEF Vq

(* A core that finds the ring not empty takes a step of virtqueue.c        *)
(* (SeeEntry).                                                             *)
LEMMA SeeStep ==
    ASSUME NEW v \in Vq, VInv(v), NEW c \in Core, 
           Filled(v), ReadFlag(c, v) = FALSE, consIdx[v][Takes(c)] # idx[v][Takes(c)],
           SameRing(v),
           PutDesc(c, v)' = PutDesc(c, v), HeldBy(c, v)' = HeldBy(c, v), ReadFlag(c, v)' = TRUE,
           SameUse(Other(c), v)
    PROVE  /\ VInv(v)'
           /\ VNext(v)
<1>1. CASE v = 0
  <2>0. V0!SeeEntry(Takes(c)) /\ P0!SeeEntry(Takes(c))
    <3>1. CASE c = "master"
      BY <1>1, <3>1, BarValues
         DEF Filled, Takes, SameUse, Other, V0!SeeEntry, P0!SeeEntry, V0!Filled, P0!Filled,
             SameRing
    <3>2. CASE c = "remote"
      BY <1>1, <3>2, BarValues
         DEF Filled, Takes, SameUse, Other, V0!SeeEntry, P0!SeeEntry, V0!Filled, P0!Filled,
             SameRing
    <3> QED
      BY <3>1, <3>2 DEF Core
  <2>1. P0!IInv'
    BY <1>1, <2>0, CoreFacts, P0!SeeEntryInv, RpmsgAssumption, VringAssumption
       DEF P0!Desc, Desc, P0!Ring, Ring, VInv
  <2>2. V0!Next
    BY <2>0, ConstFacts
       DEF V0!Next, V0!virtqueue_get_buffer, V0!virtqueue_get_available_buffer, Gives, Takes,
           V0!Desc, Desc
  <2> QED
    BY <1>1, <2>1, <2>2 DEF VInv, VNext
<1>2. CASE v = 1
  <2>0. V1!SeeEntry(Takes(c)) /\ P1!SeeEntry(Takes(c))
    <3>1. CASE c = "master"
      BY <1>2, <3>1, BarValues
         DEF Filled, Takes, SameUse, Other, V1!SeeEntry, P1!SeeEntry, V1!Filled, P1!Filled,
             SameRing
    <3>2. CASE c = "remote"
      BY <1>2, <3>2, BarValues
         DEF Filled, Takes, SameUse, Other, V1!SeeEntry, P1!SeeEntry, V1!Filled, P1!Filled,
             SameRing
    <3> QED
      BY <3>1, <3>2 DEF Core
  <2>1. P1!IInv'
    BY <1>2, <2>0, CoreFacts, P1!SeeEntryInv, RpmsgAssumption, VringAssumption
       DEF P1!Ring, P1!Desc, Desc, Ring, VInv
  <2>2. V1!Next
    BY <2>0, ConstFacts
       DEF V1!Next, V1!virtqueue_get_buffer, V1!virtqueue_get_available_buffer, Gives, Takes,
           V1!Desc, Desc
  <2> QED
    BY <1>2, <2>1, <2>2 DEF VInv, VNext
<1> QED
  BY <1>1, <1>2 DEF Vq

(* A core that takes the oldest entry takes a step of virtqueue.c          *)
(* (ReadEntry): the pending entries move up by one.                        *)
LEMMA ReadStep ==
    ASSUME NEW v \in Vq, VInv(v), NEW c \in Core, 
           ReadFlag(c, v) = TRUE,
           consIdx'[v] = [consIdx[v] EXCEPT ![Takes(c)] = IdxInc(@)],
           ring'[v] = ring[v], idx'[v] = idx[v], vq_desc_head_idx'[v] = vq_desc_head_idx[v],
           PutDesc(c, v)' = PutDesc(c, v), ReadFlag(c, v)' = FALSE,
           HeldBy(c, v)' = HeldBy(c, v) \union {OldestEntry(v, Takes(c))},
           SameUse(Other(c), v)
    PROVE  /\ VInv(v)'
           /\ VNext(v)
           /\ Pend(v, Takes(c)) > 0
           /\ Pend(v, Takes(c))' = Pend(v, Takes(c)) - 1
           /\ \A k \in Nat : Ent(v, Takes(c), k)' = Ent(v, Takes(c), k + 1)
<1>1. CASE v = 0
  <2>0. V0!ReadEntry(Takes(c)) /\ P0!ReadEntry(Takes(c))
    <3>1. CASE c = "master"
      BY <1>1, <3>1, BarValues
         DEF Takes, SameUse, Other, V0!ReadEntry, P0!ReadEntry, V0!Consumer, P0!Consumer, V0!Slot,
             P0!Slot, Slot, V0!IdxInc, P0!IdxInc, IdxInc, OldestEntry
    <3>2. CASE c = "remote"
      BY <1>1, <3>2, BarValues
         DEF Takes, SameUse, Other, V0!ReadEntry, P0!ReadEntry, V0!Consumer, P0!Consumer, V0!Slot,
             P0!Slot, Slot, V0!IdxInc, P0!IdxInc, IdxInc, OldestEntry
    <3> QED
      BY <3>1, <3>2 DEF Core
  <2>1. P0!IInv'
    BY <1>1, <2>0, CoreFacts, P0!ReadEntryInv, RpmsgAssumption, VringAssumption
       DEF P0!Desc, Desc, P0!Ring, Ring, VInv
  <2>2. V0!Next
    BY <2>0, ConstFacts
       DEF V0!Next, V0!virtqueue_get_buffer, V0!virtqueue_get_available_buffer, Gives, Takes,
           V0!Desc, Desc
  <2>3. /\ Pend(v, Takes(c)) > 0
        /\ Pend(v, Takes(c))' = Pend(v, Takes(c)) - 1
        /\ \A k \in Nat : Ent(v, Takes(c), k)' = Ent(v, Takes(c), k + 1)
    <3>1. P0!IInv /\ P0!ReadingInv /\ Takes(c) \in P0!Ring
      BY <1>1, CoreFacts DEF VInv, P0!IInv, P0!Ring, Ring
    <3>2. /\ consIdx[0]' = [consIdx[0] EXCEPT ![Takes(c)] = P0!IdxInc(@)]
          /\ idx[0]' = idx[0]
          /\ ring[0]' = ring[0]
      BY <1>1 DEF P0!IdxInc, IdxInc, OldestEntry, SameRing
    <3>3. consIdx[0][Takes(c)] # idx[0][Takes(c)]
      BY <2>0, <3>1 DEF P0!ReadingInv, P0!ReadEntry
    <3>4. /\ P0!Pending(Takes(c)) > 0
          /\ P0!Pending(Takes(c))' = P0!Pending(Takes(c)) - 1
          /\ \A k \in Nat : P0!Entry(Takes(c), k)' = P0!Entry(Takes(c), k + 1)
      BY <3>1, <3>2, <3>3, P0!ReadEffect, RpmsgAssumption, VringAssumption
         DEF P0!Desc, Desc, P0!Ring, Ring
    <3> QED
      BY <1>1, <3>4 DEF P0!Pending, P0!Entry, Pend, Ent, P0!IdxDiff, IdxDiff, P0!Slot, Slot
  <2> QED
    BY <1>1, <2>1, <2>2, <2>3 DEF VInv, VNext
<1>2. CASE v = 1
  <2>0. V1!ReadEntry(Takes(c)) /\ P1!ReadEntry(Takes(c))
    <3>1. CASE c = "master"
      BY <1>2, <3>1, BarValues
         DEF Takes, SameUse, Other, V1!ReadEntry, P1!ReadEntry, V1!Consumer, P1!Consumer, V1!Slot,
             P1!Slot, Slot, V1!IdxInc, P1!IdxInc, IdxInc, OldestEntry
    <3>2. CASE c = "remote"
      BY <1>2, <3>2, BarValues
         DEF Takes, SameUse, Other, V1!ReadEntry, P1!ReadEntry, V1!Consumer, P1!Consumer, V1!Slot,
             P1!Slot, Slot, V1!IdxInc, P1!IdxInc, IdxInc, OldestEntry
    <3> QED
      BY <3>1, <3>2 DEF Core
  <2>1. P1!IInv'
    BY <1>2, <2>0, CoreFacts, P1!ReadEntryInv, RpmsgAssumption, VringAssumption
       DEF P1!Ring, P1!Desc, Desc, Ring, VInv
  <2>2. V1!Next
    BY <2>0, ConstFacts
       DEF V1!Next, V1!virtqueue_get_buffer, V1!virtqueue_get_available_buffer, Gives, Takes,
           V1!Desc, Desc
  <2>3. /\ Pend(v, Takes(c)) > 0
        /\ Pend(v, Takes(c))' = Pend(v, Takes(c)) - 1
        /\ \A k \in Nat : Ent(v, Takes(c), k)' = Ent(v, Takes(c), k + 1)
    <3>1. P1!IInv /\ P1!ReadingInv /\ Takes(c) \in P1!Ring
      BY <1>2, CoreFacts DEF VInv, P1!IInv, P1!Ring, Ring
    <3>2. /\ consIdx[1]' = [consIdx[1] EXCEPT ![Takes(c)] = P1!IdxInc(@)]
          /\ idx[1]' = idx[1]
          /\ ring[1]' = ring[1]
      BY <1>2 DEF P1!IdxInc, IdxInc, OldestEntry, SameRing
    <3>3. consIdx[1][Takes(c)] # idx[1][Takes(c)]
      BY <2>0, <3>1 DEF P1!ReadingInv, P1!ReadEntry
    <3>4. /\ P1!Pending(Takes(c)) > 0
          /\ P1!Pending(Takes(c))' = P1!Pending(Takes(c)) - 1
          /\ \A k \in Nat : P1!Entry(Takes(c), k)' = P1!Entry(Takes(c), k + 1)
      BY <3>1, <3>2, <3>3, P1!ReadEffect, RpmsgAssumption, VringAssumption
         DEF P1!Ring, P1!Desc, Desc, Ring
    <3> QED
      BY <1>2, <3>4 DEF P1!Pending, P1!Entry, Pend, Ent, P1!IdxDiff, IdxDiff, P1!Slot, Slot
  <2> QED
    BY <1>2, <2>1, <2>2, <2>3 DEF VInv, VNext
<1> QED
  BY <1>1, <1>2 DEF Vq

(* A step that touches neither a vring nor its contexts is a stutter of    *)
(* virtqueue.c.                                                            *)
LEMMA StillStep ==
    ASSUME NEW v \in Vq, VInv(v), SameRing(v), \A c \in Core : SameUse(c, v)
    PROVE  /\ VInv(v)'
           /\ VNext(v)
<1>0. puttingBar(v)' = puttingBar(v) /\ readingBar(v)' = readingBar(v) /\ heldBar(v)' = heldBar(v)
  BY BarValues DEF SameUse, Core
<1>1. CASE v = 0
  <2>1. UNCHANGED P0!vars /\ UNCHANGED V0!vars
    BY <1>0, <1>1 DEF P0!vars, V0!vars, SameRing
  <2>2. P0!IInv'
    BY <1>1, <2>1, P0!StutterInv, RpmsgAssumption, VringAssumption
       DEF P0!Desc, Desc, P0!Ring, Ring, VInv
  <2> QED
    BY <1>1, <2>1, <2>2 DEF VInv, VNext
<1>2. CASE v = 1
  <2>1. UNCHANGED P1!vars /\ UNCHANGED V1!vars
    BY <1>0, <1>2 DEF P1!vars, V1!vars, SameRing
  <2>2. P1!IInv'
    BY <1>2, <2>1, P1!StutterInv, RpmsgAssumption, VringAssumption
       DEF P1!Ring, P1!Desc, Desc, Ring, VInv
  <2> QED
    BY <1>2, <2>1, <2>2 DEF VInv, VNext
<1> QED
  BY <1>1, <1>2 DEF Vq

(* rpmsg_lite_master_init's filling of a vring is a step of virtqueue.c    *)
(* (FillRing).                                                             *)
LEMMA FillStep ==
    ASSUME NEW v \in Vq, VInv(v), NEW r \in Ring, r = IF v = 0 THEN "avail" ELSE "used",
           ~Filled(v), \A c \in Core : SameUse(c, v),
           ring'[v] = [ring[v] EXCEPT ![r][Slot(idx[v][r])] = vq_desc_head_idx[v]],
           idx'[v] = [idx[v] EXCEPT ![r] = IdxInc(@)],
           consIdx'[v] = consIdx[v],
           vq_desc_head_idx'[v] = vq_desc_head_idx[v] + 1
    PROVE  /\ VInv(v)'
           /\ VNext(v)
<1>0. puttingBar(v)' = puttingBar(v) /\ readingBar(v)' = readingBar(v) /\ heldBar(v)' = heldBar(v)
  BY BarValues DEF SameUse, Core
<1>1. CASE v = 0
  <2>1. P0!FillRing("avail") /\ V0!FillRing("avail")
    BY <1>0, <1>1
       DEF P0!FillRing, V0!FillRing, Filled, P0!Filled, V0!Filled, P0!Slot, V0!Slot, Slot,
           P0!IdxInc, V0!IdxInc, IdxInc
  <2>2. P0!IInv'
    BY <1>1, <2>1, P0!FillRingInv, RpmsgAssumption, VringAssumption
       DEF P0!Desc, Desc, P0!Ring, Ring, VInv
  <2>3. V0!Next
    BY <2>1
       DEF V0!Next, V0!virtqueue_fill_buffers, V0!virtqueue_fill_avail_buffers,
           V0!virtqueue_fill_used_buffers
  <2> QED
    BY <1>1, <2>2, <2>3 DEF VInv, VNext
<1>2. CASE v = 1
  <2>1. P1!FillRing("used") /\ V1!FillRing("used")
    BY <1>0, <1>2
       DEF P1!FillRing, V1!FillRing, Filled, P1!Filled, V1!Filled, P1!Slot, V1!Slot, Slot,
           P1!IdxInc, V1!IdxInc, IdxInc
  <2>2. P1!IInv'
    BY <1>2, <2>1, P1!FillRingInv, RpmsgAssumption, VringAssumption
       DEF P1!Ring, P1!Desc, Desc, Ring, VInv
  <2>3. V1!Next
    BY <2>1
       DEF V1!Next, V1!virtqueue_fill_buffers, V1!virtqueue_fill_avail_buffers,
           V1!virtqueue_fill_used_buffers
  <2> QED
    BY <1>2, <2>2, <2>3 DEF VInv, VNext
<1> QED
  BY <1>1, <1>2 DEF Vq

-----------------------------------------------------------------------------
(* What a step has to do besides keeping the types. *)
Good ==
    /\ \A v \in Vq : VInv(v)' /\ VNext(v)
    /\ LockInv' /\ SendInv' /\ ModeInv' /\ OnceInv' /\ LogInv' /\ IntactInv'

(* Buffer x of the receive vring of c is in the hands of a task, of the    *)
(* queue or of the interrupt.                                              *)
RxHolds(c, x) ==
    \/ \E t \in TasksOf(c) : task[t].pc = "release" /\ x = task[t].d
    \/ \E i \in DOMAIN queue[c] : x = queue[c][i].d
    \/ isr[c].pc \in {"deliver", "free"} /\ x = isr[c].d

(* The buffers a core holds on its transmit and on its receive vring. *)
LEMMA HeldFacts ==
    ASSUME NEW c \in Core
    PROVE  /\ \A x : x \in HeldBy(c, Tvq(c)) <=> \E t \in TasksOf(c) : TxHolds(t, x)
           /\ \A x : x \in HeldBy(c, Tvq(c))' <=> \E t \in TasksOf(c) : TxHolds(t, x)'
           /\ \A x : x \in HeldBy(c, Rvq(c)) <=> RxHolds(c, x)
           /\ \A x : x \in HeldBy(c, Rvq(c))' <=> RxHolds(c, x)'
<1>1. Rvq(c) # Tvq(c)
  BY CoreFacts
<1>2. \A x : x \in HeldBy(c, Tvq(c)) <=> \E t \in TasksOf(c) : TxHolds(t, x)
  BY <1>1 DEF HeldBy, TxHolds
<1>3. \A x : x \in HeldBy(c, Tvq(c))' <=> \E t \in TasksOf(c) : TxHolds(t, x)'
  BY <1>1 DEF HeldBy, TxHolds
<1>4. \A x : x \in HeldBy(c, Rvq(c)) <=> RxHolds(c, x)
  BY <1>1 DEF HeldBy, RxHolds
<1>5. \A x : x \in HeldBy(c, Rvq(c))' <=> RxHolds(c, x)'
  BY <1>1 DEF HeldBy, RxHolds
<1> QED
  BY <1>2, <1>3, <1>4, <1>5

(* Who puts on the transmit and on the receive vring of a core. *)
LEMMA PutterFacts ==
    ASSUME NEW c \in Core
    PROVE  /\ \A x : x \in Putters(c, Tvq(c)) <=>
                 \E t \in TasksOf(c) : task[t].pc = "publish" /\ x = task[t].d
           /\ \A x : x \in Putters(c, Tvq(c))' <=>
                 \E t \in TasksOf(c) : task'[t].pc = "publish" /\ x = task'[t].d
           /\ \A x : x \in Putters(c, Rvq(c)) <=>
                 \/ \E t \in TasksOf(c) : task[t].pc = "released" /\ x = task[t].d
                 \/ isr[c].pc = "publish" /\ x = isr[c].d
           /\ \A x : x \in Putters(c, Rvq(c))' <=>
                 \/ \E t \in TasksOf(c) : task'[t].pc = "released" /\ x = task'[t].d
                 \/ isr'[c].pc = "publish" /\ x = isr'[c].d
  BY CoreFacts DEF Putters

(* The descriptor in the slot, from the set of those who put. *)
LEMMA PutDescFacts ==
    ASSUME NEW c, NEW v
    PROVE  /\ (\A x : x \notin Putters(c, v)) => PutDesc(c, v) = NoDesc
           /\ (\A x : x \notin Putters(c, v)') => PutDesc(c, v)' = NoDesc
           /\ \A d : (\A x : x \in Putters(c, v) <=> x = d) => PutDesc(c, v) = d
           /\ \A d : (\A x : x \in Putters(c, v)' <=> x = d) => PutDesc(c, v)' = d
           /\ (\A x : x \in Putters(c, v)' <=> x \in Putters(c, v)) => PutDesc(c, v)' = PutDesc(c, v)
<1>1. ASSUME \A x : x \notin Putters(c, v) PROVE PutDesc(c, v) = NoDesc
  BY <1>1 DEF PutDesc
<1>2. ASSUME \A x : x \notin Putters(c, v)' PROVE PutDesc(c, v)' = NoDesc
  BY <1>2 DEF PutDesc
<1>3. ASSUME NEW d, \A x : x \in Putters(c, v) <=> x = d PROVE PutDesc(c, v) = d
  BY <1>3 DEF PutDesc
<1>4. ASSUME NEW d, \A x : x \in Putters(c, v)' <=> x = d PROVE PutDesc(c, v)' = d
  BY <1>4 DEF PutDesc
<1>5. ASSUME \A x : x \in Putters(c, v)' <=> x \in Putters(c, v) PROVE PutDesc(c, v)' = PutDesc(c, v)
  <2>1. Putters(c, v)' = Putters(c, v)
    BY <1>5
  <2> QED
    BY <2>1 DEF PutDesc
<1> QED
  BY <1>1, <1>2, <1>3, <1>4, <1>5

(* The use of the transmit vring, when the tasks hold what they held. *)
LEMMA TxSame ==
    ASSUME NEW c \in Core,
           \A t \in TasksOf(c) :
              /\ task'[t].pc \in {"fill", "enqueue"} <=> task[t].pc \in {"fill", "enqueue"}
              /\ task'[t].pc = "publish" <=> task[t].pc = "publish"
              /\ task'[t].pc = "take" <=> task[t].pc = "take"
              /\ task[t].pc \in {"fill", "enqueue", "publish"} => task'[t].d = task[t].d
              /\ task'[t].nocopy = task[t].nocopy
    PROVE  SameUse(c, Tvq(c))
<1>1. HeldBy(c, Tvq(c))' = HeldBy(c, Tvq(c))
  <2>1. \A t \in TasksOf(c) : \A x : TxHolds(t, x)' <=> TxHolds(t, x)
    BY DEF TxHolds
  <2> QED
    BY <2>1, HeldFacts
<1>2. PutDesc(c, Tvq(c))' = PutDesc(c, Tvq(c))
  BY PutterFacts, PutDescFacts
<1>3. ReadFlag(c, Tvq(c))' = ReadFlag(c, Tvq(c))
  BY DEF ReadFlag
<1> QED
  BY <1>1, <1>2, <1>3 DEF SameUse

(* The use of the receive vring, when tasks, queue and interrupt hold what *)
(* they held.                                                              *)
LEMMA RxSame ==
    ASSUME NEW c \in Core,
           \A t \in TasksOf(c) :
              /\ task'[t].pc = "release" <=> task[t].pc = "release"
              /\ task'[t].pc = "released" <=> task[t].pc = "released"
              /\ task[t].pc \in {"release", "released"} => task'[t].d = task[t].d,
           queue'[c] = queue[c],
           isr'[c].pc \in {"deliver", "free"} <=> isr[c].pc \in {"deliver", "free"},
           isr'[c].pc = "publish" <=> isr[c].pc = "publish",
           isr'[c].pc = "read" <=> isr[c].pc = "read",
           isr[c].pc \in {"deliver", "free", "publish"} => isr'[c].d = isr[c].d
    PROVE  SameUse(c, Rvq(c))
<1>1. HeldBy(c, Rvq(c))' = HeldBy(c, Rvq(c))
  <2>1. \A x : RxHolds(c, x)' <=> RxHolds(c, x)
    BY DEF RxHolds
  <2> QED
    BY <2>1, HeldFacts
<1>2. PutDesc(c, Rvq(c))' = PutDesc(c, Rvq(c))
  BY PutterFacts, PutDescFacts
<1>3. ReadFlag(c, Rvq(c))' = ReadFlag(c, Rvq(c))
  BY CoreFacts DEF ReadFlag
<1> QED
  BY <1>1, <1>2, <1>3 DEF SameUse

(* A core whose tasks, queue and interrupt stay as they are. *)
LEMMA CoreSame ==
    ASSUME NEW c \in Core, \A t \in TasksOf(c) : task'[t] = task[t],
           queue'[c] = queue[c], isr'[c] = isr[c]
    PROVE  \A v \in Vq : SameUse(c, v)
<1>1. SameUse(c, Tvq(c)) /\ SameUse(c, Rvq(c))
  BY TxSame, RxSame
<1> QED
  BY <1>1 DEF Vq, Tvq, Rvq, Core

(* The vrings of c when nothing that counts for them changes. *)
LEMMA VringsStill ==
    ASSUME IInv, UNCHANGED ringVars, \A c \in Core : SameUse(c, Tvq(c)) /\ SameUse(c, Rvq(c))
    PROVE  \A v \in Vq : VInv(v)' /\ VNext(v)
<1>1. \A v \in Vq, c \in Core : SameUse(c, v)
  BY DEF Vq, Tvq, Rvq, Core
<1>2. \A v \in Vq : SameRing(v) /\ VInv(v)
  BY DEF SameRing, ringVars, IInv
<1> QED
  BY <1>1, <1>2, StillStep

(* The log of a direction, when neither its ends nor the pending buffers   *)
(* change.                                                                 *)
LEMMA LogSame ==
    ASSUME NEW c \in Core, LogOf(c),
           sentLog'[c] = sentLog[c], rcvdLog'[Other(c)] = rcvdLog[Other(c)],
           isr'[Other(c)].pc = "deliver" <=> isr[Other(c)].pc = "deliver",
           isr[Other(c)].pc = "deliver" =>
              /\ isr'[Other(c)].d = isr[Other(c)].d
              /\ buf'[Tvq(c)][isr[Other(c)].d] = buf[Tvq(c)][isr[Other(c)].d],
           Pend(Tvq(c), Gives(c))' = Pend(Tvq(c), Gives(c)),
           \A k \in 0 .. Pend(Tvq(c), Gives(c)) - 1 :
              /\ Ent(Tvq(c), Gives(c), k)' = Ent(Tvq(c), Gives(c), k)
              /\ buf'[Tvq(c)][Ent(Tvq(c), Gives(c), k)] = buf[Tvq(c)][Ent(Tvq(c), Gives(c), k)]
    PROVE  LogOf(c)'
  BY DEF LogOf, InHand

(* What every proof about a step needs of the invariant. *)
LEMMA InvParts ==
    ASSUME IInv
    PROVE  /\ \A v \in Vq : VInv(v) /\ VFacts(v)
           /\ BaseInv /\ LockInv /\ SendInv /\ ModeInv /\ OnceInv /\ LogInv /\ IntactInv
           /\ RingTypes /\ ContextTypes /\ LogTypes /\ DescInv
           /\ \A t \in Task : task[t].pc # "idle" => \A v \in Vq : Filled(v)
           /\ \A c \in Core : isr[c].pc # "off" => \A v \in Vq : Filled(v)
<1>1. \A v \in Vq : VInv(v) /\ VFacts(v)
  BY VInvFacts DEF IInv
<1>2. BaseInv /\ LockInv /\ SendInv /\ ModeInv /\ OnceInv /\ LogInv /\ IntactInv
  BY DEF IInv
<1>3. RingTypes /\ ContextTypes /\ LogTypes /\ DescInv
  BY <1>2 DEF BaseInv, TypeInv, TypeOK
<1>4. /\ \A t \in Task : task[t].pc # "idle" => \A v \in Vq : Filled(v)
      /\ \A c \in Core : isr[c].pc # "off" => \A v \in Vq : Filled(v)
  BY <1>2 DEF BaseInv, UseInv, Quiet, RingsFilled, Filled
<1> QED
  BY <1>1, <1>2, <1>3, <1>4

(* The one descriptor being put on a vring is that of the task in the lock, *)
(* or of the interrupt.                                                    *)
LEMMA PutOf ==
    ASSUME IInv, NEW c \in Core
    PROVE  /\ \A t \in TasksOf(c) : task[t].pc = "publish" => PutDesc(c, Tvq(c)) = task[t].d
           /\ (\A t \in TasksOf(c) : task[t].pc # "publish") => PutDesc(c, Tvq(c)) = NoDesc
           /\ \A t \in TasksOf(c) : task[t].pc = "released" => PutDesc(c, Rvq(c)) = task[t].d
           /\ isr[c].pc = "publish" => PutDesc(c, Rvq(c)) = isr[c].d
           /\ isr[c].pc # "publish" /\ (\A t \in TasksOf(c) : task[t].pc # "released")
                 => PutDesc(c, Rvq(c)) = NoDesc
<1>1. \A t, u \in TasksOf(c) : task[t].pc \in InLock /\ task[u].pc \in InLock => t = u
  BY InvParts, CoreFacts DEF LockInv
<1>2. \A t, u \in TasksOf(c) : /\ task[t].pc = "publish" /\ task[u].pc = "publish" => t = u
                               /\ task[t].pc = "released" /\ task[u].pc = "released" => t = u
  BY <1>1 DEF InLock
<1>3. isr[c].pc = "publish" => \A t \in TasksOf(c) : task[t].pc # "released"
  BY InvParts DEF ModeInv
<1>4. ASSUME NEW t \in TasksOf(c), task[t].pc = "publish" PROVE PutDesc(c, Tvq(c)) = task[t].d
  <2>1. \A x : x \in Putters(c, Tvq(c)) <=> x = task[t].d
    BY <1>2, <1>4, PutterFacts
  <2> QED
    BY <2>1, PutDescFacts
<1>5. ASSUME NEW t \in TasksOf(c), task[t].pc = "released" PROVE PutDesc(c, Rvq(c)) = task[t].d
  <2>1. \A x : x \in Putters(c, Rvq(c)) <=> x = task[t].d
    BY <1>2, <1>3, <1>5, PutterFacts
  <2> QED
    BY <2>1, PutDescFacts
<1>6. ASSUME isr[c].pc = "publish" PROVE PutDesc(c, Rvq(c)) = isr[c].d
  <2>1. \A x : x \in Putters(c, Rvq(c)) <=> x = isr[c].d
    BY <1>3, <1>6, PutterFacts
  <2> QED
    BY <2>1, PutDescFacts
<1> QED
  BY <1>4, <1>5, <1>6, PutterFacts, PutDescFacts

(* A step of a task t is no step of the other core. *)
LEMMA PeerSame ==
    ASSUME NEW t \in Task, \A u \in Task : u # t => task'[u] = task[u],
           isr' = isr, queue'[Other(CoreOf(t))] = queue[Other(CoreOf(t))]
    PROVE  \A v \in Vq : SameUse(Other(CoreOf(t)), v)
<1>1. Other(CoreOf(t)) \in Core /\ \A u \in TasksOf(Other(CoreOf(t))) : u \in Task /\ u # t
  BY CoreFacts
<1> QED
  BY <1>1, CoreSame

(* Steps of the init functions, of rpmsg_lite_deinit and the entry of the  *)
(* interrupt touch neither rings nor buffers.                              *)
LEMMA LinkGood ==
    ASSUME IInv, UNCHANGED <<ringVars, logVars, buf, task, lock, queue>>,
           \A c \in Core : isr'[c] = isr[c] \/ (isr[c].pc = "off" /\ isr'[c].pc = "check")
    PROVE  Good
<1>1. \A v \in Vq : VInv(v)' /\ VNext(v)
  <2>1. \A c \in Core : SameUse(c, Tvq(c))
    BY TxSame
  <2>2. \A c \in Core : SameUse(c, Rvq(c))
    BY RxSame
  <2> QED
    BY <2>1, <2>2, VringsStill
<1>2. LockInv' /\ SendInv'
  BY InvParts DEF LockInv, SendInv
<1>3. ModeInv'
  BY InvParts DEF ModeInv
<1>4. OnceInv'
  BY InvParts DEF OnceInv, TxOnce, RxOnce, TxHolds
<1>5. LogInv'
  <2> SUFFICES ASSUME NEW c \in Core PROVE LogOf(c)'
    BY DEF LogInv
  <2>1. LogOf(c) /\ Other(c) \in Core
    BY InvParts, CoreFacts DEF LogInv
  <2>2. /\ Pend(Tvq(c), Gives(c))' = Pend(Tvq(c), Gives(c))
        /\ \A k : Ent(Tvq(c), Gives(c), k)' = Ent(Tvq(c), Gives(c), k)
    BY DEF ringVars, Pend, Ent
  <2> QED
    BY <2>1, <2>2, LogSame DEF logVars
<1>6. IntactInv'
  BY InvParts DEF IntactInv
<1> QED
  BY <1>1, <1>2, <1>3, <1>4, <1>5, <1>6 DEF Good

(* Steps of a call that only change the context of the task. *)
LEMMA LocalGood ==
    ASSUME IInv, NEW t \in Task,
           UNCHANGED <<ringVars, buf, isr, queue, sentLog, rcvdLog>>,
           \A u \in Task : u # t => task'[u] = task[u],
           task[t].pc \in {"idle", "alloc", "sleep", "kick"}, task'[t].pc \in {"idle", "alloc", "sleep"},
           task'[t].nocopy = task[t].nocopy, task'[t].msg \in Msgs(CoreOf(t)) \union {Empty},
           task'[t].pc = "idle" => task'[t].msg = Empty,
           task'[t].pc \in {"alloc", "sleep"} /\ task'[t].msg = Empty => task[t].nocopy = NoDesc,
           lock' = lock \/ (task[t].pc = "kick" /\ lock' = [lock EXCEPT ![CoreOf(t)] = NoTask])
    PROVE  Good
<1>1. \A v \in Vq : VInv(v)' /\ VNext(v)
  <2>1. \A c \in Core : SameUse(c, Tvq(c))
    BY CoreFacts, TxSame
  <2>2. \A c \in Core : SameUse(c, Rvq(c))
    BY CoreFacts, RxSame
  <2> QED
    BY <2>1, <2>2, VringsStill
<1>2. LockInv'
  BY InvParts, CoreFacts DEF LockInv, InLock, ContextTypes
<1>3. SendInv'
  BY InvParts DEF SendInv
<1>4. ModeInv'
  BY InvParts, CoreFacts DEF ModeInv
<1>5. OnceInv'
  <2>1. \A u \in Task : \A x : TxHolds(u, x)' <=> TxHolds(u, x)
    BY DEF TxHolds
  <2>2. \A c \in Core : TxOnce(c)'
    BY <2>1, InvParts, CoreFacts DEF OnceInv, TxOnce
  <2>3. \A c \in Core : RxOnce(c)'
    BY InvParts, CoreFacts DEF OnceInv, RxOnce
  <2> QED
    BY <2>2, <2>3 DEF OnceInv
<1>6. LogInv'
  <2> SUFFICES ASSUME NEW c \in Core PROVE LogOf(c)'
    BY DEF LogInv
  <2>1. LogOf(c) /\ Other(c) \in Core
    BY InvParts, CoreFacts DEF LogInv
  <2>2. /\ Pend(Tvq(c), Gives(c))' = Pend(Tvq(c), Gives(c))
        /\ \A k : Ent(Tvq(c), Gives(c), k)' = Ent(Tvq(c), Gives(c), k)
    BY DEF ringVars, Pend, Ent
  <2> QED
    BY <2>1, <2>2, LogSame
<1>7. IntactInv'
  BY InvParts DEF IntactInv
<1> QED
  BY <1>1, <1>2, <1>3, <1>4, <1>5, <1>6, <1>7 DEF Good

(* A step of core c on vring v leaves the other vring alone. *)
LEMMA OneVring ==
    ASSUME IInv, NEW c \in Core, NEW v \in Vq, NEW w \in Vq, w # v,
           VInv(v)', VNext(v), SameRing(w), SameUse(c, w), SameUse(Other(c), w)
    PROVE  \A x \in Vq : VInv(x)' /\ VNext(x)
<1>1. VInv(w) /\ \A e \in Core : SameUse(e, w)
  BY InvParts, CoreFacts DEF Core, Other
<1>2. VInv(w)' /\ VNext(w)
  BY <1>1, StillStep
<1> QED
  BY <1>2 DEF Vq

(* The messages on their way when a task works on the rings. *)
LEMMA LogsSame ==
    ASSUME IInv, UNCHANGED <<isr, buf, sentLog, rcvdLog>>,
           \A c \in Core : /\ Pend(Tvq(c), Gives(c))' = Pend(Tvq(c), Gives(c))
                           /\ \A k \in 0 .. Pend(Tvq(c), Gives(c)) - 1 :
                                 Ent(Tvq(c), Gives(c), k)' = Ent(Tvq(c), Gives(c), k)
    PROVE  LogInv'
<1> SUFFICES ASSUME NEW c \in Core PROVE LogOf(c)'
  BY DEF LogInv
<1>1. LogOf(c) /\ Other(c) \in Core
  BY InvParts, CoreFacts DEF LogInv
<1> QED
  BY <1>1, LogSame

(* A task that finds a free transmit buffer. *)
LEMMA TxSeeGood ==
    ASSUME IInv, NEW t \in Task, tx_alloc(t), HasEntry(Tvq(CoreOf(t)), Takes(CoreOf(t)))
    PROVE  Good
<1>0. PICK c \in Core : c = CoreOf(t) /\ t \in TasksOf(c)
  BY CoreFacts
<1>a. /\ task[t].pc = "alloc" /\ task'[t].pc = "take" /\ task'[t].d = task[t].d
      /\ task'[t].msg = task[t].msg /\ task'[t].nocopy = task[t].nocopy
      /\ \A u \in Task : u # t => task'[u] = task[u]
      /\ UNCHANGED <<ringVars, buf, isr, queue, sentLog, rcvdLog>>
  BY InvParts DEF tx_alloc, Runs, logVars, ContextTypes, TaskState
<1>b. lock[c] = NoTask /\ lock' = [lock EXCEPT ![c] = t]
  BY <1>0 DEF tx_alloc
<1>c. \A u \in TasksOf(c) : task[u].pc \notin InLock
  BY <1>b, InvParts, CoreFacts, RpmsgAssumption DEF LockInv, Task
<1>1. \A v \in Vq : VInv(v)' /\ VNext(v)
  <2>1. SameUse(Other(c), Tvq(c)) /\ SameUse(Other(c), Rvq(c))
    BY <1>0, <1>a, PeerSame, CoreFacts
  <2>2. SameUse(c, Rvq(c))
    BY <1>a, RxSame, CoreFacts
  <2>3. ReadFlag(c, Tvq(c)) = FALSE /\ ReadFlag(c, Tvq(c))' = TRUE
    BY <1>0, <1>a, <1>c DEF ReadFlag, InLock
  <2>4. HeldBy(c, Tvq(c))' = HeldBy(c, Tvq(c))
    <3>1. \A u \in TasksOf(c) : \A x : TxHolds(u, x)' <=> TxHolds(u, x)
      BY <1>a, CoreFacts DEF TxHolds
    <3> QED
      BY <3>1, HeldFacts
  <2>5. PutDesc(c, Tvq(c))' = PutDesc(c, Tvq(c))
    BY <1>a, CoreFacts, PutterFacts, PutDescFacts
  <2>6. \A v \in Vq : SameRing(v)
    BY <1>a DEF SameRing, ringVars
  <2>7. VInv(Tvq(c))' /\ VNext(Tvq(c))
    BY <1>0, <1>a, <2>1, <2>3, <2>4, <2>5, <2>6, SeeStep, InvParts, CoreFacts DEF HasEntry
  <2> QED
    BY <2>1, <2>2, <2>6, <2>7, OneVring, CoreFacts
<1>2. LockInv'
  BY <1>0, <1>a, <1>b, <1>c, InvParts, CoreFacts DEF LockInv, ContextTypes
<1>3. SendInv' /\ ModeInv'
  BY <1>a, InvParts, CoreFacts DEF SendInv, ModeInv
<1>4. OnceInv'
  <2>1. \A u \in Task : \A x : TxHolds(u, x)' <=> TxHolds(u, x)
    BY <1>a DEF TxHolds
  <2>2. \A e \in Core : TxOnce(e)'
    BY <1>a, <2>1, InvParts, CoreFacts DEF OnceInv, TxOnce
  <2>3. \A e \in Core : RxOnce(e)'
    BY <1>a, InvParts, CoreFacts DEF OnceInv, RxOnce
  <2> QED
    BY <2>2, <2>3 DEF OnceInv
<1>5. LogInv'
  BY <1>a, LogsSame DEF ringVars, Pend, Ent
<1>6. IntactInv'
  BY <1>a, InvParts DEF IntactInv
<1> QED
  BY <1>1, <1>2, <1>3, <1>4, <1>5, <1>6 DEF Good

(* A task that takes the free transmit buffer it found. *)
LEMMA TxTakeGood ==
    ASSUME IInv, NEW t \in Task, tx_take(t)
    PROVE  Good
<1>0. PICK c \in Core : c = CoreOf(t) /\ t \in TasksOf(c)
  BY CoreFacts
<1>d. PICK d \in Desc : d = OldestEntry(Tvq(c), Takes(c))
  BY InvParts, CoreFacts, EntryFacts
<1>a. /\ task[t].pc = "take"
      /\ \/ /\ task'[t].pc = "idle" /\ task'[t].nocopy = d /\ task'[t].msg = Empty /\ task[t].msg = Empty
         \/ /\ task'[t].pc = "fill" /\ task'[t].d = d /\ task'[t].nocopy = task[t].nocopy
            /\ task'[t].msg = task[t].msg /\ task[t].msg # Empty
      /\ \A u \in Task : u # t => task'[u] = task[u]
      /\ UNCHANGED <<idx, ring, vq_desc_head_idx, buf, isr, queue, sentLog, rcvdLog>>
  BY <1>0, <1>d, InvParts DEF tx_take, Runs, logVars, ContextTypes, TaskState, Returned
<1>b. lock[c] = t /\ lock' = [lock EXCEPT ![c] = NoTask]
  BY <1>0, <1>a, InvParts DEF tx_take, LockInv, InLock
<1>c. \A u \in TasksOf(c) : u # t => task[u].pc \notin InLock
  BY <1>b, InvParts, CoreFacts DEF LockInv
<1>e. consIdx' = [consIdx EXCEPT ![Tvq(c)][Takes(c)] = IdxInc(@)]
  BY <1>0 DEF tx_take, SkipEntry
<1>f. /\ consIdx'[Tvq(c)] = [consIdx[Tvq(c)] EXCEPT ![Takes(c)] = IdxInc(@)]
      /\ consIdx'[Rvq(c)] = consIdx[Rvq(c)]
      /\ consIdx'[Tvq(c)][Gives(c)] = consIdx[Tvq(c)][Gives(c)]
  BY <1>e, InvParts, CoreFacts DEF RingTypes
<1>g. d \notin HeldBy(c, Tvq(c)) /\ d = Ent(Tvq(c), Takes(c), 0) /\ Pend(Tvq(c), Takes(c)) > 0
  <2>1. ReadFlag(c, Tvq(c))
    BY <1>0, <1>a DEF ReadFlag
  <2>2. Pend(Tvq(c), Takes(c)) \in Nat /\ Pend(Tvq(c), Takes(c)) # 0
    BY <2>1, InvParts, CoreFacts DEF VFacts
  <2>3. consIdx[Tvq(c)][Takes(c)] + 0 = consIdx[Tvq(c)][Takes(c)]
    BY InvParts, CoreFacts DEF RingTypes, Index
  <2>4. d = Ent(Tvq(c), Takes(c), 0)
    BY <1>d, <2>3 DEF Ent, OldestEntry
  <2>5. 0 \in 0 .. Pend(Tvq(c), Takes(c)) - 1
    BY <2>2
  <2> QED
    BY <2>2, <2>4, <2>5, InvParts, CoreFacts DEF VFacts
<1>h. /\ \A u \in Task : u # t => \A x : TxHolds(u, x)' <=> TxHolds(u, x)
      /\ \A x : TxHolds(t, x)' <=> (x = d \/ TxHolds(t, x))
  <2>1. task'[t].pc = "idle" => task[t].nocopy = NoDesc
    BY <1>a, InvParts DEF SendInv
  <2> QED
    BY <1>a, <2>1, ConstFacts DEF TxHolds
<1>i. \A u \in TasksOf(c) : ~TxHolds(u, d)
  BY <1>g, HeldFacts
<1>1. \A v \in Vq : VInv(v)' /\ VNext(v)
  <2>1. SameUse(Other(c), Tvq(c)) /\ SameUse(Other(c), Rvq(c))
    BY <1>0, <1>a, PeerSame, CoreFacts
  <2>2. SameUse(c, Rvq(c))
    BY <1>a, RxSame, CoreFacts
  <2>3. ReadFlag(c, Tvq(c)) = TRUE /\ ReadFlag(c, Tvq(c))' = FALSE
    BY <1>0, <1>a, <1>c, CoreFacts DEF ReadFlag, InLock
  <2>4. HeldBy(c, Tvq(c))' = HeldBy(c, Tvq(c)) \union {OldestEntry(Tvq(c), Takes(c))}
    BY <1>0, <1>d, <1>h, HeldFacts, CoreFacts
  <2>5. PutDesc(c, Tvq(c))' = PutDesc(c, Tvq(c))
    BY <1>a, CoreFacts, PutterFacts, PutDescFacts
  <2>6. SameRing(Rvq(c))
    BY <1>a, <1>f DEF SameRing
  <2>7. VInv(Tvq(c))' /\ VNext(Tvq(c))
    BY <1>a, <1>f, <2>1, <2>3, <2>4, <2>5, ReadStep, InvParts, CoreFacts
  <2> QED
    BY <2>1, <2>2, <2>6, <2>7, OneVring, CoreFacts
<1>2. LockInv'
  BY <1>0, <1>a, <1>b, <1>c, InvParts, CoreFacts DEF LockInv, ContextTypes, InLock
<1>3. SendInv' /\ ModeInv'
  BY <1>a, InvParts, CoreFacts DEF SendInv, ModeInv
<1>4. OnceInv'
  <2>1. \A e \in Core : TxOnce(e)'
    <3>1. TxOnce(c)'
      <4>1. task'[t].pc = "fill" => task'[t].d # task'[t].nocopy
        BY <1>0, <1>a, <1>i, ConstFacts DEF TxHolds
      <4>2. TxOnce(c)
        BY InvParts DEF OnceInv
      <4> QED
        BY <1>0, <1>a, <1>h, <1>i, <4>1, <4>2, CoreFacts DEF TxOnce
    <3>2. TxOnce(Other(c))'
      BY <1>0, <1>a, <1>h, InvParts, CoreFacts DEF OnceInv, TxOnce
    <3> QED
      BY <3>1, <3>2 DEF Core, Other
  <2>2. \A e \in Core : RxOnce(e)'
    BY <1>a, InvParts, CoreFacts DEF OnceInv, RxOnce
  <2> QED
    BY <2>1, <2>2 DEF OnceInv
<1>5. LogInv'
  <2>1. \A e \in Core : e = c \/ e = Other(c)
    BY DEF Core, Other
  <2> QED
    BY <1>a, <1>f, <2>1, CoreFacts, LogsSame DEF Pend, Ent
<1>6. IntactInv'
  BY <1>a, InvParts DEF IntactInv
<1> QED
  BY <1>1, <1>2, <1>3, <1>4, <1>5, <1>6 DEF Good

(* A message written to a buffer that c holds for sending disturbs no      *)
(* message that is pending, in hand or held anywhere else.                 *)
LEMMA BufWrite ==
    ASSUME IInv, NEW c \in Core, NEW d \in Desc, d \in HeldBy(c, Tvq(c)), NEW m,
           buf' = [buf EXCEPT ![Tvq(c)][d] = m],
           UNCHANGED <<ringVars, isr, queue, sentLog, rcvdLog>>
    PROVE  /\ LogInv'
           /\ \A e \in Core : \A i \in DOMAIN queue[e] :
                 buf'[Rvq(e)][queue[e][i].d] = buf[Rvq(e)][queue[e][i].d]
           /\ \A u \in Task :
                 /\ task[u].pc = "release" =>
                       buf'[Rvq(CoreOf(u))][task[u].d] = buf[Rvq(CoreOf(u))][task[u].d]
                 /\ task[u].pc = "publish" =>
                       buf'[Tvq(CoreOf(u))][task[u].d] = buf[Tvq(CoreOf(u))][task[u].d]
                 /\ task[u].pc = "enqueue" /\ (CoreOf(u) = c => task[u].d # d) =>
                       buf'[Tvq(CoreOf(u))][task[u].d] = buf[Tvq(CoreOf(u))][task[u].d]
<1>0. /\ \A v \in Vq, x \in Desc : v # Tvq(c) \/ x # d => buf'[v][x] = buf[v][x]
      /\ \A e \in Core : e = c \/ e = Other(c)
  BY InvParts DEF RingTypes, Core, Other
<1>1. /\ VFacts(Tvq(c)) /\ d \notin HeldBy(Other(c), Tvq(c)) /\ PutDesc(c, Tvq(c)) # d
  <2>1. VFacts(Tvq(c))
    BY InvParts, CoreFacts
  <2>2. /\ HeldBy(c, Tvq(c)) \intersect HeldBy(Other(c), Tvq(c)) = {}
        /\ PutDesc(c, Tvq(c)) \notin HeldBy(c, Tvq(c))
    BY <2>1 DEF VFacts
  <2> QED
    BY <2>1, <2>2
<1>2. ~RxHolds(Other(c), d)
  BY <1>1, HeldFacts, CoreFacts
<1>3. LogInv'
  <2> SUFFICES ASSUME NEW e \in Core PROVE LogOf(e)'
    BY DEF LogInv
  <2>1. LogOf(e) /\ Other(e) \in Core
    BY InvParts, CoreFacts DEF LogInv
  <2>2. /\ Pend(Tvq(e), Gives(e))' = Pend(Tvq(e), Gives(e))
        /\ \A k : Ent(Tvq(e), Gives(e), k)' = Ent(Tvq(e), Gives(e), k)
    BY DEF ringVars, Pend, Ent
  <2>3. isr[Other(e)].pc = "deliver" =>
           buf'[Tvq(e)][isr[Other(e)].d] = buf[Tvq(e)][isr[Other(e)].d]
    BY <1>0, <1>2, InvParts, CoreFacts DEF RxHolds, DescInv, IsrHas
  <2>4. \A k \in 0 .. Pend(Tvq(e), Gives(e)) - 1 :
           buf'[Tvq(e)][Ent(Tvq(e), Gives(e), k)] = buf[Tvq(e)][Ent(Tvq(e), Gives(e), k)]
    <3> TAKE k \in 0 .. Pend(Tvq(e), Gives(e)) - 1
    <3>1. Pend(Tvq(e), Gives(e)) \in Nat
      BY InvParts, CoreFacts DEF VFacts
    <3>2. k \in Nat /\ Ent(Tvq(e), Gives(e), k) \in Desc
      BY <3>1, InvParts, CoreFacts DEF VFacts
    <3>3. e = c => Ent(Tvq(e), Gives(e), k) # d
      BY <1>1, CoreFacts DEF VFacts
    <3> QED
      BY <1>0, <3>2, <3>3, CoreFacts
  <2> QED
    BY <2>1, <2>2, <2>3, <2>4, LogSame
<1>4. \A e \in Core : \A i \in DOMAIN queue[e] :
         buf'[Rvq(e)][queue[e][i].d] = buf[Rvq(e)][queue[e][i].d]
  BY <1>0, <1>2, InvParts, CoreFacts DEF RxHolds, DescInv
<1>5. ASSUME NEW u \in Task, task[u].pc = "release"
      PROVE  buf'[Rvq(CoreOf(u))][task[u].d] = buf[Rvq(CoreOf(u))][task[u].d]
  BY <1>0, <1>2, <1>5, InvParts, CoreFacts DEF RxHolds, DescInv, TaskHas
<1>6. ASSUME NEW u \in Task, task[u].pc = "publish"
      PROVE  buf'[Tvq(CoreOf(u))][task[u].d] = buf[Tvq(CoreOf(u))][task[u].d]
  BY <1>0, <1>1, <1>6, InvParts, CoreFacts, PutOf DEF DescInv, TaskHas
<1>7. ASSUME NEW u \in Task, task[u].pc = "enqueue", CoreOf(u) = c => task[u].d # d
      PROVE  buf'[Tvq(CoreOf(u))][task[u].d] = buf[Tvq(CoreOf(u))][task[u].d]
  BY <1>0, <1>7, InvParts, CoreFacts DEF DescInv, TaskHas
<1> QED
  BY <1>3, <1>4, <1>5, <1>6, <1>7

(* A task that copies its message into the buffer it holds. *)
LEMMA TxFillGood ==
    ASSUME IInv, NEW t \in Task, tx_fill(t)
    PROVE  Good
<1>0. PICK c \in Core : c = CoreOf(t) /\ t \in TasksOf(c)
  BY CoreFacts
<1>d. PICK d \in Desc : d = task[t].d
  BY InvParts DEF tx_fill, Runs, DescInv, TaskHas
<1>a. /\ task[t].pc = "fill" /\ task'[t].pc = "enqueue" /\ task'[t].d = d
      /\ task'[t].msg = task[t].msg /\ task'[t].nocopy = task[t].nocopy
      /\ \A u \in Task : u # t => task'[u] = task[u]
      /\ UNCHANGED <<ringVars, isr, queue, lock, sentLog, rcvdLog>>
      /\ buf' = [buf EXCEPT ![Tvq(c)][d] = task[t].msg]
  BY <1>0, <1>d, InvParts DEF tx_fill, Runs, logVars, ContextTypes, TaskState
<1>b. d \in HeldBy(c, Tvq(c)) /\ buf'[Tvq(c)][d] = task[t].msg
  <2>1. TxHolds(t, d)
    BY <1>a, <1>d DEF TxHolds
  <2> QED
    BY <1>0, <1>a, <2>1, HeldFacts, InvParts, CoreFacts DEF RingTypes
<1>1. \A v \in Vq : VInv(v)' /\ VNext(v)
  <2>1. \A e \in Core : SameUse(e, Tvq(e))
    BY <1>a, <1>d, CoreFacts, TxSame
  <2>2. \A e \in Core : SameUse(e, Rvq(e))
    BY <1>a, CoreFacts, RxSame
  <2> QED
    BY <1>a, <2>1, <2>2, VringsStill
<1>2. LockInv' /\ SendInv' /\ ModeInv'
  BY <1>a, InvParts, CoreFacts DEF LockInv, InLock, SendInv, ModeInv
<1>3. OnceInv'
  <2>1. \A u \in Task : \A x : TxHolds(u, x)' <=> TxHolds(u, x)
    BY <1>a, <1>d DEF TxHolds
  <2>2. \A e \in Core : TxOnce(e)'
    BY <1>a, <1>d, <2>1, InvParts, CoreFacts DEF OnceInv, TxOnce
  <2>3. \A e \in Core : RxOnce(e)'
    BY <1>a, InvParts, CoreFacts DEF OnceInv, RxOnce
  <2> QED
    BY <2>2, <2>3 DEF OnceInv
<1>4. \A u \in TasksOf(c) : u # t /\ task[u].pc = "enqueue" => task[u].d # d
  BY <1>0, <1>a, <1>d, InvParts DEF OnceInv, TxOnce, TxHolds
<1>5. LogInv'
  BY <1>a, <1>b, BufWrite
<1>6. IntactInv'
  <2>1. /\ \A e \in Core : \A i \in DOMAIN queue[e] :
              buf'[Rvq(e)][queue[e][i].d] = buf[Rvq(e)][queue[e][i].d]
        /\ \A u \in Task :
              /\ task[u].pc = "release" =>
                    buf'[Rvq(CoreOf(u))][task[u].d] = buf[Rvq(CoreOf(u))][task[u].d]
              /\ task[u].pc = "publish" =>
                    buf'[Tvq(CoreOf(u))][task[u].d] = buf[Tvq(CoreOf(u))][task[u].d]
              /\ task[u].pc = "enqueue" /\ (CoreOf(u) = c => task[u].d # d) =>
                    buf'[Tvq(CoreOf(u))][task[u].d] = buf[Tvq(CoreOf(u))][task[u].d]
    BY <1>a, <1>b, BufWrite
  <2> QED
    BY <1>0, <1>a, <1>b, <1>4, <2>1, InvParts, CoreFacts DEF IntactInv
<1> QED
  BY <1>1, <1>2, <1>3, <1>5, <1>6 DEF Good

(* rpmsg_lite_send_nocopy on the buffer the task allocated before. *)
LEMMA SendNocopyGood ==
    ASSUME IInv, NEW t \in Task, rpmsg_lite_send_nocopy(t)
    PROVE  Good
<1>0. PICK c \in Core : c = CoreOf(t) /\ t \in TasksOf(c)
  BY CoreFacts
<1>d. PICK d \in Desc : d = task[t].nocopy
  BY InvParts, TaskFacts DEF rpmsg_lite_send_nocopy
<1>m. PICK dst \in Dests(c) :
         /\ buf' = [buf EXCEPT ![Tvq(c)][d] = NewMsg(c, dst)]
         /\ task' = [task EXCEPT ![t].pc = "enqueue", ![t].msg = NewMsg(c, dst),
                                 ![t].d = d, ![t].nocopy = NoDesc]
  BY <1>0, <1>d DEF rpmsg_lite_send_nocopy
<1>n. PICK m \in Msgs(c) : m = NewMsg(c, dst)
  <2>1. TypeOK /\ calls[c] < MsgBound(c)
    BY <1>0 DEF IInv, BaseInv, TypeInv, rpmsg_lite_send_nocopy, MaySend
  <2> QED
    BY <2>1, MsgFacts DEF Msgs, NewMsg
<1>a. /\ task[t].pc = "idle" /\ task'[t].pc = "enqueue" /\ task'[t].d = d
      /\ task'[t].msg = m /\ task'[t].nocopy = NoDesc
      /\ \A u \in Task : u # t => task'[u] = task[u]
      /\ UNCHANGED <<ringVars, isr, queue, lock, sentLog, rcvdLog>>
      /\ buf' = [buf EXCEPT ![Tvq(c)][d] = m]
  BY <1>m, <1>n, InvParts DEF rpmsg_lite_send_nocopy, Runs, ContextTypes, TaskState
<1>b. m # Empty
  BY <1>n, RpmsgAssumption DEF Msgs, Msg
<1>c. d \in HeldBy(c, Tvq(c)) /\ buf'[Tvq(c)][d] = m
  <2>1. TxHolds(t, d)
    BY <1>a, <1>d, ConstFacts DEF TxHolds
  <2> QED
    BY <1>0, <1>a, <2>1, HeldFacts, InvParts, CoreFacts DEF RingTypes
<1>h. \A u \in Task : \A x : TxHolds(u, x)' <=> TxHolds(u, x)
  BY <1>a, <1>d, ConstFacts DEF TxHolds
<1>1. \A v \in Vq : VInv(v)' /\ VNext(v)
  <2>1. ASSUME NEW e \in Core PROVE HeldBy(e, Tvq(e))' = HeldBy(e, Tvq(e))
    <3>1. \A u \in TasksOf(e) : \A x : TxHolds(u, x)' <=> TxHolds(u, x)
      BY <1>h, CoreFacts
    <3> QED
      BY <3>1, HeldFacts
  <2>2. \A e \in Core : PutDesc(e, Tvq(e))' = PutDesc(e, Tvq(e))
    BY <1>a, CoreFacts, PutterFacts, PutDescFacts
  <2>3. \A e \in Core : ReadFlag(e, Tvq(e))' = ReadFlag(e, Tvq(e))
    BY <1>a, CoreFacts DEF ReadFlag
  <2>4. \A e \in Core : SameUse(e, Rvq(e))
    BY <1>a, CoreFacts, RxSame
  <2> QED
    BY <1>a, <2>1, <2>2, <2>3, <2>4, VringsStill DEF SameUse
<1>2. LockInv' /\ SendInv' /\ ModeInv'
  BY <1>0, <1>a, <1>b, InvParts, CoreFacts DEF LockInv, InLock, SendInv, ModeInv
<1>3. OnceInv'
  <2>2. \A e \in Core : TxOnce(e)'
    BY <1>a, <1>h, ConstFacts, InvParts, CoreFacts DEF OnceInv, TxOnce
  <2>3. \A e \in Core : RxOnce(e)'
    BY <1>a, InvParts, CoreFacts DEF OnceInv, RxOnce
  <2> QED
    BY <2>2, <2>3 DEF OnceInv
<1>4. \A u \in TasksOf(c) : u # t /\ task[u].pc = "enqueue" => task[u].d # d
  BY <1>0, <1>a, <1>d, ConstFacts, InvParts DEF OnceInv, TxOnce, TxHolds
<1>5. LogInv'
  BY <1>a, <1>c, BufWrite
<1>6. IntactInv'
  <2>1. /\ \A e \in Core : \A i \in DOMAIN queue[e] :
              buf'[Rvq(e)][queue[e][i].d] = buf[Rvq(e)][queue[e][i].d]
        /\ \A u \in Task :
              /\ task[u].pc = "release" =>
                    buf'[Rvq(CoreOf(u))][task[u].d] = buf[Rvq(CoreOf(u))][task[u].d]
              /\ task[u].pc = "publish" =>
                    buf'[Tvq(CoreOf(u))][task[u].d] = buf[Tvq(CoreOf(u))][task[u].d]
              /\ task[u].pc = "enqueue" /\ (CoreOf(u) = c => task[u].d # d) =>
                    buf'[Tvq(CoreOf(u))][task[u].d] = buf[Tvq(CoreOf(u))][task[u].d]
    BY <1>a, <1>c, BufWrite
  <2> QED
    BY <1>0, <1>a, <1>c, <1>4, <2>1, InvParts, CoreFacts DEF IntactInv
<1> QED
  BY <1>1, <1>2, <1>3, <1>5, <1>6 DEF Good

(* A task that writes its filled buffer into the ring, under the lock. *)
LEMMA TxEnqueueGood ==
    ASSUME IInv, NEW t \in Task, tx_enqueue(t)
    PROVE  Good
<1>0. PICK c \in Core : c = CoreOf(t) /\ t \in TasksOf(c)
  BY CoreFacts
<1>d. PICK d \in Desc : d = task[t].d
  BY InvParts DEF tx_enqueue, Runs, DescInv, TaskHas
<1>a. /\ task[t].pc = "enqueue" /\ task'[t].pc = "publish" /\ task'[t].d = d
      /\ task'[t].msg = task[t].msg /\ task'[t].nocopy = task[t].nocopy
      /\ \A u \in Task : u # t => task'[u] = task[u]
      /\ UNCHANGED <<idx, consIdx, vq_desc_head_idx, buf, isr, queue, sentLog, rcvdLog>>
  BY <1>d, InvParts DEF tx_enqueue, Runs, logVars, ContextTypes, TaskState
<1>b. lock[c] = NoTask /\ lock' = [lock EXCEPT ![c] = t]
  BY <1>0 DEF tx_enqueue
<1>c. \A u \in TasksOf(c) : task[u].pc \notin InLock
  BY <1>b, InvParts, CoreFacts, RpmsgAssumption DEF LockInv, Task
<1>e. /\ ring'[Tvq(c)] = [ring[Tvq(c)] EXCEPT ![Gives(c)][Slot(idx[Tvq(c)][Gives(c)])] = d]
      /\ ring'[Rvq(c)] = ring[Rvq(c)]
  BY <1>0, <1>d, InvParts, CoreFacts DEF tx_enqueue, WriteEntry, RingTypes
<1>h. /\ \A u \in Task : u # t => \A x : TxHolds(u, x)' <=> TxHolds(u, x)
      /\ \A x : TxHolds(t, x)' <=> (TxHolds(t, x) /\ x # d)
  <2>1. task[t].d # task[t].nocopy
    BY <1>0, <1>a, InvParts DEF OnceInv, TxOnce
  <2> QED
    BY <1>a, <1>d, <2>1, ConstFacts DEF TxHolds
<1>i. TxHolds(t, d) /\ \A u \in TasksOf(c) : u # t => ~TxHolds(u, d)
  BY <1>0, <1>a, <1>d, InvParts DEF OnceInv, TxOnce, TxHolds
<1>1. /\ \A v \in Vq : VInv(v)' /\ VNext(v)
      /\ \A k \in 0 .. Pend(Tvq(c), Gives(c)) - 1 : Ent(Tvq(c), Gives(c), k)' = Ent(Tvq(c), Gives(c), k)
  <2>1. SameUse(Other(c), Tvq(c)) /\ SameUse(Other(c), Rvq(c))
    BY <1>0, <1>a, PeerSame, CoreFacts
  <2>2. SameUse(c, Rvq(c))
    BY <1>a, RxSame, CoreFacts
  <2>3. ReadFlag(c, Tvq(c))' = ReadFlag(c, Tvq(c))
    BY <1>a, CoreFacts DEF ReadFlag
  <2>4. HeldBy(c, Tvq(c))' = HeldBy(c, Tvq(c)) \ {d} /\ d \in HeldBy(c, Tvq(c))
    BY <1>0, <1>h, <1>i, HeldFacts, CoreFacts
  <2>5. PutDesc(c, Tvq(c)) = NoDesc
    BY <1>c, PutOf DEF InLock
  <2>6. PutDesc(c, Tvq(c))' = d
    <3>1. \A x : x \in Putters(c, Tvq(c))' <=> x = d
      BY <1>0, <1>a, <1>c, PutterFacts, CoreFacts DEF InLock
    <3> QED
      BY <3>1, PutDescFacts
  <2>7. SameRing(Rvq(c))
    BY <1>a, <1>e DEF SameRing
  <2>8. Filled(Tvq(c))
    BY <1>a, InvParts, CoreFacts
  <2>9. /\ VInv(Tvq(c))' /\ VNext(Tvq(c))
        /\ \A k \in 0 .. Pend(Tvq(c), Gives(c)) - 1 :
              Ent(Tvq(c), Gives(c), k)' = Ent(Tvq(c), Gives(c), k)
    BY <1>a, <1>e, <2>1, <2>3, <2>4, <2>5, <2>6, <2>8, WriteStep, InvParts, CoreFacts
  <2> QED
    BY <2>1, <2>2, <2>7, <2>9, OneVring, CoreFacts
<1>2. LockInv'
  BY <1>0, <1>a, <1>b, <1>c, InvParts, CoreFacts DEF LockInv, ContextTypes
<1>3. SendInv' /\ ModeInv'
  BY <1>a, InvParts, CoreFacts DEF SendInv, ModeInv
<1>4. OnceInv'
  <2>1. \A e \in Core : TxOnce(e)'
    <3>1. \A u \in Task : \A x : TxHolds(u, x)' => TxHolds(u, x)
      BY <1>h
    <3> QED
      BY <1>a, <3>1, InvParts, CoreFacts DEF OnceInv, TxOnce
  <2>2. \A e \in Core : RxOnce(e)'
    BY <1>a, InvParts, CoreFacts DEF OnceInv, RxOnce
  <2> QED
    BY <2>1, <2>2 DEF OnceInv
<1>5. LogInv'
  <2>1. \A e \in Core : e = c \/ e = Other(c)
    BY DEF Core, Other
  <2>2. \A e \in Core : Pend(Tvq(e), Gives(e))' = Pend(Tvq(e), Gives(e))
    BY <1>a DEF Pend
  <2>3. \A k : Ent(Tvq(Other(c)), Gives(Other(c)), k)' = Ent(Tvq(Other(c)), Gives(Other(c)), k)
    BY <1>a, <1>e, CoreFacts DEF Ent
  <2> QED
    BY <1>1, <1>a, <2>1, <2>2, <2>3, LogsSame
<1>6. IntactInv'
  BY <1>a, <1>d, InvParts DEF IntactInv
<1> QED
  BY <1>1, <1>2, <1>3, <1>4, <1>5, <1>6 DEF Good

(* A task that publishes its message: the log of sent messages grows. *)
LEMMA TxPublishGood ==
    ASSUME IInv, NEW t \in Task, tx_publish(t)
    PROVE  Good
<1>0. PICK c \in Core : c = CoreOf(t) /\ t \in TasksOf(c)
  BY CoreFacts
<1>d. PICK d \in Desc : d = task[t].d
  BY InvParts DEF tx_publish, Runs, DescInv, TaskHas
<1>m. PICK m \in Msgs(c) : m = task[t].msg
  BY <1>0, InvParts DEF tx_publish, Runs, SendInv
<1>a. /\ task[t].pc = "publish" /\ task'[t].pc = "kick" /\ task'[t].msg = Empty
      /\ task'[t].nocopy = task[t].nocopy
      /\ \A u \in Task : u # t => task'[u] = task[u]
      /\ UNCHANGED <<ring, consIdx, vq_desc_head_idx, buf, isr, queue, lock, rcvdLog>>
      /\ sentLog' = [sentLog EXCEPT ![c] = Append(@, m)]
  BY <1>0, <1>m, InvParts DEF tx_publish, Runs, ContextTypes, TaskState
<1>b. /\ sentLog'[c] = Append(sentLog[c], m) /\ sentLog'[Other(c)] = sentLog[Other(c)]
      /\ sentLog[c] \in Seq(Msg \union {Empty}) /\ rcvdLog[Other(c)] \in Seq(Msg \union {Empty})
  BY <1>a, InvParts, CoreFacts DEF LogTypes
<1>c. \A u \in TasksOf(c) : u # t => task[u].pc \notin InLock
  BY <1>0, <1>a, InvParts, CoreFacts DEF LockInv, InLock
<1>e. /\ idx'[Tvq(c)] = [idx[Tvq(c)] EXCEPT ![Gives(c)] = IdxInc(@)]
      /\ idx'[Rvq(c)] = idx[Rvq(c)]
  BY <1>0, InvParts, CoreFacts DEF tx_publish, PublishEntry, RingTypes
<1>f. PutDesc(c, Tvq(c)) = d
  BY <1>0, <1>a, <1>d, PutOf
<1>h. \A u \in Task : \A x : TxHolds(u, x)' <=> TxHolds(u, x)
  BY <1>a DEF TxHolds
<1>1. /\ \A v \in Vq : VInv(v)' /\ VNext(v)
      /\ Pend(Tvq(c), Gives(c))' = Pend(Tvq(c), Gives(c)) + 1
      /\ \A k \in Nat : k = Pend(Tvq(c), Gives(c)) => Ent(Tvq(c), Gives(c), k)' = d
  <2>1. SameUse(Other(c), Tvq(c)) /\ SameUse(Other(c), Rvq(c))
    BY <1>0, <1>a, PeerSame, CoreFacts
  <2>2. SameUse(c, Rvq(c))
    BY <1>a, RxSame, CoreFacts
  <2>3. ReadFlag(c, Tvq(c))' = ReadFlag(c, Tvq(c))
    BY <1>a, CoreFacts DEF ReadFlag
  <2>4. HeldBy(c, Tvq(c))' = HeldBy(c, Tvq(c))
    <3>1. \A u \in TasksOf(c) : \A x : TxHolds(u, x)' <=> TxHolds(u, x)
      BY <1>h, CoreFacts
    <3> QED
      BY <3>1, HeldFacts
  <2>6. PutDesc(c, Tvq(c))' = NoDesc
    <3>1. \A x : x \notin Putters(c, Tvq(c))'
      BY <1>0, <1>a, <1>c, PutterFacts, CoreFacts DEF InLock
    <3> QED
      BY <3>1, PutDescFacts
  <2>7. SameRing(Rvq(c))
    BY <1>a, <1>e DEF SameRing
  <2>8. PutDesc(c, Tvq(c)) # NoDesc
    BY <1>f, ConstFacts
  <2>9. /\ VInv(Tvq(c))' /\ VNext(Tvq(c))
        /\ Pend(Tvq(c), Gives(c))' = Pend(Tvq(c), Gives(c)) + 1
        /\ \A k \in Nat : k = Pend(Tvq(c), Gives(c)) => Ent(Tvq(c), Gives(c), k)' = PutDesc(c, Tvq(c))
    BY <1>a, <1>e, <2>1, <2>3, <2>4, <2>6, <2>8, PublishStep, InvParts, CoreFacts
  <2> QED
    BY <1>f, <2>1, <2>2, <2>7, <2>9, OneVring, CoreFacts
<1>2. LockInv' /\ SendInv' /\ ModeInv'
  BY <1>a, InvParts, CoreFacts DEF LockInv, InLock, SendInv, ModeInv
<1>4. OnceInv'
  <2>1. \A e \in Core : TxOnce(e)'
    BY <1>a, <1>h, InvParts, CoreFacts DEF OnceInv, TxOnce
  <2>2. \A e \in Core : RxOnce(e)'
    BY <1>a, InvParts, CoreFacts DEF OnceInv, RxOnce
  <2> QED
    BY <2>1, <2>2 DEF OnceInv
<1>5. LogInv'
  <2>1. \A e \in Core : e = c \/ e = Other(c)
    BY DEF Core, Other
  <2>2. LogOf(Other(c))'
    <3>1. LogOf(Other(c)) /\ Other(c) \in Core
      BY InvParts, CoreFacts DEF LogInv
    <3>2. /\ Pend(Tvq(Other(c)), Gives(Other(c)))' = Pend(Tvq(Other(c)), Gives(Other(c)))
          /\ \A k : Ent(Tvq(Other(c)), Gives(Other(c)), k)' = Ent(Tvq(Other(c)), Gives(Other(c)), k)
      BY <1>a, <1>e, CoreFacts DEF Pend, Ent
    <3> QED
      BY <1>a, <1>b, <3>1, <3>2, LogSame
  <2>3. LogOf(c)'
    <3>0. PICK n \in Nat, h \in Nat, p \in Nat :
             n = Len(rcvdLog[Other(c)]) /\ h = InHand(Other(c)) /\ p = Pend(Tvq(c), Gives(c))
      <4>1. Len(rcvdLog[Other(c)]) \in Nat /\ InHand(Other(c)) \in Nat
        BY <1>b DEF InHand
      <4>2. Pend(Tvq(c), Gives(c)) \in Nat
        BY InvParts, CoreFacts DEF VFacts
      <4> QED
        BY <4>1, <4>2
    <3>1. /\ Len(sentLog[c]) = n + h + p
          /\ \A i \in 1 .. n + h + p : sentLog[c][i] \in Msgs(c)
          /\ \A i \in 1 .. n : rcvdLog[Other(c)][i] = sentLog[c][i]
          /\ isr[Other(c)].pc = "deliver" => buf[Tvq(c)][isr[Other(c)].d] = sentLog[c][n + 1]
          /\ \A k \in 0 .. p - 1 : buf[Tvq(c)][Ent(Tvq(c), Gives(c), k)] = sentLog[c][n + h + k + 1]
      BY <3>0, InvParts DEF LogInv, LogOf
    <3>2. /\ Len(sentLog'[c]) = n + h + (p + 1)
          /\ \A i \in 1 .. n + h + p : sentLog'[c][i] = sentLog[c][i]
          /\ sentLog'[c][n + h + p + 1] = m
      BY <1>b, <3>1
    <3>3. h = IF isr[Other(c)].pc = "deliver" THEN 1 ELSE 0
      BY <3>0 DEF InHand
    <3>4. Pend(Tvq(c), Gives(c))' = p + 1 /\ InHand(Other(c))' = h
      BY <1>1, <1>a, <3>0, <3>3 DEF InHand
    <3>5. \A k \in 0 .. p : buf[Tvq(c)][Ent(Tvq(c), Gives(c), k)'] = sentLog'[c][n + h + k + 1]
      <4> TAKE k \in 0 .. p
      <4>1. CASE k = p
        <5>1. Ent(Tvq(c), Gives(c), k)' = d
          BY <1>1, <3>0, <4>1
        <5>2. buf[Tvq(c)][d] = m
          BY <1>0, <1>a, <1>d, <1>m, InvParts DEF IntactInv
        <5> QED
          BY <3>2, <4>1, <5>1, <5>2
      <4>2. CASE k < p
        <5>1. Ent(Tvq(c), Gives(c), k)' = Ent(Tvq(c), Gives(c), k)
          BY <1>a DEF Ent
        <5>2. k \in 0 .. p - 1 /\ n + h + k + 1 \in 1 .. n + h + p
          BY <4>2
        <5> QED
          BY <3>1, <3>2, <5>1, <5>2
      <4> QED
        BY <4>1, <4>2
    <3>6. \A i \in 1 .. Len(sentLog'[c]) : sentLog'[c][i] \in Msgs(c)
      <4>1. \A i \in 1 .. n + h + (p + 1) : i \in 1 .. n + h + p \/ i = n + h + p + 1
        OBVIOUS
      <4> QED
        BY <3>1, <3>2, <4>1
    <3>7. \A i \in 1 .. n : rcvdLog'[Other(c)][i] = sentLog'[c][i]
      <4>1. \A i \in 1 .. n : i \in 1 .. n + h + p
        OBVIOUS
      <4> QED
        BY <1>a, <3>1, <3>2, <4>1
    <3>8. isr'[Other(c)].pc = "deliver" => buf'[Tvq(c)][isr'[Other(c)].d] = sentLog'[c][n + 1]
      <4>1. h = 1 => n + 1 \in 1 .. n + h + p
        OBVIOUS
      <4> QED
        BY <1>a, <3>1, <3>2, <3>3, <4>1
    <3>9. Len(rcvdLog'[Other(c)]) = n /\ p + 1 - 1 = p
      BY <1>a, <3>0
    <3> QED
      <4>1. Len(sentLog'[c]) = Len(rcvdLog'[Other(c)]) + InHand(Other(c))' + Pend(Tvq(c), Gives(c))'
        BY <3>2, <3>4, <3>9
      <4>2. \A k \in 0 .. Pend(Tvq(c), Gives(c))' - 1 :
               buf'[Tvq(c)][Ent(Tvq(c), Gives(c), k)'] =
                  sentLog'[c][Len(rcvdLog'[Other(c)]) + InHand(Other(c))' + k + 1]
        <5> TAKE k \in 0 .. Pend(Tvq(c), Gives(c))' - 1
        <5>1. k \in 0 .. p
          BY <3>4
        <5>2. buf'[Tvq(c)][Ent(Tvq(c), Gives(c), k)'] = sentLog'[c][n + h + k + 1]
          BY <1>a, <3>5, <5>1
        <5> QED
          BY <3>4, <3>9, <5>2
      <4>3. /\ \A i \in 1 .. Len(rcvdLog'[Other(c)]) : rcvdLog'[Other(c)][i] = sentLog'[c][i]
            /\ isr'[Other(c)].pc = "deliver" =>
                  buf'[Tvq(c)][isr'[Other(c)].d] = sentLog'[c][Len(rcvdLog'[Other(c)]) + 1]
        BY <3>7, <3>8, <3>9
      <4> QED
        BY <3>6, <4>1, <4>2, <4>3 DEF LogOf
  <2> QED
    BY <2>1, <2>2, <2>3 DEF LogInv
<1>6. IntactInv'
  BY <1>a, InvParts DEF IntactInv
<1> QED
  BY <1>1, <1>2, <1>4, <1>5, <1>6 DEF Good

(* rpmsg_queue_recv: a task takes the oldest message of its queue. *)
LEMMA QueueRecvGood ==
    ASSUME IInv, NEW t \in Task, rpmsg_queue_recv(t)
    PROVE  Good
<1>0. PICK c \in Core : c = CoreOf(t) /\ t \in TasksOf(c)
  BY CoreFacts
<1>q. queue[c] \in Seq(QueueEntry) /\ queue[c] # <<>>
  BY <1>0, InvParts DEF rpmsg_queue_recv, ContextTypes
<1>d. PICK h \in QueueEntry : h = queue[c][1]
  BY <1>q
<1>a. /\ task[t].pc = "idle" /\ task'[t].pc = "release" /\ task'[t].d = h.d /\ task'[t].msg = h.msg
      /\ task'[t].nocopy = task[t].nocopy
      /\ \A u \in Task : u # t => task'[u] = task[u]
      /\ UNCHANGED <<ringVars, buf, isr, lock, sentLog, rcvdLog>>
  BY <1>0, <1>q, <1>d, InvParts DEF rpmsg_queue_recv, Runs, logVars, ContextTypes, TaskState
<1>b. /\ queue'[c] = Tail(queue[c]) /\ queue'[Other(c)] = queue[Other(c)]
  BY <1>0, InvParts, CoreFacts DEF rpmsg_queue_recv, ContextTypes
<1>c. /\ 1 \in DOMAIN queue[c]
      /\ \A i \in DOMAIN queue'[c] :
            i + 1 \in DOMAIN queue[c] /\ i + 1 # 1 /\ queue'[c][i] = queue[c][i + 1]
      /\ \A i, j \in DOMAIN queue'[c] : i + 1 = j + 1 => i = j
      /\ \A j \in DOMAIN queue[c] : j = 1 \/ \E i \in DOMAIN queue'[c] : queue'[c][i] = queue[c][j]
  <2>1. Len(queue[c]) \in Nat /\ Len(queue[c]) > 0 /\ DOMAIN queue[c] = 1 .. Len(queue[c])
    BY <1>q
  <2>2. /\ DOMAIN queue'[c] = 1 .. Len(queue[c]) - 1
        /\ \A i \in 1 .. Len(queue[c]) - 1 : queue'[c][i] = queue[c][i + 1]
    BY <1>b, <1>q
  <2>3. \A j \in DOMAIN queue[c] : j # 1 => j - 1 \in DOMAIN queue'[c] /\ queue'[c][j - 1] = queue[c][j]
    BY <2>1, <2>2
  <2> QED
    BY <2>1, <2>2, <2>3
<1>e. isr[c].pc = "off"
  BY <1>0 DEF rpmsg_queue_recv, Runs
<1>m. QueueMode(c)
  BY <1>q, InvParts DEF ModeInv
<1>h. \A x : RxHolds(c, x)' <=> RxHolds(c, x)
  <2>1. ASSUME NEW x, RxHolds(c, x)' PROVE RxHolds(c, x)
    BY <1>0, <1>a, <1>c, <1>d, <1>e, <2>1, CoreFacts DEF RxHolds
  <2>2. ASSUME NEW x, RxHolds(c, x) PROVE RxHolds(c, x)'
    <3>1. CASE \E u \in TasksOf(c) : task[u].pc = "release" /\ x = task[u].d
      BY <1>a, <3>1, CoreFacts DEF RxHolds
    <3>2. CASE \E i \in DOMAIN queue[c] : x = queue[c][i].d
      BY <1>0, <1>a, <1>c, <1>d, <3>2 DEF RxHolds
    <3> QED
      BY <1>e, <2>2, <3>1, <3>2 DEF RxHolds
  <2> QED
    BY <2>1, <2>2
<1>1. \A v \in Vq : VInv(v)' /\ VNext(v)
  <2>1. SameUse(Other(c), Tvq(c)) /\ SameUse(Other(c), Rvq(c))
    BY <1>0, <1>a, <1>b, PeerSame, CoreFacts
  <2>2. SameUse(c, Tvq(c))
    BY <1>a, TxSame, CoreFacts
  <2>3. SameUse(c, Rvq(c))
    <3>1. HeldBy(c, Rvq(c))' = HeldBy(c, Rvq(c))
      BY <1>h, HeldFacts
    <3>2. PutDesc(c, Rvq(c))' = PutDesc(c, Rvq(c))
      BY <1>a, CoreFacts, PutterFacts, PutDescFacts
    <3>3. ReadFlag(c, Rvq(c))' = ReadFlag(c, Rvq(c))
      BY <1>a, CoreFacts DEF ReadFlag
    <3> QED
      BY <3>1, <3>2, <3>3 DEF SameUse
  <2>4. \A e \in Core : e = c \/ e = Other(c)
    BY DEF Core, Other
  <2>5. \A e \in Core : SameUse(e, Tvq(e)) /\ SameUse(e, Rvq(e))
    BY <2>1, <2>2, <2>3, <2>4, CoreFacts
  <2> QED
    BY <1>a, <2>5, VringsStill
<1>2. LockInv' /\ SendInv'
  BY <1>a, InvParts, CoreFacts DEF LockInv, InLock, SendInv
<1>3. ModeInv'
  <2>1. \A e \in Core : e = c \/ e = Other(c)
    BY DEF Core, Other
  <2> QED
    BY <1>a, <1>b, <1>m, <2>1, <1>0, InvParts, CoreFacts DEF ModeInv, QueueMode
<1>4. OnceInv'
  <2>1. \A e \in Core : TxOnce(e)'
    <3>1. \A u \in Task : \A x : TxHolds(u, x)' <=> TxHolds(u, x)
      BY <1>a DEF TxHolds
    <3> QED
      BY <1>a, <3>1, InvParts, CoreFacts DEF OnceInv, TxOnce
  <2>2. RxOnce(Other(c))'
    BY <1>0, <1>a, <1>b, InvParts, CoreFacts DEF OnceInv, RxOnce
  <2>3. RxOnce(c)'
    <3>0. RxOnce(c)
      BY InvParts DEF OnceInv
    <3>1. \A i, j \in DOMAIN queue'[c] : queue'[c][i].d = queue'[c][j].d => i = j
      BY <1>c, <3>0 DEF RxOnce
    <3>2. \A i \in DOMAIN queue'[c] : queue'[c][i].d # h.d
      BY <1>c, <1>d, <3>0 DEF RxOnce
    <3>3. \A u \in TasksOf(c) : u # t /\ task[u].pc = "release" => task[u].d # h.d
      BY <1>c, <1>d, <3>0 DEF RxOnce
    <3>4. ASSUME NEW u \in TasksOf(c), task'[u].pc = "release"
          PROVE  /\ \A i \in DOMAIN queue'[c] : queue'[c][i].d # task'[u].d
                 /\ \A w \in TasksOf(c) \ {u} : task'[w].pc = "release" => task'[w].d # task'[u].d
      <4>1. CASE u = t
        BY <1>0, <1>a, <3>2, <3>3, <4>1, CoreFacts
      <4>2. CASE u # t
        BY <1>0, <1>a, <1>c, <3>0, <3>3, <3>4, <4>2, CoreFacts DEF RxOnce
      <4> QED
        BY <4>1, <4>2
    <3> QED
      BY <1>a, <1>e, <3>1, <3>4 DEF RxOnce
  <2>4. \A e \in Core : e = c \/ e = Other(c)
    BY DEF Core, Other
  <2> QED
    BY <2>1, <2>2, <2>3, <2>4 DEF OnceInv
<1>5. LogInv'
  BY <1>a, LogsSame DEF ringVars, Pend, Ent
<1>6. IntactInv'
  <2>1. \A e \in Core : e = c \/ e = Other(c)
    BY DEF Core, Other
  <2>2. \A e \in Core : \A i \in DOMAIN queue'[e] : buf[Rvq(e)][queue'[e][i].d] = queue'[e][i].msg
    <3>1. \A e \in Core : \A i \in DOMAIN queue[e] : buf[Rvq(e)][queue[e][i].d] = queue[e][i].msg
      BY InvParts DEF IntactInv
    <3>2. \A i \in DOMAIN queue'[c] : buf[Rvq(c)][queue'[c][i].d] = queue'[c][i].msg
      BY <1>c, <3>1
    <3>3. \A i \in DOMAIN queue'[Other(c)] :
             buf[Rvq(Other(c))][queue'[Other(c)][i].d] = queue'[Other(c)][i].msg
      BY <1>b, <3>1, CoreFacts
    <3> QED
      BY <2>1, <3>2, <3>3
  <2>3. buf[Rvq(c)][h.d] = h.msg
    BY <1>c, <1>d, InvParts DEF IntactInv
  <2> QED
    BY <1>0, <1>a, <2>2, <2>3, InvParts DEF IntactInv
<1> QED
  BY <1>1, <1>2, <1>3, <1>4, <1>5, <1>6 DEF Good

(* A task that writes a buffer it has read back into the ring, under the   *)
(* lock.                                                                   *)
LEMMA ReleaseRxGood ==
    ASSUME IInv, NEW t \in Task, rpmsg_lite_release_rx_buffer(t)
    PROVE  Good
<1>0. PICK c \in Core : c = CoreOf(t) /\ t \in TasksOf(c)
  BY CoreFacts
<1>d. PICK d \in Desc : d = task[t].d
  BY InvParts DEF rpmsg_lite_release_rx_buffer, Runs, DescInv, TaskHas
<1>a. /\ task[t].pc = "release" /\ task'[t].pc = "released" /\ task'[t].d = d
      /\ task'[t].msg = Empty /\ task'[t].nocopy = task[t].nocopy
      /\ \A u \in Task : u # t => task'[u] = task[u]
      /\ UNCHANGED <<idx, consIdx, vq_desc_head_idx, buf, isr, queue, sentLog, rcvdLog>>
  BY <1>d, InvParts DEF rpmsg_lite_release_rx_buffer, Runs, logVars, ContextTypes, TaskState
<1>b. lock[c] = NoTask /\ lock' = [lock EXCEPT ![c] = t] /\ isr[c].pc = "off"
  BY <1>0 DEF rpmsg_lite_release_rx_buffer, Runs
<1>c. \A u \in TasksOf(c) : task[u].pc \notin InLock
  BY <1>b, InvParts, CoreFacts, RpmsgAssumption DEF LockInv, Task
<1>e. /\ ring'[Rvq(c)] = [ring[Rvq(c)] EXCEPT ![Gives(c)][Slot(idx[Rvq(c)][Gives(c)])] = d]
      /\ ring'[Tvq(c)] = ring[Tvq(c)]
      /\ ring'[Rvq(c)][Takes(c)] = ring[Rvq(c)][Takes(c)]
  BY <1>0, <1>d, InvParts, CoreFacts DEF rpmsg_lite_release_rx_buffer, WriteEntry, RingTypes
<1>h. RxHolds(c, d) /\ \A x : RxHolds(c, x)' <=> (RxHolds(c, x) /\ x # d)
  <2>1. RxOnce(c)
    BY InvParts DEF OnceInv
  <2>2. /\ \A i \in DOMAIN queue[c] : queue[c][i].d # d
        /\ \A u \in TasksOf(c) : u # t /\ task[u].pc = "release" => task[u].d # d
    BY <1>0, <1>a, <1>d, <2>1 DEF RxOnce
  <2> QED
    BY <1>0, <1>a, <1>b, <1>d, <2>2, CoreFacts DEF RxHolds
<1>1. \A v \in Vq : VInv(v)' /\ VNext(v)
  <2>1. SameUse(Other(c), Tvq(c)) /\ SameUse(Other(c), Rvq(c))
    BY <1>0, <1>a, PeerSame, CoreFacts
  <2>2. SameUse(c, Tvq(c))
    BY <1>a, TxSame, CoreFacts
  <2>3. ReadFlag(c, Rvq(c))' = ReadFlag(c, Rvq(c))
    BY <1>a, CoreFacts DEF ReadFlag
  <2>4. HeldBy(c, Rvq(c))' = HeldBy(c, Rvq(c)) \ {d} /\ d \in HeldBy(c, Rvq(c))
    BY <1>h, HeldFacts
  <2>5. PutDesc(c, Rvq(c)) = NoDesc
    BY <1>b, <1>c, PutOf DEF InLock
  <2>6. PutDesc(c, Rvq(c))' = d
    <3>1. \A x : x \in Putters(c, Rvq(c))' <=> x = d
      BY <1>0, <1>a, <1>b, <1>c, PutterFacts, CoreFacts DEF InLock
    <3> QED
      BY <3>1, PutDescFacts
  <2>7. SameRing(Tvq(c))
    BY <1>a, <1>e DEF SameRing
  <2>8. Filled(Rvq(c))
    BY <1>a, InvParts, CoreFacts
  <2>9. VInv(Rvq(c))' /\ VNext(Rvq(c))
    BY <1>a, <1>e, <2>1, <2>3, <2>4, <2>5, <2>6, <2>8, WriteStep, InvParts, CoreFacts
  <2> QED
    BY <2>1, <2>2, <2>7, <2>9, OneVring, CoreFacts
<1>2. LockInv'
  BY <1>0, <1>a, <1>b, <1>c, InvParts, CoreFacts DEF LockInv, ContextTypes
<1>3. SendInv' /\ ModeInv'
  BY <1>a, InvParts, CoreFacts DEF SendInv, ModeInv
<1>4. OnceInv'
  <2>1. \A e \in Core : TxOnce(e)'
    <3>1. \A u \in Task : \A x : TxHolds(u, x)' <=> TxHolds(u, x)
      BY <1>a DEF TxHolds
    <3> QED
      BY <1>a, <3>1, InvParts, CoreFacts DEF OnceInv, TxOnce
  <2>2. \A e \in Core : RxOnce(e)'
    BY <1>a, InvParts, CoreFacts DEF OnceInv, RxOnce
  <2> QED
    BY <2>1, <2>2 DEF OnceInv
<1>5. LogInv'
  <2>1. \A e \in Core : e = c \/ e = Other(c)
    BY DEF Core, Other
  <2> QED
    BY <1>a, <1>e, <2>1, CoreFacts, LogsSame DEF Pend, Ent
<1>6. IntactInv'
  BY <1>a, <1>d, InvParts DEF IntactInv
<1> QED
  BY <1>1, <1>2, <1>3, <1>4, <1>5, <1>6 DEF Good

(* A task that publishes the buffer it gives back. *)
LEMMA ReleasePublishGood ==
    ASSUME IInv, NEW t \in Task, release_publish(t)
    PROVE  Good
<1>0. PICK c \in Core : c = CoreOf(t) /\ t \in TasksOf(c)
  BY CoreFacts
<1>d. PICK d \in Desc : d = task[t].d
  BY InvParts DEF release_publish, Runs, DescInv, TaskHas
<1>a. /\ task[t].pc = "released" /\ task'[t].pc = "idle" /\ task'[t].msg = task[t].msg
      /\ task'[t].nocopy = task[t].nocopy
      /\ \A u \in Task : u # t => task'[u] = task[u]
      /\ UNCHANGED <<ring, consIdx, vq_desc_head_idx, buf, isr, queue, sentLog, rcvdLog>>
  BY InvParts DEF release_publish, Runs, logVars, ContextTypes, TaskState
<1>b. lock[c] = t /\ lock' = [lock EXCEPT ![c] = NoTask] /\ isr[c].pc = "off"
  BY <1>0, <1>a, InvParts DEF release_publish, Runs, LockInv, InLock
<1>c. \A u \in TasksOf(c) : u # t => task[u].pc \notin InLock
  BY <1>b, InvParts, CoreFacts DEF LockInv
<1>e. /\ idx'[Rvq(c)] = [idx[Rvq(c)] EXCEPT ![Gives(c)] = IdxInc(@)]
      /\ idx'[Tvq(c)] = idx[Tvq(c)]
      /\ idx'[Rvq(c)][Takes(c)] = idx[Rvq(c)][Takes(c)]
  BY <1>0, InvParts, CoreFacts DEF release_publish, PublishEntry, RingTypes
<1>1. \A v \in Vq : VInv(v)' /\ VNext(v)
  <2>1. SameUse(Other(c), Tvq(c)) /\ SameUse(Other(c), Rvq(c))
    BY <1>0, <1>a, PeerSame, CoreFacts
  <2>2. SameUse(c, Tvq(c))
    BY <1>a, TxSame, CoreFacts
  <2>3. ReadFlag(c, Rvq(c))' = ReadFlag(c, Rvq(c))
    BY <1>a, CoreFacts DEF ReadFlag
  <2>4. HeldBy(c, Rvq(c))' = HeldBy(c, Rvq(c))
    <3>1. \A x : RxHolds(c, x)' <=> RxHolds(c, x)
      BY <1>a, CoreFacts DEF RxHolds
    <3> QED
      BY <3>1, HeldFacts
  <2>5. PutDesc(c, Rvq(c)) # NoDesc
    BY <1>0, <1>a, <1>d, PutOf, ConstFacts
  <2>6. PutDesc(c, Rvq(c))' = NoDesc
    <3>1. \A x : x \notin Putters(c, Rvq(c))'
      BY <1>0, <1>a, <1>b, <1>c, PutterFacts, CoreFacts DEF InLock
    <3> QED
      BY <3>1, PutDescFacts
  <2>7. SameRing(Tvq(c))
    BY <1>a, <1>e DEF SameRing
  <2>9. VInv(Rvq(c))' /\ VNext(Rvq(c))
    BY <1>a, <1>e, <2>1, <2>3, <2>4, <2>5, <2>6, PublishStep, InvParts, CoreFacts
  <2> QED
    BY <2>1, <2>2, <2>7, <2>9, OneVring, CoreFacts
<1>2. LockInv'
  BY <1>0, <1>a, <1>b, <1>c, InvParts, CoreFacts DEF LockInv, ContextTypes, InLock
<1>3. SendInv' /\ ModeInv'
  BY <1>a, InvParts, CoreFacts DEF SendInv, ModeInv
<1>4. OnceInv'
  <2>1. \A e \in Core : TxOnce(e)'
    <3>1. \A u \in Task : \A x : TxHolds(u, x)' <=> TxHolds(u, x)
      BY <1>a DEF TxHolds
    <3> QED
      BY <1>a, <3>1, InvParts, CoreFacts DEF OnceInv, TxOnce
  <2>2. \A e \in Core : RxOnce(e)'
    BY <1>a, InvParts, CoreFacts DEF OnceInv, RxOnce
  <2> QED
    BY <2>1, <2>2 DEF OnceInv
<1>5. LogInv'
  <2>1. \A e \in Core : e = c \/ e = Other(c)
    BY DEF Core, Other
  <2> QED
    BY <1>a, <1>e, <2>1, CoreFacts, LogsSame DEF Pend, Ent
<1>6. IntactInv'
  BY <1>a, InvParts DEF IntactInv
<1> QED
  BY <1>1, <1>2, <1>3, <1>4, <1>5, <1>6 DEF Good

(* A step in the interrupt of core c changes no task and no other core. *)
LEMMA IsrPeerSame ==
    ASSUME NEW c \in Core, task' = task,
           \A e \in Core : e # c => isr'[e] = isr[e] /\ queue'[e] = queue[e]
    PROVE  \A v \in Vq : SameUse(Other(c), v)
<1>1. Other(c) \in Core /\ Other(c) # c
  BY CoreFacts
<1> QED
  BY <1>1, CoreSame

(* The interrupt looks for a received entry, and finds one or ends. *)
LEMMA RxCheckGood ==
    ASSUME IInv, NEW c \in Core, rx_check(c)
    PROVE  Good
<1>a. /\ isr[c].pc = "check" /\ isr'[c].pc = (IF HasEntry(Rvq(c), Takes(c)) THEN "read" ELSE "off")
      /\ \A e \in Core : e # c => isr'[e] = isr[e]
      /\ UNCHANGED <<ringVars, buf, task, queue, lock, sentLog, rcvdLog>>
  BY InvParts DEF rx_check, logVars, ContextTypes, IsrState
<1>1. \A v \in Vq : VInv(v)' /\ VNext(v)
  <2>1. SameUse(Other(c), Tvq(c)) /\ SameUse(Other(c), Rvq(c))
    BY <1>a, IsrPeerSame, CoreFacts
  <2>2. SameUse(c, Tvq(c))
    BY <1>a, TxSame, CoreFacts
  <2>3. HeldBy(c, Rvq(c))' = HeldBy(c, Rvq(c))
    <3>1. \A x : RxHolds(c, x)' <=> RxHolds(c, x)
      BY <1>a DEF RxHolds
    <3> QED
      BY <3>1, HeldFacts
  <2>4. PutDesc(c, Rvq(c))' = PutDesc(c, Rvq(c))
    BY <1>a, PutterFacts, PutDescFacts
  <2>5. \A v \in Vq : SameRing(v)
    BY <1>a DEF SameRing, ringVars
  <2>6. ReadFlag(c, Rvq(c)) = FALSE /\ (ReadFlag(c, Rvq(c))' <=> HasEntry(Rvq(c), Takes(c)))
    BY <1>a, CoreFacts DEF ReadFlag
  <2>7. CASE HasEntry(Rvq(c), Takes(c))
    <3>1. ReadFlag(c, Rvq(c))' = TRUE
      BY <1>a, <2>7, CoreFacts DEF ReadFlag
    <3>2. Filled(Rvq(c)) /\ consIdx[Rvq(c)][Takes(c)] # idx[Rvq(c)][Takes(c)]
      BY <1>a, <2>7, InvParts, CoreFacts DEF HasEntry
    <3>3. VInv(Rvq(c))' /\ VNext(Rvq(c))
      BY <2>1, <2>3, <2>4, <2>5, <2>6, <3>1, <3>2, SeeStep, InvParts, CoreFacts
    <3> QED
      BY <2>1, <2>2, <2>5, <3>3, OneVring, CoreFacts
  <2>8. CASE ~HasEntry(Rvq(c), Takes(c))
    <3>1. ReadFlag(c, Rvq(c))' = FALSE
      BY <1>a, <2>8, CoreFacts DEF ReadFlag
    <3>2. SameUse(c, Rvq(c))
      BY <2>3, <2>4, <2>6, <3>1 DEF SameUse
    <3>3. \A e \in Core : SameUse(e, Tvq(e)) /\ SameUse(e, Rvq(e))
      BY <2>1, <2>2, <3>2, CoreFacts DEF Core, Other
    <3> QED
      BY <1>a, <3>3, VringsStill
  <2> QED
    BY <2>7, <2>8
<1>2. LockInv' /\ SendInv' /\ ModeInv'
  BY <1>a, InvParts DEF LockInv, SendInv, ModeInv
<1>3. OnceInv'
  <2>1. \A e \in Core : TxOnce(e)'
    BY <1>a, InvParts DEF OnceInv, TxOnce, TxHolds
  <2>2. \A e \in Core : RxOnce(e)'
    BY <1>a, InvParts DEF OnceInv, RxOnce
  <2> QED
    BY <2>1, <2>2 DEF OnceInv
<1>4. LogInv'
  <2> SUFFICES ASSUME NEW e \in Core PROVE LogOf(e)'
    BY DEF LogInv
  <2>1. LogOf(e) /\ Other(e) \in Core
    BY InvParts, CoreFacts DEF LogInv
  <2>2. /\ Pend(Tvq(e), Gives(e))' = Pend(Tvq(e), Gives(e))
        /\ \A k : Ent(Tvq(e), Gives(e), k)' = Ent(Tvq(e), Gives(e), k)
    BY <1>a DEF ringVars, Pend, Ent
  <2> QED
    BY <1>a, <2>1, <2>2, LogSame
<1>5. IntactInv'
  BY <1>a, InvParts DEF IntactInv
<1> QED
  BY <1>1, <1>2, <1>3, <1>4, <1>5 DEF Good

(* The interrupt takes the oldest received entry. *)
LEMMA RxReadGood ==
    ASSUME IInv, NEW c \in Core, rx_read(c)
    PROVE  Good
<1>0. PICK o \in Core : o = Other(c) /\ c = Other(o) /\ Tvq(o) = Rvq(c) /\ Gives(o) = Takes(c)
  BY CoreFacts
<1>d. PICK d \in Desc : d = OldestEntry(Rvq(c), Takes(c))
  BY InvParts, CoreFacts, EntryFacts
<1>a. /\ isr[c].pc = "read" /\ isr'[c].pc = "deliver" /\ isr'[c].d = d
      /\ \A e \in Core : e # c => isr'[e] = isr[e]
      /\ UNCHANGED <<idx, ring, vq_desc_head_idx, buf, task, queue, lock, sentLog, rcvdLog>>
  BY <1>d, InvParts DEF rx_read, logVars, ContextTypes, IsrState
<1>f. /\ consIdx'[Rvq(c)] = [consIdx[Rvq(c)] EXCEPT ![Takes(c)] = IdxInc(@)]
      /\ consIdx'[Tvq(c)] = consIdx[Tvq(c)]
  BY InvParts, CoreFacts DEF rx_read, SkipEntry, RingTypes
<1>g. d \notin HeldBy(c, Rvq(c)) /\ d = Ent(Rvq(c), Takes(c), 0) /\ Pend(Rvq(c), Takes(c)) > 0
  <2>1. ReadFlag(c, Rvq(c))
    BY <1>a, CoreFacts DEF ReadFlag
  <2>2. Pend(Rvq(c), Takes(c)) \in Nat /\ Pend(Rvq(c), Takes(c)) # 0
    BY <2>1, InvParts, CoreFacts DEF VFacts
  <2>3. consIdx[Rvq(c)][Takes(c)] + 0 = consIdx[Rvq(c)][Takes(c)]
    BY InvParts, CoreFacts DEF RingTypes, Index
  <2>4. d = Ent(Rvq(c), Takes(c), 0)
    BY <1>d, <2>3 DEF Ent, OldestEntry
  <2>5. 0 \in 0 .. Pend(Rvq(c), Takes(c)) - 1
    BY <2>2
  <2> QED
    BY <2>2, <2>4, <2>5, InvParts, CoreFacts DEF VFacts
<1>h. ~RxHolds(c, d) /\ \A x : RxHolds(c, x)' <=> (RxHolds(c, x) \/ x = d)
  <2>1. ~RxHolds(c, d)
    BY <1>g, HeldFacts
  <2> QED
    BY <1>a, <2>1 DEF RxHolds
<1>1. /\ \A v \in Vq : VInv(v)' /\ VNext(v)
      /\ Pend(Rvq(c), Takes(c))' = Pend(Rvq(c), Takes(c)) - 1
      /\ \A k \in Nat : Ent(Rvq(c), Takes(c), k)' = Ent(Rvq(c), Takes(c), k + 1)
  <2>1. SameUse(Other(c), Tvq(c)) /\ SameUse(Other(c), Rvq(c))
    BY <1>a, IsrPeerSame, CoreFacts
  <2>2. SameUse(c, Tvq(c))
    BY <1>a, TxSame, CoreFacts
  <2>3. ReadFlag(c, Rvq(c)) = TRUE /\ ReadFlag(c, Rvq(c))' = FALSE
    BY <1>a, CoreFacts DEF ReadFlag
  <2>4. HeldBy(c, Rvq(c))' = HeldBy(c, Rvq(c)) \union {OldestEntry(Rvq(c), Takes(c))}
    BY <1>d, <1>h, HeldFacts
  <2>5. PutDesc(c, Rvq(c))' = PutDesc(c, Rvq(c))
    BY <1>a, PutterFacts, PutDescFacts
  <2>6. SameRing(Tvq(c))
    BY <1>a, <1>f DEF SameRing
  <2>7. /\ VInv(Rvq(c))' /\ VNext(Rvq(c))
        /\ Pend(Rvq(c), Takes(c))' = Pend(Rvq(c), Takes(c)) - 1
        /\ \A k \in Nat : Ent(Rvq(c), Takes(c), k)' = Ent(Rvq(c), Takes(c), k + 1)
    BY <1>a, <1>f, <2>1, <2>3, <2>4, <2>5, ReadStep, InvParts, CoreFacts
  <2> QED
    BY <2>1, <2>2, <2>6, <2>7, OneVring, CoreFacts
<1>2. LockInv' /\ SendInv' /\ ModeInv'
  BY <1>a, InvParts DEF LockInv, SendInv, ModeInv
<1>3. OnceInv'
  <2>1. \A e \in Core : TxOnce(e)'
    BY <1>a, InvParts DEF OnceInv, TxOnce, TxHolds
  <2>2. RxOnce(o)'
    BY <1>0, <1>a, InvParts, CoreFacts DEF OnceInv, RxOnce
  <2>3. RxOnce(c)'
    BY <1>a, <1>h, InvParts DEF OnceInv, RxOnce, RxHolds
  <2> QED
    BY <1>0, <2>1, <2>2, <2>3 DEF OnceInv, Core, Other
<1>4. LogInv'
  <2>1. \A e \in Core : e = c \/ e = o
    BY <1>0 DEF Core, Other
  <2>2. LogOf(c)'
    <3>1. LogOf(c)
      BY InvParts DEF LogInv
    <3>2. /\ Pend(Tvq(c), Gives(c))' = Pend(Tvq(c), Gives(c))
          /\ \A k : Ent(Tvq(c), Gives(c), k)' = Ent(Tvq(c), Gives(c), k)
      BY <1>a, <1>f DEF Pend, Ent
    <3> QED
      BY <1>a, <3>1, <3>2, LogSame, CoreFacts
  <2>3. LogOf(o)'
    <3>0. PICK n \in Nat, p \in Nat : n = Len(rcvdLog[c]) /\ p = Pend(Tvq(o), Gives(o))
      <4>1. Len(rcvdLog[c]) \in Nat
        BY InvParts DEF LogTypes
      <4>2. Pend(Tvq(o), Gives(o)) \in Nat
        BY InvParts, CoreFacts DEF VFacts
      <4> QED
        BY <4>1, <4>2
    <3>1. InHand(c) = 0 /\ InHand(c)' = 1 /\ p > 0 /\ Pend(Tvq(o), Gives(o))' = p - 1
      BY <1>0, <1>1, <1>a, <1>g, <3>0 DEF InHand
    <3>2. /\ Len(sentLog[o]) = n + 0 + p
          /\ \A i \in 1 .. Len(sentLog[o]) : sentLog[o][i] \in Msgs(o)
          /\ \A i \in 1 .. n : rcvdLog[c][i] = sentLog[o][i]
          /\ \A k \in 0 .. p - 1 : buf[Tvq(o)][Ent(Tvq(o), Gives(o), k)] = sentLog[o][n + 0 + k + 1]
      BY <1>0, <3>0, <3>1, InvParts DEF LogInv, LogOf
    <3>3. buf[Tvq(o)][d] = sentLog[o][n + 1]
      <4>1. 0 \in 0 .. p - 1 /\ n + 0 + 0 + 1 = n + 1
        BY <3>1
      <4> QED
        BY <1>0, <1>g, <3>2, <4>1
    <3>4. \A k \in 0 .. (p - 1) - 1 :
            buf[Tvq(o)][Ent(Tvq(o), Gives(o), k)'] = sentLog[o][n + 1 + k + 1]
      <4> TAKE k \in 0 .. (p - 1) - 1
      <4>1. k \in Nat /\ k + 1 \in 0 .. p - 1 /\ n + 0 + (k + 1) + 1 = n + 1 + k + 1
        BY <3>1
      <4> QED
        BY <1>0, <1>1, <3>2, <4>1
    <3>5. Len(sentLog[o]) = n + 1 + (p - 1)
      BY <3>2
    <3>6. /\ Len(sentLog'[o]) = Len(rcvdLog'[c]) + InHand(c)' + Pend(Tvq(o), Gives(o))'
          /\ \A i \in 1 .. Len(sentLog'[o]) : sentLog'[o][i] \in Msgs(o)
          /\ \A i \in 1 .. Len(rcvdLog'[c]) : rcvdLog'[c][i] = sentLog'[o][i]
      BY <1>a, <3>0, <3>1, <3>2, <3>5
    <3>7. isr'[c].pc = "deliver" => buf'[Tvq(o)][isr'[c].d] = sentLog'[o][Len(rcvdLog'[c]) + 1]
      BY <1>a, <3>0, <3>3
    <3>8. \A k \in 0 .. Pend(Tvq(o), Gives(o))' - 1 :
             buf'[Tvq(o)][Ent(Tvq(o), Gives(o), k)'] =
                sentLog'[o][Len(rcvdLog'[c]) + InHand(c)' + k + 1]
      <4> TAKE k \in 0 .. Pend(Tvq(o), Gives(o))' - 1
      <4>1. k \in 0 .. (p - 1) - 1
        BY <3>1
      <4>2. buf'[Tvq(o)][Ent(Tvq(o), Gives(o), k)'] = sentLog'[o][n + 1 + k + 1]
        BY <1>a, <3>4, <4>1
      <4> QED
        BY <1>a, <3>0, <3>1, <4>2
    <3> QED
      BY <1>0, <3>6, <3>7, <3>8 DEF LogOf
  <2> QED
    BY <2>1, <2>2, <2>3 DEF LogInv
<1>5. IntactInv'
  BY <1>a, InvParts DEF IntactInv
<1> QED
  BY <1>1, <1>2, <1>3, <1>4, <1>5 DEF Good

(* The interrupt writes a released buffer back into the ring. *)
LEMMA RxFreeGood ==
    ASSUME IInv, NEW c \in Core, rx_free(c)
    PROVE  Good
<1>d. PICK d \in Desc : d = isr[c].d
  BY InvParts DEF rx_free, DescInv, IsrHas
<1>a. /\ isr[c].pc = "free" /\ isr'[c].pc = "publish" /\ isr'[c].d = d
      /\ \A e \in Core : e # c => isr'[e] = isr[e]
      /\ UNCHANGED <<idx, consIdx, vq_desc_head_idx, buf, task, queue, lock, sentLog, rcvdLog>>
  BY <1>d, InvParts DEF rx_free, logVars, ContextTypes, IsrState
<1>e. /\ ring'[Rvq(c)] = [ring[Rvq(c)] EXCEPT ![Gives(c)][Slot(idx[Rvq(c)][Gives(c)])] = d]
      /\ ring'[Tvq(c)] = ring[Tvq(c)]
      /\ ring'[Rvq(c)][Takes(c)] = ring[Rvq(c)][Takes(c)]
  BY <1>d, InvParts, CoreFacts DEF rx_free, WriteEntry, RingTypes
<1>m. /\ ~QueueMode(c) /\ queue[c] = <<>>
      /\ \A t \in TasksOf(c) : task[t].pc \notin {"release", "released"}
  BY <1>a, InvParts DEF ModeInv
<1>1. \A v \in Vq : VInv(v)' /\ VNext(v)
  <2>1. SameUse(Other(c), Tvq(c)) /\ SameUse(Other(c), Rvq(c))
    BY <1>a, IsrPeerSame, CoreFacts
  <2>2. SameUse(c, Tvq(c))
    BY <1>a, TxSame, CoreFacts
  <2>3. ReadFlag(c, Rvq(c))' = ReadFlag(c, Rvq(c))
    BY <1>a, CoreFacts DEF ReadFlag
  <2>4. HeldBy(c, Rvq(c))' = HeldBy(c, Rvq(c)) \ {d} /\ d \in HeldBy(c, Rvq(c))
    <3>1. RxHolds(c, d) /\ \A x : RxHolds(c, x)' <=> (RxHolds(c, x) /\ x # d)
      BY <1>a, <1>d, <1>m DEF RxHolds
    <3> QED
      BY <3>1, HeldFacts
  <2>5. PutDesc(c, Rvq(c)) = NoDesc
    BY <1>a, <1>m, PutOf
  <2>6. PutDesc(c, Rvq(c))' = d
    <3>1. \A x : x \in Putters(c, Rvq(c))' <=> x = d
      BY <1>a, <1>m, PutterFacts
    <3> QED
      BY <3>1, PutDescFacts
  <2>7. SameRing(Tvq(c))
    BY <1>a, <1>e DEF SameRing
  <2>8. Filled(Rvq(c))
    BY <1>a, InvParts, CoreFacts
  <2>9. VInv(Rvq(c))' /\ VNext(Rvq(c))
    BY <1>a, <1>e, <2>1, <2>3, <2>4, <2>5, <2>6, <2>8, WriteStep, InvParts, CoreFacts
  <2> QED
    BY <2>1, <2>2, <2>7, <2>9, OneVring, CoreFacts
<1>2. LockInv' /\ SendInv' /\ ModeInv'
  BY <1>a, <1>m, InvParts DEF LockInv, SendInv, ModeInv, QueueMode
<1>3. OnceInv'
  <2>1. \A e \in Core : TxOnce(e)'
    BY <1>a, InvParts DEF OnceInv, TxOnce, TxHolds
  <2>2. \A e \in Core : RxOnce(e)'
    BY <1>a, InvParts DEF OnceInv, RxOnce
  <2> QED
    BY <2>1, <2>2 DEF OnceInv
<1>4. LogInv'
  <2> SUFFICES ASSUME NEW e \in Core PROVE LogOf(e)'
    BY DEF LogInv
  <2>1. LogOf(e) /\ Other(e) \in Core /\ (e = c \/ e = Other(c))
    BY InvParts, CoreFacts DEF LogInv, Core, Other
  <2>2. /\ Pend(Tvq(e), Gives(e))' = Pend(Tvq(e), Gives(e))
        /\ \A k : Ent(Tvq(e), Gives(e), k)' = Ent(Tvq(e), Gives(e), k)
    BY <1>a, <1>e, <2>1, CoreFacts DEF Pend, Ent
  <2> QED
    BY <1>a, <2>1, <2>2, LogSame
<1>5. IntactInv'
  BY <1>a, InvParts DEF IntactInv
<1> QED
  BY <1>1, <1>2, <1>3, <1>4, <1>5 DEF Good

(* The interrupt publishes the buffer it gives back. *)
LEMMA RxFreePublishGood ==
    ASSUME IInv, NEW c \in Core, rx_free_publish(c)
    PROVE  Good
<1>d. PICK d \in Desc : d = isr[c].d
  BY InvParts DEF rx_free_publish, DescInv, IsrHas
<1>a. /\ isr[c].pc = "publish" /\ isr'[c].pc = "check"
      /\ \A e \in Core : e # c => isr'[e] = isr[e]
      /\ UNCHANGED <<ring, consIdx, vq_desc_head_idx, buf, task, queue, lock, sentLog, rcvdLog>>
  BY InvParts DEF rx_free_publish, logVars, ContextTypes, IsrState
<1>e. /\ idx'[Rvq(c)] = [idx[Rvq(c)] EXCEPT ![Gives(c)] = IdxInc(@)]
      /\ idx'[Tvq(c)] = idx[Tvq(c)]
      /\ idx'[Rvq(c)][Takes(c)] = idx[Rvq(c)][Takes(c)]
  BY InvParts, CoreFacts DEF rx_free_publish, PublishEntry, RingTypes
<1>m. \A t \in TasksOf(c) : task[t].pc \notin {"release", "released"}
  BY <1>a, InvParts DEF ModeInv
<1>1. \A v \in Vq : VInv(v)' /\ VNext(v)
  <2>1. SameUse(Other(c), Tvq(c)) /\ SameUse(Other(c), Rvq(c))
    BY <1>a, IsrPeerSame, CoreFacts
  <2>2. SameUse(c, Tvq(c))
    BY <1>a, TxSame, CoreFacts
  <2>3. ReadFlag(c, Rvq(c))' = ReadFlag(c, Rvq(c))
    BY <1>a, CoreFacts DEF ReadFlag
  <2>4. HeldBy(c, Rvq(c))' = HeldBy(c, Rvq(c))
    <3>1. \A x : RxHolds(c, x)' <=> RxHolds(c, x)
      BY <1>a DEF RxHolds
    <3> QED
      BY <3>1, HeldFacts
  <2>5. PutDesc(c, Rvq(c)) # NoDesc
    BY <1>a, <1>d, PutOf, ConstFacts
  <2>6. PutDesc(c, Rvq(c))' = NoDesc
    <3>1. \A x : x \notin Putters(c, Rvq(c))'
      BY <1>a, <1>m, PutterFacts
    <3> QED
      BY <3>1, PutDescFacts
  <2>7. SameRing(Tvq(c))
    BY <1>a, <1>e DEF SameRing
  <2>9. VInv(Rvq(c))' /\ VNext(Rvq(c))
    BY <1>a, <1>e, <2>1, <2>3, <2>4, <2>5, <2>6, PublishStep, InvParts, CoreFacts
  <2> QED
    BY <2>1, <2>2, <2>7, <2>9, OneVring, CoreFacts
<1>2. LockInv' /\ SendInv' /\ ModeInv'
  BY <1>a, InvParts DEF LockInv, SendInv, ModeInv
<1>3. OnceInv'
  <2>1. \A e \in Core : TxOnce(e)'
    BY <1>a, InvParts DEF OnceInv, TxOnce, TxHolds
  <2>2. \A e \in Core : RxOnce(e)'
    BY <1>a, InvParts DEF OnceInv, RxOnce
  <2> QED
    BY <2>1, <2>2 DEF OnceInv
<1>4. LogInv'
  <2> SUFFICES ASSUME NEW e \in Core PROVE LogOf(e)'
    BY DEF LogInv
  <2>1. LogOf(e) /\ Other(e) \in Core /\ (e = c \/ e = Other(c))
    BY InvParts, CoreFacts DEF LogInv, Core, Other
  <2>2. /\ Pend(Tvq(e), Gives(e))' = Pend(Tvq(e), Gives(e))
        /\ \A k : Ent(Tvq(e), Gives(e), k)' = Ent(Tvq(e), Gives(e), k)
    BY <1>a, <1>e, <2>1, CoreFacts DEF Pend, Ent
  <2> QED
    BY <1>a, <2>1, <2>2, LogSame
<1>5. IntactInv'
  BY <1>a, InvParts DEF IntactInv
<1> QED
  BY <1>1, <1>2, <1>3, <1>4, <1>5 DEF Good

(* The buffers of the queue and the one that the interrupt has in hand are *)
(* distinct, and the queue is as long as the vring: there is room.         *)
LEMMA RoomInQueue ==
    ASSUME IInv, NEW c \in Core, isr[c].pc = "deliver"
    PROVE  ~QueueFull(c)
<1>0. /\ queue[c] \in Seq(QueueEntry) /\ isr[c].d \in Desc
      /\ \A i \in DOMAIN queue[c] : queue[c][i].d \in Desc
  BY InvParts DEF ContextTypes, DescInv, IsrHas
<1>1. /\ \A i, j \in DOMAIN queue[c] : queue[c][i].d = queue[c][j].d => i = j
      /\ \A i \in DOMAIN queue[c] : queue[c][i].d # isr[c].d
  BY InvParts DEF OnceInv, RxOnce
<1>2. PICK n \in Nat : n = Len(queue[c]) /\ DOMAIN queue[c] = 1 .. n
  BY <1>0
<1>3. IsFiniteSet(1 .. n) /\ Cardinality(1 .. n) = n
  BY FS_Interval
<1>4. IsFiniteSet(Desc) /\ Cardinality(Desc) = NENTRIES
  BY FS_Interval, ConstFacts DEF Desc
<1>5. IsFiniteSet(Desc \ {isr[c].d}) /\ Cardinality(Desc \ {isr[c].d}) = NENTRIES - 1
  BY <1>0, <1>4, FS_RemoveElement
<1>6. ~(NENTRIES - 1 < n)
  <2> SUFFICES ASSUME NENTRIES - 1 < n PROVE FALSE
    OBVIOUS
  <2> DEFINE f == [i \in 1 .. n |-> queue[c][i].d]
  <2>1. f \in [1 .. n -> Desc \ {isr[c].d}]
    BY <1>0, <1>1, <1>2
  <2>2. \E i, j \in 1 .. n : i # j /\ f[i] = f[j]
    <3> HIDE DEF f
    <3> QED
      BY <1>3, <1>5, <2>1, FS_PigeonHole
  <2> QED
    BY <1>1, <1>2, <2>2
<1> QED
  BY <1>2, <1>6, ConstFacts DEF QueueFull

(* The interrupt hands the message in hand to its endpoint: the queue or   *)
(* the callback, which releases the buffer.                                *)
LEMMA RxDeliverGood ==
    ASSUME NotMixed, IInv, NEW c \in Core, rx_deliver(c)
    PROVE  Good
<1>0. PICK o \in Core : o = Other(c) /\ c = Other(o) /\ Tvq(o) = Rvq(c) /\ Gives(o) = Takes(c)
  BY CoreFacts
<1>d. PICK d \in Desc : d = isr[c].d
  BY InvParts DEF rx_deliver, DescInv, IsrHas
<1>p. isr[c].pc = "deliver"
  BY DEF rx_deliver
<1>n. PICK n \in Nat, p \in Nat : n = Len(rcvdLog[c]) /\ p = Pend(Tvq(o), Gives(o))
  <2>1. Len(rcvdLog[c]) \in Nat
    BY InvParts DEF LogTypes
  <2>2. Pend(Tvq(o), Gives(o)) \in Nat
    BY InvParts, CoreFacts DEF VFacts
  <2> QED
    BY <2>1, <2>2
<1>l. /\ Len(sentLog[o]) = n + 1 + p
      /\ \A i \in 1 .. Len(sentLog[o]) : sentLog[o][i] \in Msgs(o)
      /\ \A i \in 1 .. n : rcvdLog[c][i] = sentLog[o][i]
      /\ buf[Tvq(o)][d] = sentLog[o][n + 1]
      /\ \A k \in 0 .. p - 1 : buf[Tvq(o)][Ent(Tvq(o), Gives(o), k)] = sentLog[o][n + 1 + k + 1]
  <2>1. InHand(c) = 1
    BY <1>p DEF InHand
  <2> QED
    <3>0. LogOf(o)
      BY InvParts DEF LogInv
    <3>1. /\ Len(sentLog[o]) = n + InHand(c) + p
          /\ \A i \in 1 .. Len(sentLog[o]) : sentLog[o][i] \in Msgs(o)
          /\ \A i \in 1 .. n : rcvdLog[c][i] = sentLog[o][i]
          /\ isr[c].pc = "deliver" => buf[Tvq(o)][isr[c].d] = sentLog[o][n + 1]
          /\ \A k \in 0 .. p - 1 :
                buf[Tvq(o)][Ent(Tvq(o), Gives(o), k)] = sentLog[o][n + InHand(c) + k + 1]
      BY <1>0, <1>n, <3>0 DEF LogOf
    <3> QED
      BY <1>d, <1>p, <2>1, <3>1
<1>m. PICK m \in Msgs(o) : m = buf[Rvq(c)][d] /\ m = sentLog[o][n + 1]
  <2>1. n + 1 \in 1 .. Len(sentLog[o])
    BY <1>l
  <2> QED
    BY <1>0, <1>l, <2>1
<1>a. /\ rcvdLog' = [rcvdLog EXCEPT ![c] = Append(@, m)]
      /\ \A e \in Core : e # c => isr'[e] = isr[e] /\ queue'[e] = queue[e]
      /\ UNCHANGED <<ringVars, buf, task, lock, sentLog>>
      /\ \/ /\ m.dst = "queue" /\ queue'[c] = Append(queue[c], [d |-> d, msg |-> m])
            /\ isr'[c].pc = "check"
         \/ /\ m.dst # "queue" /\ queue'[c] = queue[c]
            /\ isr'[c].pc = "free" /\ isr'[c].d = d
  <2>1. m # Empty
    BY RpmsgAssumption DEF Msgs, Msg
  <2>2. rpmsg_queue_rx_cb(c) = "RL_HOLD"
    BY <1>p, RoomInQueue DEF rpmsg_queue_rx_cb
  <2>3. /\ rcvdLog' = [rcvdLog EXCEPT ![c] = Append(@, m)]
        /\ UNCHANGED <<ringVars, buf, task, lock, sentLog>>
        /\ \/ /\ m.dst = "queue" /\ queue' = [queue EXCEPT ![c] = Append(@, [d |-> d, msg |-> m])]
              /\ isr' = [isr EXCEPT ![c] = [pc |-> "check", d |-> NoDesc]]
           \/ /\ m.dst # "queue" /\ queue' = queue
              /\ isr' = [isr EXCEPT ![c].pc = "free"]
    BY <1>d, <1>m, <2>1, <2>2 DEF rx_deliver, env_put_queue
  <2> QED
    BY <1>d, <2>3, InvParts DEF ContextTypes, IsrState
<1>k. /\ m.dst = "queue" => QueueMode(c)
      /\ m.dst # "queue" => ~QueueMode(c)
  <2>1. m.dst \in Dests(o) /\ m.dst \in {"queue", "release"}
    BY RpmsgAssumption DEF Msgs, Msg
  <2> QED
    BY <1>0, <2>1 DEF NotMixed, QueueMode
<1>q. queue[c] \in Seq(QueueEntry) /\ [d |-> d, msg |-> m] \in QueueEntry
  BY InvParts DEF ContextTypes, QueueEntry, Msgs
<1>r. m.dst = "queue" =>
         /\ \A i \in DOMAIN queue'[c] : \/ i \in DOMAIN queue[c] /\ queue'[c][i] = queue[c][i]
                                        \/ i = Len(queue[c]) + 1 /\ queue'[c][i] = [d |-> d, msg |-> m]
         /\ \A i \in DOMAIN queue[c] : i \in DOMAIN queue'[c] /\ queue'[c][i] = queue[c][i]
         /\ Len(queue[c]) + 1 \in DOMAIN queue'[c]
         /\ queue'[c][Len(queue[c]) + 1] = [d |-> d, msg |-> m]
  BY <1>a, <1>q
<1>h. \A x : RxHolds(c, x)' <=> RxHolds(c, x)
  <2>1. CASE m.dst = "queue"
    <3>1. isr'[c].pc = "check"
      BY <1>a, <2>1
    <3>2. ASSUME NEW x, RxHolds(c, x) PROVE RxHolds(c, x)'
      <4>1. CASE \E u \in TasksOf(c) : task[u].pc = "release" /\ x = task[u].d
        BY <1>a, <4>1 DEF RxHolds
      <4>2. CASE \E i \in DOMAIN queue[c] : x = queue[c][i].d
        BY <1>r, <2>1, <4>2 DEF RxHolds
      <4>3. CASE x = isr[c].d
        BY <1>d, <1>r, <2>1, <4>3 DEF RxHolds
      <4> QED
        BY <3>2, <4>1, <4>2, <4>3 DEF RxHolds
    <3>3. ASSUME NEW x, RxHolds(c, x)' PROVE RxHolds(c, x)
      <4>1. CASE \E u \in TasksOf(c) : task[u].pc = "release" /\ x = task[u].d
        BY <4>1 DEF RxHolds
      <4>2. CASE \E i \in DOMAIN queue'[c] : x = queue'[c][i].d
        BY <1>d, <1>p, <1>r, <2>1, <4>2 DEF RxHolds
      <4> QED
        BY <1>a, <3>1, <3>3, <4>1, <4>2 DEF RxHolds
    <3> QED
      BY <3>2, <3>3
  <2>2. CASE m.dst # "queue"
    BY <1>a, <1>d, <1>p, <2>2 DEF RxHolds
  <2> QED
    BY <2>1, <2>2
<1>1. \A v \in Vq : VInv(v)' /\ VNext(v)
  <2>1. SameUse(Other(c), Tvq(c)) /\ SameUse(Other(c), Rvq(c))
    BY <1>a, IsrPeerSame, CoreFacts
  <2>2. SameUse(c, Tvq(c))
    BY <1>a, TxSame, CoreFacts
  <2>3. SameUse(c, Rvq(c))
    <3>1. HeldBy(c, Rvq(c))' = HeldBy(c, Rvq(c))
      BY <1>h, HeldFacts
    <3>2. PutDesc(c, Rvq(c))' = PutDesc(c, Rvq(c))
      BY <1>a, <1>p, PutterFacts, PutDescFacts
    <3>3. ReadFlag(c, Rvq(c))' = ReadFlag(c, Rvq(c))
      BY <1>a, <1>p, CoreFacts DEF ReadFlag
    <3> QED
      BY <3>1, <3>2, <3>3 DEF SameUse
  <2>4. \A e \in Core : SameUse(e, Tvq(e)) /\ SameUse(e, Rvq(e))
    BY <2>1, <2>2, <2>3, CoreFacts DEF Core, Other
  <2> QED
    BY <1>a, <2>4, VringsStill
<1>2. LockInv' /\ SendInv'
  BY <1>a, InvParts DEF LockInv, SendInv
<1>3. ModeInv'
  <2>1. CASE m.dst = "queue"
    BY <1>a, <1>k, <2>1, InvParts DEF ModeInv, QueueMode
  <2>2. CASE m.dst # "queue"
    BY <1>a, <1>k, <2>2, InvParts DEF ModeInv, QueueMode
  <2> QED
    BY <2>1, <2>2
<1>4. OnceInv'
  <2>1. \A e \in Core : TxOnce(e)'
    BY <1>a, InvParts DEF OnceInv, TxOnce, TxHolds
  <2>2. RxOnce(o)'
    BY <1>0, <1>a, InvParts, CoreFacts DEF OnceInv, RxOnce
  <2>3. RxOnce(c)'
    <3>0. RxOnce(c)
      BY InvParts DEF OnceInv
    <3>1. CASE m.dst = "queue"
      <4>1. isr'[c].pc = "check"
        BY <1>a, <3>1
      <4>2. \A i \in DOMAIN queue[c] : queue[c][i].d # d
        BY <1>d, <1>p, <3>0 DEF RxOnce
      <4>3. ASSUME NEW i \in DOMAIN queue'[c], NEW j \in DOMAIN queue'[c], queue'[c][i].d = queue'[c][j].d
            PROVE  i = j
        BY <1>r, <3>0, <3>1, <4>2, <4>3 DEF RxOnce
      <4>4. ASSUME NEW t \in TasksOf(c), task[t].pc = "release", NEW i \in DOMAIN queue'[c]
            PROVE  queue'[c][i].d # task[t].d
        BY <1>d, <1>p, <1>r, <3>0, <3>1, <4>4 DEF RxOnce
      <4> QED
        BY <1>a, <3>0, <4>1, <4>3, <4>4 DEF RxOnce
    <3>2. CASE m.dst # "queue"
      BY <1>a, <1>d, <1>p, <3>0, <3>2 DEF RxOnce
    <3> QED
      BY <3>1, <3>2
  <2> QED
    BY <1>0, <2>1, <2>2, <2>3 DEF OnceInv, Core, Other
<1>5. LogInv'
  <2>0. /\ rcvdLog'[c] = Append(rcvdLog[c], m) /\ rcvdLog'[o] = rcvdLog[o]
        /\ rcvdLog[c] \in Seq(Msg \union {Empty})
    BY <1>0, <1>a, InvParts, CoreFacts DEF LogTypes
  <2>1. \A e \in Core : e = c \/ e = o
    BY <1>0 DEF Core, Other
  <2>p. \A e \in Core : /\ Pend(Tvq(e), Gives(e))' = Pend(Tvq(e), Gives(e))
                        /\ \A k : Ent(Tvq(e), Gives(e), k)' = Ent(Tvq(e), Gives(e), k)
    BY <1>a DEF ringVars, Pend, Ent
  <2>2. LogOf(c)'
    <3>1. LogOf(c)
      BY InvParts DEF LogInv
    <3> QED
      BY <1>0, <1>a, <2>0, <2>p, <3>1, LogSame, CoreFacts
  <2>3. LogOf(o)'
    <3>1. Len(rcvdLog'[c]) = n + 1 /\ InHand(c)' = 0 /\ Pend(Tvq(o), Gives(o))' = p
      <4>1. Len(rcvdLog'[c]) = n + 1
        BY <1>n, <2>0
      <4>2. isr'[c].pc # "deliver"
        BY <1>a
      <4> QED
        BY <1>n, <2>p, <4>1, <4>2 DEF InHand
    <3>2. \A i \in 1 .. n + 1 : rcvdLog'[c][i] = sentLog[o][i]
      <4>1. /\ \A i \in 1 .. n : rcvdLog'[c][i] = rcvdLog[c][i]
            /\ rcvdLog'[c][n + 1] = m
        BY <1>n, <2>0
      <4>2. \A i \in 1 .. n + 1 : i \in 1 .. n \/ i = n + 1
        OBVIOUS
      <4> QED
        BY <1>l, <1>m, <4>1, <4>2
    <3>3. /\ Len(sentLog'[o]) = Len(rcvdLog'[c]) + InHand(c)' + Pend(Tvq(o), Gives(o))'
          /\ \A i \in 1 .. Len(sentLog'[o]) : sentLog'[o][i] \in Msgs(o)
      <4>1. n + 1 + p = (n + 1) + 0 + p /\ sentLog' = sentLog
        BY <1>a
      <4> QED
        BY <1>l, <3>1, <4>1
    <3>4. \A i \in 1 .. Len(rcvdLog'[c]) : rcvdLog'[c][i] = sentLog'[o][i]
      BY <1>a, <3>1, <3>2
    <3>5. isr'[c].pc # "deliver"
      BY <1>a
    <3>6. \A k \in 0 .. Pend(Tvq(o), Gives(o))' - 1 :
             buf'[Tvq(o)][Ent(Tvq(o), Gives(o), k)'] =
                sentLog'[o][Len(rcvdLog'[c]) + InHand(c)' + k + 1]
      <4> TAKE k \in 0 .. Pend(Tvq(o), Gives(o))' - 1
      <4>1. k \in 0 .. p - 1 /\ n + 1 + 0 + k + 1 = n + 1 + k + 1
        BY <3>1
      <4>2. buf'[Tvq(o)][Ent(Tvq(o), Gives(o), k)'] = sentLog'[o][n + 1 + k + 1]
        BY <1>a, <1>l, <2>p, <4>1
      <4> QED
        BY <3>1, <4>1, <4>2
    <3> QED
      BY <1>0, <3>3, <3>4, <3>5, <3>6 DEF LogOf
  <2> QED
    BY <2>1, <2>2, <2>3 DEF LogInv
<1>6. IntactInv'
  <2>0. /\ \A e \in Core : \A i \in DOMAIN queue[e] : buf[Rvq(e)][queue[e][i].d] = queue[e][i].msg
    BY InvParts DEF IntactInv
  <2>1. \A i \in DOMAIN queue'[c] : buf[Rvq(c)][queue'[c][i].d] = queue'[c][i].msg
    <3>1. CASE m.dst = "queue"
      <4>1. [d |-> d, msg |-> m].d = d /\ [d |-> d, msg |-> m].msg = m
        OBVIOUS
      <4>2. \A i \in DOMAIN queue[c] : buf[Rvq(c)][queue[c][i].d] = queue[c][i].msg
        BY <2>0
      <4> TAKE i \in DOMAIN queue'[c]
      <4>3. CASE i \in DOMAIN queue[c] /\ queue'[c][i] = queue[c][i]
        BY <4>2, <4>3
      <4>4. CASE queue'[c][i] = [d |-> d, msg |-> m]
        BY <1>m, <4>1, <4>4
      <4> QED
        BY <1>r, <3>1, <4>3, <4>4
    <3>2. CASE m.dst # "queue"
      BY <1>a, <2>0, <3>2
    <3> QED
      BY <3>1, <3>2
  <2>2. \A e \in Core : \A i \in DOMAIN queue'[e] : buf[Rvq(e)][queue'[e][i].d] = queue'[e][i].msg
    BY <1>a, <2>0, <2>1
  <2> QED
    BY <1>a, <2>2, InvParts DEF IntactInv
<1> QED
  BY <1>1, <1>2, <1>3, <1>4, <1>5, <1>6 DEF Good

(* rpmsg_lite_master_init fills a vring that nobody uses yet. *)
LEMMA FillGood ==
    ASSUME IInv, NEW v \in Vq, master_init_fill(v)
    PROVE  Good
<1>0. PICK r \in Ring : r = IF v = 0 THEN "avail" ELSE "used"
  BY DEF Ring
<1>a. /\ vq_desc_head_idx[v] < NENTRIES /\ WriteEntry(v, r, vq_desc_head_idx[v]) /\ PublishEntry(v, r)
      /\ vq_desc_head_idx' = [vq_desc_head_idx EXCEPT ![v] = @ + 1]
      /\ UNCHANGED <<consIdx, logVars, buf, isr, task, lock, queue>>
  BY <1>0 DEF master_init_fill, Rvq
<1>b. /\ ring'[v] = [ring[v] EXCEPT ![r][Slot(idx[v][r])] = vq_desc_head_idx[v]]
      /\ idx'[v] = [idx[v] EXCEPT ![r] = IdxInc(@)]
      /\ vq_desc_head_idx'[v] = vq_desc_head_idx[v] + 1
      /\ \A w \in Vq : w # v => SameRing(w)
  BY <1>a, InvParts DEF WriteEntry, PublishEntry, RingTypes, SameRing
<1>c. ~Filled(v) /\ \A e \in Core : isr[e].pc = "off" /\ queue[e] = <<>>
  <2>1. ~Filled(v)
    BY <1>a, ConstFacts, InvParts DEF Filled, RingTypes
  <2> QED
    BY <2>1, InvParts DEF BaseInv, UseInv, Quiet, RingsFilled, Filled
<1>1. \A w \in Vq : VInv(w)' /\ VNext(w)
  <2>1. \A w \in Vq, e \in Core : SameUse(e, w)
    BY <1>a, CoreSame
  <2>2. VInv(v)' /\ VNext(v)
    BY <1>0, <1>a, <1>b, <1>c, <2>1, FillStep, InvParts
  <2>3. \A w \in Vq : w # v => VInv(w)' /\ VNext(w)
    BY <1>b, <2>1, StillStep, InvParts
  <2> QED
    BY <2>2, <2>3
<1>2. LockInv' /\ SendInv' /\ ModeInv'
  BY <1>a, InvParts DEF LockInv, SendInv, ModeInv
<1>3. OnceInv'
  BY <1>a, InvParts DEF OnceInv, TxOnce, TxHolds, RxOnce
<1>4. LogInv'
  <2> SUFFICES ASSUME NEW e \in Core PROVE LogOf(e)'
    BY DEF LogInv
  <2>1. LogOf(e) /\ Other(e) \in Core
    BY InvParts, CoreFacts DEF LogInv
  <2>2. Tvq(e) = v => Gives(e) # r
    BY <1>0 DEF Core, Tvq, Gives
  <2>3. /\ Pend(Tvq(e), Gives(e))' = Pend(Tvq(e), Gives(e))
        /\ \A k : Ent(Tvq(e), Gives(e), k)' = Ent(Tvq(e), Gives(e), k)
    <3>1. CASE Tvq(e) = v
      BY <1>a, <1>b, <2>2, <3>1, CoreFacts, InvParts DEF Pend, Ent, RingTypes
    <3>2. CASE Tvq(e) # v
      BY <1>b, <3>2, CoreFacts DEF Pend, Ent, SameRing
    <3> QED
      BY <3>1, <3>2
  <2> QED
    BY <1>a, <2>1, <2>3, LogSame DEF logVars
<1>5. IntactInv'
  BY <1>a, InvParts DEF IntactInv
<1> QED
  BY <1>1, <1>2, <1>3, <1>4, <1>5 DEF Good

(* The calls up to the search for a buffer, its failures and its end. *)
LEMMA SendGood ==
    ASSUME IInv, NEW t \in Task, rpmsg_lite_send(t)
    PROVE  Good
<1>0. CoreOf(t) \in Core
  BY CoreFacts
<1>1. PICK dst \in Dests(CoreOf(t)), timeout \in TIMEOUTS :
         task' = [task EXCEPT ![t].pc = "alloc", ![t].msg = NewMsg(CoreOf(t), dst), ![t].timeout = timeout]
  BY DEF rpmsg_lite_send
<1>2. PICK m \in Msgs(CoreOf(t)) : m = NewMsg(CoreOf(t), dst)
  <2>1. TypeOK /\ calls[CoreOf(t)] < MsgBound(CoreOf(t))
    BY DEF IInv, BaseInv, TypeInv, rpmsg_lite_send, MaySend
  <2> QED
    BY <1>0, <2>1, MsgFacts DEF Msgs, NewMsg
<1>3. m # Empty
  BY RpmsgAssumption DEF Msgs, Msg
<1>4. /\ task[t].pc = "idle" /\ task'[t].pc = "alloc" /\ task'[t].msg = m /\ task'[t].nocopy = task[t].nocopy
      /\ \A u \in Task : u # t => task'[u] = task[u]
      /\ UNCHANGED <<ringVars, buf, isr, queue, sentLog, rcvdLog>> /\ lock' = lock
  BY <1>1, <1>2, InvParts DEF rpmsg_lite_send, Runs, ContextTypes, TaskState
<1> QED
  BY <1>3, <1>4, LocalGood

(* rpmsg_lite_alloc_tx_buffer starts. *)
LEMMA AllocTxBufferGood ==
    ASSUME IInv, NEW t \in Task, rpmsg_lite_alloc_tx_buffer(t)
    PROVE  Good
<1>1. /\ task[t].pc = "idle" /\ task'[t].pc = "alloc" /\ task'[t].msg = task[t].msg
      /\ task'[t].nocopy = task[t].nocopy /\ task[t].nocopy = NoDesc
      /\ \A u \in Task : u # t => task'[u] = task[u]
      /\ UNCHANGED <<ringVars, buf, isr, queue, sentLog, rcvdLog>> /\ lock' = lock
  BY InvParts DEF rpmsg_lite_alloc_tx_buffer, Runs, logVars, ContextTypes, TaskState
<1>2. task'[t].msg = Empty
  BY <1>1, InvParts DEF SendInv
<1> QED
  BY <1>1, <1>2, LocalGood

(* The search for a transmit buffer: it finds one, sleeps or gives up. *)
LEMMA TxAllocGood ==
    ASSUME IInv, NEW t \in Task, tx_alloc(t)
    PROVE  Good
<1>1. CASE HasEntry(Tvq(CoreOf(t)), Takes(CoreOf(t)))
  BY <1>1, TxSeeGood
<1>2. CASE ~HasEntry(Tvq(CoreOf(t)), Takes(CoreOf(t)))
  <2>1. /\ task[t].pc = "alloc" /\ task'[t].nocopy = task[t].nocopy
        /\ \/ task'[t].pc = "idle" /\ task'[t].msg = Empty
           \/ task'[t].pc = "sleep" /\ task'[t].msg = task[t].msg
        /\ \A u \in Task : u # t => task'[u] = task[u]
        /\ UNCHANGED <<ringVars, buf, isr, queue, sentLog, rcvdLog>> /\ lock' = lock
    BY <1>2, InvParts DEF tx_alloc, Runs, Returned, logVars, ContextTypes, TaskState
  <2>2. task[t].msg \in Msgs(CoreOf(t)) \union {Empty} /\
        (task[t].msg = Empty => task[t].nocopy = NoDesc)
    BY <2>1, InvParts DEF SendInv
  <2> QED
    BY <2>1, <2>2, LocalGood
<1> QED
  BY <1>1, <1>2

(* A task that wakes up from waiting for a transmit buffer. *)
LEMMA TxSleepGood ==
    ASSUME IInv, NEW t \in Task, tx_sleep(t)
    PROVE  Good
<1>1. /\ task[t].pc = "sleep" /\ task'[t].pc = "alloc" /\ task'[t].msg = task[t].msg
      /\ task'[t].nocopy = task[t].nocopy
      /\ \A u \in Task : u # t => task'[u] = task[u]
      /\ UNCHANGED <<ringVars, buf, isr, queue, sentLog, rcvdLog>> /\ lock' = lock
  BY InvParts DEF tx_sleep, Runs, logVars, ContextTypes, TaskState
<1>2. task[t].msg \in Msgs(CoreOf(t)) \union {Empty} /\
        (task[t].msg = Empty => task[t].nocopy = NoDesc)
  BY <1>1, InvParts DEF SendInv
<1> QED
  BY <1>1, <1>2, LocalGood

(* A task that notifies the peer and unlocks. *)
LEMMA TxKickGood ==
    ASSUME IInv, NEW t \in Task, tx_kick(t)
    PROVE  Good
<1>1. /\ task[t].pc = "kick" /\ task'[t].pc = "idle" /\ task'[t].msg = task[t].msg
      /\ task'[t].nocopy = task[t].nocopy
      /\ \A u \in Task : u # t => task'[u] = task[u]
      /\ UNCHANGED <<ringVars, buf, isr, queue, sentLog, rcvdLog>>
      /\ lock' = [lock EXCEPT ![CoreOf(t)] = NoTask]
  BY InvParts DEF tx_kick, Runs, logVars, ContextTypes, TaskState
<1>2. task[t].msg = Empty
  BY <1>1, InvParts DEF SendInv
<1> QED
  BY <1>1, <1>2, LocalGood

(* The entry of the interrupt. *)
LEMMA EnvIsrGood ==
    ASSUME IInv, NEW c \in Core, env_isr(c)
    PROVE  Good
<1>1. /\ UNCHANGED <<ringVars, logVars, buf, task, lock, queue>> /\ isr[c].pc = "off"
      /\ isr' = isr \/ isr' = [isr EXCEPT ![c].pc = "check"]
  BY DEF env_isr, virtqueue_notification, rpmsg_lite_tx_callback, rpmsg_lite_rx_callback
<1>2. \A e \in Core : isr'[e] = isr[e] \/ (isr[e].pc = "off" /\ isr'[e].pc = "check")
  BY <1>1, InvParts DEF ContextTypes, IsrState
<1> QED
  BY <1>1, <1>2, LinkGood

(* Every step of the system is good: one case per action of Next. *)
LEMMA NextGood ==
    ASSUME NotMixed, IInv, [Next]_vars
    PROVE  Good
<1>1. CASE UNCHANGED <<ringVars, logVars, buf, task, lock, queue, isr>>
  BY <1>1, LinkGood
<1>2. CASE BootStep
  <2>1. ASSUME NEW p, NEW q, RemoteInitStep(p, q) PROVE Good
    BY <1>1, <2>1 DEF RemoteInitStep
  <2>2. CASE master_init_link \/ master_init_kick
    BY <1>1, <2>2 DEF master_init_link, master_init_kick
  <2> QED
    BY <1>2, <2>1, <2>2, FillGood
       DEF BootStep, remote_env_init, remote_init_rvq, remote_init_tvq, remote_init_link
<1>3. ASSUME NEW c \in Core, IsrStep(c)
      PROVE  Good
  BY <1>3, EnvIsrGood, RxCheckGood, RxReadGood, RxDeliverGood, RxFreeGood, RxFreePublishGood
     DEF IsrStep
<1>4. ASSUME NEW c \in Core, deinit_link(c) \/ deinit_rvq(c) \/ deinit_free(c)
      PROVE  Good
  BY <1>1, <1>4 DEF deinit_link, deinit_rvq, deinit_free, DeinitStep
<1>5. ASSUME NEW t \in Task, TaskStep(t)
      PROVE  Good
  <2>1. CASE CallStep(t)
    BY <2>1, TxAllocGood, TxSleepGood, TxTakeGood, TxFillGood, TxEnqueueGood, TxPublishGood,
       TxKickGood, ReleaseRxGood, ReleasePublishGood DEF CallStep
  <2> QED
    BY <1>5, <2>1, SendGood, AllocTxBufferGood, SendNocopyGood, QueueRecvGood DEF TaskStep
<1>6. CASE Quiescent \/ UNCHANGED vars
  BY <1>1, <1>6 DEF Quiescent, vars
<1> QED
  BY <1>2, <1>3, <1>4, <1>5, <1>6 DEF Next

(* In the initial state nobody holds a buffer and both vrings are empty. *)
LEMMA InitVrings ==
    ASSUME Init
    PROVE  V0!Init /\ V1!Init /\ \A v \in Vq : VInv(v)
<1>1. \A c \in Core : /\ \A t \in TasksOf(c) : task[t].pc = "idle" /\ task[t].nocopy = NoDesc
                      /\ queue[c] = <<>> /\ isr[c].pc = "off"
  BY CoreFacts DEF Init
<1>2. \A c \in Core, v \in Vq : HeldBy(c, v) = {} /\ PutDesc(c, v) = NoDesc /\ ReadFlag(c, v) = FALSE
  <2> TAKE c \in Core, v \in Vq
  <2>1. HeldBy(c, v) = {}
    BY <1>1 DEF HeldBy
  <2>2. PutDesc(c, v) = NoDesc
    BY <1>1 DEF Putters, PutDesc
  <2>3. ReadFlag(c, v) = FALSE
    BY <1>1 DEF ReadFlag
  <2> QED
    BY <2>1, <2>2, <2>3
<1>3. \A v \in Vq : /\ puttingBar(v) = [r \in {"avail", "used"} |-> NoDesc]
                    /\ readingBar(v) = [r \in {"avail", "used"} |-> FALSE]
                    /\ heldBar(v) = [s \in {"driver", "device"} |-> {}]
  BY <1>2, BarValues DEF Core
<1>4. V0!Init /\ P0!Init
  BY <1>3
     DEF Init, V0!Init, P0!Init, V0!Ring, P0!Ring, V0!Side, P0!Side, V0!ZeroedRing, P0!ZeroedRing,
              ZeroedRing, V0!Desc, P0!Desc, Desc, Vq, Ring
<1>5. V1!Init /\ P1!Init
  BY <1>3
     DEF Init, V1!Init, P1!Init, V1!Ring, P1!Ring, V1!Side, P1!Side, V1!ZeroedRing, P1!ZeroedRing,
              ZeroedRing, V1!Desc, P1!Desc, Desc, Vq, Ring
<1>6. P0!IInv
  BY <1>4, P0!InitInv, RpmsgAssumption, VringAssumption DEF P0!Desc, Desc, P0!Ring, Ring
<1>7. P1!IInv
  BY <1>5, P1!InitInv, RpmsgAssumption, VringAssumption DEF P1!Ring, P1!Desc, Desc, Ring
<1> QED
  BY <1>4, <1>5, <1>6, <1>7 DEF VInv, Vq

(* The invariant holds initially. *)
LEMMA InitInv == Init => IInv
<1> SUFFICES ASSUME Init PROVE IInv
  OBVIOUS
<1>1. BaseInv /\ \A v \in Vq : VInv(v)
  BY InitBase, InitVrings
<1>2. LockInv /\ SendInv /\ ModeInv
  BY DEF Init, LockInv, InLock, SendInv, ModeInv, TasksOf, Task
<1>3. OnceInv
  <2>1. \A c \in Core : \A t \in TasksOf(c) : task[t].pc = "idle" /\ task[t].nocopy = NoDesc
    BY CoreFacts DEF Init
  <2> QED
    BY <2>1 DEF Init, OnceInv, TxOnce, RxOnce, TxHolds
<1>4. LogInv
  <2> SUFFICES ASSUME NEW c \in Core PROVE LogOf(c)
    BY DEF LogInv
  <2>1. Pend(Tvq(c), Gives(c)) = 0
    <3>1. idx[Tvq(c)][Gives(c)] = consIdx[Tvq(c)][Gives(c)]
      BY CoreFacts DEF Init
    <3> QED
      BY <1>1, <3>1, VInvFacts, CoreFacts DEF VFacts
  <2>2. /\ InHand(Other(c)) = 0
        /\ isr[Other(c)].pc # "deliver"
        /\ sentLog[c] = <<>>
        /\ rcvdLog[Other(c)] = <<>>
    BY CoreFacts DEF Init, InHand
  <2> QED
    BY <2>1, <2>2 DEF LogOf
<1>5. IntactInv
  BY CoreFacts DEF Init, IntactInv
<1> QED
  BY <1>1, <1>2, <1>3, <1>4, <1>5 DEF IInv

(* Every step preserves the invariant. *)
LEMMA NextInv ==
    ASSUME NotMixed
    PROVE  IInv /\ [Next]_vars => IInv'
<1> SUFFICES ASSUME IInv, [Next]_vars PROVE IInv'
  OBVIOUS
<1>1. BaseInv'
  BY NextBase DEF IInv
<1>2. Good
  BY NextGood
<1> QED
  BY <1>1, <1>2 DEF Good, IInv

(* The invariant holds in every reachable state. *)
LEMMA Invariance ==
    ASSUME NotMixed
    PROVE  Spec => []IInv
  BY InitInv, NextInv, PTL DEF Spec

(* Every step of the system is a step or a stutter of both vrings. *)
LEMMA NextVrings ==
    ASSUME NotMixed
    PROVE  IInv /\ [Next]_vars => [V0!Next]_V0!vars /\ [V1!Next]_V1!vars
<1> SUFFICES ASSUME IInv, [Next]_vars PROVE [V0!Next]_V0!vars /\ [V1!Next]_V1!vars
  OBVIOUS
<1>1. VNext(0) /\ VNext(1)
  BY NextGood DEF Good, Vq
<1> QED
  BY <1>1 DEF VNext

(* rpmsg_lite.c uses both vrings as virtqueue.c requires: no call, callback *)
(* or interrupt, however they interleave, puts a buffer it does not hold,  *)
(* takes an entry that is not there, or starts an update inside another.   *)
(* NotMixed: no core receives on endpoints of both kinds; with both, the   *)
(* interrupt frees buffers without the lock that the tasks take.           *)
THEOREM VringsImplementedHolds ==
    ASSUME NotMixed
    PROVE  Spec => VringsImplemented
<1>1. Spec => []IInv
  BY Invariance
<1>2. Init => V0!Init /\ V1!Init
  BY InitVrings
<1> QED
  BY <1>1, <1>2, NextVrings, PTL DEF Spec, VringsImplemented, V0!Spec, V1!Spec

(* What a core has received is a prefix of what its peer has sent: messages *)
(* are never lost, repeated, reordered or overwritten on their way from    *)
(* rpmsg_lite_send to the endpoint, under NotMixed.                        *)
THEOREM InOrderDeliveryHolds ==
    ASSUME NotMixed
    PROVE  Spec => []InOrderDelivery
<1>1. IInv => InOrderDelivery
  <2> SUFFICES ASSUME IInv, NEW c \in Core
               PROVE  LET n == Len(rcvdLog[Other(c)]) IN
                      n <= Len(sentLog[c]) /\ rcvdLog[Other(c)] = SubSeq(sentLog[c], 1, n)
    BY DEF InOrderDelivery
  <2>1. /\ LogOf(c)
        /\ sentLog[c] \in Seq(Msg \union {Empty})
        /\ rcvdLog[Other(c)] \in Seq(Msg \union {Empty})
    BY InvParts, CoreFacts DEF LogInv, LogTypes
  <2>2. PICK n \in Nat : n = Len(rcvdLog[Other(c)])
    BY <2>1
  <2>3. Pend(Tvq(c), Gives(c)) \in Nat /\ InHand(Other(c)) \in Nat
    BY InvParts, CoreFacts DEF VFacts, InHand
  <2>4. /\ Len(sentLog[c]) = n + InHand(Other(c)) + Pend(Tvq(c), Gives(c))
        /\ \A i \in 1 .. n : rcvdLog[Other(c)][i] = sentLog[c][i]
    BY <2>1, <2>2 DEF LogOf
  <2>5. n <= Len(sentLog[c])
    BY <2>3, <2>4
  <2>6. rcvdLog[Other(c)] = SubSeq(sentLog[c], 1, n)
    <3>1. /\ SubSeq(sentLog[c], 1, n) \in Seq(Msg \union {Empty})
          /\ Len(SubSeq(sentLog[c], 1, n)) = n
          /\ \A i \in 1 .. n : SubSeq(sentLog[c], 1, n)[i] = sentLog[c][i]
      BY <2>1, <2>5
    <3> QED
      BY <2>1, <2>2, <2>4, <3>1, SeqEqual
  <2> QED
    BY <2>2, <2>5, <2>6
<1> QED
  BY <1>1, Invariance, PTL

(* A buffer that a queue, a receiving task or a sending task has in hand   *)
(* keeps its message until it is given back, and the receive queue, as long  *)
(* as the vring, never drops a message, under NotMixed.                    *)
THEOREM HeldMessagesIntactHolds ==
    ASSUME NotMixed
    PROVE  Spec => []HeldMessagesIntact
<1>1. IInv => HeldMessagesIntact
  <2> SUFFICES ASSUME IInv PROVE HeldMessagesIntact
    OBVIOUS
  <2>1. QueueHasRoom
    BY RoomInQueue DEF QueueHasRoom
  <2> QED
    BY <2>1, InvParts DEF HeldMessagesIntact, IntactInv
<1> QED
  BY <1>1, Invariance, PTL

(* "Lock the device to enable exclusive access to virtqueues": true as long *)
(* as the endpoints of a core are not of both kinds. With both kinds the   *)
(* comment of rpmsg_lite.c is refuted by the run over MCRpmsgMixed.cfg.    *)
THEOREM ExclusiveAccessHolds ==
    ASSUME NotMixed
    PROVE  Spec => []ExclusiveAccess
<1>1. IInv => ExclusiveAccess
  <2> SUFFICES ASSUME IInv, NEW c \in Core, NEW v \in Vq
               PROVE  Cardinality(Putters(c, v)) <= 1
    BY DEF ExclusiveAccess
  <2>1. \A t, u \in TasksOf(c) : task[t].pc \in InLock /\ task[u].pc \in InLock => t = u
    BY InvParts, CoreFacts DEF LockInv
  <2>2. isr[c].pc = "publish" => \A t \in TasksOf(c) : task[t].pc # "released"
    BY InvParts DEF ModeInv
  <2>3. \A x, y \in Putters(c, v) : x = y
    <3>1. v = Tvq(c) \/ v = Rvq(c)
      BY DEF Core, Vq, Tvq, Rvq
    <3> QED
      BY <2>1, <2>2, <3>1, PutterFacts DEF InLock
  <2>4. Putters(c, v) = {} \/ \E x : Putters(c, v) = {x}
    BY <2>3
  <2> QED
    BY <2>4, FS_EmptySet, FS_Singleton
<1> QED
  BY <1>1, Invariance, PTL
=============================================================================
