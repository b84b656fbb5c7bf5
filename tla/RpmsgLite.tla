----------------------------- MODULE RpmsgLite -----------------------------
(***************************************************************************)
(* RPMsg-Lite between the two cores of the RV32M1: both vrings, the        *)
(* rpmsg_lite.c API as called by tasks, its receive callback as run by the *)
(* MU interrupt, the initialisation of the link and the single MU word     *)
(* that carries the notifications of one direction.                        *)
(*                                                                         *)
(* vring 0 carries messages from the remote to the master, vring 1 from    *)
(* the master to the remote; both are filled and owned by the master.      *)
(* The environment is rpmsg_env_freertos.c: env_lock_mutex takes the       *)
(* device lock in a task and does nothing in an interrupt, and no task of  *)
(* a core runs while the core is in the interrupt.  Early returns of the   *)
(* API on bad parameters and on a link that is down change nothing and     *)
(* have no action.  A buffer is named by its descriptor: the index that    *)
(* the code keeps in the reserved field of the header is always the one of *)
(* the buffer it is stored in.                                             *)
(***************************************************************************)
EXTENDS Vring, Sequences, FiniteSets

CONSTANTS
    MasterTasks, RemoteTasks,   \* the tasks that call the API on each core
    MASTER_MSGS, REMOTE_MSGS,   \* bounds on the messages each core sends
    TIMEOUTS,                   \* timeouts passed by callers, in intervals
    MASTER_EPTS, REMOTE_EPTS,   \* kinds of endpoint that each core receives on
    HANDSHAKE,                  \* how the applications order their start
    DEINIT,                     \* the cores that may call rpmsg_lite_deinit
    RL_BLOCK,                   \* the timeout that never expires
    NoDesc, NoTask, NoWord, Empty

Core == {"master", "remote"}

ASSUME RpmsgAssumption ==
    /\ MASTER_MSGS \in Nat /\ REMOTE_MSGS \in Nat
    /\ MasterTasks \intersect RemoteTasks = {}
    /\ TIMEOUTS \subseteq Nat \union {RL_BLOCK}
    /\ MASTER_EPTS \union REMOTE_EPTS \subseteq {"queue", "release"}
    /\ HANDSHAKE \in {"none", "ready", "announce"}
    /\ DEINIT \subseteq Core
    /\ NoDesc \notin Desc
    /\ NoTask \notin MasterTasks \union RemoteTasks
    /\ NoWord \notin {0, 1}
    /\ Empty \notin [dst : {"queue", "release"}, id : Nat]

Vq == {0, 1}
Ring == {"avail", "used"}
Task == MasterTasks \union RemoteTasks
Other(c) == IF c = "master" THEN "remote" ELSE "master"
CoreOf(t) == IF t \in MasterTasks THEN "master" ELSE "remote"

VARIABLES
    idx, ring, consIdx,     \* as in Virtqueue, for each vring
    vq_desc_head_idx,       \* of the master's virtqueue of each vring
    buf,                    \* message in each shared buffer
    boot,                   \* progress of the init or deinit function of each core
    link_state,             \* of each core's rpmsg_lite_instance
    mu,                     \* MU word on its way to each core
    isr,                    \* interrupt context of each core
    task,                   \* context of each task
    lock,                   \* holder of the device lock of each core
    queue,                  \* rpmsg_queue of each core
    calls,                  \* messages each core has started to send
    sentLog, rcvdLog        \* messages published, and seen by rx_callback

ringVars == <<idx, ring, consIdx, vq_desc_head_idx>>
logVars == <<calls, sentLog, rcvdLog>>
vars == <<ringVars, logVars, buf, boot, link_state, mu, isr, task, lock, queue>>

-----------------------------------------------------------------------------
(***************************************************************************)
(* The vq_ops tables: a master takes from the used ring and gives on the   *)
(* avail ring of both its virtqueues, a remote the reverse.                *)
(***************************************************************************)
Rvq(c) == IF c = "master" THEN 0 ELSE 1
Tvq(c) == IF c = "master" THEN 1 ELSE 0
Takes(c) == IF c = "master" THEN "used" ELSE "avail"
Gives(c) == IF c = "master" THEN "avail" ELSE "used"

HasEntry(v, r) == consIdx[v][r] # idx[v][r]

(* Mutant: the last entry is taken first. *)
NewestEntry(v, r) == ring[v][r][Slot(idx[v][r] + IDX_MOD - 1)]

OldestEntry(v, r) == ring[v][r][Slot(consIdx[v][r])]
SkipEntry(v, r) == consIdx' = [consIdx EXCEPT ![v][r] = IdxInc(@)]
WriteEntry(v, r, d) == ring' = [ring EXCEPT ![v][r][Slot(idx[v][r])] = d]
PublishEntry(v, r) == idx' = [idx EXCEPT ![v][r] = IdxInc(@)]

(* platform_notify: the forced write of the MU transmit register. *)
platform_notify(c, v) == mu' = [mu EXCEPT ![Other(c)] = v]

(* used->flags never has VRING_USED_F_NO_NOTIFY, so every kick notifies. *)
virtqueue_kick(c, v) == platform_notify(c, v)

(* The initialisation of the rings by the master: memset and buffers. *)
RingsFilled == \A v \in Vq : vq_desc_head_idx[v] = NENTRIES

Init ==
    /\ idx = [v \in Vq |-> [r \in Ring |-> 0]]
    /\ ring = [v \in Vq |-> [r \in Ring |-> ZeroedRing]]
    /\ consIdx = [v \in Vq |-> [r \in Ring |-> 0]]
    /\ vq_desc_head_idx = [v \in Vq |-> 0]
    /\ buf = [v \in Vq |-> [d \in Desc |-> Empty]]
    /\ boot = [c \in Core |-> "start"]
    /\ link_state = [c \in Core |-> 0]
    /\ mu = [c \in Core |-> NoWord]
    /\ isr = [c \in Core |-> [pc |-> "off", d |-> NoDesc]]
    /\ task = [t \in Task |-> [pc |-> "idle", d |-> NoDesc, msg |-> Empty,
                               tick |-> 0, timeout |-> 0, nocopy |-> NoDesc]]
    /\ lock = [c \in Core |-> NoTask]
    /\ queue = [c \in Core |-> <<>>]
    /\ calls = [c \in Core |-> 0]
    /\ sentLog = [c \in Core |-> <<>>]
    /\ rcvdLog = [c \in Core |-> <<>>]

-----------------------------------------------------------------------------
(***************************************************************************)
(* rpmsg_lite_master_init.  With HANDSHAKE # "none" the application waits  *)
(* until the remote core has returned from rpmsg_lite_remote_init.         *)
(***************************************************************************)
master_init_fill(v) ==
    LET r == IF v = Rvq("master") THEN "avail" ELSE "used" IN
    /\ HANDSHAKE # "none" => boot["remote"] = "up"
    /\ boot["master"] = "start"
    /\ v = 1 => vq_desc_head_idx[0] = NENTRIES
    /\ vq_desc_head_idx[v] < NENTRIES
    /\ WriteEntry(v, r, vq_desc_head_idx[v])
    /\ PublishEntry(v, r)
    /\ vq_desc_head_idx' = [vq_desc_head_idx EXCEPT ![v] = @ + 1]
    /\ UNCHANGED <<consIdx, logVars, buf, boot, link_state, mu, isr, task, lock, queue>>

master_init_link ==
    /\ boot["master"] = "start" /\ RingsFilled
    /\ boot' = [boot EXCEPT !["master"] = "linked"]
    /\ link_state' = [link_state EXCEPT !["master"] = 1]
    /\ UNCHANGED <<ringVars, logVars, buf, mu, isr, task, lock, queue>>

(* Mutant: rpmsg_lite_master_init does not notify the remote. *)
master_init_silent ==
    /\ boot["master"] = "linked"
    /\ boot' = [boot EXCEPT !["master"] = "up"]
    /\ UNCHANGED <<ringVars, logVars, buf, link_state, mu, isr, task, lock, queue>>

master_init_kick ==
    /\ boot["master"] = "linked"
    /\ boot' = [boot EXCEPT !["master"] = "up"]
    /\ virtqueue_kick("master", Rvq("master"))
    /\ UNCHANGED <<ringVars, logVars, buf, link_state, isr, task, lock, queue>>

(***************************************************************************)
(* rpmsg_lite_remote_init: env_init registers the MCMGR event, then the    *)
(* two virtqueues enter isr_table, then the link is marked as down with    *)
(* the interrupt masked.  No task runs while the interrupt does.           *)
(***************************************************************************)
RemoteInitStep(from, to) ==
    /\ isr["remote"].pc = "off"
    /\ boot["remote"] = from
    /\ boot' = [boot EXCEPT !["remote"] = to]
    /\ UNCHANGED <<ringVars, logVars, buf, mu, isr, task, lock, queue>>

remote_env_init == RemoteInitStep("start", "env") /\ UNCHANGED link_state
remote_init_rvq == RemoteInitStep("env", "rvq") /\ UNCHANGED link_state
remote_init_tvq == RemoteInitStep("rvq", "tvq") /\ UNCHANGED link_state

(* Mutant: the remote takes the link for up without a notification. *)
remote_init_link_up ==
    /\ RemoteInitStep("tvq", "up")
    /\ link_state' = [link_state EXCEPT !["remote"] = 1]

remote_init_link ==
    /\ RemoteInitStep("tvq", "up")
    /\ link_state' = [link_state EXCEPT !["remote"] = 0]

(* Bound: the calls a core makes. *)
MsgBound(c) == IF c = "master" THEN MASTER_MSGS ELSE REMOTE_MSGS

(***************************************************************************)
(* rpmsg_lite_deinit, called when no task of the core is inside a call and *)
(* the core has made its calls (a bound): the link is marked as down with  *)
(* the interrupt masked, the virtqueues leave isr_table one by one, and    *)
(* only then are they freed.                                               *)
(***************************************************************************)
DeinitStep(c, from, to) ==
    /\ c \in DEINIT /\ isr[c].pc = "off"
    /\ boot[c] = from
    /\ boot' = [boot EXCEPT ![c] = to]
    /\ UNCHANGED <<ringVars, logVars, buf, mu, isr, task, lock, queue>>

deinit_link(c) ==
    /\ \A t \in Task : CoreOf(t) = c => task[t].pc = "idle"
    /\ calls[c] = MsgBound(c)
    /\ DeinitStep(c, "up", "unlinked")
    /\ link_state' = [link_state EXCEPT ![c] = 0]
deinit_rvq(c) == DeinitStep(c, "unlinked", "no rvq") /\ UNCHANGED link_state

(* With the last virtqueue out of isr_table no interrupt reaches the       *)
(* instance: the frees that follow are one step with it.                   *)
deinit_free(c) == DeinitStep(c, "no rvq", "freed") /\ UNCHANGED link_state

-----------------------------------------------------------------------------
(***************************************************************************)
(* The MU interrupt: the word is read and, when the event is registered    *)
(* and isr_table has the virtqueue, its callback runs.                     *)
(***************************************************************************)
IsrTable(c) ==
    CASE boot[c] \in {"start", "env", "freed"} -> {}
      [] boot[c] = "rvq" -> {Rvq(c)}
      [] boot[c] = "no rvq" -> {Tvq(c)}
      [] OTHER -> Vq

rpmsg_lite_tx_callback(c) ==
    /\ link_state' = [link_state EXCEPT ![c] = 1]
    /\ UNCHANGED isr

(* The entry of rpmsg_lite_rx_callback; the rx_* actions are its loop. *)
rpmsg_lite_rx_callback(c) ==
    /\ isr' = [isr EXCEPT ![c].pc = "check"]
    /\ UNCHANGED link_state

virtqueue_notification(c, v) ==
    \/ v = Tvq(c) /\ rpmsg_lite_tx_callback(c)
    \/ v = Rvq(c) /\ rpmsg_lite_rx_callback(c)

env_isr(c) ==
    /\ isr[c].pc = "off"
    /\ mu[c] # NoWord
    /\ mu' = [mu EXCEPT ![c] = NoWord]
    /\ \/ mu[c] \notin IsrTable(c) /\ UNCHANGED <<isr, link_state>>
       \/ mu[c] \in IsrTable(c) /\ virtqueue_notification(c, mu[c])
    /\ UNCHANGED <<ringVars, logVars, buf, boot, task, lock, queue>>

(* Mutant: vq_rx without the index test. *)
rx_check_blind(c) ==
    /\ isr[c].pc = "check"
    /\ isr' = [isr EXCEPT ![c].pc = "read"]
    /\ UNCHANGED <<ringVars, logVars, buf, boot, link_state, mu, task, lock, queue>>

(* vq_rx: the index test; the loop ends when no message is left. *)
rx_check(c) ==
    /\ isr[c].pc = "check"
    /\ isr' = [isr EXCEPT ![c].pc = IF HasEntry(Rvq(c), Takes(c)) THEN "read" ELSE "off"]
    /\ UNCHANGED <<ringVars, logVars, buf, boot, link_state, mu, task, lock, queue>>

rx_read(c) ==
    /\ isr[c].pc = "read"
    /\ isr' = [isr EXCEPT ![c] = [pc |-> "deliver", d |-> OldestEntry(Rvq(c), Takes(c))]]
    /\ SkipEntry(Rvq(c), Takes(c))
    /\ UNCHANGED <<idx, ring, vq_desc_head_idx, logVars, buf, boot, link_state, mu, task, lock, queue>>

(* Mutant: the queue takes the buffer and the callback releases it too. *)
rx_deliver_released(c) ==
    LET m == buf[Rvq(c)][isr[c].d] IN
    /\ isr[c].pc = "deliver"
    /\ rcvdLog' = [rcvdLog EXCEPT ![c] = Append(@, m)]
    /\ queue' = [queue EXCEPT ![c] = Append(@, [d |-> isr[c].d, msg |-> m])]
    /\ isr' = [isr EXCEPT ![c].pc = "free"]
    /\ UNCHANGED <<ringVars, calls, sentLog, buf, boot, link_state, mu, task, lock>>

(* Mutant: one message per interrupt. *)
rx_deliver_once(c) ==
    LET m == buf[Rvq(c)][isr[c].d] IN
    /\ isr[c].pc = "deliver"
    /\ rcvdLog' = [rcvdLog EXCEPT ![c] = Append(@, m)]
    /\ queue' = [queue EXCEPT ![c] = Append(@, [d |-> isr[c].d, msg |-> m])]
    /\ isr' = [isr EXCEPT ![c] = [pc |-> "off", d |-> NoDesc]]
    /\ UNCHANGED <<ringVars, calls, sentLog, buf, boot, link_state, mu, task, lock>>

(* rpmsg_queue_create makes the queue as long as the vring has entries,    *)
(* and in the interrupt env_put_queue does not wait for room.              *)
QueueFull(c) == Len(queue[c]) >= NENTRIES
env_put_queue(c, entry) == queue' = [queue EXCEPT ![c] = Append(@, entry)]

(* The buffer is held when the queue takes it. *)
rpmsg_queue_rx_cb(c) == IF QueueFull(c) THEN "RL_RELEASE" ELSE "RL_HOLD"

(* The endpoint's callback.  One without a queue, or none at the address,  *)
(* releases the buffer.                                                    *)
rx_deliver(c) ==
    LET m == buf[Rvq(c)][isr[c].d]
        cb_ret == IF m # Empty /\ m.dst = "queue" THEN rpmsg_queue_rx_cb(c) ELSE "RL_RELEASE"
    IN
    /\ isr[c].pc = "deliver"
    /\ rcvdLog' = [rcvdLog EXCEPT ![c] = Append(@, m)]
    /\ \/ /\ cb_ret = "RL_HOLD"
          /\ env_put_queue(c, [d |-> isr[c].d, msg |-> m])
          /\ isr' = [isr EXCEPT ![c] = [pc |-> "check", d |-> NoDesc]]
       \/ /\ cb_ret = "RL_RELEASE"
          /\ isr' = [isr EXCEPT ![c].pc = "free"]
          /\ UNCHANGED queue
    /\ UNCHANGED <<ringVars, calls, sentLog, buf, boot, link_state, mu, task, lock>>

(* vq_rx_free in the interrupt, without the lock: slot, then index. *)
rx_free(c) ==
    /\ isr[c].pc = "free"
    /\ WriteEntry(Rvq(c), Gives(c), isr[c].d)
    /\ isr' = [isr EXCEPT ![c].pc = "publish"]
    /\ UNCHANGED <<idx, consIdx, vq_desc_head_idx, logVars, buf, boot, link_state, mu, task, lock, queue>>

rx_free_publish(c) ==
    /\ isr[c].pc = "publish"
    /\ PublishEntry(Rvq(c), Gives(c))
    /\ isr' = [isr EXCEPT ![c] = [pc |-> "check", d |-> NoDesc]]
    /\ UNCHANGED <<ring, consIdx, vq_desc_head_idx, logVars, buf, boot, link_state, mu, task, lock, queue>>

-----------------------------------------------------------------------------
(* A task runs once its core's init function has returned, and never while *)
(* the core is in the interrupt.                                           *)
Runs(t, pc) ==
    /\ task[t].pc = pc
    /\ boot[CoreOf(t)] = "up"
    /\ isr[CoreOf(t)].pc = "off"

MaySend(c) ==
    /\ link_state[c] = 1
    /\ calls[c] < MsgBound(c)
    /\ HANDSHAKE = "announce" /\ c = "master" => rcvdLog["master"] # <<>>

(* The endpoints of the peer: one with a receive queue, or one whose       *)
(* callback returns RL_RELEASE, as if there were none at the address.      *)
Dests(c) == IF c = "master" THEN REMOTE_EPTS ELSE MASTER_EPTS
NewMsg(c, dst) == [dst |-> dst, id |-> calls[c] + 1]

(* rpmsg_lite_send and rpmsg_lite_format_message up to the first lock. *)
rpmsg_lite_send(t) ==
    LET c == CoreOf(t) IN
    /\ Runs(t, "idle")
    /\ MaySend(c)
    /\ \E dst \in Dests(c), timeout \in TIMEOUTS :
          task' = [task EXCEPT ![t].pc = "alloc", ![t].msg = NewMsg(c, dst), ![t].timeout = timeout]
    /\ calls' = [calls EXCEPT ![c] = @ + 1]
    /\ UNCHANGED <<ringVars, sentLog, rcvdLog, buf, boot, link_state, mu, isr, lock, queue>>

(* rpmsg_lite_alloc_tx_buffer: the same search for a buffer, with no       *)
(* message yet.  A task keeps at most one such buffer (a bound).           *)
rpmsg_lite_alloc_tx_buffer(t) ==
    /\ Runs(t, "idle") /\ task[t].nocopy = NoDesc
    /\ MaySend(CoreOf(t))
    /\ \E timeout \in TIMEOUTS :
          task' = [task EXCEPT ![t].pc = "alloc", ![t].timeout = timeout]
    /\ UNCHANGED <<ringVars, logVars, buf, boot, link_state, mu, isr, lock, queue>>

(* The context of a task after a return, apart from its zero-copy buffer.  *)
Returned(t) ==
    [pc |-> "idle", d |-> NoDesc, msg |-> Empty, tick |-> 0, timeout |-> 0, nocopy |-> task[t].nocopy]

Expired(t) == task[t].timeout # RL_BLOCK /\ task[t].tick >= task[t].timeout

(* Mutant: vq_tx_alloc without the lock. *)
tx_alloc_unlocked(t) ==
    /\ Runs(t, "alloc")
    /\ HasEntry(Tvq(CoreOf(t)), Takes(CoreOf(t)))
    /\ task' = [task EXCEPT ![t].pc = "take"]
    /\ UNCHANGED <<ringVars, logVars, buf, boot, link_state, mu, isr, lock, queue>>

(* vq_tx_alloc under the lock: with no buffer the lock is released and the *)
(* call fails, or sleeps before it tries again.                            *)
tx_alloc(t) ==
    LET c == CoreOf(t) IN
    /\ Runs(t, "alloc")
    /\ lock[c] = NoTask
    /\ \/ /\ HasEntry(Tvq(c), Takes(c))
          /\ lock' = [lock EXCEPT ![c] = t]
          /\ task' = [task EXCEPT ![t].pc = "take"]
       \/ /\ ~HasEntry(Tvq(c), Takes(c))
          /\ task' = [task EXCEPT ![t] = IF Expired(t) THEN Returned(t) ELSE [@ EXCEPT !.pc = "sleep"]]
          /\ UNCHANGED lock
    /\ UNCHANGED <<ringVars, logVars, buf, boot, link_state, mu, isr, queue>>

tx_sleep(t) ==
    /\ Runs(t, "sleep")
    /\ task' = [task EXCEPT ![t].pc = "alloc",
                            ![t].tick = IF task[t].timeout = RL_BLOCK THEN @ ELSE @ + 1]
    /\ UNCHANGED <<ringVars, logVars, buf, boot, link_state, mu, isr, lock, queue>>

(* The slot is read, the lock released; the buffer is now the task's.  A   *)
(* zero-copy caller returns with it.                                       *)
tx_take(t) ==
    LET c == CoreOf(t)
        d == OldestEntry(Tvq(c), Takes(c))
    IN
    /\ Runs(t, "take")
    /\ task' = [task EXCEPT ![t] =
                   IF task[t].msg = Empty
                   THEN [Returned(t) EXCEPT !.nocopy = d]
                   ELSE [@ EXCEPT !.pc = "fill", !.d = d, !.tick = 0, !.timeout = 0]]
    /\ SkipEntry(Tvq(c), Takes(c))
    /\ lock' = [lock EXCEPT ![c] = NoTask]
    /\ UNCHANGED <<idx, ring, vq_desc_head_idx, logVars, buf, boot, link_state, mu, isr, queue>>

(* Header and payload are written without the lock. *)
tx_fill(t) ==
    /\ Runs(t, "fill")
    /\ buf' = [buf EXCEPT ![Tvq(CoreOf(t))][task[t].d] = task[t].msg]
    /\ task' = [task EXCEPT ![t].pc = "enqueue"]
    /\ UNCHANGED <<ringVars, logVars, boot, link_state, mu, isr, lock, queue>>

(* rpmsg_lite_send_nocopy up to the lock; the application wrote the payload. *)
rpmsg_lite_send_nocopy(t) ==
    LET c == CoreOf(t) IN
    /\ Runs(t, "idle") /\ task[t].nocopy # NoDesc
    /\ MaySend(c)
    /\ \E dst \in Dests(c) :
          /\ buf' = [buf EXCEPT ![Tvq(c)][task[t].nocopy] = NewMsg(c, dst)]
          /\ task' = [task EXCEPT ![t].pc = "enqueue", ![t].msg = NewMsg(c, dst),
                                  ![t].d = task[t].nocopy, ![t].nocopy = NoDesc]
    /\ calls' = [calls EXCEPT ![c] = @ + 1]
    /\ UNCHANGED <<ringVars, sentLog, rcvdLog, boot, link_state, mu, isr, lock, queue>>

(* vq_tx under the lock: slot, then index. *)
tx_enqueue(t) ==
    LET c == CoreOf(t) IN
    /\ Runs(t, "enqueue")
    /\ lock[c] = NoTask
    /\ lock' = [lock EXCEPT ![c] = t]
    /\ WriteEntry(Tvq(c), Gives(c), task[t].d)
    /\ task' = [task EXCEPT ![t].pc = "publish"]
    /\ UNCHANGED <<idx, consIdx, vq_desc_head_idx, logVars, buf, boot, link_state, mu, isr, queue>>

tx_publish(t) ==
    LET c == CoreOf(t) IN
    /\ Runs(t, "publish")
    /\ PublishEntry(Tvq(c), Gives(c))
    /\ sentLog' = [sentLog EXCEPT ![c] = Append(@, task[t].msg)]
    /\ task' = [task EXCEPT ![t].pc = "kick", ![t].d = NoDesc, ![t].msg = Empty]
    /\ UNCHANGED <<ring, consIdx, vq_desc_head_idx, calls, rcvdLog, buf, boot, link_state, mu, isr, lock, queue>>

(* Mutant: the call returns with the lock taken. *)
tx_kick_locked(t) ==
    /\ Runs(t, "kick")
    /\ virtqueue_kick(CoreOf(t), Tvq(CoreOf(t)))
    /\ task' = [task EXCEPT ![t].pc = "idle"]
    /\ UNCHANGED <<ringVars, logVars, buf, boot, link_state, isr, lock, queue>>

tx_kick(t) ==
    LET c == CoreOf(t) IN
    /\ Runs(t, "kick")
    /\ virtqueue_kick(c, Tvq(c))
    /\ lock' = [lock EXCEPT ![c] = NoTask]
    /\ task' = [task EXCEPT ![t].pc = "idle"]
    /\ UNCHANGED <<ringVars, logVars, buf, boot, link_state, isr, queue>>

-----------------------------------------------------------------------------
(* rpmsg_queue_recv, and rpmsg_queue_recv_nocopy with the application's use *)
(* of the buffer: the message leaves the queue and the task has its buffer. *)
rpmsg_queue_recv(t) ==
    LET c == CoreOf(t) IN
    /\ Runs(t, "idle")
    /\ queue[c] # <<>>
    /\ task' = [task EXCEPT ![t].pc = "release", ![t].d = Head(queue[c]).d, ![t].msg = Head(queue[c]).msg]
    /\ queue' = [queue EXCEPT ![c] = Tail(@)]
    /\ UNCHANGED <<ringVars, logVars, buf, boot, link_state, mu, isr, lock>>

(* rpmsg_lite_release_rx_buffer: vq_rx_free under the lock, and no kick. *)
rpmsg_lite_release_rx_buffer(t) ==
    LET c == CoreOf(t) IN
    /\ Runs(t, "release")
    /\ lock[c] = NoTask
    /\ lock' = [lock EXCEPT ![c] = t]
    /\ WriteEntry(Rvq(c), Gives(c), task[t].d)
    /\ task' = [task EXCEPT ![t].pc = "released", ![t].msg = Empty]
    /\ UNCHANGED <<idx, consIdx, vq_desc_head_idx, logVars, buf, boot, link_state, mu, isr, queue>>

release_publish(t) ==
    LET c == CoreOf(t) IN
    /\ Runs(t, "released")
    /\ PublishEntry(Rvq(c), Gives(c))
    /\ lock' = [lock EXCEPT ![c] = NoTask]
    /\ task' = [task EXCEPT ![t].pc = "idle", ![t].d = NoDesc]
    /\ UNCHANGED <<ring, consIdx, vq_desc_head_idx, logVars, buf, boot, link_state, mu, isr, queue>>

-----------------------------------------------------------------------------
(* Every message of the bound has been handled: the system waits for ever. *)
Quiescent ==
    /\ \A c \in Core : /\ isr[c].pc = "off" /\ mu[c] = NoWord
                       /\ (boot[c] = "freed" \/ (boot[c] = "up" /\ queue[c] = <<>>))
    /\ \A t \in Task : task[t].pc = "idle" /\ (~MaySend(CoreOf(t)) \/ boot[CoreOf(t)] = "freed")
    /\ UNCHANGED vars

BootStep ==
    \/ \E v \in Vq : master_init_fill(v)
    \/ master_init_link
    \/ master_init_kick
    \/ remote_env_init
    \/ remote_init_rvq
    \/ remote_init_tvq
    \/ remote_init_link

IsrStep(c) ==
    \/ env_isr(c)
    \/ rx_check(c)
    \/ rx_read(c)
    \/ rx_deliver(c)
    \/ rx_free(c)
    \/ rx_free_publish(c)

(* The steps a task takes once it is inside a call. *)
CallStep(t) ==
    \/ tx_alloc(t)
    \/ tx_sleep(t)
    \/ tx_take(t)
    \/ tx_fill(t)
    \/ tx_enqueue(t)
    \/ tx_publish(t)
    \/ tx_kick(t)
    \/ rpmsg_lite_release_rx_buffer(t)
    \/ release_publish(t)

TaskStep(t) ==
    \/ rpmsg_lite_send(t)
    \/ rpmsg_lite_alloc_tx_buffer(t)
    \/ rpmsg_lite_send_nocopy(t)
    \/ rpmsg_queue_recv(t)
    \/ CallStep(t)

Next ==
    \/ BootStep
    \/ \E c \in Core : IsrStep(c) \/ deinit_link(c) \/ deinit_rvq(c) \/ deinit_free(c)
    \/ \E t \in Task : TaskStep(t)
    \/ Quiescent

Spec == Init /\ [][Next]_vars

(***************************************************************************)
(* Fairness: the cores run, a pending interrupt is taken and a call that   *)
(* was entered goes on.  A receiving task keeps calling rpmsg_queue_recv.  *)
(* Nothing obliges an application to send.                                 *)
(***************************************************************************)
Fairness ==
    /\ WF_vars(BootStep)
    /\ \A c \in Core : WF_vars(IsrStep(c))
    /\ \A t \in Task : WF_vars(CallStep(t)) /\ WF_vars(rpmsg_queue_recv(t))

FairSpec == Spec /\ Fairness

-----------------------------------------------------------------------------
Msg == [dst : MASTER_EPTS \union REMOTE_EPTS, id : 1 .. MASTER_MSGS + REMOTE_MSGS]
Boot == {"start", "linked", "env", "rvq", "tvq", "up", "unlinked", "no rvq", "freed"}
IsrState == [pc : {"off", "check", "read", "deliver", "free", "publish"}, d : Desc \union {NoDesc}]
TaskState ==
    [pc : {"idle", "alloc", "sleep", "take", "fill", "enqueue", "publish", "kick", "release", "released"},
     d : Desc \union {NoDesc}, msg : Msg \union {Empty}, tick : Nat, timeout : TIMEOUTS \union {0},
     nocopy : Desc \union {NoDesc}]
QueueEntry == [d : Desc \union {NoDesc}, msg : Msg \union {Empty}]

RingTypes ==
    /\ idx \in [Vq -> [Ring -> Index]]
    /\ ring \in [Vq -> [Ring -> [Desc -> Desc]]]
    /\ consIdx \in [Vq -> [Ring -> Index]]
    /\ vq_desc_head_idx \in [Vq -> 0 .. NENTRIES]
    /\ buf \in [Vq -> [Desc -> Msg \union {Empty}]]

LinkTypes ==
    /\ boot \in [Core -> Boot]
    /\ link_state \in [Core -> {0, 1}]
    /\ mu \in [Core -> Vq \union {NoWord}]

ContextTypes ==
    /\ isr \in [Core -> IsrState]
    /\ task \in [Task -> TaskState]
    /\ lock \in [Core -> Task \union {NoTask}]
    /\ queue \in [Core -> Seq(QueueEntry)] /\ \A c \in Core : Len(queue[c]) <= NENTRIES

LogTypes ==
    /\ calls \in [Core -> Nat] /\ \A c \in Core : calls[c] <= MsgBound(c)
    /\ sentLog \in [Core -> Seq(Msg \union {Empty})]
    /\ rcvdLog \in [Core -> Seq(Msg \union {Empty})]

(* Types of the rings, the contexts and the messages. *)
TypeOK == RingTypes /\ LinkTypes /\ ContextTypes /\ LogTypes

-----------------------------------------------------------------------------
(***************************************************************************)
(* Each vring of the running system implements Virtqueue.  The driver is   *)
(* the master, the device the remote; what a side holds is what its tasks, *)
(* its interrupt and its receive queue hold.                               *)
(***************************************************************************)
TasksOf(c) == IF c = "master" THEN MasterTasks ELSE RemoteTasks

HeldBy(c, v) ==
    IF v = Tvq(c)
    THEN {task[t].d : t \in {u \in TasksOf(c) : task[u].pc \in {"fill", "enqueue"}}}
           \union ({task[t].nocopy : t \in TasksOf(c)} \ {NoDesc})
    ELSE {task[t].d : t \in {u \in TasksOf(c) : task[u].pc = "release"}}
           \union {queue[c][i].d : i \in DOMAIN queue[c]}
           \union (IF isr[c].pc \in {"deliver", "free"} THEN {isr[c].d} ELSE {})

(* The contexts between the slot write and the index update of an end. *)
Putters(c, v) ==
    {task[t].d : t \in {u \in TasksOf(c) : task[u].pc = IF v = Tvq(c) THEN "publish" ELSE "released"}}
      \union (IF v = Rvq(c) /\ isr[c].pc = "publish" THEN {isr[c].d} ELSE {})

Giver(r) == IF r = "avail" THEN "master" ELSE "remote"

puttingBar(v) ==
    [r \in Ring |-> LET P == Putters(Giver(r), v) IN
                    IF P = {} THEN NoDesc ELSE CHOOSE d \in P : TRUE]

readingBar(v) ==
    [r \in Ring |-> LET c == Other(Giver(r)) IN
                    IF v = Tvq(c) THEN \E t \in TasksOf(c) : task[t].pc = "take"
                    ELSE isr[c].pc = "read"]

heldBar(v) ==
    [s \in {"driver", "device"} |-> HeldBy(IF s = "driver" THEN "master" ELSE "remote", v)]

V0 == INSTANCE Virtqueue WITH
    PREFILL <- "avail", idx <- idx[0], ring <- ring[0], consIdx <- consIdx[0],
    vq_desc_head_idx <- vq_desc_head_idx[0],
    putting <- puttingBar(0), reading <- readingBar(0), held <- heldBar(0)

V1 == INSTANCE Virtqueue WITH
    PREFILL <- "used", idx <- idx[1], ring <- ring[1], consIdx <- consIdx[1],
    vq_desc_head_idx <- vq_desc_head_idx[1],
    putting <- puttingBar(1), reading <- readingBar(1), held <- heldBar(1)

(* The calls, callbacks and locks of rpmsg_lite.c use both vrings, 0 from  *)
(* remote to master and 1 from master to remote, as virtqueue.c requires.  *)
VringsImplemented == V0!Spec /\ V1!Spec

(* Exactly once, in order and intact: the messages that rx_callback of one *)
(* core has seen are the first ones that the other core has published.     *)
InOrderDelivery ==
    \A c \in Core :
        LET n == Len(rcvdLog[Other(c)]) IN
        n <= Len(sentLog[c]) /\ rcvdLog[Other(c)] = SubSeq(sentLog[c], 1, n)

(* rpmsg_queue_create sizes the queue by the vring: env_put_queue, which   *)
(* the interrupt calls with no timeout, always finds room, so a message    *)
(* for a queue is never dropped (rpmsg_queue.c:32-39).                     *)
QueueHasRoom ==
    \A c \in Core :
        isr[c].pc = "deliver" /\ buf[Rvq(c)][isr[c].d].dst = "queue" => ~QueueFull(c)

(* A buffer that the application still holds, in the receive queue or in a *)
(* task, keeps its message although the peer goes on sending; so does one  *)
(* that a task filled without the lock and has not yet published.  No      *)
(* message for a queue is dropped: QueueHasRoom.                           *)
HeldMessagesIntact ==
    /\ QueueHasRoom
    /\ \A c \in Core : \A i \in DOMAIN queue[c] :
          buf[Rvq(c)][queue[c][i].d] = queue[c][i].msg
    /\ \A t \in Task :
          /\ task[t].pc = "release" => buf[Rvq(CoreOf(t))][task[t].d] = task[t].msg
          /\ task[t].pc \in {"enqueue", "publish"} => buf[Tvq(CoreOf(t))][task[t].d] = task[t].msg

(* The remote touches the vrings only after the master has filled them,    *)
(* although only link_state, set by a notification, tells it so; and the   *)
(* receive callback of a core never runs on a virtqueue that               *)
(* rpmsg_lite_deinit has freed, whatever kick is still on its way.         *)
RingsUsable ==
    /\ (\/ isr["remote"].pc # "off" /\ isr["remote"].pc # "check"
        \/ \E t \in RemoteTasks : task[t].pc # "idle")
       => RingsFilled
    /\ \A c \in Core : boot[c] = "freed" => isr[c].pc = "off"

(* "Lock the device to enable exclusive access to virtqueues"              *)
(* (rpmsg_lite.c:567), and "VirtQueue already in use" (virtqueue.h:185):   *)
(* never are two contexts of a core inside an update of the same ring.     *)
ExclusiveAccess == \A c \in Core, v \in Vq : Cardinality(Putters(c, v)) <= 1

(* Whatever was published is eventually seen by the other core's           *)
(* rx_callback: a kick that overwrites an unread kick of the same vring    *)
(* loses no message, because the interrupt empties the ring.               *)
EventuallyDelivered ==
    \A c \in Core : \A n \in 1 .. (MASTER_MSGS + REMOTE_MSGS) :
        Len(sentLog[c]) >= n ~> Len(rcvdLog[Other(c)]) >= n

(* A call that was entered returns: the search for a buffer ends, by a     *)
(* released buffer or by the timeout, and no lock is left taken.           *)
CallsReturn == \A t \in Task : task[t].pc # "idle" ~> task[t].pc = "idle"

(* "Let the remote device know that Master is ready for communication"     *)
(* (rpmsg_lite.c:933-936): the kick that ends rpmsg_lite_master_init        *)
(* brings up the remote's link.                                            *)
LinkComesUp == <>(link_state["remote"] = 1)
=============================================================================
