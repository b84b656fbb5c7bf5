----------------------------- MODULE Virtqueue -----------------------------
(***************************************************************************)
(* One vring of RPMsg-Lite and the virtqueue.c operations of its two       *)
(* sides.  The "driver" is the master core: it fills the ring, takes       *)
(* descriptors from the used ring and gives them back on the avail ring.   *)
(* The "device" is the remote core and does the reverse.  Each ring end    *)
(* has one user at a time (what VQUEUE_BUSY asserts, virtqueue.h:181);     *)
(* RpmsgLite.tla examines whether the callers keep that rule.  The steps   *)
(* are the accesses to shared memory, so the cores interleave between the  *)
(* slot write and the index update of one producer, and between the index  *)
(* test and the slot read of one consumer.                                 *)
(*                                                                         *)
(*   idx["avail"]     vq_ring.avail->idx    idx["used"]   vq_ring.used->idx *)
(*   consIdx["avail"] vq_available_idx      consIdx["used"] vq_used_cons_idx *)
(***************************************************************************)
EXTENDS Vring, FiniteSets

CONSTANTS
    PREFILL,    \* the ring rpmsg_lite_master_init fills: "avail" for the
                \* master's rx vring, "used" for its tx vring
    NoDesc      \* no descriptor is being put

Ring == {"avail", "used"}
Side == {"driver", "device"}

ASSUME VirtqueueAssumption == PREFILL \in Ring /\ NoDesc \notin Desc

VARIABLES
    idx,        \* shared producer index of each ring
    ring,       \* shared slots of each ring
    consIdx,    \* private consumer index of each ring
    vq_desc_head_idx,  \* next descriptor the driver fills
    putting,    \* descriptor whose slot is written and not yet published
    reading,    \* the consumer saw an entry and has not read its slot
    held        \* descriptors each side has taken and not yet given back

vars == <<idx, ring, consIdx, vq_desc_head_idx, putting, reading, held>>

Producer(r) == IF r = "avail" THEN "driver" ELSE "device"
Consumer(r) == IF r = "avail" THEN "device" ELSE "driver"

(* The master has filled the ring: only then does either side use it. *)
Filled == vq_desc_head_idx = NENTRIES

Init ==
    /\ idx = [r \in Ring |-> 0]
    /\ ring = [r \in Ring |-> ZeroedRing]
    /\ consIdx = [r \in Ring |-> 0]
    /\ vq_desc_head_idx = 0
    /\ putting = [r \in Ring |-> NoDesc]
    /\ reading = [r \in Ring |-> FALSE]
    /\ held = [s \in Side |-> {}]

(***************************************************************************)
(* Filling, by the driver alone before the device is told of the ring.     *)
(***************************************************************************)
FillRing(r) ==
    /\ ~Filled
    /\ ring' = [ring EXCEPT ![r][Slot(idx[r])] = vq_desc_head_idx]
    /\ idx' = [idx EXCEPT ![r] = IdxInc(@)]
    /\ vq_desc_head_idx' = vq_desc_head_idx + 1
    /\ UNCHANGED <<consIdx, putting, reading, held>>

virtqueue_fill_avail_buffers == FillRing("avail")
virtqueue_fill_used_buffers == FillRing("used")

(* rpmsg_lite_master_init fills the avail ring of its rx vring and the     *)
(* used ring of its tx vring.                                              *)
virtqueue_fill_buffers ==
    IF PREFILL = "avail" THEN virtqueue_fill_avail_buffers ELSE virtqueue_fill_used_buffers

(***************************************************************************)
(* Giving a descriptor to the other side: write the slot, then (after the  *)
(* write barrier) advance the index.                                       *)
(***************************************************************************)
(* Mutant: the caller goes on using a buffer that it has given away. *)
WriteSlot_kept(r, d) ==
    /\ Filled
    /\ putting[r] = NoDesc
    /\ d \in held[Producer(r)]
    /\ ring' = [ring EXCEPT ![r][Slot(idx[r])] = d]
    /\ putting' = [putting EXCEPT ![r] = d]
    /\ UNCHANGED <<idx, consIdx, vq_desc_head_idx, reading, held>>

(* Mutant: a descriptor is given back that the caller does not hold. *)
WriteSlot_again(r, d) ==
    /\ Filled
    /\ putting[r] = NoDesc
    /\ ring' = [ring EXCEPT ![r][Slot(idx[r])] = d]
    /\ putting' = [putting EXCEPT ![r] = d]
    /\ UNCHANGED <<idx, consIdx, vq_desc_head_idx, reading, held>>

WriteSlot(r, d) ==
    /\ Filled
    /\ putting[r] = NoDesc
    /\ d \in held[Producer(r)]
    /\ ring' = [ring EXCEPT ![r][Slot(idx[r])] = d]
    /\ putting' = [putting EXCEPT ![r] = d]
    /\ held' = [held EXCEPT ![Producer(r)] = @ \ {d}]
    /\ UNCHANGED <<idx, consIdx, vq_desc_head_idx, reading>>

PublishSlot(r) ==
    /\ putting[r] # NoDesc
    /\ idx' = [idx EXCEPT ![r] = IdxInc(@)]
    /\ putting' = [putting EXCEPT ![r] = NoDesc]
    /\ UNCHANGED <<ring, consIdx, vq_desc_head_idx, reading, held>>

virtqueue_add_buffer(d) == WriteSlot("avail", d)

vq_ring_update_avail == PublishSlot("avail")

(* The range test of virtqueue_add_consumed_buffer precedes the update. *)
virtqueue_add_consumed_buffer(d) == ~(d > NENTRIES) /\ WriteSlot("used", d)

vq_ring_update_used == PublishSlot("used")

(***************************************************************************)
(* Taking a descriptor from the other side: find the ring not empty, then  *)
(* read the slot and advance the private index.  A get that finds the ring *)
(* empty returns NULL and changes nothing.                                 *)
(***************************************************************************)
(* Mutant: no test for an empty ring. *)
SeeEntry_blind(r) ==
    /\ Filled
    /\ ~reading[r]
    /\ reading' = [reading EXCEPT ![r] = TRUE]
    /\ UNCHANGED <<idx, ring, consIdx, vq_desc_head_idx, putting, held>>

SeeEntry(r) ==
    /\ Filled
    /\ ~reading[r]
    /\ consIdx[r] # idx[r]
    /\ reading' = [reading EXCEPT ![r] = TRUE]
    /\ UNCHANGED <<idx, ring, consIdx, vq_desc_head_idx, putting, held>>

(* Mutant: the consumer index is not advanced. *)
ReadEntry_again(r) ==
    /\ reading[r]
    /\ held' = [held EXCEPT ![Consumer(r)] = @ \union {ring[r][Slot(consIdx[r])]}]
    /\ reading' = [reading EXCEPT ![r] = FALSE]
    /\ UNCHANGED <<idx, ring, consIdx, vq_desc_head_idx, putting>>

ReadEntry(r) ==
    /\ reading[r]
    /\ held' = [held EXCEPT ![Consumer(r)] = @ \union {ring[r][Slot(consIdx[r])]}]
    /\ consIdx' = [consIdx EXCEPT ![r] = IdxInc(@)]
    /\ reading' = [reading EXCEPT ![r] = FALSE]
    /\ UNCHANGED <<idx, ring, vq_desc_head_idx, putting>>

virtqueue_get_buffer == SeeEntry("used") \/ ReadEntry("used")

virtqueue_get_available_buffer == SeeEntry("avail") \/ ReadEntry("avail")

Next ==
    \/ virtqueue_fill_buffers
    \/ \E d \in Desc : virtqueue_add_buffer(d)
    \/ vq_ring_update_avail
    \/ \E d \in Desc : virtqueue_add_consumed_buffer(d)
    \/ vq_ring_update_used
    \/ virtqueue_get_buffer
    \/ virtqueue_get_available_buffer

Spec == Init /\ [][Next]_vars

-----------------------------------------------------------------------------
(* Entries published on r and not yet taken. *)
Pending(r) == IdxDiff(idx[r], consIdx[r])

(* The k-th pending entry of r, the oldest being entry 0. *)
Entry(r, k) == ring[r][Slot(consIdx[r] + k)]

(* One descriptor is in flight while a put is between its two writes. *)
InFlight(r) == IF putting[r] = NoDesc THEN 0 ELSE 1

(* Types of the shared rings, the indices and the two sides' local state. *)
TypeOK ==
    /\ idx \in [Ring -> Index]
    /\ ring \in [Ring -> [Desc -> Desc]]
    /\ consIdx \in [Ring -> Index]
    /\ vq_desc_head_idx \in 0 .. NENTRIES
    /\ putting \in [Ring -> Desc \union {NoDesc}]
    /\ reading \in [Ring -> BOOLEAN]
    /\ held \in [Side -> SUBSET Desc]

(* virtqueue_nused: "used more than available" (virtqueue.c:699), for both *)
(* rings and across the wrap of the 16-bit indices; together with what the *)
(* sides hold, the entries never exceed the filled descriptors, so no      *)
(* buffer is ever created or lost.                                         *)
NoBufferLost ==
    Pending("avail") + Pending("used") + InFlight("avail") + InFlight("used")
      + Cardinality(held["driver"]) + Cardinality(held["device"])
    = vq_desc_head_idx

(* One owner: no descriptor is twice in a ring, in two rings, or in a ring *)
(* and in the hands of a side.  It is what lets rpmsg_lite fill and read a *)
(* buffer without the lock (rpmsg_lite.c:592-598).                         *)
SingleOwner ==
    /\ \A r, q \in Ring : \A j \in 0 .. Pending(r) - 1, k \in 0 .. Pending(q) - 1 :
          Entry(r, j) = Entry(q, k) => r = q /\ j = k
    /\ \A r, q \in Ring : \A k \in 0 .. Pending(r) - 1 : Entry(r, k) # putting[q]
    /\ \A r \in Ring, s \in Side : \A k \in 0 .. Pending(r) - 1 : Entry(r, k) \notin held[s]
    /\ \A r \in Ring, s \in Side : putting[r] \notin held[s]
    /\ putting["avail"] = putting["used"] => putting["avail"] = NoDesc
    /\ \A d \in Desc : ~(d \in held["driver"] /\ d \in held["device"])

(* A producer never overwrites a slot whose entry the other side has yet   *)
(* to read (vq_ring_update_avail, vq_ring_update_used): whatever a step    *)
(* does, the entries pending before it and still pending after it are the  *)
(* same descriptors.                                                       *)
NoOverwrite ==
    [][\A r \in Ring : \A k \in 0 .. Pending(r) - 1 :
          consIdx'[r] = consIdx[r] => Entry(r, k)' = Entry(r, k)]_vars

-----------------------------------------------------------------------------
(***************************************************************************)
(* The vring implements two first-in first-out channels of buffers.  A     *)
(* descriptor still belongs to its producer while it is in flight.         *)
(***************************************************************************)
chanBar == [r \in Ring |-> [k \in 1 .. Pending(r) |-> Entry(r, k - 1)]]

ownBar ==
    [s \in Side |-> held[s] \union {d \in Desc : \E r \in Ring : s = Producer(r) /\ d = putting[r]}]

freshBar == Desc \ (0 .. vq_desc_head_idx - 1)

Exchange == INSTANCE BufferExchange
    WITH Buffer <- Desc, Channel <- Ring, Party <- Side, Giver <- [r \in Ring |-> Producer(r)],
         Taker <- [r \in Ring |-> Consumer(r)],
         fresh <- freshBar, chan <- chanBar, own <- ownBar

(* The vring of virtqueue.c implements the exchange of buffers over two    *)
(* FIFO channels: what one side takes is what the other gave, once and in  *)
(* the order it was given.                                                 *)
ImplementsExchange == Exchange!Spec
=============================================================================
