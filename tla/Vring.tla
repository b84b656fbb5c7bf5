------------------------------- MODULE Vring -------------------------------
(***************************************************************************)
(* The index arithmetic of a vring (virtio_ring.h, virtqueue.c): the       *)
(* free-running uint16_t indices of the avail and used rings, the slot an  *)
(* index selects and the number of entries between two indices.  Every     *)
(* module that touches a vring uses these operators.                       *)
(***************************************************************************)
EXTENDS Integers

CONSTANTS
    NENTRIES,   \* vq_nentries, RL_BUFFER_COUNT in the code
    IDX_MOD     \* 2^16 in the code: the indices are uint16_t

(***************************************************************************)
(* num is a power of two (virtio_ring.h:99) of at most 2^15                *)
(* (virtqueue.h:64), hence a proper divisor of 2^16.  A proper divisor is  *)
(* all that the masking with vq_nentries - 1 relies on.                    *)
(***************************************************************************)
ASSUME VringAssumption ==
    /\ NENTRIES \in Nat \ {0}
    /\ IDX_MOD \in Nat
    /\ \E q \in 2 .. IDX_MOD : IDX_MOD = q * NENTRIES

Desc == 0 .. NENTRIES - 1       \* indices of the descriptor table

Index == 0 .. IDX_MOD - 1       \* values of a uint16_t ring index

(* Mutant: the index is wider than the field it is stored in. *)
IdxInc_nowrap(i) == i + 1

(* The ++ of a uint16_t ring index. *)
IdxInc(i) == (i + 1) % IDX_MOD

(* idx & (vq_nentries - 1): the ring slot that a free-running index names. *)
Slot(i) == i % NENTRIES

(* (uint16_t)(producer index - consumer index), as in virtqueue_nused. *)
IdxDiff(prod, cons) == (prod - cons) % IDX_MOD

(* The slots of a fresh vring: the master clears the shared memory. *)
ZeroedRing == [s \in Desc |-> 0]
=============================================================================
