-------------------------- MODULE VirtqueueProofs --------------------------
(***************************************************************************)
(* The safety of one vring, for every ring size and index width: the       *)
(* inductive invariant IInv joins the properties of Virtqueue.tla with     *)
(* what the two-step operations of each side leave between their steps.    *)
(* NoBufferLost bounds the entries of a ring by its slots (RoomInRing); so *)
(* the slot that a producer writes is free (WriteKeepsEntries), entries    *)
(* move only by publication and reading (PublishEffect, ReadEffect), and   *)
(* each operation preserves SingleOwner.                                   *)
(***************************************************************************)
EXTENDS Virtqueue, FiniteSetTheorems, SequenceTheorems, TLAPS

-----------------------------------------------------------------------------
(* The index arithmetic of Vring.tla, for every number of entries that     *)
(* divides the range of the indices.                                       *)

(* The ring has at least one slot and fewer slots than a uint16_t index    *)
(* has values (RL_BUFFER_COUNT against 2^16).                              *)
LEMMA ConstTypes ==
    /\ NENTRIES \in Nat \ {0}
    /\ IDX_MOD \in Nat \ {0}
    /\ NENTRIES < IDX_MOD
<1>1. PICK q \in 2 .. IDX_MOD : IDX_MOD = q * NENTRIES
  BY VringAssumption
<1>2. NENTRIES < q * NENTRIES
  BY VringAssumption
<1> QED
  BY <1>1, <1>2, VringAssumption

(* The ++ of a ring index stays a uint16_t: it adds one, or wraps from the *)
(* last value to 0.                                                        *)
LEMMA IdxIncCases ==
    ASSUME NEW i \in Index
    PROVE  /\ IdxInc(i) \in Index
           /\ i + 1 < IDX_MOD => IdxInc(i) = i + 1
           /\ i + 1 = IDX_MOD => IdxInc(i) = 0
  BY ConstTypes DEF IdxInc, Index

(* The uint16_t subtraction of virtqueue_nused is the distance between two *)
(* indices, whether or not the producer index has wrapped past the         *)
(* consumer index.                                                         *)
LEMMA IdxDiffCases ==
    ASSUME NEW p \in Index, NEW c \in Index
    PROVE  IdxDiff(p, c) = IF c <= p THEN p - c ELSE p - c + IDX_MOD
<1>1. CASE c <= p
  BY <1>1, ConstTypes DEF IdxDiff, Index
<1>2. CASE ~(c <= p)
  <2>1. p - c + IDX_MOD \in 0 .. IDX_MOD - 1
    BY <1>2, ConstTypes DEF Index
  <2>2. (p - c) % IDX_MOD = p - c + IDX_MOD
    BY <2>1, ConstTypes DEF Index
  <2> QED
    BY <1>2, <2>2 DEF IdxDiff, Index
<1> QED
  BY <1>1, <1>2

(* Division with remainder of naturals, in the form that the slot          *)
(* arithmetic (idx & (vq_nentries - 1)) uses.                              *)
LEMMA DivMod ==
    ASSUME NEW n \in Nat \ {0}, NEW a \in Nat
    PROVE  a % n \in 0 .. n - 1 /\ \E q \in Nat : a = n * q + (a % n)
<1>1. a % n \in 0 .. n - 1
  OBVIOUS
<1>2. a \div n \in Nat /\ a = n * (a \div n) + (a % n)
  OBVIOUS
<1> QED
  BY <1>1, <1>2

(* Multiples of n with different factors are at least n apart. *)
LEMMA QuotientGap ==
    ASSUME NEW n \in Nat \ {0}, NEW q1 \in Nat, NEW q2 \in Nat, q1 < q2
    PROVE  n * q1 + n <= n * q2
<1>1. PICK e \in Nat : q2 = q1 + 1 + e
  <2>1. q2 - q1 - 1 \in Nat /\ q2 = q1 + 1 + (q2 - q1 - 1)
    OBVIOUS
  <2> QED
    BY <2>1
<1>2. n * (q1 + 1 + e) = n * q1 + n + n * e
  OBVIOUS
<1>3. n * e \in Nat
  OBVIOUS
<1> QED
  BY <1>1, <1>2, <1>3

(* Quotient and remainder are unique. *)
LEMMA DivModUnique ==
    ASSUME NEW n \in Nat \ {0}, NEW q1 \in Nat, NEW q2 \in Nat,
           NEW r1 \in 0 .. n - 1, NEW r2 \in 0 .. n - 1,
           n * q1 + r1 = n * q2 + r2
    PROVE  q1 = q2 /\ r1 = r2
<1>1. ~(q1 < q2)
  BY QuotientGap
<1>2. ~(q2 < q1)
  BY QuotientGap
<1>3. q1 = q2
  BY <1>1, <1>2
<1> QED
  BY <1>3

(* A number written as a multiple of n plus a remainder has that remainder *)
(* modulo n.                                                               *)
LEMMA ModUnique ==
    ASSUME NEW n \in Nat \ {0}, NEW a \in Nat, NEW q \in Nat, NEW r \in 0 .. n - 1,
           a = n * q + r
    PROVE  a % n = r
<1>1. PICK q1 \in Nat : a = n * q1 + (a % n)
  BY DivMod
<1>2. PICK r1 \in 0 .. n - 1 : r1 = a % n
  BY DivMod
<1> QED
  BY <1>1, <1>2, DivModUnique

(* Adding a multiple of n does not change the remainder: the slot of an    *)
(* index survives the wrap of the index.                                   *)
LEMMA ModShift ==
    ASSUME NEW n \in Nat \ {0}, NEW q \in Nat, NEW k \in Nat, NEW m \in Nat, m = q * n
    PROVE  (m + k) % n = k % n
<1>1. PICK q1 \in Nat : k = n * q1 + (k % n)
  BY DivMod
<1>2. PICK r \in 0 .. n - 1 : r = k % n
  BY DivMod
<1>3. n * (q + q1) = m + n * q1
  OBVIOUS
<1>4. n * q1 \in Nat
  OBVIOUS
<1>5. m + k = n * (q + q1) + r
  BY <1>1, <1>2, <1>3, <1>4
<1>6. q + q1 \in Nat /\ m + k \in Nat
  OBVIOUS
<1>7. (m + k) % n = r
  BY <1>5, <1>6, ModUnique
<1> QED
  BY <1>2, <1>7

(* Two numbers less than n apart have different remainders: n successive   *)
(* indices name n different slots.                                         *)
LEMMA ModDistinct ==
    ASSUME NEW n \in Nat \ {0}, NEW a \in Nat, NEW b \in Nat, a < b, b < a + n
    PROVE  a % n # b % n
<1>1. PICK q1 \in Nat : a = n * q1 + (a % n)
  BY DivMod
<1>2. PICK q2 \in Nat : b = n * q2 + (b % n)
  BY DivMod
<1>3. /\ n * q1 \in Nat
      /\ n * q2 \in Nat
      /\ a % n \in Nat
  BY DivMod
<1> SUFFICES ASSUME a % n = b % n
             PROVE  FALSE
  OBVIOUS
<1>4. n * q1 < n * q2 /\ n * q2 < n * q1 + n
  BY <1>1, <1>2, <1>3
<1>5. ~(q1 < q2)
  BY <1>4, <1>3, QuotientGap
<1>6. ~(q2 < q1)
  BY <1>4, <1>3, QuotientGap
<1> QED
  BY <1>4, <1>5, <1>6
-----------------------------------------------------------------------------
(* An index past the end of uint16_t names the slot of the wrapped index,  *)
(* because vq_nentries divides 2^16.                                       *)
LEMMA SlotPeriod ==
    ASSUME NEW k \in Nat
    PROVE  Slot(IDX_MOD + k) = Slot(k)
<1>1. PICK q \in Nat : IDX_MOD = q * NENTRIES
  BY VringAssumption
<1>2. IDX_MOD \in Nat /\ NENTRIES \in Nat \ {0}
  BY VringAssumption
<1>3. (IDX_MOD + k) % NENTRIES = k % NENTRIES
  BY <1>1, <1>2, ModShift, Zenon
<1> QED
  BY <1>3 DEF Slot

(* Counting on from a ring index after its ++ gives the slots that         *)
(* counting from the old value gives.                                      *)
LEMMA SlotWrap ==
    ASSUME NEW i \in Index, NEW k \in Nat
    PROVE  Slot(IdxInc(i) + k) = Slot(i + 1 + k)
<1>1. CASE i + 1 < IDX_MOD
  BY <1>1, IdxIncCases
<1>2. CASE i + 1 = IDX_MOD
  <2>1. IdxInc(i) + k = k /\ i + 1 + k = IDX_MOD + k
    BY <1>2, IdxIncCases
  <2> QED
    BY <2>1, SlotPeriod
<1> QED
  BY <1>1, <1>2, ConstTypes DEF Index

(* Fewer than vq_nentries successive indices name different slots, so      *)
(* entries of one ring do not share a slot.                                *)
LEMMA SlotDistinct ==
    ASSUME NEW i \in Nat, NEW j \in Nat, NEW k \in Nat, j < k, k < j + NENTRIES
    PROVE  Slot(i + j) # Slot(i + k)
<1>1. /\ i + j \in Nat
      /\ i + k \in Nat
      /\ i + j < i + k
      /\ i + k < (i + j) + NENTRIES
  BY ConstTypes
<1> QED
  BY <1>1, ModDistinct, ConstTypes DEF Slot

(* Every index names a slot of the ring. *)
LEMMA SlotType ==
    ASSUME NEW i \in Nat
    PROVE  Slot(i) \in Desc
  BY ConstTypes, DivMod DEF Slot, Desc

(* The slot after the last pending entry is the one that the producer      *)
(* index names, where vq_ring_update_avail and vq_ring_update_used write.  *)
LEMMA SlotOfEnd ==
    ASSUME NEW p \in Index, NEW c \in Index
    PROVE  Slot(c + IdxDiff(p, c)) = Slot(p)
<1>1. CASE c <= p
  BY <1>1, IdxDiffCases, ConstTypes DEF Index
<1>2. CASE ~(c <= p)
  <2>1. c + IdxDiff(p, c) = IDX_MOD + p /\ p \in Nat
    BY <1>2, IdxDiffCases, ConstTypes DEF Index
  <2> QED
    BY <2>1, SlotPeriod
<1> QED
  BY <1>1, <1>2

(* The number of pending entries: zero exactly for equal indices, one more *)
(* after a publication while it is below 2^16 - 1, one less after a read.  *)
LEMMA IdxDiffSteps ==
    ASSUME NEW p \in Index, NEW c \in Index
    PROVE  /\ IdxDiff(p, c) \in Index
           /\ IdxDiff(p, c) = 0 <=> p = c
           /\ IdxDiff(p, c) + 1 < IDX_MOD => IdxDiff(IdxInc(p), c) = IdxDiff(p, c) + 1
           /\ p # c => IdxDiff(p, IdxInc(c)) = IdxDiff(p, c) - 1
<1>1. IdxInc(p) \in Index /\ IdxInc(c) \in Index
  BY IdxIncCases
<1>2. IdxDiff(p, c) \in Index /\ (IdxDiff(p, c) = 0 <=> p = c)
  BY IdxDiffCases, ConstTypes DEF Index
<1>3. ASSUME IdxDiff(p, c) + 1 < IDX_MOD
      PROVE  IdxDiff(IdxInc(p), c) = IdxDiff(p, c) + 1
  <2>1. CASE p + 1 < IDX_MOD
    <3>1. IdxInc(p) = p + 1
      BY <2>1, IdxIncCases
    <3>2. IdxDiff(IdxInc(p), c) = IF c <= IdxInc(p) THEN IdxInc(p) - c ELSE IdxInc(p) - c + IDX_MOD
      BY <1>1, IdxDiffCases
    <3> QED
      BY <1>3, <3>1, <3>2, IdxDiffCases, ConstTypes DEF Index
  <2>2. CASE p + 1 = IDX_MOD
    <3>1. IdxInc(p) = 0
      BY <2>2, IdxIncCases
    <3>2. IdxDiff(IdxInc(p), c) = IF c <= 0 THEN 0 - c ELSE 0 - c + IDX_MOD
      BY <1>1, <3>1, IdxDiffCases
    <3> QED
      BY <1>3, <2>2, <3>2, IdxDiffCases, ConstTypes DEF Index
  <2> QED
    BY <2>1, <2>2, ConstTypes DEF Index
<1>4. ASSUME p # c
      PROVE  IdxDiff(p, IdxInc(c)) = IdxDiff(p, c) - 1
  <2>1. CASE c + 1 < IDX_MOD
    <3>1. IdxInc(c) = c + 1
      BY <2>1, IdxIncCases
    <3>2. IdxDiff(p, IdxInc(c)) = IF c + 1 <= p THEN p - (c + 1) ELSE p - (c + 1) + IDX_MOD
      BY <1>1, <3>1, IdxDiffCases
    <3> QED
      BY <1>4, <3>2, IdxDiffCases, ConstTypes DEF Index
  <2>2. CASE c + 1 = IDX_MOD
    <3>1. IdxInc(c) = 0
      BY <2>2, IdxIncCases
    <3>2. IdxDiff(p, IdxInc(c)) = IF 0 <= p THEN p - 0 ELSE p - 0 + IDX_MOD
      BY <1>1, <3>1, IdxDiffCases
    <3> QED
      BY <1>4, <2>2, <3>2, IdxDiffCases, ConstTypes DEF Index
  <2> QED
    BY <2>1, <2>2, ConstTypes DEF Index
<1> QED
  BY <1>2, <1>3, <1>4

-----------------------------------------------------------------------------
(* A consumer that saw an entry still has it to read. *)
ReadingInv == \A r \in Ring : reading[r] => consIdx[r] # idx[r]

(* A put between its two writes has left its descriptor in the slot that   *)
(* the next value of the index publishes.                                  *)
PuttingInv ==
    \A r \in Ring : putting[r] # NoDesc => ring[r][Slot(idx[r])] = putting[r]

(* While the ring is being filled, nobody uses it and it holds, in order,  *)
(* the descriptors filled so far.                                          *)
FillingInv ==
    ~Filled =>
      /\ consIdx = [r \in Ring |-> 0]
      /\ putting = [r \in Ring |-> NoDesc]
      /\ reading = [r \in Ring |-> FALSE]
      /\ held = [s \in Side |-> {}]
      /\ idx = [r \in Ring |-> IF r = PREFILL THEN vq_desc_head_idx ELSE 0]
      /\ \A d \in 0 .. vq_desc_head_idx - 1 : ring[PREFILL][d] = d

(* The inductive invariant. *)
IInv ==
    /\ TypeOK
    /\ NoBufferLost
    /\ SingleOwner
    /\ ReadingInv
    /\ PuttingInv
    /\ FillingInv

-----------------------------------------------------------------------------
(* What a side holds is a finite set of descriptors. *)
LEMMA HeldFinite ==
    ASSUME TypeOK, NEW s \in Side
    PROVE  IsFiniteSet(held[s]) /\ Cardinality(held[s]) \in Nat
<1>1. IsFiniteSet(Desc)
  BY ConstTypes, FS_Interval DEF Desc
<1>2. held[s] \in SUBSET Desc
  BY DEF TypeOK
<1> QED
  BY <1>1, <1>2, FS_Subset, FS_CardinalityType

(* The number of pending entries is a uint16_t, and zero exactly when the  *)
(* get functions of virtqueue.c find the ring empty.                       *)
LEMMA PendingType ==
    ASSUME TypeOK, NEW r \in Ring
    PROVE  /\ Pending(r) \in Index
           /\ Pending(r) \in Nat
           /\ Pending(r) = 0 <=> idx[r] = consIdx[r]
<1>1. idx[r] \in Index /\ consIdx[r] \in Index
  BY DEF TypeOK
<1>2. /\ Pending(r) \in Index
      /\ Pending(r) = 0 <=> idx[r] = consIdx[r]
  BY <1>1, IdxDiffSteps DEF Pending
<1> QED
  BY <1>2 DEF Index

(* Whatever a get function reads from a slot is the index of a descriptor. *)
LEMMA EntryType ==
    ASSUME TypeOK, NEW r \in Ring, NEW k \in Nat
    PROVE  Entry(r, k) \in Desc
<1>1. consIdx[r] + k \in Nat
  BY DEF TypeOK, Index
<1>2. Slot(consIdx[r] + k) \in Desc
  BY <1>1, SlotType
<1> QED
  BY <1>2 DEF TypeOK, Entry

(* No ring ever holds more entries than it has slots, and one that a side  *)
(* is about to add to has a free slot.                                     *)
LEMMA RoomInRing ==
    ASSUME TypeOK, NoBufferLost, NEW r \in Ring
    PROVE  /\ Pending(r) <= NENTRIES
           /\ putting[r] # NoDesc => Pending(r) < NENTRIES
           /\ (\E s \in Side : held[s] # {}) => Pending(r) < NENTRIES
           /\ ~Filled => Pending(r) < NENTRIES
<1>1. /\ Pending("avail") \in Nat
      /\ Pending("used") \in Nat
  BY PendingType DEF Ring
<1>2. /\ Cardinality(held["driver"]) \in Nat
      /\ Cardinality(held["device"]) \in Nat
  BY HeldFinite DEF Side
<1>3. ASSUME NEW s \in Side, held[s] # {}
      PROVE  Cardinality(held[s]) > 0
  BY <1>3, HeldFinite, FS_EmptySet
<1>4. vq_desc_head_idx \in 0 .. NENTRIES /\ NENTRIES \in Nat
  BY ConstTypes DEF TypeOK
<1>5. r = "avail" \/ r = "used"
  BY DEF Ring
<1>6. InFlight("avail") \in {0, 1} /\ InFlight("used") \in {0, 1}
  BY DEF InFlight
<1>7. Pending(r) <= NENTRIES /\ (~Filled => Pending(r) < NENTRIES)
  BY <1>1, <1>2, <1>4, <1>5, <1>6 DEF NoBufferLost, Filled
<1>8. ASSUME putting[r] # NoDesc
      PROVE  Pending(r) < NENTRIES
  <2>1. InFlight(r) = 1
    BY <1>8 DEF InFlight
  <2> QED
    BY <1>1, <1>2, <1>4, <1>5, <1>6, <2>1 DEF NoBufferLost
<1>9. ASSUME NEW s \in Side, held[s] # {}
      PROVE  Pending(r) < NENTRIES
  <2>1. Cardinality(held[s]) > 0
    BY <1>3, <1>9
  <2> QED
    BY <1>1, <1>2, <1>4, <1>5, <1>6, <2>1 DEF NoBufferLost, Side
<1> QED
  BY <1>7, <1>8, <1>9

-----------------------------------------------------------------------------
(* What a slot write does to the entries: nothing, because the slot that   *)
(* the producer index names is outside the window of pending entries.      *)
LEMMA WriteKeepsEntries ==
    ASSUME IInv, NEW r \in Ring, NEW d \in Desc,
           Pending(r) < NENTRIES,
           ring' = [ring EXCEPT ![r][Slot(idx[r])] = d],
           NEW q \in Ring, NEW k \in 0 .. Pending(q) - 1,
           consIdx'[q] = consIdx[q]
    PROVE  Entry(q, k)' = Entry(q, k)
<1>1. CASE q # r
  BY <1>1 DEF Entry, IInv, TypeOK
<1>2. CASE q = r
  <2>1. /\ consIdx[r] \in Nat
        /\ idx[r] \in Index
        /\ consIdx[r] \in Index
    BY DEF IInv, TypeOK, Index
  <2>2. Pending(r) \in Nat
    BY PendingType DEF IInv
  <2>3. Slot(consIdx[r] + k) # Slot(consIdx[r] + Pending(r))
    BY <1>2, <2>1, <2>2, SlotDistinct, ConstTypes
  <2>4. Slot(consIdx[r] + k) # Slot(idx[r])
    BY <2>1, <2>3, SlotOfEnd DEF Pending
  <2>5. ring'[r][Slot(consIdx[r] + k)] = ring[r][Slot(consIdx[r] + k)]
    BY <2>4 DEF IInv, TypeOK
  <2> QED
    BY <1>2, <2>5 DEF Entry
<1> QED
  BY <1>1, <1>2

(* What an index update does: the entry in the slot becomes the youngest.  *)
LEMMA PublishEffect ==
    ASSUME IInv, NEW r \in Ring,
           Pending(r) < NENTRIES,
           idx' = [idx EXCEPT ![r] = IdxInc(@)],
           consIdx' = consIdx
    PROVE  /\ Pending(r)' = Pending(r) + 1
           /\ \A q \in Ring \ {r} : Pending(q)' = Pending(q)
           /\ \A k \in Nat : k = Pending(r) => Entry(r, k)' = ring'[r][Slot(idx[r])]
           /\ idx' \in [Ring -> Index]
<1>1. idx[r] \in Index /\ consIdx[r] \in Index
  BY DEF IInv, TypeOK
<1>2. Pending(r) + 1 < IDX_MOD
  BY PendingType, ConstTypes DEF IInv
<1>3. IdxDiff(IdxInc(idx[r]), consIdx[r]) = IdxDiff(idx[r], consIdx[r]) + 1
  BY <1>1, <1>2, IdxDiffSteps DEF Pending
<1>4. idx'[r] = IdxInc(idx[r]) /\ \A q \in Ring \ {r} : idx'[q] = idx[q]
  BY DEF IInv, TypeOK
<1>5. idx' \in [Ring -> Index]
  BY <1>1, IdxIncCases DEF IInv, TypeOK
<1>6. Slot(consIdx[r] + Pending(r)) = Slot(idx[r])
  BY <1>1, SlotOfEnd DEF Pending
<1> QED
  BY <1>3, <1>4, <1>5, <1>6 DEF Pending, Entry

(* What a read does: the oldest entry leaves, the others move up by one.   *)
LEMMA ReadEffect ==
    ASSUME IInv, NEW r \in Ring,
           consIdx[r] # idx[r],
           consIdx' = [consIdx EXCEPT ![r] = IdxInc(@)],
           idx' = idx, ring' = ring
    PROVE  /\ Pending(r) > 0
           /\ Pending(r)' = Pending(r) - 1
           /\ \A q \in Ring \ {r} : Pending(q)' = Pending(q)
           /\ \A k \in Nat : Entry(r, k)' = Entry(r, k + 1)
           /\ \A q \in Ring \ {r} : \A k \in Nat : Entry(q, k)' = Entry(q, k)
           /\ consIdx' \in [Ring -> Index]
<1>1. idx[r] \in Index /\ consIdx[r] \in Index
  BY DEF IInv, TypeOK
<1>2. Pending(r) > 0
  BY PendingType DEF IInv
<1>3. IdxDiff(idx[r], IdxInc(consIdx[r])) = IdxDiff(idx[r], consIdx[r]) - 1
  BY <1>1, IdxDiffSteps
<1>4. consIdx'[r] = IdxInc(consIdx[r]) /\ \A q \in Ring \ {r} : consIdx'[q] = consIdx[q]
  BY DEF IInv, TypeOK
<1>5. consIdx' \in [Ring -> Index]
  BY <1>1, IdxIncCases DEF IInv, TypeOK
<1>6. ASSUME NEW k \in Nat
      PROVE  Entry(r, k)' = Entry(r, k + 1)
  <2>1. Slot(IdxInc(consIdx[r]) + k) = Slot(consIdx[r] + 1 + k)
    BY <1>1, SlotWrap
  <2>2. consIdx[r] + 1 + k = consIdx[r] + (k + 1)
    BY <1>1 DEF Index
  <2> QED
    BY <1>4, <2>1, <2>2 DEF Entry
<1>7. \A q \in Ring \ {r} : Pending(q)' = Pending(q) /\ \A k \in Nat : Entry(q, k)' = Entry(q, k)
  BY <1>4 DEF Pending, Entry
<1>8. Pending(r)' = Pending(r) - 1
  BY <1>3, <1>4 DEF Pending
<1> QED
  BY <1>2, <1>5, <1>6, <1>7, <1>8
-----------------------------------------------------------------------------
(* The first write of virtqueue_add_buffer and of                          *)
(* virtqueue_add_consumed_buffer preserves the invariant.                  *)
LEMMA WriteSlotInv ==
    ASSUME IInv, NEW r \in Ring, NEW d \in Desc, WriteSlot(r, d)
    PROVE  IInv'
<1> DEFINE s == Producer(r)
<1>1. s \in Side /\ d \in held[s] /\ putting[r] = NoDesc
  BY DEF WriteSlot, Producer, Side
<1>2. Pending(r) < NENTRIES
  BY <1>1, RoomInRing DEF IInv
<1>3. \A q \in Ring : Pending(q)' = Pending(q)
  BY DEF WriteSlot, Pending
<1>4. \A q \in Ring : \A k \in 0 .. Pending(q) - 1 : Entry(q, k)' = Entry(q, k)
  BY <1>2, WriteKeepsEntries DEF WriteSlot
<1>5. idx[r] \in Nat /\ Slot(idx[r]) \in Desc
  BY SlotType DEF IInv, TypeOK, Index
<1>6. TypeOK'
  BY <1>5 DEF WriteSlot, IInv, TypeOK
<1>7. /\ putting'[r] = d
      /\ \A q \in Ring \ {r} : putting'[q] = putting[q]
      /\ held'[s] = held[s] \ {d}
      /\ \A t \in Side \ {s} : held'[t] = held[t]
  BY <1>1 DEF WriteSlot, IInv, TypeOK
<1>8. NoBufferLost'
  <2>1. Cardinality(held'[s]) = Cardinality(held[s]) - 1
    <3>1. IsFiniteSet(held[s])
      BY <1>1, HeldFinite DEF IInv
    <3>2. Cardinality(held[s] \ {d}) = Cardinality(held[s]) - 1
      BY <1>1, <3>1, FS_RemoveElement
    <3> QED
      BY <1>7, <3>2
  <2>2. /\ Cardinality(held["driver"]) \in Nat
        /\ Cardinality(held["device"]) \in Nat
    BY HeldFinite DEF IInv, Side
  <2>3. /\ InFlight(r) = 0
        /\ InFlight(r)' = 1
        /\ \A q \in Ring \ {r} : InFlight(q)' = InFlight(q)
    BY <1>1, <1>7, VirtqueueAssumption DEF InFlight
  <2>4. vq_desc_head_idx' = vq_desc_head_idx
    BY DEF WriteSlot
  <2>5. Pending("avail") \in Nat /\ Pending("used") \in Nat
    BY PendingType DEF IInv, Ring
  <2>6. InFlight("avail") \in Nat /\ InFlight("used") \in Nat
    BY DEF InFlight
  <2>7. CASE r = "avail"
    <3>1. s = "driver" /\ "device" \in Side \ {s} /\ "used" \in Ring \ {r}
      BY <2>7 DEF Producer, Side, Ring
    <3>2. /\ Cardinality(held["driver"])' = Cardinality(held["driver"]) - 1
          /\ Cardinality(held["device"])' = Cardinality(held["device"])
      BY <3>1, <1>7, <2>1
    <3>3. /\ InFlight("avail") = 0
          /\ InFlight("avail")' = 1
          /\ InFlight("used")' = InFlight("used")
      BY <2>7, <3>1, <2>3
    <3>4. /\ Pending("avail")' = Pending("avail")
          /\ Pending("used")' = Pending("used")
      BY <1>3 DEF Ring
    <3> QED
      BY <2>2, <2>4, <2>5, <2>6, <3>2, <3>3, <3>4 DEF IInv, NoBufferLost
  <2>8. CASE r = "used"
    <3>1. s = "device" /\ "driver" \in Side \ {s} /\ "avail" \in Ring \ {r}
      BY <2>8 DEF Producer, Side, Ring
    <3>2. /\ Cardinality(held["device"])' = Cardinality(held["device"]) - 1
          /\ Cardinality(held["driver"])' = Cardinality(held["driver"])
      BY <3>1, <1>7, <2>1
    <3>3. /\ InFlight("used") = 0
          /\ InFlight("used")' = 1
          /\ InFlight("avail")' = InFlight("avail")
      BY <2>8, <3>1, <2>3
    <3>4. /\ Pending("avail")' = Pending("avail")
          /\ Pending("used")' = Pending("used")
      BY <1>3 DEF Ring
    <3> QED
      BY <2>2, <2>4, <2>5, <2>6, <3>2, <3>3, <3>4 DEF IInv, NoBufferLost
  <2> QED
    BY <2>7, <2>8 DEF Ring
<1>9. SingleOwner'
  <2>1. d # NoDesc
    BY VirtqueueAssumption
  <2>2. \A q \in Ring : \A k \in 0 .. Pending(q) - 1 : Entry(q, k) # d
    BY <1>1 DEF IInv, SingleOwner
  <2>3. \A q \in Ring : putting[q] # d
    BY <1>1 DEF IInv, SingleOwner
  <2>4. \A q \in Ring, t \in Side : putting'[q] \notin held'[t]
    BY <1>1, <1>7 DEF IInv, SingleOwner, Side
  <2>5. \A q \in Ring, t \in Side : \A k \in 0 .. Pending(q) - 1 : Entry(q, k) \notin held'[t]
    BY <1>7 DEF IInv, SingleOwner
  <2>6. \A p, q \in Ring : \A k \in 0 .. Pending(p) - 1 : Entry(p, k) # putting'[q]
    BY <1>7, <2>2 DEF IInv, SingleOwner
  <2>7. putting'["avail"] # putting'["used"] \/ putting'["avail"] = NoDesc
    BY <1>7, <2>3 DEF IInv, SingleOwner, Ring
  <2>8. \A e \in Desc : ~(e \in held'["driver"] /\ e \in held'["device"])
    BY <1>1, <1>7 DEF IInv, SingleOwner, Side
  <2> QED
    BY <1>3, <1>4, <2>4, <2>5, <2>6, <2>7, <2>8 DEF IInv, SingleOwner
<1>10. ReadingInv'
  BY DEF WriteSlot, IInv, ReadingInv
<1>11. PuttingInv'
  <2>1. ring'[r][Slot(idx[r])] = d /\ \A q \in Ring \ {r} : ring'[q] = ring[q]
    BY <1>5 DEF WriteSlot, IInv, TypeOK
  <2> QED
    BY <1>7, <2>1 DEF WriteSlot, IInv, PuttingInv
<1>12. FillingInv'
  BY DEF WriteSlot, FillingInv, Filled
<1> QED
  BY <1>6, <1>8, <1>9, <1>10, <1>11, <1>12 DEF IInv

(* The index update that ends vq_ring_update_avail and vq_ring_update_used *)
(* preserves the invariant.                                                *)
LEMMA PublishSlotInv ==
    ASSUME IInv, NEW r \in Ring, PublishSlot(r)
    PROVE  IInv'
<1>1. putting[r] \in Desc /\ putting[r] # NoDesc
  BY DEF PublishSlot, IInv, TypeOK
<1>2. Pending(r) < NENTRIES /\ Pending(r) \in Nat
  BY <1>1, RoomInRing, PendingType DEF IInv
<1>3. /\ Pending(r)' = Pending(r) + 1
      /\ \A q \in Ring \ {r} : Pending(q)' = Pending(q)
      /\ \A k \in Nat : k = Pending(r) => Entry(r, k)' = ring[r][Slot(idx[r])]
      /\ idx' \in [Ring -> Index]
  BY <1>2, PublishEffect DEF PublishSlot
<1>4. ring[r][Slot(idx[r])] = putting[r]
  BY <1>1 DEF IInv, PuttingInv
<1>5. \A q \in Ring : \A k \in Nat : Entry(q, k)' = ring[q][Slot(consIdx[q] + k)]
  BY DEF PublishSlot, Entry
<1>6. \A q \in Ring : \A k \in Nat : Entry(q, k)' = Entry(q, k)
  BY <1>5 DEF Entry
<1>7. Entry(r, Pending(r)) = putting[r]
  BY <1>2, <1>3, <1>4, <1>6
<1>8. TypeOK'
  BY <1>3 DEF PublishSlot, IInv, TypeOK
<1>9. /\ putting'[r] = NoDesc
      /\ \A q \in Ring \ {r} : putting'[q] = putting[q]
      /\ held' = held
  BY DEF PublishSlot, IInv, TypeOK
<1>10. NoBufferLost'
  <2>1. /\ Cardinality(held["driver"]) \in Nat
        /\ Cardinality(held["device"]) \in Nat
    BY HeldFinite DEF IInv, Side
  <2>2. /\ InFlight(r) = 1
        /\ InFlight(r)' = 0
        /\ \A q \in Ring \ {r} : InFlight(q)' = InFlight(q)
    BY <1>1, <1>9 DEF InFlight
  <2>3. vq_desc_head_idx' = vq_desc_head_idx
    BY DEF PublishSlot
  <2>4. Pending("avail") \in Nat /\ Pending("used") \in Nat
    BY PendingType DEF IInv, Ring
  <2>5. InFlight("avail") \in Nat /\ InFlight("used") \in Nat
    BY DEF InFlight
  <2> QED
    BY <1>3, <1>9, <2>1, <2>2, <2>3, <2>4, <2>5 DEF IInv, NoBufferLost, Ring
<1>11. SingleOwner'
  <2>1. ASSUME NEW q \in Ring, NEW k \in 0 .. Pending(q)' - 1
        PROVE  k \in 0 .. Pending(q) - 1 \/ (q = r /\ k = Pending(r))
    BY <1>2, <1>3
  <2>2. \A q \in Ring : \A k \in 0 .. Pending(q)' - 1 : k \in Nat
    OBVIOUS
  <2>3. \A p, q \in Ring : \A j \in 0 .. Pending(p)' - 1, k \in 0 .. Pending(q)' - 1 :
            Entry(p, j) = Entry(q, k) => p = q /\ j = k
    BY <1>7, <2>1 DEF IInv, SingleOwner
  <2>4. \A p, q \in Ring : \A k \in 0 .. Pending(p)' - 1 : Entry(p, k) # putting'[q]
    <3>1. \A p \in Ring, k \in Nat : Entry(p, k) # NoDesc
      BY EntryType, VirtqueueAssumption DEF IInv
    <3>2. \A q \in Ring \ {r} : putting[q] # putting[r]
      BY <1>1 DEF IInv, SingleOwner, Ring
    <3> QED
      BY <1>7, <1>9, <2>1, <2>2, <3>1, <3>2 DEF IInv, SingleOwner
  <2>5. \A q \in Ring, t \in Side : \A k \in 0 .. Pending(q)' - 1 : Entry(q, k) \notin held[t]
    BY <1>7, <2>1 DEF IInv, SingleOwner
  <2>6. \A q \in Ring, t \in Side : putting'[q] \notin held[t]
    BY <1>9, VirtqueueAssumption DEF IInv, SingleOwner, TypeOK
  <2>7. putting'["avail"] = putting'["used"] => putting'["avail"] = NoDesc
    BY <1>9 DEF Ring
  <2> QED
    BY <1>6, <1>9, <2>2, <2>3, <2>4, <2>5, <2>6, <2>7 DEF IInv, SingleOwner
<1>12. ReadingInv'
  <2>1. idx'[r] \in Index /\ consIdx[r] \in Index
    BY <1>3 DEF IInv, TypeOK
  <2>2. IdxDiff(idx'[r], consIdx[r]) # 0
    BY <1>2, <1>3 DEF Pending, PublishSlot
  <2>3. idx'[r] # consIdx[r]
    BY <2>1, <2>2, IdxDiffSteps
  <2> QED
    BY <2>3 DEF PublishSlot, IInv, TypeOK, ReadingInv
<1>13. PuttingInv'
  BY <1>9 DEF PublishSlot, IInv, PuttingInv, TypeOK
<1>14. FillingInv'
  BY <1>1 DEF PublishSlot, IInv, FillingInv, Filled
<1> QED
  BY <1>8, <1>10, <1>11, <1>12, <1>13, <1>14 DEF IInv

(* The test for an empty ring in virtqueue_get_buffer and in               *)
(* virtqueue_get_available_buffer preserves the invariant.                 *)
LEMMA SeeEntryInv ==
    ASSUME IInv, NEW r \in Ring, SeeEntry(r)
    PROVE  IInv'
<1>1. /\ \A q \in Ring : Pending(q)' = Pending(q) /\ InFlight(q)' = InFlight(q)
      /\ \A q \in Ring, k \in Nat : Entry(q, k)' = Entry(q, k)
  BY DEF SeeEntry, Pending, Entry, InFlight
<1>2. TypeOK'
  BY DEF SeeEntry, IInv, TypeOK
<1>3. NoBufferLost'
  BY <1>1 DEF SeeEntry, IInv, NoBufferLost, Ring
<1>4. SingleOwner'
  <2>1. \A q \in Ring : \A k \in 0 .. Pending(q) - 1 : k \in Nat
    OBVIOUS
  <2> QED
    BY <1>1, <2>1 DEF SeeEntry, IInv, SingleOwner
<1>5. ReadingInv' /\ PuttingInv' /\ FillingInv'
  BY DEF SeeEntry, IInv, TypeOK, ReadingInv, PuttingInv, FillingInv, Filled
<1> QED
  BY <1>2, <1>3, <1>4, <1>5 DEF IInv

(* The slot read and the private index update of the get functions         *)
(* preserve the invariant.                                                 *)
LEMMA ReadEntryInv ==
    ASSUME IInv, NEW r \in Ring, ReadEntry(r)
    PROVE  IInv'
<1> DEFINE s == Consumer(r)
           d == Entry(r, 0)
<1>1. consIdx[r] # idx[r]
  BY DEF ReadEntry, IInv, ReadingInv
<1>2. /\ Pending(r) > 0
      /\ Pending(r)' = Pending(r) - 1
      /\ \A q \in Ring \ {r} : Pending(q)' = Pending(q)
      /\ \A k \in Nat : Entry(r, k)' = Entry(r, k + 1)
      /\ \A q \in Ring \ {r} : \A k \in Nat : Entry(q, k)' = Entry(q, k)
      /\ consIdx' \in [Ring -> Index]
  BY <1>1, ReadEffect DEF ReadEntry
<1>3. \A q \in Ring : Pending(q) \in Nat
  BY PendingType DEF IInv
<1>4. 0 \in 0 .. Pending(r) - 1
  BY <1>2, <1>3
<1>5. s \in Side /\ d \in Desc /\ d \notin held[s]
  BY <1>4, EntryType DEF IInv, SingleOwner, Consumer, Side
<1>6. ring[r][Slot(consIdx[r])] = d
  BY DEF Entry, IInv, TypeOK, Index
<1>7. /\ held'[s] = held[s] \union {d}
      /\ \A t \in Side \ {s} : held'[t] = held[t]
      /\ held' \in [Side -> SUBSET Desc]
  BY <1>5, <1>6 DEF ReadEntry, IInv, TypeOK
<1>8. TypeOK'
  BY <1>2, <1>7 DEF ReadEntry, IInv, TypeOK
<1>9. NoBufferLost'
  <2>1. Cardinality(held'[s]) = Cardinality(held[s]) + 1
    BY <1>5, <1>7, HeldFinite, FS_AddElement DEF IInv
  <2>2. /\ Cardinality(held["driver"]) \in Nat
        /\ Cardinality(held["device"]) \in Nat
    BY HeldFinite DEF IInv, Side
  <2>3. \A q \in Ring : InFlight(q)' = InFlight(q) /\ InFlight(q) \in Nat
    BY DEF InFlight, ReadEntry
  <2>4. vq_desc_head_idx' = vq_desc_head_idx
    BY DEF ReadEntry
  <2>5. CASE r = "avail"
    <3>1. s = "device" /\ "driver" \in Side \ {s} /\ "used" \in Ring \ {r}
      BY <2>5 DEF Consumer, Side, Ring
    <3>2. /\ Cardinality(held["device"])' = Cardinality(held["device"]) + 1
          /\ Cardinality(held["driver"])' = Cardinality(held["driver"])
      BY <3>1, <1>7, <2>1
    <3>3. /\ Pending("avail")' = Pending("avail") - 1
          /\ Pending("used")' = Pending("used")
      BY <2>5, <3>1, <1>2
    <3> QED
      BY <1>3, <2>2, <2>3, <2>4, <3>2, <3>3 DEF IInv, NoBufferLost, Ring
  <2>6. CASE r = "used"
    <3>1. s = "driver" /\ "device" \in Side \ {s} /\ "avail" \in Ring \ {r}
      BY <2>6 DEF Consumer, Side, Ring
    <3>2. /\ Cardinality(held["driver"])' = Cardinality(held["driver"]) + 1
          /\ Cardinality(held["device"])' = Cardinality(held["device"])
      BY <3>1, <1>7, <2>1
    <3>3. /\ Pending("used")' = Pending("used") - 1
          /\ Pending("avail")' = Pending("avail")
      BY <2>6, <3>1, <1>2
    <3> QED
      BY <1>3, <2>2, <2>3, <2>4, <3>2, <3>3 DEF IInv, NoBufferLost, Ring
  <2> QED
    BY <2>5, <2>6 DEF Ring
<1>10. SingleOwner'
  <2> DEFINE Old(q, k) == IF q = r THEN k + 1 ELSE k
  <2>1. ASSUME NEW q \in Ring, NEW k \in 0 .. Pending(q)' - 1
        PROVE  /\ Old(q, k) \in 0 .. Pending(q) - 1
               /\ Entry(q, k)' = Entry(q, Old(q, k))
               /\ Entry(q, k)' # d
    <3>1. /\ Old(q, k) \in 0 .. Pending(q) - 1
          /\ Entry(q, k)' = Entry(q, Old(q, k))
      BY <1>2, <1>3
    <3>2. Old(q, k) # 0 \/ q # r
      OBVIOUS
    <3> QED
      BY <1>4, <3>1, <3>2 DEF IInv, SingleOwner
  <2>2. \A p, q \in Ring : \A j \in 0 .. Pending(p)' - 1, k \in 0 .. Pending(q)' - 1 :
            Entry(p, j)' = Entry(q, k)' => p = q /\ j = k
    <3> SUFFICES ASSUME NEW p \in Ring, NEW q \in Ring,
                        NEW j \in 0 .. Pending(p)' - 1, NEW k \in 0 .. Pending(q)' - 1,
                        Entry(p, j)' = Entry(q, k)'
                 PROVE  p = q /\ j = k
      OBVIOUS
    <3>1. Entry(p, Old(p, j)) = Entry(q, Old(q, k))
      BY <2>1
    <3>2. p = q /\ Old(p, j) = Old(q, k)
      BY <2>1, <3>1 DEF IInv, SingleOwner
    <3> QED
      BY <3>2
  <2>3. \A p, q \in Ring : \A k \in 0 .. Pending(p)' - 1 : Entry(p, k)' # putting[q]
    BY <2>1 DEF IInv, SingleOwner
  <2>4. \A q \in Ring, t \in Side : \A k \in 0 .. Pending(q)' - 1 : Entry(q, k)' \notin held'[t]
    BY <2>1, <1>7 DEF IInv, SingleOwner
  <2>5. \A q \in Ring, t \in Side : putting[q] \notin held'[t]
    BY <1>4, <1>7 DEF IInv, SingleOwner
  <2>6. \A e \in Desc : ~(e \in held'["driver"] /\ e \in held'["device"])
    BY <1>4, <1>5, <1>7 DEF IInv, SingleOwner, Side
  <2>7. putting' = putting
    BY DEF ReadEntry
  <2> QED
    BY <2>2, <2>3, <2>4, <2>5, <2>6, <2>7 DEF IInv, SingleOwner
<1>11. ReadingInv'
  BY DEF ReadEntry, IInv, TypeOK, ReadingInv
<1>12. PuttingInv'
  BY DEF ReadEntry, IInv, PuttingInv
<1>13. FillingInv'
  BY DEF ReadEntry, IInv, FillingInv, Filled
<1> QED
  BY <1>8, <1>9, <1>10, <1>11, <1>12, <1>13 DEF IInv

(* rpmsg_lite_master_init calls the one of virtqueue_fill_avail_buffers    *)
(* and virtqueue_fill_used_buffers that fills the ring PREFILL.            *)
LEMMA FillsPrefill ==
    ASSUME virtqueue_fill_buffers
    PROVE  FillRing(PREFILL)
<1>1. CASE PREFILL = "avail"
  BY <1>1 DEF virtqueue_fill_buffers, virtqueue_fill_avail_buffers
<1>2. CASE PREFILL = "used"
  BY <1>2 DEF virtqueue_fill_buffers, virtqueue_fill_used_buffers
<1> QED
  BY <1>1, <1>2, VirtqueueAssumption DEF Ring

(* virtqueue_fill_avail_buffers and virtqueue_fill_used_buffers, called by *)
(* rpmsg_lite_master_init, preserve the invariant.                         *)
LEMMA FillRingInv ==
    ASSUME IInv, FillRing(PREFILL)
    PROVE  IInv'
<1> DEFINE r == PREFILL
           h == vq_desc_head_idx
<1>1. /\ r \in Ring
      /\ h \in 0 .. NENTRIES - 1
      /\ h' = h + 1
  BY VirtqueueAssumption, ConstTypes DEF FillRing, Filled, IInv, TypeOK
<1>2. Pending(r) < NENTRIES /\ \A q \in Ring : Pending(q) \in Nat
  BY <1>1, RoomInRing, PendingType DEF IInv, FillRing
<1>3. /\ consIdx = [q \in Ring |-> 0]
      /\ putting = [q \in Ring |-> NoDesc]
      /\ reading = [q \in Ring |-> FALSE]
      /\ held = [t \in Side |-> {}]
      /\ idx = [q \in Ring |-> IF q = PREFILL THEN h ELSE 0]
      /\ \A d \in 0 .. h - 1 : ring[r][d] = d
  BY DEF FillRing, IInv, FillingInv
<1>4. \A d \in Desc : Slot(d) = d
  BY ConstTypes DEF Slot, Desc
<1>5. IdxInc(h) = h + 1 /\ h \in Index /\ h + 1 \in Index
  BY <1>1, IdxIncCases, ConstTypes DEF Index
<1>6. /\ idx' = [q \in Ring |-> IF q = PREFILL THEN h + 1 ELSE 0]
      /\ ring'[r] = [ring[r] EXCEPT ![h] = h]
      /\ \A q \in Ring \ {r} : ring'[q] = ring[q]
      /\ consIdx' = consIdx
      /\ putting' = putting
      /\ reading' = reading
      /\ held' = held
  BY <1>1, <1>3, <1>4, <1>5 DEF FillRing, IInv, TypeOK, Desc
<1>7. TypeOK'
  <2>1. idx' \in [Ring -> Index]
    BY <1>5, <1>6, ConstTypes DEF Index
  <2>2. ring' \in [Ring -> [Desc -> Desc]]
    <3>1. Slot(idx[r]) \in Desc /\ h \in Desc
      BY <1>1, <1>3, <1>4 DEF Desc
    <3> QED
      BY <1>1, <3>1 DEF FillRing, IInv, TypeOK
  <2>3. h' \in 0 .. NENTRIES
    BY <1>1, ConstTypes
  <2> QED
    BY <1>6, <2>1, <2>2, <2>3 DEF IInv, TypeOK
<1>8. \A d \in 0 .. h : ring'[r][d] = d
  <2>1. ring[r] \in [Desc -> Desc]
    BY <1>1 DEF IInv, TypeOK
  <2>2. \A d \in 0 .. h : d \in Desc /\ (d = h \/ d \in 0 .. h - 1)
    BY <1>1, ConstTypes DEF Desc
  <2> QED
    BY <1>3, <1>6, <2>1, <2>2
<1>9. /\ Pending(r) = h
      /\ Pending(r)' = h + 1
      /\ \A q \in Ring \ {r} : Pending(q) = 0 /\ Pending(q)' = 0
  <2>1. IdxDiff(h, 0) = h /\ IdxDiff(h + 1, 0) = h + 1 /\ IdxDiff(0, 0) = 0
    BY <1>1, <1>5, IdxDiffCases, ConstTypes DEF Index
  <2> QED
    BY <1>1, <1>3, <1>6, <2>1 DEF Pending
<1>10. \A k \in 0 .. h : Entry(r, k)' = k
  <2>1. \A k \in 0 .. h : k \in Desc /\ 0 + k = k
    BY <1>1, ConstTypes DEF Desc
  <2> QED
    BY <1>1, <1>3, <1>4, <1>6, <1>8, <2>1 DEF Entry
<1>11. NoBufferLost'
  <2>1. \A q \in Ring : InFlight(q)' = InFlight(q) /\ InFlight(q) = 0
    BY <1>3, <1>6 DEF InFlight
  <2>2. Cardinality(held["driver"]) = 0 /\ Cardinality(held["device"]) = 0
    BY <1>3, FS_EmptySet DEF Side
  <2> QED
    BY <1>1, <1>6, <1>9, <2>1, <2>2 DEF NoBufferLost, Ring
<1>12. SingleOwner'
  <2>1. ASSUME NEW q \in Ring, NEW k \in 0 .. Pending(q)' - 1
        PROVE  q = r /\ k \in 0 .. h /\ Entry(q, k)' = k /\ k \in Desc
    BY <1>1, <1>9, <1>10, ConstTypes DEF Desc
  <2>2. \A q \in Ring : putting'[q] = NoDesc
    BY <1>3, <1>6
  <2>3. \A t \in Side : held'[t] = {}
    BY <1>3, <1>6
  <2> QED
    BY <2>1, <2>2, <2>3, VirtqueueAssumption DEF SingleOwner, Ring, Side
<1>13. ReadingInv' /\ PuttingInv'
  BY <1>3, <1>6 DEF ReadingInv, PuttingInv
<1>14. FillingInv'
  BY <1>1, <1>3, <1>6, <1>8 DEF FillingInv
<1> QED
  BY <1>7, <1>11, <1>12, <1>13, <1>14 DEF IInv

(* A fresh virtqueue over cleared shared memory satisfies the invariant. *)
LEMMA InitInv == Init => IInv
<1> SUFFICES ASSUME Init
             PROVE  IInv
  OBVIOUS
<1>1. \A q \in Ring : Pending(q) = 0 /\ InFlight(q) = 0
  <2>1. IdxDiff(0, 0) = 0
    BY IdxDiffCases, ConstTypes DEF Index
  <2> QED
    BY <2>1 DEF Init, Pending, InFlight
<1>2. TypeOK
  BY ConstTypes DEF Init, TypeOK, ZeroedRing, Desc, Index
<1>3. NoBufferLost
  <2>1. Cardinality(held["driver"]) = 0 /\ Cardinality(held["device"]) = 0
    BY FS_EmptySet DEF Init, Side
  <2> QED
    BY <1>1, <2>1 DEF Init, NoBufferLost, Ring
<1>4. SingleOwner
  BY <1>1 DEF Init, SingleOwner, Ring, Side
<1>5. ReadingInv /\ PuttingInv
  BY DEF Init, ReadingInv, PuttingInv
<1>6. FillingInv
  BY DEF Init, FillingInv
<1> QED
  BY <1>2, <1>3, <1>4, <1>5, <1>6 DEF IInv

(* The invariant depends on the state of the vring alone. *)
LEMMA StutterInv ==
    ASSUME IInv, UNCHANGED vars
    PROVE  IInv'
<1>1. /\ \A q \in Ring : Pending(q)' = Pending(q) /\ InFlight(q)' = InFlight(q)
      /\ \A q \in Ring, k \in Nat : Entry(q, k)' = Entry(q, k)
  BY DEF vars, Pending, Entry, InFlight
<1>2. TypeOK' /\ ReadingInv' /\ PuttingInv' /\ FillingInv'
  BY DEF vars, IInv, TypeOK, ReadingInv, PuttingInv, FillingInv, Filled
<1>3. NoBufferLost'
  BY <1>1 DEF vars, IInv, NoBufferLost, Ring
<1>4. SingleOwner'
  <2>1. \A q \in Ring : \A k \in 0 .. Pending(q) - 1 : k \in Nat
    OBVIOUS
  <2> QED
    BY <1>1, <2>1 DEF vars, IInv, SingleOwner
<1> QED
  BY <1>2, <1>3, <1>4 DEF IInv

(* Every operation of virtqueue.c preserves the invariant. *)
LEMMA NextInv == IInv /\ [Next]_vars => IInv'
<1> SUFFICES ASSUME IInv, [Next]_vars
             PROVE  IInv'
  OBVIOUS
<1> "avail" \in Ring /\ "used" \in Ring
  BY DEF Ring
<1>1. CASE virtqueue_fill_buffers
  BY <1>1, FillsPrefill, FillRingInv
<1>2. CASE \E d \in Desc : virtqueue_add_buffer(d)
  BY <1>2, WriteSlotInv DEF virtqueue_add_buffer
<1>3. CASE vq_ring_update_avail
  BY <1>3, PublishSlotInv DEF vq_ring_update_avail
<1>4. CASE \E d \in Desc : virtqueue_add_consumed_buffer(d)
  BY <1>4, WriteSlotInv DEF virtqueue_add_consumed_buffer
<1>5. CASE vq_ring_update_used
  BY <1>5, PublishSlotInv DEF vq_ring_update_used
<1>6. CASE virtqueue_get_buffer
  BY <1>6, SeeEntryInv, ReadEntryInv DEF virtqueue_get_buffer
<1>7. CASE virtqueue_get_available_buffer
  BY <1>7, SeeEntryInv, ReadEntryInv DEF virtqueue_get_available_buffer
<1>8. CASE UNCHANGED vars
  BY <1>8, StutterInv
<1> QED
  BY <1>1, <1>2, <1>3, <1>4, <1>5, <1>6, <1>7, <1>8 DEF Next

(* The inductive invariant of one vring holds in every behaviour of the    *)
(* operations of virtqueue.c, for every ring size and index width.         *)
THEOREM Invariance == Spec => []IInv
  BY InitInv, NextInv, PTL DEF Spec

(* Indices, slots and descriptors of virtqueue.c stay in their ranges; in  *)
(* particular no slot ever holds anything but a descriptor.                *)
THEOREM TypeCorrect == Spec => []TypeOK
<1>1. IInv => TypeOK
  BY DEF IInv
<1> QED
  BY <1>1, Invariance, PTL

(* virtqueue.c neither loses nor invents a buffer: the entries of both     *)
(* rings, the buffers in flight and those that the sides hold add up to    *)
(* the buffers filled, across every wrap of the 16-bit indices.            *)
THEOREM NoBufferLostHolds == Spec => []NoBufferLost
<1>1. IInv => NoBufferLost
  BY DEF IInv
<1> QED
  BY <1>1, Invariance, PTL

(* No descriptor is ever at two places: rpmsg_lite.c may fill and read the *)
(* buffer it got from virtqueue.c without the lock.                        *)
THEOREM SingleOwnerHolds == Spec => []SingleOwner
<1>1. IInv => SingleOwner
  BY DEF IInv
<1> QED
  BY <1>1, Invariance, PTL

(* No step of either core changes an entry that stays pending. *)
LEMMA StepNoOverwrite ==
    ASSUME IInv, [Next]_vars, NEW r \in Ring, NEW k \in 0 .. Pending(r) - 1,
           consIdx'[r] = consIdx[r]
    PROVE  Entry(r, k)' = Entry(r, k)
<1>1. ASSUME ring' = ring
      PROVE  Entry(r, k)' = Entry(r, k)
  BY <1>1 DEF Entry
<1>2. ASSUME NEW q \in Ring, NEW d \in Desc, WriteSlot(q, d)
      PROVE  Entry(r, k)' = Entry(r, k)
  <2>1. Pending(q) < NENTRIES
    BY <1>2, RoomInRing DEF WriteSlot, IInv, Producer, Side
  <2> QED
    BY <1>2, <2>1, WriteKeepsEntries DEF WriteSlot
<1>3. ASSUME FillRing(PREFILL)
      PROVE  Entry(r, k)' = Entry(r, k)
  <2>1. Pending(PREFILL) < NENTRIES
    BY <1>3, RoomInRing, VirtqueueAssumption DEF FillRing, IInv
  <2>2. vq_desc_head_idx \in Desc
    BY <1>3, ConstTypes DEF FillRing, Filled, IInv, TypeOK, Desc
  <2> QED
    BY <1>3, <2>1, <2>2, WriteKeepsEntries, VirtqueueAssumption DEF FillRing
<1> "avail" \in Ring /\ "used" \in Ring
  BY DEF Ring
<1>4. CASE virtqueue_fill_buffers
  BY <1>3, <1>4, FillsPrefill
<1>5. CASE \E d \in Desc : virtqueue_add_buffer(d) \/ virtqueue_add_consumed_buffer(d)
  BY <1>2, <1>5 DEF virtqueue_add_buffer, virtqueue_add_consumed_buffer
<1>6. CASE vq_ring_update_avail \/ vq_ring_update_used
  BY <1>1, <1>6 DEF vq_ring_update_avail, vq_ring_update_used, PublishSlot
<1>7. CASE virtqueue_get_buffer \/ virtqueue_get_available_buffer
  BY <1>1, <1>7 DEF virtqueue_get_buffer, virtqueue_get_available_buffer, SeeEntry, ReadEntry
<1>8. CASE UNCHANGED vars
  BY <1>1, <1>8 DEF vars
<1> QED
  BY <1>4, <1>5, <1>6, <1>7, <1>8 DEF Next

(* vq_ring_update_avail and vq_ring_update_used never write to a slot      *)
(* whose entry the other side has yet to read, although virtqueue.c has no *)
(* test for a full ring.                                                   *)
THEOREM NoOverwriteHolds == Spec => NoOverwrite
<1>1. IInv /\ [Next]_vars =>
        [\A r \in Ring : \A k \in 0 .. Pending(r) - 1 :
            consIdx'[r] = consIdx[r] => Entry(r, k)' = Entry(r, k)]_vars
  BY StepNoOverwrite
<1> QED
  BY <1>1, Invariance, PTL DEF Spec, NoOverwrite

-----------------------------------------------------------------------------
(***************************************************************************)
(* The refinement of BufferExchange: filling supplies a fresh buffer, the  *)
(* index update of a put gives one, the slot read of a get takes one, and  *)
(* the slot write of a put and the index test of a get are stutters.       *)
(***************************************************************************)

(* Two sequences of which one has an element more are related by Append. *)
LEMMA IsAppend ==
    ASSUME NEW S, NEW s \in Seq(S), NEW t \in Seq(S), NEW e \in S,
           Len(t) = Len(s) + 1,
           \A i \in 1 .. Len(s) : t[i] = s[i],
           t[Len(s) + 1] = e
    PROVE  t = Append(s, e)
<1>1. /\ Append(s, e) \in Seq(S)
      /\ Len(Append(s, e)) = Len(s) + 1
      /\ \A i \in 1 .. Len(s) : Append(s, e)[i] = s[i]
      /\ Append(s, e)[Len(s) + 1] = e
  BY AppendProperties
<1>2. Len(s) \in Nat
  BY LenProperties
<1>3. \A i \in 1 .. Len(t) : i \in 1 .. Len(s) \/ i = Len(s) + 1
  BY <1>2
<1>4. \A i \in 1 .. Len(t) : t[i] = Append(s, e)[i]
  BY <1>1, <1>3
<1> QED
  BY <1>1, <1>4, SeqEqual

(* Two sequences of which one lacks the first element are related by Tail. *)
LEMMA IsTail ==
    ASSUME NEW S, NEW s \in Seq(S), NEW t \in Seq(S),
           s # <<>>,
           Len(t) = Len(s) - 1,
           \A i \in 1 .. Len(t) : t[i] = s[i + 1]
    PROVE  t = Tail(s)
<1>1. /\ Tail(s) \in Seq(S)
      /\ Len(Tail(s)) = Len(s) - 1
      /\ \A i \in 1 .. Len(Tail(s)) : Tail(s)[i] = s[i + 1]
  BY HeadTailProperties
<1> QED
  BY <1>1, SeqEqual

(* A function on an initial interval is a sequence of that length. *)
LEMMA IntervalSeq ==
    ASSUME NEW S, NEW n \in Nat, NEW f \in [1 .. n -> S]
    PROVE  f \in Seq(S) /\ Len(f) = n
<1>1. f \in Seq(S)
  BY SeqDef
<1>2. Len(f) \in Nat /\ DOMAIN f = 1 .. Len(f)
  BY <1>1, LenProperties
<1>3. 1 .. Len(f) = 1 .. n
  BY <1>2
<1> QED
  BY <1>1, <1>2, <1>3

(* The channel of a ring: its pending entries, the oldest first. *)
LEMMA ChanType ==
    ASSUME TypeOK, NEW r \in Ring
    PROVE  /\ chanBar[r] \in Seq(Desc)
           /\ Len(chanBar[r]) = Pending(r)
           /\ \A k \in 1 .. Pending(r) : chanBar[r][k] = Entry(r, k - 1)
<1>1. Pending(r) \in Nat
  BY PendingType
<1>2. \A k \in 1 .. Pending(r) : k - 1 \in Nat
  BY <1>1
<1>3. \A k \in 1 .. Pending(r) : Entry(r, k - 1) \in Desc
  BY <1>2, EntryType
<1>4. chanBar[r] = [k \in 1 .. Pending(r) |-> Entry(r, k - 1)]
  BY DEF chanBar
<1>5. chanBar[r] \in [1 .. Pending(r) -> Desc]
  BY <1>3, <1>4
<1> QED
  BY <1>1, <1>4, <1>5, IntervalSeq

(* A publication appends its descriptor to the channel of the ring. *)
LEMMA ChanAppend ==
    ASSUME TypeOK, TypeOK', NEW r \in Ring, NEW d \in Desc,
           Pending(r)' = Pending(r) + 1,
           \A k \in 0 .. Pending(r) - 1 : Entry(r, k)' = Entry(r, k),
           \A k \in Nat : k = Pending(r) => Entry(r, k)' = d,
           \A q \in Ring \ {r} : Pending(q)' = Pending(q),
           \A q \in Ring \ {r} : \A k \in 0 .. Pending(q) - 1 : Entry(q, k)' = Entry(q, k)
    PROVE  chanBar' = [chanBar EXCEPT ![r] = Append(@, d)]
<1>1. Pending(r) \in Nat
  BY PendingType
<1>2. chanBar[r] \in Seq(Desc) /\ Len(chanBar[r]) = Pending(r)
      /\ \A k \in 1 .. Pending(r) : chanBar[r][k] = Entry(r, k - 1)
  BY ChanType
<1>3. /\ chanBar'[r] \in Seq(Desc)
      /\ Len(chanBar'[r]) = Pending(r)'
      /\ \A k \in 1 .. Pending(r)' : chanBar'[r][k] = Entry(r, k - 1)'
  <2>1. chanBar'[r] = [k \in 1 .. Pending(r)' |-> Entry(r, k - 1)']
    BY DEF chanBar
  <2>2. \A k \in 1 .. Pending(r)' : k - 1 \in 0 .. Pending(r) - 1 \/ (k - 1 \in Nat /\ k - 1 = Pending(r))
    BY <1>1
  <2>3. \A k \in 0 .. Pending(r) - 1 : Entry(r, k) \in Desc
    BY EntryType
  <2>4. chanBar'[r] \in [1 .. Pending(r)' -> Desc]
    BY <2>1, <2>2, <2>3
  <2>5. Pending(r)' \in Nat
    BY <1>1
  <2> QED
    BY <2>1, <2>4, <2>5, IntervalSeq
<1>4. \A i \in 1 .. Pending(r) : chanBar'[r][i] = chanBar[r][i]
  <2>1. \A i \in 1 .. Pending(r) : i \in 1 .. Pending(r)' /\ i - 1 \in 0 .. Pending(r) - 1
    BY <1>1
  <2> QED
    BY <1>2, <1>3, <2>1
<1>5. chanBar'[r][Pending(r) + 1] = d
  <2>1. Pending(r) + 1 \in 1 .. Pending(r)' /\ Pending(r) + 1 - 1 = Pending(r)
    BY <1>1
  <2> QED
    BY <1>1, <1>3, <2>1
<1>6. chanBar'[r] = Append(chanBar[r], d)
  BY <1>2, <1>3, <1>4, <1>5, IsAppend
<1>7. ASSUME NEW q \in Ring \ {r}
      PROVE  chanBar'[q] = chanBar[q]
  <2>1. \A k \in 1 .. Pending(q) : Entry(q, k - 1)' = Entry(q, k - 1)
    <3>1. Pending(q) \in Nat
      BY PendingType
    <3>2. \A k \in 1 .. Pending(q) : k - 1 \in 0 .. Pending(q) - 1
      BY <3>1
    <3> QED
      BY <3>2
  <2> QED
    BY <2>1 DEF chanBar
<1> QED
  BY <1>6, <1>7 DEF chanBar

(* A read takes the oldest descriptor off the channel of the ring. *)
LEMMA ChanTail ==
    ASSUME TypeOK, TypeOK', NEW r \in Ring,
           Pending(r) > 0,
           Pending(r)' = Pending(r) - 1,
           \A k \in Nat : Entry(r, k)' = Entry(r, k + 1),
           \A q \in Ring \ {r} : Pending(q)' = Pending(q),
           \A q \in Ring \ {r} : \A k \in Nat : Entry(q, k)' = Entry(q, k)
    PROVE  /\ chanBar[r] # <<>>
           /\ Head(chanBar[r]) = Entry(r, 0)
           /\ chanBar' = [chanBar EXCEPT ![r] = Tail(@)]
<1>1. Pending(r) \in Nat
  BY PendingType
<1>2. /\ chanBar[r] \in Seq(Desc)
      /\ Len(chanBar[r]) = Pending(r)
      /\ \A k \in 1 .. Pending(r) : chanBar[r][k] = Entry(r, k - 1)
  BY ChanType
<1>3. chanBar[r] # <<>>
  BY <1>1, <1>2, EmptySeq
<1>4. Head(chanBar[r]) = Entry(r, 0)
  <2>1. 1 \in 1 .. Pending(r) /\ 1 - 1 = 0
    BY <1>1
  <2>2. chanBar[r][1] = Entry(r, 1 - 1)
    BY <1>2, <2>1
  <2>3. Head(chanBar[r]) = chanBar[r][1]
    BY <1>2, <1>3
  <2> QED
    BY <2>1, <2>2, <2>3
<1>5. /\ chanBar'[r] \in Seq(Desc)
      /\ Len(chanBar'[r]) = Pending(r)'
      /\ \A k \in 1 .. Pending(r)' : chanBar'[r][k] = Entry(r, k - 1)'
  <2>1. chanBar'[r] = [k \in 1 .. Pending(r)' |-> Entry(r, k - 1)']
    BY DEF chanBar
  <2>2. \A k \in 1 .. Pending(r)' : k - 1 \in Nat /\ k - 1 + 1 \in Nat
    BY <1>1
  <2>3. \A k \in Nat : k + 1 \in Nat /\ Entry(r, k + 1) \in Desc
    BY EntryType
  <2>4. chanBar'[r] \in [1 .. Pending(r)' -> Desc]
    BY <2>1, <2>2, <2>3
  <2>5. Pending(r)' \in Nat
    BY <1>1
  <2> QED
    BY <2>1, <2>4, <2>5, IntervalSeq
<1>6. \A i \in 1 .. Pending(r)' : chanBar'[r][i] = chanBar[r][i + 1]
  <2>1. \A i \in 1 .. Pending(r)' : /\ i - 1 \in Nat
                                    /\ i + 1 \in 1 .. Pending(r)
                                    /\ i - 1 + 1 = i + 1 - 1
    BY <1>1
  <2> QED
    BY <1>2, <1>5, <2>1
<1>7. chanBar'[r] = Tail(chanBar[r])
  BY <1>2, <1>3, <1>5, <1>6, IsTail
<1>8. ASSUME NEW q \in Ring \ {r}
      PROVE  chanBar'[q] = chanBar[q]
  <2>1. \A k \in 1 .. Pending(q) : k - 1 \in Nat
    BY PendingType
  <2> QED
    BY <2>1 DEF chanBar
<1> QED
  BY <1>3, <1>4, <1>7, <1>8 DEF chanBar

(* Entries that do not change leave the channels as they are. *)
LEMMA ChanUnchanged ==
    ASSUME TypeOK,
           \A q \in Ring : Pending(q)' = Pending(q),
           \A q \in Ring : \A k \in 0 .. Pending(q) - 1 : Entry(q, k)' = Entry(q, k)
    PROVE  chanBar' = chanBar
<1>1. ASSUME NEW q \in Ring
      PROVE  [k \in 1 .. Pending(q) |-> Entry(q, k - 1)]' = [k \in 1 .. Pending(q) |-> Entry(q, k - 1)]
  <2>1. Pending(q) \in Nat
    BY PendingType
  <2>2. \A k \in 1 .. Pending(q) : k - 1 \in 0 .. Pending(q) - 1
    BY <2>1
  <2> QED
    BY <2>2
<1> QED
  BY <1>1 DEF chanBar

(* A side is the producer of one ring and the consumer of the other. *)
LEMMA Roles ==
    ASSUME NEW r \in Ring
    PROVE  /\ Producer(r) \in Side /\ Consumer(r) \in Side
           /\ Producer(r) # Consumer(r)
           /\ \A q \in Ring \ {r} : Producer(q) = Consumer(r) /\ Consumer(q) = Producer(r)
  BY DEF Ring, Side, Producer, Consumer

(* What a side owns: what it holds and what it is putting on its ring. *)
LEMMA OwnOf ==
    ASSUME TypeOK, TypeOK', NEW r \in Ring
    PROVE  /\ ownBar[Producer(r)] =
                held[Producer(r)] \union (IF putting[r] = NoDesc THEN {} ELSE {putting[r]})
           /\ ownBar'[Producer(r)] =
                held'[Producer(r)] \union (IF putting'[r] = NoDesc THEN {} ELSE {putting'[r]})
<1>1. Producer(r) \in Side /\ \A q \in Ring : Producer(q) = Producer(r) => q = r
  BY DEF Ring, Side, Producer
<1>2. putting[r] \in Desc \union {NoDesc} /\ putting'[r] \in Desc \union {NoDesc} /\ NoDesc \notin Desc
  BY VirtqueueAssumption DEF TypeOK
<1> QED
  BY <1>1, <1>2 DEF ownBar

(* The owners after a step that changes what one side owns. *)
LEMMA OwnExcept ==
    ASSUME NEW t \in Side, NEW S,
           ownBar'[t] = S,
           \A q \in Side \ {t} : ownBar'[q] = ownBar[q]
    PROVE  ownBar' = [ownBar EXCEPT ![t] = S]
<1>1. ownBar = [q \in Side |-> ownBar[q]] /\ ownBar' = [q \in Side |-> ownBar'[q]]
  BY DEF ownBar
<1> QED
  BY <1>1

(* The sides are the two producers. *)
LEMMA SidesProduce == \A s \in Side : \E r \in Ring : s = Producer(r)
  BY DEF Ring, Side, Producer

(* The slot write of a put stays inside its side: nothing is given yet. *)
LEMMA WriteSlotStutters ==
    ASSUME IInv, IInv', NEW r \in Ring, NEW d \in Desc, WriteSlot(r, d)
    PROVE  UNCHANGED <<freshBar, chanBar, ownBar>>
<1>1. freshBar' = freshBar
  BY DEF WriteSlot, freshBar
<1>2. chanBar' = chanBar
  <2>1. Pending(r) < NENTRIES
    BY RoomInRing, Roles DEF WriteSlot, IInv
  <2>2. \A q \in Ring : \A k \in 0 .. Pending(q) - 1 : Entry(q, k)' = Entry(q, k)
    BY <2>1, WriteKeepsEntries DEF WriteSlot
  <2>3. \A q \in Ring : Pending(q)' = Pending(q)
    BY DEF WriteSlot, Pending
  <2> QED
    BY <2>2, <2>3, ChanUnchanged DEF IInv
<1>3. ASSUME NEW q \in Ring
      PROVE  ownBar'[Producer(q)] = ownBar[Producer(q)]
  <2>1. /\ ownBar[Producer(q)] =
             held[Producer(q)] \union (IF putting[q] = NoDesc THEN {} ELSE {putting[q]})
        /\ ownBar'[Producer(q)] =
             held'[Producer(q)] \union (IF putting'[q] = NoDesc THEN {} ELSE {putting'[q]})
    BY OwnOf DEF IInv
  <2>2. CASE q = r
    <3>1. /\ putting[r] = NoDesc /\ putting'[r] = d /\ d # NoDesc
          /\ d \in held[Producer(r)]
          /\ held'[Producer(r)] = held[Producer(r)] \ {d}
      BY Roles, VirtqueueAssumption DEF WriteSlot, IInv, TypeOK
    <3> QED
      BY <2>1, <2>2, <3>1
  <2>3. CASE q # r
    <3>1. putting'[q] = putting[q] /\ held'[Producer(q)] = held[Producer(q)]
      BY <2>3, Roles DEF WriteSlot, IInv, TypeOK
    <3> QED
      BY <2>1, <3>1
  <2> QED
    BY <2>2, <2>3
<1>4. ownBar' = ownBar
  BY <1>3, SidesProduce DEF ownBar
<1> QED
  BY <1>1, <1>2, <1>4

(* The index update of a put gives the descriptor. *)
LEMMA PublishSlotGives ==
    ASSUME IInv, IInv', NEW r \in Ring, PublishSlot(r)
    PROVE  Exchange!Give(r, putting[r])
<1> DEFINE d == putting[r]
           s == Producer(r)
<1>1. d \in Desc /\ d # NoDesc
  BY DEF PublishSlot, IInv, TypeOK
<1>2. Pending(r) < NENTRIES /\ Pending(r) \in Nat
  BY <1>1, RoomInRing, PendingType DEF IInv
<1>3. /\ Pending(r)' = Pending(r) + 1
      /\ \A q \in Ring \ {r} : Pending(q)' = Pending(q)
      /\ \A k \in Nat : k = Pending(r) => Entry(r, k)' = ring'[r][Slot(idx[r])]
  BY <1>2, PublishEffect DEF PublishSlot
<1>4. ring'[r][Slot(idx[r])] = d
  BY <1>1 DEF PublishSlot, IInv, PuttingInv
<1>5. \A q \in Ring : \A k \in Nat : Entry(q, k)' = Entry(q, k)
  BY DEF PublishSlot, Entry
<1>6. chanBar' = [chanBar EXCEPT ![r] = Append(@, d)]
  <2>1. \A q \in Ring : \A k \in 0 .. Pending(q) - 1 : Entry(q, k)' = Entry(q, k)
    BY <1>5
  <2>2. \A k \in Nat : k = Pending(r) => Entry(r, k)' = d
    BY <1>3, <1>4
  <2> HIDE DEF d
  <2> QED
    BY <1>1, <1>3, <2>1, <2>2, ChanAppend DEF IInv
<1>7. freshBar' = freshBar
  BY DEF PublishSlot, freshBar
<1>8. held' = held /\ putting'[r] = NoDesc /\ \A q \in Ring \ {r} : putting'[q] = putting[q]
  BY DEF PublishSlot, IInv, TypeOK
<1>9. d \in ownBar[s] /\ ownBar'[s] = ownBar[s] \ {d}
  <2>1. d \notin held[s]
    BY Roles DEF IInv, SingleOwner
  <2> QED
    BY <1>1, <1>8, <2>1, OwnOf DEF IInv
<1>10. \A q \in Ring \ {r} : ownBar'[Producer(q)] = ownBar[Producer(q)]
  BY <1>8, OwnOf DEF IInv
<1>11. ownBar' = [ownBar EXCEPT ![s] = @ \ {d}]
  <2>1. \A t \in Side \ {s} : ownBar'[t] = ownBar[t]
    BY <1>10, SidesProduce
  <2>2. s \in Side
    BY Roles
  <2> HIDE DEF s, d
  <2> QED
    BY <1>9, <2>1, <2>2, OwnExcept
<1> QED
  BY <1>6, <1>7, <1>9, <1>11 DEF Exchange!Give

(* The slot read of a get takes the oldest descriptor of the channel. *)
LEMMA ReadEntryTakes ==
    ASSUME IInv, IInv', NEW r \in Ring, ReadEntry(r)
    PROVE  Exchange!Take(r)
<1> DEFINE d == Entry(r, 0)
           c == Consumer(r)
<1>1. consIdx[r] # idx[r]
  BY DEF ReadEntry, IInv, ReadingInv
<1>2. /\ Pending(r) > 0
      /\ Pending(r)' = Pending(r) - 1
      /\ \A q \in Ring \ {r} : Pending(q)' = Pending(q)
      /\ \A k \in Nat : Entry(r, k)' = Entry(r, k + 1)
      /\ \A q \in Ring \ {r} : \A k \in Nat : Entry(q, k)' = Entry(q, k)
  BY <1>1, ReadEffect DEF ReadEntry
<1>3. /\ chanBar[r] # <<>>
      /\ Head(chanBar[r]) = d
      /\ chanBar' = [chanBar EXCEPT ![r] = Tail(@)]
  BY <1>2, ChanTail DEF IInv
<1>4. d = ring[r][Slot(consIdx[r])]
  BY DEF Entry, IInv, TypeOK, Index
<1>5. /\ putting' = putting
      /\ held'[c] = held[c] \union {d}
      /\ held'[Producer(r)] = held[Producer(r)]
  BY <1>4, Roles DEF ReadEntry, IInv, TypeOK
<1>6. freshBar' = freshBar
  BY DEF ReadEntry, freshBar
<1>7. PICK q \in Ring : q # r /\ Producer(q) = c
  BY DEF Ring, Producer, Consumer
<1>8. ownBar'[c] = ownBar[c] \union {d}
  BY <1>5, <1>7, OwnOf DEF IInv
<1>9. ownBar'[Producer(r)] = ownBar[Producer(r)]
  BY <1>5, OwnOf DEF IInv
<1>10. \A t \in Side : t = c \/ t = Producer(r)
  BY DEF Side, Ring, Producer, Consumer
<1>11. ownBar' = [ownBar EXCEPT ![c] = @ \union {d}]
  <2>1. \A t \in Side \ {c} : ownBar'[t] = ownBar[t]
    BY <1>9, <1>10
  <2>2. c \in Side
    BY Roles
  <2> HIDE DEF c, d
  <2> QED
    BY <1>8, <2>1, <2>2, OwnExcept
<1> QED
  BY <1>3, <1>6, <1>11 DEF Exchange!Take

(* rpmsg_lite_master_init supplies the next descriptor. *)
LEMMA FillRingSupplies ==
    ASSUME IInv, IInv', FillRing(PREFILL)
    PROVE  vq_desc_head_idx \in Desc /\ Exchange!Supply(PREFILL, vq_desc_head_idx)
<1> DEFINE r == PREFILL
           h == vq_desc_head_idx
<1>1. /\ r \in Ring
      /\ h \in Desc
      /\ h' = h + 1
  BY VirtqueueAssumption, ConstTypes DEF FillRing, Filled, IInv, TypeOK, Desc
<1>2. Pending(r) < NENTRIES /\ Pending(r) \in Nat
  BY <1>1, RoomInRing, PendingType DEF IInv, FillRing
<1>3. /\ Pending(r)' = Pending(r) + 1
      /\ \A q \in Ring \ {r} : Pending(q)' = Pending(q)
      /\ \A k \in Nat : k = Pending(r) => Entry(r, k)' = ring'[r][Slot(idx[r])]
  BY <1>1, <1>2, PublishEffect DEF FillRing
<1>4. ring'[r][Slot(idx[r])] = h
  BY <1>1, SlotType DEF FillRing, IInv, TypeOK, Index
<1>5. \A q \in Ring : \A k \in 0 .. Pending(q) - 1 : Entry(q, k)' = Entry(q, k)
  BY <1>1, <1>2, WriteKeepsEntries DEF FillRing
<1>6. chanBar' = [chanBar EXCEPT ![r] = Append(@, h)]
  BY <1>1, <1>3, <1>4, <1>5, ChanAppend DEF IInv
<1>7. h \in freshBar /\ freshBar' = freshBar \ {h}
  BY <1>1, ConstTypes DEF freshBar, Desc
<1>8. ownBar' = ownBar
  BY DEF FillRing, ownBar
<1> QED
  BY <1>1, <1>6, <1>7, <1>8 DEF Exchange!Supply

(* A look at the index moves no descriptor. *)
LEMMA SeeEntryStutters ==
    ASSUME NEW r \in Ring, SeeEntry(r)
    PROVE  UNCHANGED <<freshBar, chanBar, ownBar>>
  BY DEF SeeEntry, freshBar, chanBar, ownBar, Pending, Entry

(* The empty vring is the exchange before any buffer is supplied. *)
LEMMA InitExchange == Init => Exchange!Init
<1> SUFFICES ASSUME Init PROVE Exchange!Init
  OBVIOUS
<1>1. freshBar = Desc
  BY ConstTypes DEF Init, freshBar, Desc
<1>2. ASSUME NEW r \in Ring PROVE Pending(r) = 0
  BY ConstTypes DEF Init, Pending, IdxDiff, Index
<1>3. chanBar = [r \in Ring |-> <<>>]
  <2>1. \A r \in Ring : [k \in 1 .. Pending(r) |-> Entry(r, k - 1)] = <<>>
    BY <1>2
  <2> QED
    BY <2>1 DEF chanBar
<1>4. ownBar = [s \in Side |-> {}]
  BY VirtqueueAssumption DEF Init, ownBar, Ring
<1> QED
  BY <1>1, <1>3, <1>4 DEF Exchange!Init

(* Every step of the vring is a step of the exchange, or moves nothing. *)
LEMMA NextExchange ==
    ASSUME IInv, IInv', [Next]_vars
    PROVE  [Exchange!Next]_<<freshBar, chanBar, ownBar>>
<1>1. CASE virtqueue_fill_buffers
  <2>1. FillRing(PREFILL)
    BY <1>1, VirtqueueAssumption
       DEF virtqueue_fill_buffers, virtqueue_fill_avail_buffers, virtqueue_fill_used_buffers, Ring
  <2> QED
    BY <2>1, FillRingSupplies, VirtqueueAssumption DEF Exchange!Next
<1>2. ASSUME NEW r \in Ring, NEW d \in Desc, WriteSlot(r, d)
      PROVE  [Exchange!Next]_<<freshBar, chanBar, ownBar>>
  BY <1>2, WriteSlotStutters
<1>3. ASSUME NEW r \in Ring, PublishSlot(r)
      PROVE  [Exchange!Next]_<<freshBar, chanBar, ownBar>>
  <2>1. putting[r] \in Desc
    BY <1>3 DEF PublishSlot, IInv, TypeOK
  <2> QED
    BY <1>3, <2>1, PublishSlotGives DEF Exchange!Next
<1>4. ASSUME NEW r \in Ring, SeeEntry(r)
      PROVE  [Exchange!Next]_<<freshBar, chanBar, ownBar>>
  BY <1>4, SeeEntryStutters
<1>5. ASSUME NEW r \in Ring, ReadEntry(r)
      PROVE  [Exchange!Next]_<<freshBar, chanBar, ownBar>>
  BY <1>5, ReadEntryTakes DEF Exchange!Next
<1>6. CASE UNCHANGED vars
  BY <1>6 DEF vars, freshBar, chanBar, ownBar, Pending, Entry
<1>7. "avail" \in Ring /\ "used" \in Ring
  BY DEF Ring
<1> QED
  BY <1>1, <1>2, <1>3, <1>4, <1>5, <1>6, <1>7
     DEF Next, virtqueue_add_buffer, vq_ring_update_avail, virtqueue_add_consumed_buffer,
         vq_ring_update_used, virtqueue_get_buffer, virtqueue_get_available_buffer

(* For every ring size and index width the two cores can use, the vring of *)
(* virtqueue.c implements the exchange of buffers over two FIFO channels:  *)
(* what one side takes is what the other gave, once and in order.          *)
THEOREM ExchangeImplemented == Spec => ImplementsExchange
<1>1. Spec => []IInv
  BY Invariance
<1> QED
  BY <1>1, InitExchange, NextExchange, PTL DEF Spec, ImplementsExchange, Exchange!Spec
=============================================================================
