-------------------------- MODULE MemManagerProofs --------------------------
(***************************************************************************)
(* Proofs about the memory manager, the lists and the message queues, for  *)
(* every layout of the pools and every number of tasks, buffers and        *)
(* queues, as long as each queue has one consumer.                         *)
(***************************************************************************)
EXTENDS MemManager, FiniteSetTheorems, SequenceTheorems, WellFoundedInduction, TLAPS

(* Each message queue is emptied by one task.                              *)
SingleConsumer == \A q \in Queue : \A t, u \in Consumers[q] : t = u

(* The list l is the sequence c: its ends, the links and the list fields   *)
(* of its elements agree.                                                  *)
Linked(l, c) ==
    /\ c \in [1 .. size[l] -> Buffer]
    /\ head[l] = IF size[l] = 0 THEN NULL ELSE c[1]
    /\ tail[l] = IF size[l] = 0 THEN NULL ELSE c[size[l]]
    /\ \A i \in 1 .. size[l] : /\ list[c[i]] = l
                               /\ next[c[i]] = IF i = size[l] THEN NULL ELSE c[i + 1]
                               /\ prev[c[i]] = IF i = 1 THEN NULL ELSE c[i - 1]
    /\ \A i, j \in 1 .. size[l] : c[i] = c[j] => i = j

LinkTypes ==
    /\ head \in [List -> Buffer \union {NULL}] /\ tail \in [List -> Buffer \union {NULL}]
    /\ size \in [List -> Nat]
    /\ next \in [Buffer -> Buffer \union {NULL}] /\ prev \in [Buffer -> Buffer \union {NULL}]
    /\ list \in [Buffer -> List \union {NULL}]

(* Every list is the sequence that one reads from its head, and a buffer   *)
(* that names a list is in it.                                             *)
ListInv ==
    /\ LinkTypes
    /\ \A l \in List : Linked(l, Forward(l))
    /\ \A l \in List, b \in Buffer : list[b] = l => \E i \in 1 .. size[l] : Forward(l)[i] = b

(* A buffer is in a list or a task holds it.                               *)
HolderInv ==
    /\ holder \in [Buffer -> Task \union {NoTask}]
    /\ \A b \in Buffer : holder[b] = NoTask <=> list[b] # NULL

(* The counters, from the free lists.                                      *)
CountInv ==
    /\ allocatedBlocks = [p \in Pool |-> Len(poolInfo[p].blocks) - size[p]]
    /\ gFreeMessagesCount = Cardinality({b \in Buffer : list[b] \in Pool})
    /\ \A b \in Buffer : list[b] \in Pool => list[b] = ParentPool(b)

(* A call between its two steps: the element it found is still in a queue  *)
(* of this task, and the task holds what it is about to add or to free.    *)
TaskOk(t) ==
    /\ task[t].pc \in {"remove", "addprev"} => task[t].element \in Buffer /\ FoundInQueue(t, task[t].element)
    /\ task[t].pc = "addprev" => task[t].new \in Buffer /\ holder[task[t].new] = t
    /\ task[t].pc \in {"dequeue", "free"} => task[t].new \in Queue /\ t \in Consumers[task[t].new]
    /\ task[t].pc = "free" => task[t].element \in Buffer /\ holder[task[t].element] = t
TaskState ==
    [pc : {"idle", "remove", "addprev", "dequeue", "free"},
     element : Buffer \union {NULL}, new : Buffer \union Queue \union {NULL}]
TaskInv == task \in [Task -> TaskState] /\ \A t \in Task : TaskOk(t)

(* The inductive invariant.                                                *)
IInv == ListInv /\ HolderInv /\ CountInv /\ TaskInv

-----------------------------------------------------------------------------
(* A nonempty set of natural numbers has a least element.                  *)
LEMMA LeastNat ==
    ASSUME NEW T, T \subseteq Nat, T # {}
    PROVE  \E m \in T : \A k \in T : m <= k
<1> DEFINE R == {x \in Nat \X Nat : x[1] < x[2]}
<1>1. IsWellFoundedOn(R, Nat)
  BY NatLessThanWellFounded, Zenon DEF OpToRel
<1>2. \A k, m \in Nat : k < m => <<k, m>> \in R
  OBVIOUS
<1> HIDE DEF R
<1>3. PICK m \in T : \A k \in T : ~(<<k, m>> \in R)
  BY <1>1, WFMin
<1>4. \A k \in T : ~(k < m)
  BY <1>2, <1>3, Zenon
<1> QED
  BY <1>4

(* The pools: their blocks are finitely many and each has one pool.        *)
LEMMA PoolFacts ==
    /\ Len(poolInfo) \in Nat /\ Pool = 1 .. Len(poolInfo)
    /\ \A p \in Pool : /\ poolInfo[p].blockSize \in Nat \ {0}
                       /\ poolInfo[p].poolId \in Nat
                       /\ poolInfo[p].blocks \in Seq(Buffer)
                       /\ Blocks(p) \subseteq Buffer
    /\ \A b \in Buffer : ParentPool(b) \in Pool /\ b \in Blocks(ParentPool(b))
    /\ \A b \in Buffer, p \in Pool : b \in Blocks(p) => p = ParentPool(b)
<1>1. /\ Len(poolInfo) \in Nat /\ Pool = 1 .. Len(poolInfo)
      /\ \A p \in Pool : poolInfo[p] \in [blockSize : Nat \ {0}, poolId : Nat, blocks : Seq(Buffer)]
  <2> DEFINE R == [blockSize : Nat \ {0}, poolId : Nat, blocks : Seq(Buffer)]
  <2>1. poolInfo \in Seq(R)
    BY MemManagerAssumption
  <2> HIDE DEF R
  <2>2. Len(poolInfo) \in Nat /\ Pool = 1 .. Len(poolInfo) /\ poolInfo \in [1 .. Len(poolInfo) -> R]
    BY <2>1, LenProperties DEF Pool
  <2> QED
    BY <2>2 DEF R
<1>2. \A p \in Pool : /\ poolInfo[p].blockSize \in Nat \ {0}
                      /\ poolInfo[p].poolId \in Nat
                      /\ poolInfo[p].blocks \in Seq(Buffer)
  BY <1>1
<1>3. \A p \in Pool : Blocks(p) \subseteq Buffer
  BY <1>2 DEF Blocks
<1>4. ASSUME NEW b \in Buffer PROVE ParentPool(b) \in Pool /\ b \in Blocks(ParentPool(b))
  <2>1. \E p \in Pool : b \in Blocks(p)
    BY MemManagerAssumption
  <2> QED
    BY <2>1 DEF ParentPool
<1>5. \A b \in Buffer, p \in Pool : b \in Blocks(p) => p = ParentPool(b)
  BY <1>4, MemManagerAssumption
<1> QED
  BY <1>1, <1>2, <1>3, <1>4, <1>5

(* The blocks of a pool, in the order MEM_Init links them.                 *)
LEMMA BlocksOf ==
    ASSUME NEW p \in Pool
    PROVE  /\ Len(poolInfo[p].blocks) \in Nat
           /\ poolInfo[p].blocks \in [1 .. Len(poolInfo[p].blocks) -> Buffer]
           /\ DOMAIN poolInfo[p].blocks = 1 .. Len(poolInfo[p].blocks)
           /\ IsFiniteSet(Blocks(p))
           /\ \A i, j \in 1 .. Len(poolInfo[p].blocks) :
                 poolInfo[p].blocks[i] = poolInfo[p].blocks[j] => i = j
<1>1. PICK s : s = poolInfo[p].blocks
  OBVIOUS
<1>2. s \in Seq(Buffer)
  BY <1>1, PoolFacts
<1>3. Len(s) \in Nat /\ s \in [1 .. Len(s) -> Buffer] /\ DOMAIN s = 1 .. Len(s)
  BY <1>2, LenProperties
<1>4. Blocks(p) = {s[k] : k \in 1 .. Len(s)}
  BY <1>1, <1>3 DEF Blocks
<1>5. s \in Surjection(1 .. Len(s), Blocks(p))
  BY <1>3, <1>4 DEF Surjection
<1>6. IsFiniteSet(1 .. Len(s)) /\ Cardinality(1 .. Len(s)) = Len(s)
  BY <1>3, FS_Interval
<1>7. IsFiniteSet(Blocks(p))
  BY <1>5, <1>6, FS_Surjection
<1>8. Cardinality(Blocks(p)) = Len(s)
  BY <1>1, MemManagerAssumption
<1>9. s \in Injection(1 .. Len(s), Blocks(p))
  BY <1>5, <1>6, <1>8, FS_SurjSameCardinalityImpliesInj
<1>10. \A i, j \in 1 .. Len(s) : s[i] = s[j] => i = j
  BY <1>9, <1>3 DEF Injection, IsInjective
<1> QED
  BY <1>1, <1>3, <1>7, <1>10

(* There are finitely many buffers.                                        *)
LEMMA BufferFinite == IsFiniteSet(Buffer) /\ Cardinality(Buffer) \in Nat
<1> DEFINE B == {Blocks(p) : p \in Pool}
           f == [p \in Pool |-> Blocks(p)]
<1>1. IsFiniteSet(B)
  <2>1. f \in Surjection(Pool, B)
    <3>1. f \in [Pool -> B]
      OBVIOUS
    <3>2. \A x \in B : \E p \in Pool : f[p] = x
      OBVIOUS
    <3> HIDE DEF f, B
    <3> QED
      BY <3>1, <3>2 DEF Surjection
  <2>2. IsFiniteSet(Pool)
    BY PoolFacts, FS_Interval
  <2> HIDE DEF f, B
  <2> QED
    BY <2>1, <2>2, FS_Surjection
<1>2. \A x \in B : IsFiniteSet(x)
  BY BlocksOf
<1>3. Buffer = UNION B
  BY MemManagerAssumption
<1> HIDE DEF B
<1>4. IsFiniteSet(UNION B)
  BY <1>1, <1>2, FS_UNION
<1> QED
  BY <1>3, <1>4, FS_CardinalityType

(* A sequence of distinct buffers is not longer than there are buffers.    *)
LEMMA LenBound ==
    ASSUME NEW n \in Nat, NEW c \in [1 .. n -> Buffer], \A i, j \in 1 .. n : c[i] = c[j] => i = j
    PROVE  n <= Cardinality(Buffer)
<1>1. c \in Injection(1 .. n, Buffer)
  BY DEF Injection, IsInjective
<1>2. Cardinality(1 .. n) = n
  BY FS_Interval
<1> QED
  BY <1>1, <1>2, FS_Injection, BufferFinite

(* The links of a sequence lead through it.                                *)
LEMMA ChainIs ==
    ASSUME NEW n \in Nat, NEW s \in [1 .. n -> Buffer], \A i, j \in 1 .. n : s[i] = s[j] => i = j,
           NEW first, first = IF n = 0 THEN NULL ELSE s[1],
           NEW link, \A i \in 1 .. n : link[s[i]] = IF i = n THEN NULL ELSE s[i + 1]
    PROVE  Chain(first, link) = s
<1> DEFINE D == 1 .. Cardinality(Buffer) + 1
           Def(a) == [k \in D |-> IF k = 1 THEN first
                                  ELSE IF a[k - 1] \in Buffer THEN link[a[k - 1]] ELSE NULL]
           at == CHOOSE a : a = Def(a)
           g == [k \in D |-> IF k <= n THEN s[k] ELSE NULL]
<1>1. n <= Cardinality(Buffer) /\ Cardinality(Buffer) \in Nat
  BY LenBound, BufferFinite
<1>2. NULL \notin Buffer /\ \A k \in 1 .. n : s[k] \in Buffer
  BY MemManagerAssumption
<1>3. ASSUME NEW k \in D
      PROVE  g[k] = IF k = 1 THEN first
                    ELSE IF g[k - 1] \in Buffer THEN link[g[k - 1]] ELSE NULL
  <2>1. CASE k = 1
    BY <1>1, <2>1
  <2>2. CASE k > 1 /\ k <= n
    BY <1>1, <1>2, <2>2
  <2>3. CASE k > 1 /\ k = n + 1
    BY <1>1, <1>2, <2>3
  <2>4. CASE k > 1 /\ k > n + 1
    BY <1>1, <1>2, <2>4
  <2> QED
    BY <1>1, <2>1, <2>2, <2>3, <2>4
<1>4. g = Def(g)
  BY <1>3, Zenon
<1>5. at = Def(at)
  <2> HIDE DEF Def
  <2> QED
    BY <1>4, Zenon
<1>c. Chain(first, link) = [k \in 1 .. Cardinality({i \in D : at[i] # NULL}) |-> at[k]]
  BY DEF Chain
<1>p. \A i \in D : g[i] # NULL <=> i \in 1 .. n
  BY <1>1, <1>2
<1>q. \A k \in 1 .. n : k \in D /\ g[k] = s[k]
  BY <1>1
<1>a. \A k \in D : at[k] = IF k = 1 THEN first ELSE IF at[k - 1] \in Buffer THEN link[at[k - 1]] ELSE NULL
  <2>1. PICK a : a = at
    OBVIOUS
  <2> HIDE DEF at
  <2>2. a = Def(a)
    BY <1>5, <2>1
  <2> QED
    BY <2>1, <2>2
<1> HIDE DEF at, g, Def
<1>6. \A k \in D : at[k] = g[k]
  <2> DEFINE T == {i \in D : at[i] # g[i]}
  <2>1. SUFFICES ASSUME T # {} PROVE FALSE
    OBVIOUS
  <2>2. PICK m \in T : \A i \in T : m <= i
    <3>1. T \subseteq Nat
      OBVIOUS
    <3> HIDE DEF T
    <3> QED
      BY <2>1, <3>1, LeastNat
  <2>3. m # 1
    BY <1>1, <1>3, <1>a, <2>2
  <2>4. m - 1 \in D /\ m - 1 \notin T
    BY <1>1, <2>2, <2>3
  <2>5. at[m - 1] = g[m - 1]
    BY <2>4
  <2> QED
    BY <1>3, <1>a, <2>2, <2>3, <2>5
<1>7. {i \in D : at[i] # NULL} = 1 .. n
  BY <1>6, <1>p, <1>q
<1>8. Cardinality(1 .. n) = n
  BY FS_Interval
<1>9. \A k \in 1 .. n : at[k] = s[k]
  BY <1>6, <1>q
<1>10. Chain(first, link) = [k \in 1 .. n |-> at[k]]
  BY <1>7, <1>8, <1>c
<1> QED
  BY <1>9, <1>10

(* A list that is linked as c is read as c from its head.                  *)
LEMMA ForwardIs ==
    ASSUME NEW l \in List, NEW c
    PROVE  /\ size[l] \in Nat /\ Linked(l, c) => Forward(l) = c
           /\ size'[l] \in Nat /\ Linked(l, c)' => Forward(l)' = c
<1>1. ASSUME size[l] \in Nat, Linked(l, c) PROVE Forward(l) = c
  <2>1. PICK n, first, link : n = size[l] /\ first = head[l] /\ link = next
    OBVIOUS
  <2>2. /\ n \in Nat /\ c \in [1 .. n -> Buffer]
        /\ \A i, j \in 1 .. n : c[i] = c[j] => i = j
        /\ first = IF n = 0 THEN NULL ELSE c[1]
        /\ \A i \in 1 .. n : link[c[i]] = IF i = n THEN NULL ELSE c[i + 1]
    BY <1>1, <2>1 DEF Linked
  <2>3. Chain(first, link) = c
    BY <2>2, ChainIs
  <2> QED
    BY <2>1, <2>3 DEF Forward
<1>2. ASSUME size'[l] \in Nat, Linked(l, c)' PROVE Forward(l)' = c
  <2>1. PICK n, first, link : n = size'[l] /\ first = head'[l] /\ link = next'
    OBVIOUS
  <2>2. /\ n \in Nat /\ c \in [1 .. n -> Buffer]
        /\ \A i, j \in 1 .. n : c[i] = c[j] => i = j
        /\ first = IF n = 0 THEN NULL ELSE c[1]
        /\ \A i \in 1 .. n : link[c[i]] = IF i = n THEN NULL ELSE c[i + 1]
    BY <1>2, <2>1 DEF Linked
  <2>3. Chain(first, link) = c
    BY <2>2, ChainIs
  <2> QED
    BY <2>1, <2>3 DEF Forward
<1> QED
  BY <1>1, <1>2

-----------------------------------------------------------------------------
(* An element leaves its list.                                             *)
LEMMA RemoveGood ==
    ASSUME ListInv, NEW b \in Buffer, NEW l \in List, l = list[b], ListRemoveElement(b)
    PROVE  /\ ListInv'
           /\ \A m \in List : m # l => Forward(m)' = Forward(m)
           /\ \E k \in 1 .. size[l] :
                 /\ Forward(l)[k] = b
                 /\ Forward(l)' = [i \in 1 .. size[l] - 1 |->
                                     IF i < k THEN Forward(l)[i] ELSE Forward(l)[i + 1]]
<1>2. PICK n \in Nat : n = size[l]
  BY DEF ListInv, LinkTypes
<1>3. PICK c \in [1 .. n -> Buffer] : c = Forward(l) /\ Linked(l, c)
  BY <1>2 DEF ListInv, Linked
<1>4. PICK k \in 1 .. n : c[k] = b
  BY <1>2, <1>3 DEF ListInv
<1>5. /\ NULL \notin Buffer /\ NULL \notin List
      /\ head[l] = IF n = 0 THEN NULL ELSE c[1]
      /\ tail[l] = IF n = 0 THEN NULL ELSE c[n]
      /\ \A i \in 1 .. n : /\ list[c[i]] = l
                           /\ next[c[i]] = IF i = n THEN NULL ELSE c[i + 1]
                           /\ prev[c[i]] = IF i = 1 THEN NULL ELSE c[i - 1]
      /\ \A i, j \in 1 .. n : c[i] = c[j] => i = j
  BY <1>2, <1>3, MemManagerAssumption DEF Linked
<1>i. \A i, j \in 1 .. n : c[i] = c[j] => i = j
  BY <1>5
<1>6. /\ next[b] = IF k = n THEN NULL ELSE c[k + 1]
      /\ prev[b] = IF k = 1 THEN NULL ELSE c[k - 1]
  BY <1>4, <1>5
<1>7. /\ size' = [size EXCEPT ![l] = n - 1]
      /\ list' = [list EXCEPT ![b] = NULL]
      /\ head' = IF k = 1 THEN [head EXCEPT ![l] = next[b]] ELSE head
      /\ tail' = IF k = n THEN [tail EXCEPT ![l] = prev[b]] ELSE tail
      /\ next' = IF k # 1 THEN [next EXCEPT ![c[k - 1]] = next[b]] ELSE next
      /\ prev' = IF k # n THEN [prev EXCEPT ![c[k + 1]] = prev[b]] ELSE prev
  <2>1. /\ prev[b] = NULL <=> k = 1
        /\ next[b] = NULL <=> k = n
    BY <1>5, <1>6
  <2> QED
    BY <1>2, <1>6, <2>1 DEF ListRemoveElement
<1>8. LinkTypes'
  BY <1>6, <1>7 DEF ListInv, LinkTypes
<1>9. /\ size'[l] = n - 1 /\ n - 1 \in Nat
      /\ head'[l] = IF k = 1 THEN next[b] ELSE head[l]
      /\ tail'[l] = IF k = n THEN prev[b] ELSE tail[l]
      /\ \A x \in Buffer : /\ list'[x] = IF x = b THEN NULL ELSE list[x]
                           /\ next'[x] = IF k # 1 /\ x = c[k - 1] THEN next[b] ELSE next[x]
                           /\ prev'[x] = IF k # n /\ x = c[k + 1] THEN prev[b] ELSE prev[x]
      /\ \A m \in List : m # l => head'[m] = head[m] /\ tail'[m] = tail[m] /\ size'[m] = size[m]
  BY <1>7 DEF ListInv, LinkTypes
<1>10. PICK d : d = [i \in 1 .. n - 1 |-> IF i < k THEN c[i] ELSE c[i + 1]]
  OBVIOUS
<1>11. Linked(l, d)'
  <2>1. d \in [1 .. n - 1 -> Buffer]
    BY <1>10
  <2>2. head'[l] = (IF n - 1 = 0 THEN NULL ELSE d[1]) /\ tail'[l] = (IF n - 1 = 0 THEN NULL ELSE d[n - 1])
    BY <1>5, <1>6, <1>9, <1>10
  <2>3. ASSUME NEW i \in 1 .. n - 1
        PROVE  /\ list'[d[i]] = l
               /\ next'[d[i]] = IF i = n - 1 THEN NULL ELSE d[i + 1]
               /\ prev'[d[i]] = IF i = 1 THEN NULL ELSE d[i - 1]
    <3>1. CASE i < k
      <4>1. d[i] = c[i] /\ i \in 1 .. n /\ i # k
        BY <1>10, <3>1
      <4>2. list'[c[i]] = l /\ prev'[c[i]] = prev[c[i]]
        BY <1>4, <1>5, <1>9, <3>1, <4>1
      <4>3. next'[c[i]] = IF i = k - 1 THEN next[b] ELSE next[c[i]]
        <5>1. c[i] \in Buffer /\ (k # 1 => k - 1 \in 1 .. n)
          BY <4>1
        <5>2. k # 1 => (c[i] = c[k - 1] <=> i = k - 1)
          BY <1>i, <4>1, <5>1
        <5> QED
          BY <1>9, <3>1, <5>1, <5>2
      <4> QED
        BY <1>5, <1>6, <1>10, <3>1, <4>1, <4>2, <4>3
    <3>2. CASE i >= k
      <4>1. d[i] = c[i + 1] /\ i + 1 \in 1 .. n /\ i + 1 # k
        BY <1>10, <3>2
      <4>a. c[i + 1] \in Buffer /\ c[i + 1] # b /\ (k # 1 => c[i + 1] # c[k - 1])
        BY <1>4, <1>5, <3>2, <4>1
      <4>2. list'[c[i + 1]] = l /\ next'[c[i + 1]] = next[c[i + 1]]
        BY <1>5, <1>9, <4>1, <4>a
      <4>3. prev'[c[i + 1]] = IF i = k THEN prev[b] ELSE prev[c[i + 1]]
        BY <1>5, <1>9, <3>2, <4>1
      <4>4. next[c[i + 1]] = (IF i = n - 1 THEN NULL ELSE c[i + 2]) /\ prev[c[i + 1]] = c[i]
        BY <1>5, <4>1
      <4>5. i # n - 1 => d[i + 1] = c[i + 2]
        BY <1>10, <3>2
      <4>6. i # 1 => d[i - 1] = IF i = k THEN c[k - 1] ELSE c[i]
        BY <1>10, <3>2
      <4> QED
        BY <1>6, <3>2, <4>1, <4>2, <4>3, <4>4, <4>5, <4>6
    <3> QED
      BY <3>1, <3>2
  <2>4. ASSUME NEW i \in 1 .. n - 1, NEW j \in 1 .. n - 1, d[i] = d[j] PROVE i = j
    <3>1. PICK p \in 1 .. n : p = (IF i < k THEN i ELSE i + 1) /\ d[i] = c[p]
      BY <1>10
    <3>2. PICK q \in 1 .. n : q = (IF j < k THEN j ELSE j + 1) /\ d[j] = c[q]
      BY <1>10
    <3>3. p = q
      BY <1>i, <2>4, <3>1, <3>2
    <3> QED
      BY <3>1, <3>2, <3>3
  <2> QED
    BY <1>9, <2>1, <2>2, <2>3, <2>4 DEF Linked
<1>12. Forward(l)' = d
  BY <1>9, <1>11, ForwardIs
<1>13. ASSUME NEW m \in List, m # l PROVE Forward(m)' = Forward(m) /\ Linked(m, Forward(m))'
  <2>1. PICK f : f = Forward(m) /\ Linked(m, f)
    BY DEF ListInv
  <2>2. size[m] \in Nat
    BY DEF ListInv, LinkTypes
  <2>3. ASSUME NEW i \in 1 .. size[m]
        PROVE  f[i] \in Buffer /\ f[i] # b /\ \A j \in 1 .. n : f[i] # c[j]
    <3>1. f[i] \in Buffer /\ list[f[i]] = m
      BY <2>1 DEF Linked
    <3> QED
      BY <1>5, <1>13, <3>1
  <2>4. \A i \in 1 .. size[m] : /\ list'[f[i]] = list[f[i]]
                                /\ next'[f[i]] = next[f[i]] /\ prev'[f[i]] = prev[f[i]]
    BY <1>9, <2>3
  <2>5. Linked(m, f)'
    BY <1>9, <1>13, <2>1, <2>4 DEF Linked
  <2> QED
    BY <1>9, <1>13, <2>1, <2>2, <2>5, ForwardIs
<1>14. ASSUME NEW m \in List, NEW x \in Buffer, list'[x] = m
       PROVE  \E i \in 1 .. size'[m] : Forward(m)'[i] = x
  <2>1. x # b /\ list[x] = m
    BY <1>5, <1>9, <1>14
  <2>2. PICK i \in 1 .. size[m] : Forward(m)[i] = x
    BY <2>1 DEF ListInv
  <2>3. CASE m # l
    BY <1>9, <1>13, <2>2, <2>3
  <2>4. CASE m = l
    <3>1. i \in 1 .. n /\ c[i] = x /\ i # k
      BY <1>2, <1>3, <1>4, <2>1, <2>2, <2>4
    <3>2. PICK j \in 1 .. n - 1 : d[j] = x
      <4>1. CASE i < k
        BY <1>10, <3>1, <4>1
      <4>2. CASE i > k
        <5>1. i - 1 \in 1 .. n - 1 /\ d[i - 1] = x
          BY <1>10, <3>1, <4>2
        <5> QED
          BY <5>1
      <4> QED
        BY <3>1, <4>1, <4>2
    <3> QED
      BY <1>9, <1>12, <2>4, <3>2
  <2> QED
    BY <2>3, <2>4
<1>15. ListInv'
  <2>1. \A m \in List : Linked(m, Forward(m))'
    BY <1>11, <1>12, <1>13
  <2>2. \A m \in List, x \in Buffer : list'[x] = m => \E i \in 1 .. size'[m] : Forward(m)'[i] = x
    BY <1>14
  <2> QED
    BY <1>8, <2>1, <2>2 DEF ListInv
<1> QED
  BY <1>2, <1>3, <1>4, <1>10, <1>12, <1>13, <1>15

(* What ListAddTail, ListAddHead and ListAddPrevElement have in common: b  *)
(* is linked into l between p and e, where NULL stands for an end.         *)
Insertion(l, p, e, b) ==
    /\ head' = IF p = NULL THEN [head EXCEPT ![l] = b] ELSE head
    /\ tail' = IF e = NULL THEN [tail EXCEPT ![l] = b] ELSE tail
    /\ next' = [x \in Buffer |-> IF x = b THEN e ELSE IF x = p THEN b ELSE next[x]]
    /\ prev' = [x \in Buffer |-> IF x = b THEN p ELSE IF x = e THEN b ELSE prev[x]]
    /\ list' = [list EXCEPT ![b] = l]
    /\ size' = [size EXCEPT ![l] = @ + 1]

(* An element enters a list at position k.                                 *)
LEMMA InsertGood ==
    ASSUME ListInv, NEW b \in Buffer, list[b] = NULL, NEW l \in List, NEW k \in 1 .. size[l] + 1,
           NEW p, p = IF k = 1 THEN NULL ELSE Forward(l)[k - 1],
           NEW e, e = IF k = size[l] + 1 THEN NULL ELSE Forward(l)[k],
           Insertion(l, p, e, b)
    PROVE  /\ ListInv'
           /\ \A m \in List : m # l => Forward(m)' = Forward(m)
           /\ Forward(l)' = [i \in 1 .. size[l] + 1 |->
                IF i < k THEN Forward(l)[i] ELSE IF i = k THEN b ELSE Forward(l)[i - 1]]
<1>1. PICK n \in Nat : n = size[l]
  BY DEF ListInv, LinkTypes
<1>2. PICK c \in [1 .. n -> Buffer] : c = Forward(l) /\ Linked(l, c)
  BY <1>1 DEF ListInv, Linked
<1>3. k \in 1 .. n + 1 /\ p = (IF k = 1 THEN NULL ELSE c[k - 1]) /\ e = (IF k = n + 1 THEN NULL ELSE c[k])
  BY <1>1, <1>2
<1>4. /\ NULL \notin Buffer /\ NULL \notin List
      /\ head[l] = IF n = 0 THEN NULL ELSE c[1]
      /\ tail[l] = IF n = 0 THEN NULL ELSE c[n]
      /\ \A i \in 1 .. n : /\ list[c[i]] = l
                           /\ next[c[i]] = IF i = n THEN NULL ELSE c[i + 1]
                           /\ prev[c[i]] = IF i = 1 THEN NULL ELSE c[i - 1]
  BY <1>1, <1>2, MemManagerAssumption DEF Linked
<1>5. \A i, j \in 1 .. n : c[i] = c[j] => i = j
  BY <1>1, <1>2 DEF Linked
<1>6. /\ p \in Buffer \union {NULL} /\ e \in Buffer \union {NULL}
      /\ p = NULL <=> k = 1
      /\ e = NULL <=> k = n + 1
      /\ p # b /\ e # b
      /\ \A i \in 1 .. n : /\ c[i] \in Buffer /\ c[i] # b
                           /\ c[i] = p <=> i = k - 1
                           /\ c[i] = e <=> i = k
  <2>1. \A i \in 1 .. n : c[i] \in Buffer /\ c[i] # b
    BY <1>4
  <2>2. k # 1 => k - 1 \in 1 .. n /\ p = c[k - 1]
    BY <1>3
  <2>3. k # n + 1 => k \in 1 .. n /\ e = c[k]
    BY <1>3
  <2>4. p \in Buffer \union {NULL} /\ (p = NULL <=> k = 1) /\ p # b
    BY <1>3, <1>4, <2>1, <2>2
  <2>5. e \in Buffer \union {NULL} /\ (e = NULL <=> k = n + 1) /\ e # b
    BY <1>3, <1>4, <2>1, <2>3
  <2>6. ASSUME NEW i \in 1 .. n PROVE (c[i] = p <=> i = k - 1) /\ (c[i] = e <=> i = k)
    BY <1>3, <1>4, <1>5, <2>1, <2>2, <2>3
  <2> QED
    BY <2>1, <2>4, <2>5, <2>6
<1>7. LinkTypes'
  BY <1>6 DEF ListInv, LinkTypes, Insertion
<1>8. /\ size'[l] = n + 1
      /\ head'[l] = IF k = 1 THEN b ELSE head[l]
      /\ tail'[l] = IF k = n + 1 THEN b ELSE tail[l]
      /\ \A x \in Buffer : /\ list'[x] = IF x = b THEN l ELSE list[x]
                           /\ next'[x] = IF x = b THEN e ELSE IF x = p THEN b ELSE next[x]
                           /\ prev'[x] = IF x = b THEN p ELSE IF x = e THEN b ELSE prev[x]
      /\ \A m \in List : m # l => head'[m] = head[m] /\ tail'[m] = tail[m] /\ size'[m] = size[m]
  BY <1>1, <1>6 DEF ListInv, LinkTypes, Insertion
<1>9. PICK d : d = [i \in 1 .. n + 1 |-> IF i < k THEN c[i] ELSE IF i = k THEN b ELSE c[i - 1]]
  OBVIOUS
<1>10. Linked(l, d)'
  <2>1. d \in [1 .. n + 1 -> Buffer]
    BY <1>3, <1>9
  <2>2. head'[l] = d[1] /\ tail'[l] = d[n + 1]
    BY <1>3, <1>4, <1>8, <1>9
  <2>3. ASSUME NEW i \in 1 .. n + 1
        PROVE  /\ list'[d[i]] = l
               /\ next'[d[i]] = IF i = n + 1 THEN NULL ELSE d[i + 1]
               /\ prev'[d[i]] = IF i = 1 THEN NULL ELSE d[i - 1]
    <3>1. CASE i < k
      <4>1. d[i] = c[i] /\ i \in 1 .. n
        BY <1>3, <1>9, <3>1
      <4>2. /\ list'[c[i]] = l /\ prev'[c[i]] = prev[c[i]]
            /\ next'[c[i]] = IF i = k - 1 THEN b ELSE next[c[i]]
        BY <1>3, <1>4, <1>6, <1>8, <3>1, <4>1
      <4>3. d[i + 1] = (IF i = k - 1 THEN b ELSE c[i + 1]) /\ (i # 1 => d[i - 1] = c[i - 1])
        BY <1>3, <1>9, <3>1
      <4> QED
        BY <1>3, <1>4, <3>1, <4>1, <4>2, <4>3
    <3>2. CASE i = k
      <4>1. d[i] = b /\ list'[b] = l /\ next'[b] = e /\ prev'[b] = p
        BY <1>3, <1>8, <1>9, <3>2
      <4>2. (i # n + 1 => d[i + 1] = c[i]) /\ (i # 1 => d[i - 1] = c[i - 1])
        <5>1. i # n + 1 => i + 1 \in 1 .. n + 1 /\ ~(i + 1 < k) /\ i + 1 # k /\ (i + 1) - 1 = i
          BY <3>2
        <5>2. i # 1 => i - 1 \in 1 .. n + 1 /\ i - 1 < k
          BY <3>2
        <5> QED
          BY <1>9, <5>1, <5>2
      <4> QED
        BY <1>3, <3>2, <4>1, <4>2
    <3>3. CASE i > k
      <4>1. d[i] = c[i - 1] /\ i - 1 \in 1 .. n
        BY <1>3, <1>9, <3>3
      <4>2. /\ list'[c[i - 1]] = l /\ next'[c[i - 1]] = next[c[i - 1]]
            /\ prev'[c[i - 1]] = IF i - 1 = k THEN b ELSE prev[c[i - 1]]
        BY <1>3, <1>4, <1>6, <1>8, <3>3, <4>1
      <4>3. d[i - 1] = (IF i - 1 = k THEN b ELSE c[i - 2]) /\ (i # n + 1 => d[i + 1] = c[i])
        BY <1>3, <1>9, <3>3
      <4>4. /\ next[c[i - 1]] = IF i - 1 = n THEN NULL ELSE c[i]
            /\ prev[c[i - 1]] = IF i - 1 = 1 THEN NULL ELSE c[i - 2]
        BY <1>4, <4>1
      <4> QED
        BY <1>3, <3>3, <4>1, <4>2, <4>3, <4>4
    <3> QED
      BY <1>3, <3>1, <3>2, <3>3
  <2>4. ASSUME NEW i \in 1 .. n + 1, NEW j \in 1 .. n + 1, d[i] = d[j] PROVE i = j
    <3>1. /\ i < k => i \in 1 .. n /\ d[i] = c[i]
          /\ i = k => d[i] = b
          /\ i > k => i - 1 \in 1 .. n /\ d[i] = c[i - 1]
      BY <1>3, <1>9
    <3>2. /\ j < k => j \in 1 .. n /\ d[j] = c[j]
          /\ j = k => d[j] = b
          /\ j > k => j - 1 \in 1 .. n /\ d[j] = c[j - 1]
      BY <1>3, <1>9
    <3>3. \A m \in 1 .. n : c[m] # b
      BY <1>6
    <3>4. CASE i < k
      BY <1>3, <1>5, <2>4, <3>1, <3>2, <3>3, <3>4
    <3>5. CASE i = k
      BY <1>3, <2>4, <3>1, <3>2, <3>3, <3>5
    <3>6. CASE i > k
      <4>1. PICK q \in 1 .. n : q = i - 1 /\ d[i] = c[q]
        BY <3>1, <3>6
      <4>2. j # k
        BY <2>4, <3>2, <3>3, <4>1
      <4>3. PICK r \in 1 .. n : r = (IF j < k THEN j ELSE j - 1) /\ d[j] = c[r]
        BY <1>3, <3>2, <4>2
      <4>4. q = r
        BY <1>5, <2>4, <4>1, <4>3
      <4> QED
        BY <1>3, <3>6, <4>1, <4>2, <4>3, <4>4
    <3> QED
      BY <1>3, <3>4, <3>5, <3>6
  <2> QED
    BY <1>8, <2>1, <2>2, <2>3, <2>4 DEF Linked
<1>11. Forward(l)' = d
  BY <1>8, <1>10, ForwardIs
<1>12. ASSUME NEW m \in List, m # l PROVE Forward(m)' = Forward(m) /\ Linked(m, Forward(m))'
  <2>1. PICK f : f = Forward(m) /\ Linked(m, f)
    BY DEF ListInv
  <2>2. size[m] \in Nat
    BY DEF ListInv, LinkTypes
  <2>3. ASSUME NEW i \in 1 .. size[m]
        PROVE  f[i] \in Buffer /\ f[i] # b /\ f[i] # p /\ f[i] # e
    <3>1. f[i] \in Buffer /\ list[f[i]] = m
      BY <2>1 DEF Linked
    <3>2. f[i] # b /\ \A j \in 1 .. n : f[i] # c[j]
      BY <1>4, <1>12, <3>1
    <3> QED
      BY <1>3, <1>4, <3>1, <3>2
  <2>4. \A i \in 1 .. size[m] : /\ list'[f[i]] = list[f[i]]
                                /\ next'[f[i]] = next[f[i]] /\ prev'[f[i]] = prev[f[i]]
    BY <1>8, <2>3
  <2>5. Linked(m, f)'
    BY <1>8, <1>12, <2>1, <2>4 DEF Linked
  <2> QED
    BY <1>8, <1>12, <2>1, <2>2, <2>5, ForwardIs
<1>13. ASSUME NEW m \in List, NEW x \in Buffer, list'[x] = m
       PROVE  \E i \in 1 .. size'[m] : Forward(m)'[i] = x
  <2>1. CASE x = b
    <3>1. m = l /\ d[k] = b /\ k \in 1 .. n + 1
      BY <1>3, <1>8, <1>9, <1>13, <2>1
    <3> QED
      BY <1>8, <1>11, <2>1, <3>1
  <2>2. CASE x # b
    <3>1. PICK i \in 1 .. size[m] : Forward(m)[i] = x
      BY <1>8, <1>13, <2>2 DEF ListInv
    <3>2. CASE m # l
      BY <1>8, <1>12, <3>1, <3>2
    <3>3. CASE m = l
      <4>1. i \in 1 .. n /\ c[i] = x
        BY <1>1, <1>2, <3>1, <3>3
      <4>2. PICK j \in 1 .. n + 1 : d[j] = x
        <5>1. CASE i < k
          BY <1>3, <1>9, <4>1, <5>1
        <5>2. CASE i >= k
          <6>1. i + 1 \in 1 .. n + 1 /\ d[i + 1] = x
            BY <1>3, <1>9, <4>1, <5>2
          <6> QED
            BY <6>1
        <5> QED
          BY <1>3, <4>1, <5>1, <5>2
      <4> QED
        BY <1>8, <1>11, <3>3, <4>2
    <3> QED
      BY <3>2, <3>3
  <2> QED
    BY <2>1, <2>2
<1>14. ListInv'
  <2>1. \A m \in List : Linked(m, Forward(m))'
    BY <1>10, <1>11, <1>12
  <2>2. \A m \in List, x \in Buffer : list'[x] = m => \E i \in 1 .. size'[m] : Forward(m)'[i] = x
    BY <1>13
  <2> QED
    BY <1>7, <2>1, <2>2 DEF ListInv
<1> QED
  BY <1>1, <1>2, <1>9, <1>11, <1>12, <1>14

-----------------------------------------------------------------------------
(* The operations of GenericList.c put an element at the end, at the head  *)
(* or before another element, or take one out.                             *)

(* An end of a list, and the element at a position.                        *)
LEMMA Ends ==
    ASSUME ListInv, NEW l \in List
    PROVE  /\ size[l] \in Nat
           /\ Forward(l) \in [1 .. size[l] -> Buffer]
           /\ head[l] = IF size[l] = 0 THEN NULL ELSE Forward(l)[1]
           /\ tail[l] = IF size[l] = 0 THEN NULL ELSE Forward(l)[size[l]]
           /\ \A i \in 1 .. size[l] :
                 /\ list[Forward(l)[i]] = l
                 /\ next[Forward(l)[i]] = IF i = size[l] THEN NULL ELSE Forward(l)[i + 1]
                 /\ prev[Forward(l)[i]] = IF i = 1 THEN NULL ELSE Forward(l)[i - 1]
           /\ \A i, j \in 1 .. size[l] : Forward(l)[i] = Forward(l)[j] => i = j
           /\ NULL \notin Buffer /\ NULL \notin List
           /\ \A b \in Buffer : list[b] = l => \E i \in 1 .. size[l] : Forward(l)[i] = b
  BY MemManagerAssumption DEF ListInv, LinkTypes, Linked

(* What a change of the lists shows of the sequences they are read as.     *)
InsertedInto(l, b) ==
    /\ ListInv'
    /\ size' = [size EXCEPT ![l] = @ + 1]
    /\ list' = [list EXCEPT ![b] = l]
    /\ \A m \in List : m # l => Forward(m)' = Forward(m)
    /\ \E k \in 1 .. size[l] + 1 :
          Forward(l)' = [i \in 1 .. size[l] + 1 |->
             IF i < k THEN Forward(l)[i] ELSE IF i = k THEN b ELSE Forward(l)[i - 1]]
RemovedFrom(l, b) ==
    /\ ListInv'
    /\ size' = [size EXCEPT ![l] = @ - 1]
    /\ list' = [list EXCEPT ![b] = NULL]
    /\ \A m \in List : m # l => Forward(m)' = Forward(m)
    /\ \E k \in 1 .. size[l] :
          /\ Forward(l)[k] = b
          /\ Forward(l)' = [i \in 1 .. size[l] - 1 |->
                              IF i < k THEN Forward(l)[i] ELSE Forward(l)[i + 1]]

(* ListAddTail inserts behind the last element.                            *)
LEMMA AddTailGood ==
    ASSUME ListInv, NEW b \in Buffer, list[b] = NULL, NEW l \in List, ListAddTail(l, b)
    PROVE  InsertedInto(l, b)
<1>1. PICK n \in Nat : n = size[l]
  BY Ends
<1>2. PICK k \in 1 .. size[l] + 1 : k = n + 1
  BY <1>1
<1>3. PICK p : p = tail[l]
  OBVIOUS
<1>4. p = IF k = 1 THEN NULL ELSE Forward(l)[k - 1]
  BY <1>1, <1>2, <1>3, Ends
<1>5. NULL \notin Buffer /\ (p = NULL <=> n = 0) /\ (p = NULL \/ p \in Buffer) /\ p # b
  BY <1>1, <1>2, <1>3, <1>4, Ends
<1>6. Insertion(l, p, NULL, b)
  <2>1. head' = IF p = NULL THEN [head EXCEPT ![l] = b] ELSE head
    BY <1>1, <1>5 DEF ListAddTail
  <2>2. tail' = [tail EXCEPT ![l] = b]
    BY DEF ListAddTail
  <2>3. next' = [x \in Buffer |-> IF x = b THEN NULL ELSE IF x = p THEN b ELSE next[x]]
    BY <1>1, <1>3, <1>5 DEF ListAddTail
  <2>4. prev' = [x \in Buffer |-> IF x = b THEN p ELSE IF x = NULL THEN b ELSE prev[x]]
    BY <1>3, <1>5 DEF ListAddTail, ListInv, LinkTypes
  <2> QED
    BY <2>1, <2>2, <2>3, <2>4 DEF Insertion, ListAddTail
<1>7. NULL = IF k = size[l] + 1 THEN NULL ELSE Forward(l)[k]
  BY <1>1, <1>2
<1>8. size' = [size EXCEPT ![l] = @ + 1] /\ list' = [list EXCEPT ![b] = l]
  BY DEF ListAddTail
<1> QED
  BY <1>4, <1>6, <1>7, <1>8, InsertGood DEF InsertedInto

(* ListAddHead inserts before the first element.                           *)
LEMMA AddHeadGood ==
    ASSUME ListInv, NEW b \in Buffer, list[b] = NULL, NEW l \in List, ListAddHead(l, b)
    PROVE  InsertedInto(l, b)
<1>1. PICK n \in Nat : n = size[l]
  BY Ends
<1>2. PICK k \in 1 .. size[l] + 1 : k = 1
  BY <1>1
<1>3. PICK e : e = head[l]
  OBVIOUS
<1>4. e = IF k = size[l] + 1 THEN NULL ELSE Forward(l)[k]
  BY <1>1, <1>2, <1>3, Ends
<1>5. NULL \notin Buffer /\ (e = NULL <=> n = 0) /\ (e = NULL \/ e \in Buffer) /\ e # b
  BY <1>1, <1>2, <1>3, <1>4, Ends
<1>6. Insertion(l, NULL, e, b)
  <2>1. tail' = IF e = NULL THEN [tail EXCEPT ![l] = b] ELSE tail
    BY <1>1, <1>5 DEF ListAddHead
  <2>2. head' = [head EXCEPT ![l] = b]
    BY DEF ListAddHead
  <2>3. prev' = [x \in Buffer |-> IF x = b THEN NULL ELSE IF x = e THEN b ELSE prev[x]]
    BY <1>1, <1>3, <1>5 DEF ListAddHead
  <2>4. next' = [x \in Buffer |-> IF x = b THEN e ELSE IF x = NULL THEN b ELSE next[x]]
    BY <1>3, <1>5 DEF ListAddHead, ListInv, LinkTypes
  <2> QED
    BY <2>1, <2>2, <2>3, <2>4 DEF Insertion, ListAddHead
<1>7. NULL = IF k = 1 THEN NULL ELSE Forward(l)[k - 1]
  BY <1>2
<1>8. size' = [size EXCEPT ![l] = @ + 1] /\ list' = [list EXCEPT ![b] = l]
  BY DEF ListAddHead
<1> QED
  BY <1>4, <1>6, <1>7, <1>8, InsertGood DEF InsertedInto

(* ListAddPrevElement inserts before a given element.                      *)
LEMMA AddPrevGood ==
    ASSUME ListInv, NEW b \in Buffer, list[b] = NULL, NEW l \in List, NEW e \in Buffer, list[e] = l,
           ListAddPrevElement(e, b)
    PROVE  InsertedInto(l, b)
<1>1. PICK n \in Nat : n = size[l]
  BY Ends
<1>2. PICK k \in 1 .. n : Forward(l)[k] = e
  BY <1>1, Ends
<1>3. PICK p : p = prev[e]
  OBVIOUS
<1>4. p = IF k = 1 THEN NULL ELSE Forward(l)[k - 1]
  BY <1>1, <1>2, <1>3, Ends
<1>5. NULL \notin Buffer /\ (p = NULL \/ p \in Buffer) /\ e # b /\ e # NULL
  BY <1>3, Ends DEF ListInv, LinkTypes
<1>6. Insertion(l, p, e, b)
  <2>1. prev' = [x \in Buffer |-> IF x = b THEN p ELSE IF x = e THEN b ELSE prev[x]]
    BY <1>3, <1>5 DEF ListAddPrevElement, ListInv, LinkTypes
  <2>2. next' = [x \in Buffer |-> IF x = b THEN e ELSE IF x = p THEN b ELSE next[x]]
    BY <1>3 DEF ListAddPrevElement
  <2> QED
    BY <1>3, <1>5, <2>1, <2>2 DEF Insertion, ListAddPrevElement
<1>7. e = IF k = size[l] + 1 THEN NULL ELSE Forward(l)[k]
  BY <1>1, <1>2
<1>8. k \in 1 .. size[l] + 1
  BY <1>1
<1>9. size' = [size EXCEPT ![l] = @ + 1] /\ list' = [list EXCEPT ![b] = l]
  BY DEF ListAddPrevElement
<1> QED
  BY <1>4, <1>6, <1>7, <1>8, <1>9, InsertGood DEF InsertedInto

(* ListRemoveElement takes out a given element.                            *)
LEMMA RemoveElementGood ==
    ASSUME ListInv, NEW b \in Buffer, NEW l \in List, list[b] = l, ListRemoveElement(b)
    PROVE  RemovedFrom(l, b)
  BY RemoveGood DEF RemovedFrom, ListRemoveElement

(* Taking the head is removing the element that is there.                  *)
LEMMA RemoveHeadGood ==
    ASSUME ListInv, NEW l \in List, size[l] > 0, ListRemoveHead(l)
    PROVE  /\ head[l] \in Buffer /\ list[head[l]] = l
           /\ RemovedFrom(l, head[l])
<1>1. PICK n \in Nat : n = size[l] /\ n > 0
  BY Ends
<1>2. PICK b \in Buffer : b = head[l] /\ b = Forward(l)[1]
  BY <1>1, Ends
<1>3. list[b] = l /\ prev[b] = NULL /\ (next[b] = NULL <=> n = 1)
  BY <1>1, <1>2, Ends
<1>4. ListRemoveElement(b)
  <2>1. tail' = IF next[b] = NULL THEN [tail EXCEPT ![l] = NULL] ELSE tail
    BY <1>1, <1>3 DEF ListRemoveHead
  <2>2. prev' = IF next[b] # NULL THEN [prev EXCEPT ![next[b]] = NULL] ELSE prev
    BY <1>1, <1>2, <1>3 DEF ListRemoveHead
  <2> QED
    BY <1>2, <1>3, <2>1, <2>2 DEF ListRemoveElement, ListRemoveHead
<1>5. RemovedFrom(l, b)
  BY <1>3, <1>4, RemoveElementGood
<1> QED
  BY <1>2, <1>3, <1>5

-----------------------------------------------------------------------------
(* The search for a pool.                                                  *)
Least(T) == IF T = {} THEN 0 ELSE CHOOSE q \in T : \A r \in T : q <= r

(* The pools from p on that have a free block of n bytes under that id.    *)
From(p, n, id) ==
    {q \in Pool : q >= p /\ size[q] > 0 /\ n <= poolInfo[q].blockSize /\ poolInfo[q].poolId = id}

(* The least pool of a nonempty set.                                       *)
LEMMA LeastIs ==
    ASSUME NEW T, T \subseteq Nat, T # {}
    PROVE  Least(T) \in T /\ \A r \in T : Least(T) <= r
  BY LeastNat DEF Least

(* MEM_BufferAllocWithId takes the first pool that has a free block.       *)
LEMMA PoolForIs ==
    ASSUME NEW numBytes \in Nat \ {0}, NEW id, \A p \in Pool : size[p] \in Nat
    PROVE  PoolFor(numBytes, id) = Least(From(1, numBytes, id))
<1> DEFINE D == 1 .. Len(poolInfo) + 1
           N == {numBytes} \union {poolInfo[q].blockSize : q \in Pool}
           Def(f) == [p \in D |-> [n \in N |->
                IF p \notin Pool THEN 0
                ELSE IF ~(n <= poolInfo[p].blockSize /\ poolInfo[p].poolId = id) THEN f[p + 1][n]
                ELSE IF size[p] > 0 THEN p
                ELSE IF n > nextBlockSize(p) THEN 0
                ELSE f[p + 1][nextBlockSize(p)]]]
           fit == CHOOSE f : f = Def(f)
           g == [p \in D |-> [n \in N |-> Least(From(p, n, id))]]
<1>1. /\ Len(poolInfo) \in Nat /\ Pool = 1 .. Len(poolInfo)
      /\ \A p \in Pool : poolInfo[p].blockSize \in Nat \ {0} /\ p + 1 \in D
      /\ \A p, q \in Pool : p < q => poolInfo[p].blockSize <= poolInfo[q].blockSize
  <2>1. \A p, q \in Pool : p < q => poolInfo[p].blockSize <= poolInfo[q].blockSize
    BY MemManagerAssumption, Zenon
  <2>2. Len(poolInfo) \in Nat /\ Pool = 1 .. Len(poolInfo) /\ \A p \in Pool : poolInfo[p].blockSize \in Nat \ {0}
    BY PoolFacts, Zenon
  <2> QED
    BY <2>1, <2>2
<1>2. \A n \in N : n \in Nat \ {0}
  BY <1>1
<1>3. PoolFor(numBytes, id) = fit[1][numBytes]
  BY DEF PoolFor
<1>4. \A p \in D, n \in N : g[p][n] = Least(From(p, n, id))
  OBVIOUS
<1>5. \A p \in Pool : p < Len(poolInfo) => nextBlockSize(p) = poolInfo[p + 1].blockSize /\ nextBlockSize(p) \in N
  BY <1>1 DEF nextBlockSize
<1>6. \A p \in Pool : p = Len(poolInfo) => nextBlockSize(p) = 0
  BY DEF nextBlockSize
<1>7. 1 \in D /\ numBytes \in N
  BY <1>1
<1> HIDE DEF N, g
<1>8. ASSUME NEW p \in D, NEW n \in N
      PROVE  g[p][n] = IF p \notin Pool THEN 0
                ELSE IF ~(n <= poolInfo[p].blockSize /\ poolInfo[p].poolId = id) THEN g[p + 1][n]
                ELSE IF size[p] > 0 THEN p
                ELSE IF n > nextBlockSize(p) THEN 0
                ELSE g[p + 1][nextBlockSize(p)]
  <2>1. CASE p \notin Pool
    <3>1. From(p, n, id) = {}
      BY <1>1, <2>1 DEF From
    <3> QED
      BY <1>4, <2>1, <3>1 DEF Least
  <2>2. CASE p \in Pool /\ ~(n <= poolInfo[p].blockSize /\ poolInfo[p].poolId = id)
    <3>1. From(p, n, id) = From(p + 1, n, id)
      BY <1>1, <2>2 DEF From
    <3> QED
      BY <1>1, <1>4, <2>2, <3>1
  <2>3. CASE p \in Pool /\ n <= poolInfo[p].blockSize /\ poolInfo[p].poolId = id /\ size[p] > 0
    <3>1. p \in From(p, n, id) /\ From(p, n, id) \subseteq Nat /\ \A r \in From(p, n, id) : p <= r
      BY <1>1, <2>3 DEF From
    <3>2. Least(From(p, n, id)) \in Nat /\ Least(From(p, n, id)) <= p /\ p <= Least(From(p, n, id))
      BY <3>1, LeastIs
    <3> QED
      BY <1>4, <2>3, <3>2
  <2>4. CASE /\ p \in Pool /\ n <= poolInfo[p].blockSize /\ poolInfo[p].poolId = id /\ ~(size[p] > 0)
             /\ p = Len(poolInfo)
    <3>1. From(p, n, id) = {}
      BY <1>1, <2>4 DEF From
    <3>2. n > nextBlockSize(p)
      BY <1>2, <1>6, <2>4
    <3> QED
      BY <1>4, <2>4, <3>1, <3>2 DEF Least
  <2>5. CASE /\ p \in Pool /\ n <= poolInfo[p].blockSize /\ poolInfo[p].poolId = id /\ ~(size[p] > 0)
             /\ p < Len(poolInfo)
    <3>1. PICK m \in N : m = nextBlockSize(p) /\ m = poolInfo[p + 1].blockSize
      BY <1>5, <2>5
    <3>2. p + 1 \in Pool /\ n <= m
      <4>1. p + 1 \in Pool /\ p < p + 1
        BY <1>1, <2>5
      <4>2. poolInfo[p].blockSize <= poolInfo[p + 1].blockSize
        BY <1>1, <2>5, <4>1
      <4>3. poolInfo[p].blockSize \in Nat /\ m \in Nat /\ n \in Nat
        BY <1>1, <1>2, <2>5
      <4> QED
        BY <2>5, <3>1, <4>1, <4>2, <4>3
    <3>3. \A q \in Pool : q >= p + 1 => m <= poolInfo[q].blockSize /\ n <= poolInfo[q].blockSize
      BY <1>1, <1>2, <3>1, <3>2
    <3>4. From(p, n, id) = From(p + 1, m, id)
      BY <1>1, <2>5, <3>3 DEF From
    <3>5. ~(n > m)
      BY <1>2, <3>2
    <3> QED
      BY <1>1, <1>4, <2>5, <3>1, <3>4, <3>5
  <2> QED
    BY <1>1, <2>1, <2>2, <2>3, <2>4, <2>5
<1>9. g = Def(g)
  <2>1. g = [p \in D |-> [n \in N |-> g[p][n]]]
    BY DEF g
  <2> QED
    BY <1>8, <2>1, Zenon
<1>10. fit = Def(fit)
  <2> HIDE DEF Def
  <2> QED
    BY <1>9, Zenon
<1>11. \A p \in D, n \in N :
          fit[p][n] = IF p \notin Pool THEN 0
                ELSE IF ~(n <= poolInfo[p].blockSize /\ poolInfo[p].poolId = id) THEN fit[p + 1][n]
                ELSE IF size[p] > 0 THEN p
                ELSE IF n > nextBlockSize(p) THEN 0
                ELSE fit[p + 1][nextBlockSize(p)]
  <2>1. PICK f : f = fit
    OBVIOUS
  <2> HIDE DEF fit
  <2>2. f = Def(f)
    BY <1>10, <2>1
  <2> DEFINE row(p) == [n \in N |->
                IF p \notin Pool THEN 0
                ELSE IF ~(n <= poolInfo[p].blockSize /\ poolInfo[p].poolId = id) THEN f[p + 1][n]
                ELSE IF size[p] > 0 THEN p
                ELSE IF n > nextBlockSize(p) THEN 0
                ELSE f[p + 1][nextBlockSize(p)]]
  <2>3. \A p \in D : f[p] = row(p)
    <3>1. f = [p \in D |-> row(p)]
      BY <2>2
    <3> HIDE DEF row
    <3> QED
      BY <3>1
  <2>4. ASSUME NEW p \in D, NEW n \in N
        PROVE  row(p)[n] = IF p \notin Pool THEN 0
                ELSE IF ~(n <= poolInfo[p].blockSize /\ poolInfo[p].poolId = id) THEN f[p + 1][n]
                ELSE IF size[p] > 0 THEN p
                ELSE IF n > nextBlockSize(p) THEN 0
                ELSE f[p + 1][nextBlockSize(p)]
    OBVIOUS
  <2> HIDE DEF row
  <2> QED
    BY <2>1, <2>3, <2>4
<1> HIDE DEF fit, Def
<1>12. \A p \in D, n \in N : fit[p][n] = g[p][n]
  <2> DEFINE T == {j \in 0 .. Len(poolInfo) :
                      \E n \in N : fit[Len(poolInfo) + 1 - j][n] # g[Len(poolInfo) + 1 - j][n]}
  <2>1. SUFFICES T = {}
    <3>1. ASSUME NEW p \in D, NEW n \in N, T = {} PROVE fit[p][n] = g[p][n]
      <4>1. PICK j \in 0 .. Len(poolInfo) : p = Len(poolInfo) + 1 - j
        <5>1. Len(poolInfo) + 1 - p \in 0 .. Len(poolInfo)
          BY <1>1
        <5>2. p = Len(poolInfo) + 1 - (Len(poolInfo) + 1 - p)
          BY <1>1
        <5> QED
          BY <5>1, <5>2
      <4> QED
        BY <3>1, <4>1
    <3> QED
      BY <3>1
  <2>2. SUFFICES ASSUME T # {} PROVE FALSE
    OBVIOUS
  <2>3. PICK j \in T : \A i \in T : j <= i
    <3>1. T \subseteq Nat
      BY <1>1
    <3> HIDE DEF T
    <3> QED
      BY <2>2, <3>1, LeastNat
  <2>4. PICK p \in D, n \in N : p = Len(poolInfo) + 1 - j /\ fit[p][n] # g[p][n]
    BY <1>1, <2>3
  <2>5. p \in Pool => \A m \in N : fit[p + 1][m] = g[p + 1][m]
    <3>1. ASSUME p \in Pool PROVE \A m \in N : fit[p + 1][m] = g[p + 1][m]
      <4>1. PICK i \in 0 .. Len(poolInfo) : p + 1 = Len(poolInfo) + 1 - i /\ i < j
        <5>1. j - 1 \in 0 .. Len(poolInfo) /\ p + 1 = Len(poolInfo) + 1 - (j - 1) /\ j - 1 < j
          BY <1>1, <2>3, <2>4, <3>1
        <5> QED
          BY <5>1
      <4>2. i \notin T
        BY <1>1, <2>3, <4>1
      <4> QED
        BY <4>1, <4>2
    <3> QED
      BY <3>1
  <2>6. p \in Pool /\ ~(n > nextBlockSize(p)) => nextBlockSize(p) \in N
    BY <1>1, <1>2, <1>5, <1>6
  <2> QED
    BY <1>8, <1>11, <2>4, <2>5, <2>6
<1> QED
  BY <1>3, <1>4, <1>7, <1>12

-----------------------------------------------------------------------------
(* The operators of BufferPools on the sequences that lists are read as.   *)
LEMMA RemoveAtIs ==
    ASSUME NEW n \in Nat, NEW s \in [1 .. n -> Buffer], NEW k \in 1 .. n
    PROVE  Pools!RemoveAt(s, k) = [i \in 1 .. n - 1 |-> IF i < k THEN s[i] ELSE s[i + 1]]
<1>1. s \in Seq(Buffer) /\ Len(s) = n
  OBVIOUS
<1>2. PICK a, b : a = SubSeq(s, 1, k - 1) /\ b = SubSeq(s, k + 1, n)
  OBVIOUS
<1>3. /\ a \in Seq(Buffer) /\ Len(a) = k - 1
      /\ \A i \in 1 .. k - 1 : a[i] = s[i]
  BY <1>1, <1>2
<1>4. /\ b \in Seq(Buffer) /\ Len(b) = n - k
      /\ \A i \in 1 .. n - k : b[i] = s[k + i]
  BY <1>1, <1>2
<1>5. /\ a \o b \in Seq(Buffer) /\ Len(a \o b) = n - 1
      /\ \A i \in 1 .. n - 1 : (a \o b)[i] = IF i <= k - 1 THEN a[i] ELSE b[i - (k - 1)]
  <2>1. PICK q : q = a \o b
    OBVIOUS
  <2>2. /\ q \in Seq(Buffer) /\ Len(q) = Len(a) + Len(b)
        /\ \A i \in 1 .. Len(a) + Len(b) : q[i] = IF i <= Len(a) THEN a[i] ELSE b[i - Len(a)]
    BY <1>3, <1>4, <2>1, ConcatProperties, Zenon
  <2> QED
    BY <1>3, <1>4, <2>1, <2>2
<1>6. \A i \in 1 .. n - 1 : (a \o b)[i] = IF i < k THEN s[i] ELSE s[i + 1]
  BY <1>3, <1>4, <1>5
<1>7. a \o b = [i \in 1 .. n - 1 |-> IF i < k THEN s[i] ELSE s[i + 1]]
  <2>1. PICK c : c = a \o b
    OBVIOUS
  <2>2. c \in [1 .. n - 1 -> Buffer] /\ \A i \in 1 .. n - 1 : c[i] = IF i < k THEN s[i] ELSE s[i + 1]
    BY <1>5, <1>6, <2>1, LenProperties
  <2> QED
    BY <2>1, <2>2
<1> QED
  BY <1>1, <1>2, <1>7 DEF Pools!RemoveAt

(* InsertAt is the sequence that InsertGood shows.                         *)
LEMMA InsertAtIs ==
    ASSUME NEW n \in Nat, NEW s \in [1 .. n -> Buffer], NEW k \in 1 .. n + 1, NEW x \in Buffer
    PROVE  Pools!InsertAt(s, k, x) =
              [i \in 1 .. n + 1 |-> IF i < k THEN s[i] ELSE IF i = k THEN x ELSE s[i - 1]]
<1>1. s \in Seq(Buffer) /\ Len(s) = n
  OBVIOUS
<1>2. PICK a, b : a = SubSeq(s, 1, k - 1) /\ b = SubSeq(s, k, n)
  OBVIOUS
<1>3. /\ a \in Seq(Buffer) /\ Len(a) = k - 1
      /\ \A i \in 1 .. k - 1 : a[i] = s[i]
  BY <1>1, <1>2
<1>4. /\ b \in Seq(Buffer) /\ Len(b) = n - k + 1
      /\ \A i \in 1 .. n - k + 1 : b[i] = s[k + i - 1]
  BY <1>1, <1>2
<1>5. PICK d : d = a \o <<x>>
  OBVIOUS
<1>6. /\ d \in Seq(Buffer) /\ Len(d) = k
      /\ \A i \in 1 .. k : d[i] = IF i < k THEN s[i] ELSE x
  BY <1>3, <1>5
<1>7. /\ d \o b \in Seq(Buffer) /\ Len(d \o b) = n + 1
      /\ \A i \in 1 .. n + 1 : (d \o b)[i] = IF i <= k THEN d[i] ELSE b[i - k]
  <2>1. PICK q : q = d \o b
    OBVIOUS
  <2>2. /\ q \in Seq(Buffer) /\ Len(q) = Len(d) + Len(b)
        /\ \A i \in 1 .. Len(d) + Len(b) : q[i] = IF i <= Len(d) THEN d[i] ELSE b[i - Len(d)]
    BY <1>4, <1>6, <2>1, ConcatProperties, Zenon
  <2>3. Len(d) = k /\ Len(d) + Len(b) = n + 1
    BY <1>4, <1>6
  <2> QED
    BY <2>1, <2>2, <2>3
<1>8. \A i \in 1 .. n + 1 : (d \o b)[i] = IF i < k THEN s[i] ELSE IF i = k THEN x ELSE s[i - 1]
  BY <1>4, <1>6, <1>7
<1>9. d \o b = [i \in 1 .. n + 1 |-> IF i < k THEN s[i] ELSE IF i = k THEN x ELSE s[i - 1]]
  <2>1. PICK c : c = d \o b
    OBVIOUS
  <2>2. /\ c \in [1 .. n + 1 -> Buffer]
        /\ \A i \in 1 .. n + 1 : c[i] = IF i < k THEN s[i] ELSE IF i = k THEN x ELSE s[i - 1]
    BY <1>7, <1>8, <2>1, LenProperties
  <2> QED
    BY <2>1, <2>2
<1> QED
  BY <1>1, <1>2, <1>5, <1>9 DEF Pools!InsertAt

-----------------------------------------------------------------------------
(* Lists are as long as there are buffers that name them, a free list at   *)
(* most as long as its pool.                                               *)
LEMMA SizeBound ==
    ASSUME ListInv, NEW l \in List
    PROVE  /\ size[l] <= Cardinality(Buffer)
           /\ \A S : IsFiniteSet(S) /\ (\A b \in Buffer : list[b] = l => b \in S)
                        => size[l] <= Cardinality(S)
<1>0. PICK n \in Nat : n = size[l]
  BY Ends
<1>1. PICK c \in [1 .. n -> Buffer] : n = size[l] /\ c = Forward(l)
  BY <1>0, Ends
<1>2. \A i, j \in 1 .. n : c[i] = c[j] => i = j
  BY <1>1, Ends
<1>3. \A i \in 1 .. n : list[c[i]] = l
  BY <1>1, Ends
<1>4. ASSUME NEW S, IsFiniteSet(S), \A b \in Buffer : list[b] = l => b \in S
      PROVE  n <= Cardinality(S)
  <2>1. c \in [1 .. n -> S]
    BY <1>3, <1>4
  <2>2. c \in Injection(1 .. n, S)
    BY <1>2, <2>1 DEF Injection, IsInjective
  <2>3. Cardinality(1 .. n) = n
    BY FS_Interval
  <2> QED
    BY <1>4, <2>2, <2>3, FS_Injection
<1> QED
  BY <1>1, <1>2, <1>4, LenBound

(* A task takes buffer b out of list l.                                    *)
TakeStep(t, b, l) ==
    /\ list[b] = l /\ RemovedFrom(l, b)
    /\ holder' = [holder EXCEPT ![b] = t]
    /\ IF l \in Pool THEN /\ gFreeMessagesCount' = gFreeMessagesCount - 1
                          /\ allocatedBlocks' = [allocatedBlocks EXCEPT ![l] = @ + 1]
       ELSE UNCHANGED <<gFreeMessagesCount, allocatedBlocks>>

(* A task puts buffer b, which it holds, into its pool or into a queue.    *)
PutStep(t, b, l) ==
    /\ holder[b] = t /\ InsertedInto(l, b)
    /\ holder' = [holder EXCEPT ![b] = NoTask]
    /\ IF l \in Pool THEN /\ l = ParentPool(b)
                          /\ gFreeMessagesCount' = gFreeMessagesCount + 1
                          /\ allocatedBlocks' = [allocatedBlocks EXCEPT ![l] = @ - 1]
       ELSE UNCHANGED <<gFreeMessagesCount, allocatedBlocks>>

(* Taking a buffer keeps lists, holders and counters consistent, and is a  *)
(* Take of BufferPools.                                                    *)
LEMMA TakeGood ==
    ASSUME IInv, NEW t \in Task, NEW b \in Buffer, NEW l \in List, TakeStep(t, b, l)
    PROVE  ListInv' /\ HolderInv' /\ CountInv' /\ Pools!Take(t, b)
<1>1. /\ ListInv' /\ list' = [list EXCEPT ![b] = NULL] /\ list[b] = l /\ l # NULL
      /\ size' = [size EXCEPT ![l] = @ - 1] /\ holder' = [holder EXCEPT ![b] = t]
  BY MemManagerAssumption DEF TakeStep, RemovedFrom
<1>2. /\ list \in [Buffer -> List \union {NULL}] /\ size \in [List -> Nat]
      /\ holder \in [Buffer -> Task \union {NoTask}] /\ NoTask \notin Task
      /\ NULL \notin List
  BY MemManagerAssumption DEF IInv, ListInv, LinkTypes, HolderInv
<1>3. HolderInv'
  BY <1>1, <1>2 DEF IInv, HolderInv
<1>4. CountInv'
  <2> DEFINE F == {x \in Buffer : list[x] \in Pool}
  <2>1. IsFiniteSet(F) /\ Cardinality(F) \in Nat
    BY BufferFinite, FS_Subset, FS_CardinalityType
  <2>2. {x \in Buffer : list'[x] \in Pool} = F \ {b}
    <3>1. NULL \notin Pool
      BY <1>2 DEF List
    <3> QED
      BY <1>1, <1>2, <3>1
  <2>3. b \in F <=> l \in Pool
    BY <1>1
  <2>4. gFreeMessagesCount = Cardinality(F)
    BY DEF IInv, CountInv
  <2> HIDE DEF F
  <2>5. Cardinality(F \ {b}) = IF b \in F THEN Cardinality(F) - 1 ELSE Cardinality(F)
    BY <2>1, FS_RemoveElement
  <2>6. gFreeMessagesCount' = Cardinality({x \in Buffer : list'[x] \in Pool})
    BY <2>2, <2>3, <2>4, <2>5 DEF TakeStep
  <2>7. \A x \in Buffer : list'[x] \in Pool => list'[x] = ParentPool(x)
    <3>1. \A x \in Buffer : list'[x] = IF x = b THEN NULL ELSE list[x]
      BY <1>1, <1>2
    <3>2. NULL \notin Pool
      BY <1>2 DEF List
    <3> QED
      BY <3>1, <3>2 DEF IInv, CountInv
  <2>8. allocatedBlocks' = [p \in Pool |-> Len(poolInfo[p].blocks) - size'[p]]
    <3>1. allocatedBlocks = [p \in Pool |-> Len(poolInfo[p].blocks) - size[p]]
      BY DEF IInv, CountInv
    <3>2. \A p \in Pool : p \in List /\ size[p] \in Nat /\ Len(poolInfo[p].blocks) \in Nat
      BY <1>2, BlocksOf DEF List
    <3>3. \A p \in Pool : size'[p] = IF p = l THEN size[p] - 1 ELSE size[p]
      BY <1>1, <1>2, <3>2
    <3>4. CASE l \in Pool
      <4>1. allocatedBlocks' = [allocatedBlocks EXCEPT ![l] = @ + 1]
        BY <3>4 DEF TakeStep
      <4> QED
        BY <3>1, <3>2, <3>3, <3>4, <4>1
    <3>5. CASE l \notin Pool
      <4>1. allocatedBlocks' = allocatedBlocks
        BY <3>5 DEF TakeStep
      <4> QED
        BY <3>1, <3>2, <3>3, <3>5, <4>1
    <3> QED
      BY <3>4, <3>5
  <2> QED
    BY <2>6, <2>7, <2>8 DEF CountInv
<1>5. Pools!Take(t, b)
  <2>1. holder[b] = NoTask
    BY <1>1 DEF IInv, HolderInv
  <2>2. PICK n \in Nat : n = size[l]
    BY <1>2
  <2>3. PICK c \in [1 .. n -> Buffer] : c = Forward(l)
    BY <2>2, Ends DEF IInv
  <2>4. PICK k \in 1 .. n : /\ c[k] = b
                            /\ Forward(l)' = [i \in 1 .. n - 1 |-> IF i < k THEN c[i] ELSE c[i + 1]]
    BY <2>2, <2>3 DEF TakeStep, RemovedFrom
  <2>5. Forward(l)' = Pools!RemoveAt(c, k)
    BY <2>4, RemoveAtIs
  <2>6. \A m \in List : m # l => Forward(m)' = Forward(m)
    BY DEF TakeStep, RemovedFrom
  <2>7. PICK C, D : C = [m \in List |-> Forward(m)] /\ D = [m \in List |-> Forward(m)']
    OBVIOUS
  <2>8. C[l] = c /\ D = [C EXCEPT ![l] = Pools!RemoveAt(C[l], k)] /\ k \in DOMAIN C[l] /\ C[l][k] = b
    BY <2>3, <2>4, <2>5, <2>6, <2>7
  <2>9. \E m \in List : \E i \in DOMAIN C[m] : C[m][i] = b /\ D = [C EXCEPT ![m] = Pools!RemoveAt(@, i)]
    BY <2>8
  <2> QED
    BY <1>1, <2>1, <2>7, <2>9, Zenon DEF Pools!Take
<1> QED
  BY <1>1, <1>3, <1>4, <1>5

(* Putting a buffer does, too, and is a Put of BufferPools.                *)
LEMMA PutGood ==
    ASSUME IInv, NEW t \in Task, NEW b \in Buffer, NEW l \in List, PutStep(t, b, l)
    PROVE  ListInv' /\ HolderInv' /\ CountInv' /\ Pools!Put(t, b)
<1>1. /\ ListInv' /\ list' = [list EXCEPT ![b] = l] /\ holder[b] = t
      /\ size' = [size EXCEPT ![l] = @ + 1] /\ holder' = [holder EXCEPT ![b] = NoTask]
  BY DEF PutStep, InsertedInto
<1>2. /\ list \in [Buffer -> List \union {NULL}] /\ size \in [List -> Nat]
      /\ holder \in [Buffer -> Task \union {NoTask}] /\ NoTask \notin Task
      /\ NULL \notin List
  BY MemManagerAssumption DEF IInv, ListInv, LinkTypes, HolderInv
<1>3. HolderInv' /\ list[b] = NULL
  BY <1>1, <1>2 DEF IInv, HolderInv
<1>4. CountInv'
  <2> DEFINE F == {x \in Buffer : list[x] \in Pool}
  <2>1. IsFiniteSet(F) /\ Cardinality(F) \in Nat
    BY BufferFinite, FS_Subset, FS_CardinalityType
  <2>0. NULL \notin Pool
    BY <1>2 DEF List
  <2>2. {x \in Buffer : list'[x] \in Pool} = IF l \in Pool THEN F \union {b} ELSE F
    BY <1>1, <1>2, <1>3, <2>0
  <2>3. b \notin F
    BY <1>3, <2>0
  <2>4. gFreeMessagesCount = Cardinality(F)
    BY DEF IInv, CountInv
  <2> HIDE DEF F
  <2>5. Cardinality(F \union {b}) = Cardinality(F) + 1
    BY <2>1, <2>3, FS_AddElement
  <2>6. gFreeMessagesCount' = Cardinality({x \in Buffer : list'[x] \in Pool})
    BY <2>2, <2>4, <2>5 DEF PutStep
  <2>7. \A x \in Buffer : list'[x] \in Pool => list'[x] = ParentPool(x)
    <3>1. \A x \in Buffer : list'[x] = IF x = b THEN l ELSE list[x]
      BY <1>1, <1>2
    <3> QED
      BY <3>1 DEF IInv, CountInv, PutStep
  <2>8. allocatedBlocks' = [p \in Pool |-> Len(poolInfo[p].blocks) - size'[p]]
    <3>1. allocatedBlocks = [p \in Pool |-> Len(poolInfo[p].blocks) - size[p]]
      BY DEF IInv, CountInv
    <3>2. \A p \in Pool : p \in List /\ size[p] \in Nat /\ Len(poolInfo[p].blocks) \in Nat
      BY <1>2, BlocksOf DEF List
    <3>3. \A p \in Pool : size'[p] = IF p = l THEN size[p] + 1 ELSE size[p]
      BY <1>1, <1>2, <3>2
    <3>4. CASE l \in Pool
      <4>1. allocatedBlocks' = [allocatedBlocks EXCEPT ![l] = @ - 1]
        BY <3>4 DEF PutStep
      <4>2. Len(poolInfo[l].blocks) - size'[l] = allocatedBlocks[l] - 1
        <5>1. PICK a \in Nat, z \in Nat : a = Len(poolInfo[l].blocks) /\ z = size[l]
          BY <3>2, <3>4
        <5>2. allocatedBlocks[l] = a - z
          BY <3>1, <3>4, <5>1
        <5>3. size'[l] = z + 1
          BY <3>3, <3>4, <5>1
        <5> QED
          BY <5>1, <5>2, <5>3
      <4>3. \A p \in Pool : p # l => Len(poolInfo[p].blocks) - size'[p] = allocatedBlocks[p]
        BY <3>1, <3>2, <3>3
      <4> QED
        BY <3>1, <3>4, <4>1, <4>2, <4>3
    <3>5. CASE l \notin Pool
      <4>1. allocatedBlocks' = allocatedBlocks
        BY <3>5 DEF PutStep
      <4> QED
        BY <3>1, <3>2, <3>3, <3>5, <4>1
    <3> QED
      BY <3>4, <3>5
  <2> QED
    BY <2>6, <2>7, <2>8 DEF CountInv
<1>5. Pools!Put(t, b)
  <2>2. PICK n \in Nat : n = size[l]
    BY <1>2
  <2>3. PICK c \in [1 .. n -> Buffer] : c = Forward(l)
    BY <2>2, Ends DEF IInv
  <2>4. PICK k \in 1 .. n + 1 :
           Forward(l)' = [i \in 1 .. n + 1 |-> IF i < k THEN c[i] ELSE IF i = k THEN b ELSE c[i - 1]]
    BY <2>2, <2>3 DEF PutStep, InsertedInto
  <2>5. Forward(l)' = Pools!InsertAt(c, k, b)
    BY <2>4, InsertAtIs
  <2>6. \A m \in List : m # l => Forward(m)' = Forward(m)
    BY DEF PutStep, InsertedInto
  <2>7. PICK C, D : C = [m \in List |-> Forward(m)] /\ D = [m \in List |-> Forward(m)']
    OBVIOUS
  <2>8. C[l] = c /\ D = [C EXCEPT ![l] = Pools!InsertAt(C[l], k, b)] /\ k \in 1 .. Len(C[l]) + 1
    <3>1. C[l] = c /\ Len(c) = n
      BY <2>3, <2>7
    <3> QED
      BY <2>3, <2>4, <2>5, <2>6, <2>7, <3>1
  <2> QED
    BY <1>1, <2>7, <2>8 DEF Pools!Put
<1> QED
  BY <1>1, <1>3, <1>4, <1>5

-----------------------------------------------------------------------------
(* The other tasks, while one takes or puts a buffer.                      *)
LEMMA OthersOk ==
    ASSUME IInv, NEW t \in Task, NEW b \in Buffer, NEW l \in List,
           \/ TakeStep(t, b, l) /\ (l \in Pool \/ (SingleConsumer /\ t \in Consumers[l]))
           \/ PutStep(t, b, l),
           NEW u \in Task, u # t, task'[u] = task[u]
    PROVE  TaskOk(u)'
<1>1. TaskOk(u) /\ HolderInv /\ NULL \notin List /\ NULL \notin Queue /\ Pool \intersect Queue = {} /\ NoTask \notin Task
  BY MemManagerAssumption DEF IInv, TaskInv, List
<1>2. list \in [Buffer -> List \union {NULL}] /\ holder \in [Buffer -> Task \union {NoTask}]
  BY DEF IInv, ListInv, LinkTypes, HolderInv
<1>3. \A x \in Buffer : x # b => list'[x] = list[x] /\ holder'[x] = holder[x]
  BY <1>2 DEF TakeStep, RemovedFrom, PutStep, InsertedInto
<1>4. holder[b] \in {t, NoTask}
  BY <1>1 DEF TakeStep, PutStep, HolderInv
<1>5. \A x \in Buffer : holder[x] = u => holder'[x] = u
  BY <1>1, <1>3, <1>4
<1>6. ASSUME NEW x \in Buffer, FoundInQueue(u, x) PROVE list'[x] = list[x]
  <2>1. list[x] \in Queue /\ u \in Consumers[list[x]]
    BY <1>6 DEF FoundInQueue
  <2>2. x # b
    <3>1. CASE TakeStep(t, b, l) /\ (l \in Pool \/ (SingleConsumer /\ t \in Consumers[l]))
      <4>1. list[b] = l
        BY <3>1 DEF TakeStep
      <4> QED
        BY <1>1, <2>1, <3>1, <4>1 DEF SingleConsumer
    <3>2. CASE PutStep(t, b, l)
      <4>1. holder[b] = t /\ list[b] = NULL
        BY <1>1, <1>2, <3>2 DEF PutStep, HolderInv
      <4> QED
        BY <1>1, <2>1, <4>1
    <3> QED
      BY <3>1, <3>2
  <2> QED
    BY <1>3, <2>2
<1>7. \A x \in Buffer : FoundInQueue(u, x) => FoundInQueue(u, x)'
  BY <1>6 DEF FoundInQueue
<1> QED
  BY <1>1, <1>5, <1>7 DEF TaskOk

(* Steps that only move a task on: nothing else changes.                   *)
LEMMA StillGood ==
    ASSUME IInv, UNCHANGED <<links, gFreeMessagesCount, allocatedBlocks, holder>>
    PROVE  /\ ListInv' /\ HolderInv' /\ CountInv'
           /\ \A l \in List : Forward(l)' = Forward(l)
           /\ \A u \in Task : task'[u] = task[u] => TaskOk(u)'
           /\ \A u \in Task, x \in Buffer : FoundInQueue(u, x)' <=> FoundInQueue(u, x)
<1>1. UNCHANGED <<head, tail, size, next, prev, list, gFreeMessagesCount, allocatedBlocks, holder>>
  BY DEF links
<1>2. \A l : Forward(l)' = Forward(l)
  BY <1>1 DEF Forward
<1>3. \A l, c : Linked(l, c)' <=> Linked(l, c)
  BY <1>1 DEF Linked
<1>4. ListInv'
  BY <1>1, <1>2, <1>3 DEF IInv, ListInv, LinkTypes
<1>5. HolderInv' /\ CountInv'
  BY <1>1 DEF IInv, HolderInv, CountInv
<1>6. \A u, x : FoundInQueue(u, x)' <=> FoundInQueue(u, x)
  BY <1>1 DEF FoundInQueue
<1>7. \A u \in Task : task'[u] = task[u] => TaskOk(u)'
  BY <1>1, <1>6 DEF IInv, TaskInv, TaskOk
<1> QED
  BY <1>2, <1>4, <1>5, <1>6, <1>7

-----------------------------------------------------------------------------
(* What every step does: it keeps the invariant and is a step of           *)
(* BufferPools or leaves lists and holders as they are.                    *)
PoolsStep ==
    \/ \E t \in Task, b \in Buffer : Pools!Take(t, b) \/ Pools!Put(t, b)
    \/ holder' = holder /\ \A l \in List : Forward(l)' = Forward(l)
Good == IInv' /\ PoolsStep

(* The task of a step, and the others.                                     *)
TaskStep(t, s) == s \in TaskState /\ task' = [task EXCEPT ![t] = s]

(* Only the task of a step changes its state.                              *)
LEMMA TaskStepIs ==
    ASSUME IInv, NEW t \in Task, NEW s, TaskStep(t, s)
    PROVE  /\ task' \in [Task -> TaskState] /\ task'[t] = s
           /\ \A u \in Task : u # t => task'[u] = task[u]
  BY DEF IInv, TaskInv, TaskStep

(* A step that takes a buffer, from a pool or as the only consumer of a    *)
(* queue.                                                                  *)
LEMMA AfterTake ==
    ASSUME IInv, NEW t \in Task, NEW b \in Buffer, NEW l \in List, TakeStep(t, b, l),
           l \in Pool \/ (SingleConsumer /\ t \in Consumers[l]),
           NEW s, TaskStep(t, s), TaskOk(t)'
    PROVE  Good
<1>1. \A u \in Task : TaskOk(u)'
  BY TaskStepIs, OthersOk
<1> QED
  BY <1>1, TaskStepIs, TakeGood DEF Good, PoolsStep, IInv, TaskInv

(* A step that puts a buffer.                                              *)
LEMMA AfterPut ==
    ASSUME IInv, NEW t \in Task, NEW b \in Buffer, NEW l \in List, PutStep(t, b, l),
           NEW s, TaskStep(t, s), TaskOk(t)'
    PROVE  Good
<1>1. \A u \in Task : TaskOk(u)'
  BY TaskStepIs, OthersOk
<1> QED
  BY <1>1, TaskStepIs, PutGood DEF Good, PoolsStep, IInv, TaskInv

(* A step that only moves its task on.                                     *)
LEMMA AfterMove ==
    ASSUME IInv, NEW t \in Task, UNCHANGED <<links, gFreeMessagesCount, allocatedBlocks, holder>>,
           NEW s, TaskStep(t, s), TaskOk(t)'
    PROVE  Good
<1>1. \A u \in Task : TaskOk(u)'
  BY TaskStepIs, StillGood
<1> QED
  BY <1>1, TaskStepIs, StillGood DEF Good, PoolsStep, IInv, TaskInv

(* A call that is refused changes nothing.                                 *)
LEMMA AfterStutter ==
    ASSUME IInv, UNCHANGED vars
    PROVE  Good
<1>1. task' = task /\ UNCHANGED <<links, gFreeMessagesCount, allocatedBlocks, holder>>
  BY DEF vars
<1> QED
  BY <1>1, StillGood DEF Good, PoolsStep, IInv, TaskInv

(* A task that does not move on.                                           *)
LEMMA SameTask ==
    ASSUME IInv, NEW t \in Task, task' = task
    PROVE  TaskStep(t, task[t]) /\ task'[t] = task[t]
  BY DEF IInv, TaskInv, TaskStep

(* A call that has not begun.                                              *)
LEMMA IdleIsState == Idle \in TaskState /\ Idle.pc = "idle"
  BY DEF Idle, TaskState

(* A buffer that a task holds goes to the end of its pool or of a queue.   *)
LEMMA AddTailPut ==
    ASSUME IInv, NEW t \in Task, NEW b \in Buffer, holder[b] = t, NEW l \in List, ListAddTail(l, b),
           holder' = [holder EXCEPT ![b] = NoTask],
           IF l \in Pool THEN /\ l = ParentPool(b)
                              /\ gFreeMessagesCount' = gFreeMessagesCount + 1
                              /\ allocatedBlocks' = [allocatedBlocks EXCEPT ![l] = @ - 1]
           ELSE UNCHANGED <<gFreeMessagesCount, allocatedBlocks>>
    PROVE  PutStep(t, b, l)
<1>1. list[b] = NULL
  BY MemManagerAssumption DEF IInv, HolderInv
<1> QED
  BY <1>1, AddTailGood DEF IInv, PutStep

(* An allocation takes the head of the free list that the search found.    *)
LEMMA AllocGood ==
    ASSUME IInv, NEW t \in Task, NEW r \in Request, MEM_BufferAllocWithId(t, r[1], r[2])
    PROVE  Good
<1>1. PICK p : p = PoolFor(r[1], r[2])
  OBVIOUS
<1>2. CASE p = 0
  BY <1>1, <1>2, AfterStutter DEF MEM_BufferAllocWithId
<1>3. CASE p # 0
  <2>1. r[1] \in Nat \ {0} /\ \A q \in Pool : size[q] \in Nat
    BY PoolFacts DEF Request, IInv, ListInv, LinkTypes, List
  <2>2. p = Least(From(1, r[1], r[2]))
    BY <1>1, <2>1, PoolForIs
  <2>3. From(1, r[1], r[2]) \subseteq Nat /\ From(1, r[1], r[2]) # {}
    <3>1. From(1, r[1], r[2]) \subseteq Nat
      BY PoolFacts DEF From
    <3>2. From(1, r[1], r[2]) # {}
      BY <1>3, <2>2 DEF Least
    <3> QED
      BY <3>1, <3>2
  <2>4. p \in Pool /\ size[p] > 0
    BY <2>2, <2>3, LeastIs DEF From
  <2>5. /\ holder' = [holder EXCEPT ![head[p]] = t] /\ ListRemoveHead(p)
        /\ gFreeMessagesCount' = gFreeMessagesCount - 1
        /\ allocatedBlocks' = [allocatedBlocks EXCEPT ![p] = @ + 1]
        /\ task' = task /\ task[t].pc = "idle"
    BY <1>1, <1>3 DEF MEM_BufferAllocWithId
  <2>6. p \in List
    BY <2>4 DEF List
  <2>7. head[p] \in Buffer /\ TakeStep(t, head[p], p)
    BY <2>4, <2>5, <2>6, RemoveHeadGood DEF IInv, TakeStep
  <2>8. TaskOk(t)'
    BY <2>5 DEF TaskOk
  <2> QED
    BY <2>4, <2>5, <2>6, <2>7, <2>8, SameTask, AfterTake
<1> QED
  BY <1>2, <1>3

(* A buffer that is in a list is refused, any other goes to its pool.      *)
LEMMA FreeGood ==
    ASSUME IInv, NEW t \in Task, NEW b \in Buffer, MEM_BufferFree(t, b)
    PROVE  Good
<1>1. CASE list[b] # NULL
  BY <1>1, AfterStutter DEF MEM_BufferFree
<1>2. CASE list[b] = NULL
  <2>1. PICK l \in List : l \in Pool /\ l = ParentPool(b)
    BY PoolFacts DEF List
  <2>2. /\ holder[b] = t /\ ListAddTail(l, b)
        /\ holder' = [holder EXCEPT ![b] = NoTask]
        /\ gFreeMessagesCount' = gFreeMessagesCount + 1
        /\ allocatedBlocks' = [allocatedBlocks EXCEPT ![l] = @ - 1]
        /\ task' = task /\ task[t].pc = "idle"
    BY <1>2, <2>1 DEF MEM_BufferFree
  <2>3. PutStep(t, b, l)
    BY <2>1, <2>2, AddTailPut
  <2>4. TaskOk(t)'
    BY <2>2 DEF TaskOk
  <2> QED
    BY <2>2, <2>3, <2>4, SameTask, AfterPut
<1> QED
  BY <1>1, <1>2

(* MSG_Queue puts a buffer behind the last message.                        *)
LEMMA AddTailMsgGood ==
    ASSUME IInv, NEW t \in Task, NEW q \in Queue, NEW b \in Buffer, ListAddTailMsg(t, q, b)
    PROVE  Good
<1>1. /\ holder[b] = t /\ ListAddTail(q, b) /\ holder' = [holder EXCEPT ![b] = NoTask]
      /\ UNCHANGED <<gFreeMessagesCount, allocatedBlocks>> /\ task' = task /\ task[t].pc = "idle"
  BY DEF ListAddTailMsg
<1>2. q \in List /\ q \notin Pool
  BY MemManagerAssumption DEF List
<1>3. PutStep(t, b, q)
  BY <1>1, <1>2, AddTailPut
<1>4. TaskOk(t)'
  BY <1>1 DEF TaskOk
<1> QED
  BY <1>1, <1>2, <1>3, <1>4, SameTask, AfterPut

(* MSG_QueueHead puts a buffer before the first message.                   *)
LEMMA AddHeadMsgGood ==
    ASSUME IInv, NEW t \in Task, NEW q \in Queue, NEW b \in Buffer, ListAddHeadMsg(t, q, b)
    PROVE  Good
<1>1. /\ holder[b] = t /\ ListAddHead(q, b) /\ holder' = [holder EXCEPT ![b] = NoTask]
      /\ UNCHANGED <<gFreeMessagesCount, allocatedBlocks>> /\ task' = task /\ task[t].pc = "idle"
  BY DEF ListAddHeadMsg
<1>2. q \in List /\ q \notin Pool
  BY MemManagerAssumption DEF List
<1>3. list[b] = NULL
  BY <1>1, MemManagerAssumption DEF IInv, HolderInv
<1>4. PutStep(t, b, q)
  BY <1>1, <1>2, <1>3, AddHeadGood DEF IInv, PutStep
<1>5. TaskOk(t)'
  BY <1>1 DEF TaskOk
<1> QED
  BY <1>1, <1>2, <1>4, <1>5, SameTask, AfterPut

(* MSG_DeQueue takes the first message.                                    *)
LEMMA RemoveHeadMsgGood ==
    ASSUME SingleConsumer, IInv, NEW t \in Task, NEW q \in Queue, ListRemoveHeadMsg(t, q)
    PROVE  Good
<1>1. /\ t \in Consumers[q] /\ size[q] > 0 /\ ListRemoveHead(q) /\ holder' = [holder EXCEPT ![head[q]] = t]
      /\ UNCHANGED <<gFreeMessagesCount, allocatedBlocks>> /\ task' = task /\ task[t].pc = "idle"
  BY DEF ListRemoveHeadMsg
<1>2. q \in List /\ q \notin Pool
  BY MemManagerAssumption DEF List
<1>3. head[q] \in Buffer /\ TakeStep(t, head[q], q)
  BY <1>1, <1>2, RemoveHeadGood DEF IInv, TakeStep
<1>4. TaskOk(t)'
  BY <1>1 DEF TaskOk
<1> QED
  BY <1>1, <1>2, <1>3, <1>4, SameTask, AfterTake

(* The orphan test of ListRemoveMsg remembers an element of the queue.     *)
LEMMA RemoveMsgGood ==
    ASSUME IInv, NEW t \in Task, NEW b \in Buffer, ListRemoveMsg(t, b)
    PROVE  Good
<1>0. PICK s : s = [Idle EXCEPT !.pc = "remove", !.element = b]
  OBVIOUS
<1>1. s = [pc |-> "remove", element |-> b, new |-> NULL]
  BY <1>0 DEF Idle
<1>2. /\ TaskStep(t, s) /\ FoundInQueue(t, b)
      /\ UNCHANGED <<links, gFreeMessagesCount, allocatedBlocks, holder>>
  <2>2. s \in TaskState
    BY <1>1 DEF TaskState
  <2> QED
    BY <1>0, <2>2 DEF ListRemoveMsg, TaskStep
<1>3. TaskOk(t)'
  BY <1>1, <1>2, TaskStepIs, StillGood DEF TaskOk
<1> QED
  BY <1>2, <1>3, AfterMove

(* The orphan test of ListAddPrevMsg does, and the buffer to be added.     *)
LEMMA AddPrevMsgGood ==
    ASSUME IInv, NEW t \in Task, NEW e \in Buffer, NEW b \in Buffer, ListAddPrevMsg(t, e, b)
    PROVE  Good
<1>1. PICK s : s = [pc |-> "addprev", element |-> e, new |-> b]
  OBVIOUS
<1>2. /\ TaskStep(t, s) /\ FoundInQueue(t, e) /\ holder[b] = t
      /\ UNCHANGED <<links, gFreeMessagesCount, allocatedBlocks, holder>>
  BY <1>1 DEF ListAddPrevMsg, TaskStep, TaskState
<1>3. TaskOk(t)'
  BY <1>1, <1>2, TaskStepIs, StillGood DEF TaskOk
<1> QED
  BY <1>2, <1>3, AfterMove

(* MSG_FreeQueue finds a message pending.                                  *)
LEMMA FreeQueueGood ==
    ASSUME IInv, NEW t \in Task, NEW q \in Queue, MSG_FreeQueue(t, q)
    PROVE  Good
<1>0. PICK s : s = [Idle EXCEPT !.pc = "dequeue", !.new = q]
  OBVIOUS
<1>1. s = [pc |-> "dequeue", element |-> NULL, new |-> q]
  BY <1>0 DEF Idle
<1>2. /\ TaskStep(t, s) /\ t \in Consumers[q]
      /\ UNCHANGED <<links, gFreeMessagesCount, allocatedBlocks, holder>>
  <2>2. s \in TaskState
    BY <1>1 DEF TaskState
  <2> QED
    BY <1>0, <2>2 DEF MSG_FreeQueue, TaskStep
<1>3. TaskOk(t)'
  BY <1>1, <1>2, TaskStepIs DEF TaskOk
<1> QED
  BY <1>2, <1>3, AfterMove

(* The element is still queued when ListRemoveMsg unlinks it.              *)
LEMMA RemoveChangeGood ==
    ASSUME SingleConsumer, IInv, NEW t \in Task, ListRemoveMsg_change(t)
    PROVE  Good
<1>1. PICK b : b = task[t].element
  OBVIOUS
<1>2. /\ task[t].pc = "remove" /\ ListRemoveElement(b) /\ holder' = [holder EXCEPT ![b] = t]
      /\ UNCHANGED <<gFreeMessagesCount, allocatedBlocks>> /\ task' = [task EXCEPT ![t] = Idle]
  BY <1>1 DEF ListRemoveMsg_change
<1>3. b \in Buffer /\ FoundInQueue(t, b)
  BY <1>1, <1>2 DEF IInv, TaskInv, TaskOk
<1>4. PICK l \in List : l = list[b] /\ l \notin Pool /\ t \in Consumers[l]
  BY <1>3, MemManagerAssumption DEF FoundInQueue, List
<1>5. TakeStep(t, b, l)
  BY <1>2, <1>3, <1>4, RemoveElementGood DEF IInv, TakeStep
<1>6. TaskStep(t, Idle)
  BY <1>2, IdleIsState DEF TaskStep
<1>7. TaskOk(t)'
  BY <1>6, TaskStepIs, IdleIsState DEF TaskOk
<1> QED
  BY <1>3, <1>4, <1>5, <1>6, <1>7, AfterTake

(* The element is still queued when ListAddPrevMsg links another before    *)
(* it.                                                                     *)
LEMMA AddPrevChangeGood ==
    ASSUME IInv, NEW t \in Task, ListAddPrevMsg_change(t)
    PROVE  Good
<1>1. PICK e, b : e = task[t].element /\ b = task[t].new
  OBVIOUS
<1>2. /\ task[t].pc = "addprev" /\ ListAddPrevElement(e, b) /\ holder' = [holder EXCEPT ![b] = NoTask]
      /\ UNCHANGED <<gFreeMessagesCount, allocatedBlocks>> /\ task' = [task EXCEPT ![t] = Idle]
  BY <1>1 DEF ListAddPrevMsg_change
<1>3. e \in Buffer /\ FoundInQueue(t, e) /\ b \in Buffer /\ holder[b] = t
  BY <1>1, <1>2 DEF IInv, TaskInv, TaskOk
<1>4. PICK l \in List : l = list[e] /\ l \notin Pool
  BY <1>3, MemManagerAssumption DEF FoundInQueue, List
<1>5. list[b] = NULL
  BY <1>3, MemManagerAssumption DEF IInv, HolderInv
<1>6. PutStep(t, b, l)
  BY <1>2, <1>3, <1>4, <1>5, AddPrevGood DEF IInv, PutStep
<1>7. TaskStep(t, Idle)
  BY <1>2, IdleIsState DEF TaskStep
<1>8. TaskOk(t)'
  BY <1>7, TaskStepIs, IdleIsState DEF TaskOk
<1> QED
  BY <1>3, <1>4, <1>6, <1>7, <1>8, AfterPut

(* MSG_FreeQueue takes the first message.                                  *)
LEMMA DequeueGood ==
    ASSUME SingleConsumer, IInv, NEW t \in Task, MSG_FreeQueue_dequeue(t)
    PROVE  Good
<1>1. PICK q : q = task[t].new
  OBVIOUS
<1>2. task[t].pc = "dequeue" /\ UNCHANGED <<gFreeMessagesCount, allocatedBlocks>>
  BY DEF MSG_FreeQueue_dequeue
<1>3. q \in Queue /\ t \in Consumers[q] /\ q \in List /\ q \notin Pool
  BY <1>1, <1>2, MemManagerAssumption DEF IInv, TaskInv, TaskOk, List
<1>4. CASE size[q] = 0
  <2>1. task' = [task EXCEPT ![t] = Idle] /\ UNCHANGED <<links, holder>>
    BY <1>1, <1>4 DEF MSG_FreeQueue_dequeue
  <2>2. TaskStep(t, Idle)
    BY <2>1, IdleIsState DEF TaskStep
  <2>3. TaskOk(t)'
    BY <2>2, TaskStepIs, IdleIsState DEF TaskOk
  <2> QED
    BY <1>2, <2>1, <2>2, <2>3, AfterMove
<1>5. CASE size[q] # 0
  <2>1. /\ task' = [task EXCEPT ![t].pc = "free", ![t].element = head[q]]
        /\ holder' = [holder EXCEPT ![head[q]] = t]
        /\ ListRemoveHead(q)
    BY <1>1, <1>5 DEF MSG_FreeQueue_dequeue
  <2>2. size[q] > 0
    BY <1>3, <1>5 DEF IInv, ListInv, LinkTypes
  <2>3. head[q] \in Buffer /\ TakeStep(t, head[q], q)
    BY <1>2, <1>3, <2>1, <2>2, RemoveHeadGood DEF IInv, TakeStep
  <2>4. PICK b \in Buffer : b = head[q]
    BY <2>3
  <2>a. task \in [Task -> TaskState]
    BY DEF IInv, TaskInv
  <2>b. PICK x \in TaskState : x = task[t]
    BY <2>a
  <2>c. PICK s : s = [x EXCEPT !.pc = "free", !.element = b]
    OBVIOUS
  <2>5. s = [pc |-> "free", element |-> b, new |-> q]
    <3>1. PICK u, v : x = [pc |-> u, element |-> v, new |-> q]
      BY <1>1, <2>b DEF TaskState
    <3> QED
      BY <2>c, <3>1
  <2>6. TaskStep(t, s)
    <3>2. task' = [task EXCEPT ![t] = s]
      BY <2>1, <2>4, <2>a, <2>b, <2>c
    <3> QED
      BY <1>3, <2>5, <3>2 DEF TaskStep, TaskState
  <2>7. holder'[b] = t
    BY <2>1, <2>4 DEF IInv, HolderInv
  <2>8. TaskOk(t)'
    BY <1>3, <2>5, <2>6, <2>7, TaskStepIs DEF TaskOk
  <2> QED
    BY <1>3, <2>3, <2>6, <2>8, AfterTake
<1> QED
  BY <1>4, <1>5

(* MSG_FreeQueue frees it and looks whether another one is pending.        *)
LEMMA FreeQueueFreeGood ==
    ASSUME IInv, NEW t \in Task, MSG_FreeQueue_free(t)
    PROVE  Good
<1>1. PICK b, q : b = task[t].element /\ q = task[t].new
  OBVIOUS
<1>2. /\ task[t].pc = "free"
      /\ gFreeMessagesCount' = gFreeMessagesCount + 1
      /\ ListAddTail(ParentPool(b), b)
      /\ allocatedBlocks' = [allocatedBlocks EXCEPT ![ParentPool(b)] = @ - 1]
      /\ holder' = [holder EXCEPT ![b] = NoTask]
      /\ task' = [task EXCEPT ![t] = IF head[q] # NULL THEN [Idle EXCEPT !.pc = "dequeue", !.new = q] ELSE Idle]
  BY <1>1 DEF MSG_FreeQueue_free
<1>3. b \in Buffer /\ holder[b] = t /\ q \in Queue /\ t \in Consumers[q]
  BY <1>1, <1>2 DEF IInv, TaskInv, TaskOk
<1>4. PICK l \in List : l \in Pool /\ l = ParentPool(b)
  BY <1>3, PoolFacts DEF List
<1>5. PutStep(t, b, l)
  BY <1>2, <1>3, <1>4, AddTailPut
<1>6. PICK s : s = IF head[q] # NULL THEN [Idle EXCEPT !.pc = "dequeue", !.new = q] ELSE Idle
  OBVIOUS
<1>7. s = Idle \/ s = [pc |-> "dequeue", element |-> NULL, new |-> q]
  BY <1>6 DEF Idle
<1>8. TaskStep(t, s)
  BY <1>2, <1>3, <1>6, <1>7, IdleIsState DEF TaskStep, TaskState
<1>9. TaskOk(t)'
  BY <1>3, <1>7, <1>8, TaskStepIs, IdleIsState DEF TaskOk
<1> QED
  BY <1>3, <1>5, <1>8, <1>9, AfterPut

(* Every step is good: one case per action of Next.                        *)
LEMMA NextGood ==
    ASSUME SingleConsumer, IInv, [Next]_vars
    PROVE  Good
<1>1. CASE Next
  <2>1. PICK t \in Task :
            \/ \E r \in Request : MEM_BufferAllocWithId(t, r[1], r[2])
            \/ \E b \in Buffer : MEM_BufferFree(t, b) \/ ListRemoveMsg(t, b)
            \/ \E q \in Queue, b \in Buffer : ListAddTailMsg(t, q, b) \/ ListAddHeadMsg(t, q, b)
            \/ \E q \in Queue : ListRemoveHeadMsg(t, q) \/ MSG_FreeQueue(t, q)
            \/ \E e, b \in Buffer : ListAddPrevMsg(t, e, b)
            \/ ListRemoveMsg_change(t)
            \/ ListAddPrevMsg_change(t)
            \/ MSG_FreeQueue_dequeue(t)
            \/ MSG_FreeQueue_free(t)
    BY <1>1 DEF Next
  <2> QED
    BY <2>1, AllocGood, FreeGood, RemoveMsgGood, AddTailMsgGood, AddHeadMsgGood,
       RemoveHeadMsgGood,
       FreeQueueGood, AddPrevMsgGood, RemoveChangeGood, AddPrevChangeGood, DequeueGood, FreeQueueFreeGood
<1>2. CASE UNCHANGED vars
  BY <1>2, AfterStutter
<1> QED
  BY <1>1, <1>2

-----------------------------------------------------------------------------
(* MEM_Init: the free list of a pool holds its blocks in order, and every  *)
(* message queue is empty.                                                 *)
LEMMA InitLists ==
    ASSUME Init
    PROVE  /\ ListInv
           /\ \A p \in Pool : size[p] = Len(poolInfo[p].blocks)
           /\ \A b \in Buffer : list[b] = ParentPool(b)
<1>1. ASSUME NEW p \in Pool
      PROVE  /\ p \in List /\ size[p] = Len(poolInfo[p].blocks) /\ size[p] \in Nat
             /\ poolInfo[p].blocks \in [1 .. size[p] -> Buffer]
             /\ \A i, j \in 1 .. size[p] : poolInfo[p].blocks[i] = poolInfo[p].blocks[j] => i = j
  <2>1. p \in List /\ size[p] = Len(poolInfo[p].blocks)
    BY DEF Init, List
  <2> QED
    BY <2>1, BlocksOf
<1>2. \A q \in Queue : q \in List /\ q \notin Pool /\ size[q] = 0
  BY MemManagerAssumption DEF Init, List
<1>3. ASSUME NEW p \in Pool, NEW i \in 1 .. size[p]
      PROVE  LET c == poolInfo[p].blocks IN
             /\ list[c[i]] = p
             /\ next[c[i]] = IF i = size[p] THEN NULL ELSE c[i + 1]
             /\ prev[c[i]] = IF i = 1 THEN NULL ELSE c[i - 1]
  <2>1. PICK c : c = poolInfo[p].blocks
    OBVIOUS
  <2>2. PICK n \in Nat : n = size[p] /\ n = Len(c)
    BY <1>1, <2>1
  <2>3. c \in [1 .. n -> Buffer] /\ DOMAIN c = 1 .. n /\ \A j \in 1 .. n : c[j] = c[i] => j = i
    BY <1>1, <2>1, <2>2
  <2>4. PICK b \in Buffer : b = c[i]
    BY <2>2, <2>3
  <2>5. b \in Blocks(p)
    BY <2>1, <2>2, <2>3, <2>4 DEF Blocks
  <2>6. ParentPool(b) = p
    BY <2>5, PoolFacts
  <2>7. Position(b) = i
    <3>1. Position(b) = CHOOSE k \in DOMAIN c : c[k] = b
      BY <2>1, <2>6 DEF Position
    <3> QED
      BY <2>2, <2>3, <2>4, <3>1
  <2>8. /\ list[b] = p
        /\ next[b] = IF i = n THEN NULL ELSE c[i + 1]
        /\ prev[b] = IF i = 1 THEN NULL ELSE c[i - 1]
    BY <2>1, <2>2, <2>6, <2>7 DEF Init
  <2> QED
    BY <2>1, <2>2, <2>4, <2>8
<1>4. ASSUME NEW b \in Buffer PROVE \E i \in 1 .. size[list[b]] : poolInfo[list[b]].blocks[i] = b
  <2>1. PICK p \in Pool : p = ParentPool(b) /\ b \in Blocks(p) /\ list[b] = p
    BY PoolFacts DEF Init
  <2> QED
    BY <1>1, <2>1, BlocksOf DEF Blocks
<1>5. \A b \in Buffer : list[b] \in Pool /\ list[b] = ParentPool(b)
  BY PoolFacts DEF Init
<1>6. LinkTypes
  <2>1. size \in [List -> Nat]
    <3>1. \A l \in List : size[l] \in Nat
      BY <1>1, <1>2 DEF List
    <3> QED
      BY <3>1 DEF Init
  <2>2. \A l \in List : size[l] > 0 => /\ l \in Pool
                                       /\ poolInfo[l].blocks[1] \in Buffer
                                       /\ poolInfo[l].blocks[size[l]] \in Buffer
    <3>1. ASSUME NEW l \in List, size[l] > 0
          PROVE  l \in Pool /\ poolInfo[l].blocks[1] \in Buffer /\ poolInfo[l].blocks[size[l]] \in Buffer
      <4>1. l \in Pool
        BY <1>2, <3>1 DEF List
      <4>2n. PICK n \in Nat : n = size[l]
        BY <1>1, <4>1
      <4>2. PICK c \in [1 .. n -> Buffer] : n = size[l] /\ c = poolInfo[l].blocks
        BY <4>2n, <1>1, <4>1
      <4> QED
        BY <3>1, <4>1, <4>2
    <3> QED
      BY <3>1
  <2>3. head \in [List -> Buffer \union {NULL}] /\ tail \in [List -> Buffer \union {NULL}]
    BY <2>2 DEF Init
  <2>4. list \in [Buffer -> List \union {NULL}]
    BY PoolFacts DEF Init, List
  <2>5. ASSUME NEW b \in Buffer PROVE next[b] \in Buffer \union {NULL} /\ prev[b] \in Buffer \union {NULL}
    <3>1. PICK p \in Pool : p = list[b]
      BY <1>5
    <3>2. PICK i \in 1 .. size[p] : poolInfo[p].blocks[i] = b
      BY <1>4, <3>1
    <3>3n. PICK n \in Nat : n = size[p]
      BY <1>1
    <3>3. PICK c \in [1 .. n -> Buffer] : n = size[p] /\ c = poolInfo[p].blocks
      BY <3>3n, <1>1
    <3>4. /\ next[b] = IF i = n THEN NULL ELSE c[i + 1]
          /\ prev[b] = IF i = 1 THEN NULL ELSE c[i - 1]
      BY <1>3, <3>2, <3>3
    <3> QED
      BY <3>2, <3>3, <3>4
  <2>6. next \in [Buffer -> Buffer \union {NULL}] /\ prev \in [Buffer -> Buffer \union {NULL}]
    BY <2>5 DEF Init
  <2> QED
    BY <2>1, <2>3, <2>4, <2>6 DEF LinkTypes
<1>7. ASSUME NEW p \in Pool PROVE Linked(p, poolInfo[p].blocks)
  <2>1. PICK c : c = poolInfo[p].blocks
    OBVIOUS
  <2>2. /\ head[p] = IF size[p] = 0 THEN NULL ELSE c[1]
        /\ tail[p] = IF size[p] = 0 THEN NULL ELSE c[size[p]]
    BY <1>1, <2>1 DEF Init
  <2> QED
    BY <1>1, <1>3, <2>1, <2>2 DEF Linked
<1>8. ASSUME NEW q \in Queue PROVE Linked(q, << >>)
  <2>1. head[q] = NULL /\ tail[q] = NULL
    <3>1. q \in List /\ ~(size[q] > 0)
      BY <1>2
    <3> QED
      BY <3>1, Zenon DEF Init
  <2>2. << >> \in [1 .. 0 -> Buffer]
    OBVIOUS
  <2> QED
    BY <1>2, <2>1, <2>2 DEF Linked
<1>9. /\ \A p \in Pool : Forward(p) = poolInfo[p].blocks
      /\ \A q \in Queue : Forward(q) = << >>
  BY <1>1, <1>2, <1>7, <1>8, ForwardIs
<1>10. \A l \in List : Linked(l, Forward(l))
  BY <1>7, <1>8, <1>9 DEF List
<1>11. \A l \in List, b \in Buffer : list[b] = l => \E i \in 1 .. size[l] : Forward(l)[i] = b
  BY <1>4, <1>5, <1>9
<1> QED
  BY <1>1, <1>5, <1>6, <1>10, <1>11 DEF ListInv

(* The initial states satisfy the inductive invariant.                     *)
LEMMA InitInv ==
    ASSUME Init
    PROVE  IInv
<1>1. HolderInv
  <2>1. \A b \in Buffer : list[b] # NULL
    BY InitLists, PoolFacts, MemManagerAssumption DEF List
  <2> QED
    BY <2>1 DEF Init, HolderInv
<1>2. CountInv
  <2>1. {b \in Buffer : list[b] \in Pool} = Buffer
    BY InitLists, PoolFacts
  <2>2. allocatedBlocks = [p \in Pool |-> Len(poolInfo[p].blocks) - size[p]]
    BY InitLists, BlocksOf DEF Init
  <2> QED
    BY <2>1, <2>2, InitLists DEF Init, CountInv
<1>3. TaskInv
  BY IdleIsState DEF Init, TaskInv, TaskOk
<1> QED
  BY <1>1, <1>2, <1>3, InitLists DEF IInv

(* The initial lists are initial lists of BufferPools.                     *)
LEMMA InitPools ==
    ASSUME Init
    PROVE  Pools!Init
<1>1. PICK C : C = [l \in List |-> Forward(l)]
  OBVIOUS
<1>2. DOMAIN C = List
  BY <1>1
<1>3. ASSUME NEW l \in List PROVE Pools!ToSet(C[l]) \subseteq Buffer /\ Pools!IsInjective(C[l])
  <2>1n. PICK n \in Nat : n = size[l]
    BY <1>1, InitLists, Ends
  <2>1. PICK c \in [1 .. n -> Buffer] : n = size[l] /\ c = C[l]
    BY <2>1n, <1>1, InitLists, Ends
  <2>2. \A i, j \in 1 .. n : c[i] = c[j] => i = j
    BY <1>1, <2>1, InitLists, Ends
  <2> QED
    BY <2>1, <2>2 DEF Pools!ToSet, Pools!IsInjective
<1>4. ASSUME NEW b \in Buffer
      PROVE  \E l \in List : \A m \in List : b \in Pools!ToSet(C[m]) <=> m = l
  <2>1. PICK l \in List : l = list[b]
    BY InitLists, PoolFacts DEF List
  <2>2. ASSUME NEW m \in List PROVE b \in Pools!ToSet(C[m]) <=> m = l
    <3>1n. PICK n \in Nat : n = size[m]
      BY <1>1, InitLists, Ends
    <3>1. PICK c \in [1 .. n -> Buffer] : n = size[m] /\ c = C[m]
      BY <3>1n, <1>1, InitLists, Ends
    <3>2. \A i \in 1 .. n : list[c[i]] = m
      BY <1>1, <3>1, InitLists, Ends
    <3>3. list[b] = m => \E i \in 1 .. n : c[i] = b
      BY <1>1, <3>1, InitLists, Ends
    <3>4. b \in Pools!ToSet(C[m]) <=> \E i \in 1 .. n : c[i] = b
      BY <3>1 DEF Pools!ToSet
    <3> QED
      BY <2>1, <3>2, <3>3, <3>4
  <2> QED
    BY <2>2
<1>5. holder = [b \in Buffer |-> NoTask]
  BY DEF Init
<1> QED
  BY <1>1, <1>2, <1>3, <1>4, <1>5, Zenon DEF Pools!Init

-----------------------------------------------------------------------------
(* The inductive invariant implies the types.                              *)
LEMMA TypesFollow ==
    ASSUME IInv
    PROVE  TypeOK
<1>1. size \in [List -> 0 .. Cardinality(Buffer)]
  <2>1. \A l \in List : size[l] \in Nat /\ size[l] <= Cardinality(Buffer)
    BY SizeBound, Ends DEF IInv
  <2>2. size \in [List -> Nat] /\ Cardinality(Buffer) \in Nat
    BY BufferFinite DEF IInv, ListInv, LinkTypes
  <2> QED
    BY <2>1, <2>2
<1>2. gFreeMessagesCount \in 0 .. Cardinality(Buffer)
  <2>1. PICK F : F = {b \in Buffer : list[b] \in Pool}
    OBVIOUS
  <2>2. F \subseteq Buffer
    BY <2>1
  <2>3. Cardinality(F) \in Nat /\ Cardinality(F) <= Cardinality(Buffer)
    BY <2>2, BufferFinite, FS_Subset, FS_CardinalityType
  <2>4. gFreeMessagesCount = Cardinality(F)
    BY <2>1 DEF IInv, CountInv
  <2> QED
    BY <2>3, <2>4, BufferFinite
<1>3. ASSUME NEW p \in Pool PROVE allocatedBlocks[p] \in 0 .. Cardinality(Blocks(p))
  <2>1. p \in List /\ IsFiniteSet(Blocks(p))
    BY BlocksOf DEF List
  <2>2. \A b \in Buffer : list[b] = p => b \in Blocks(p)
    BY PoolFacts DEF IInv, CountInv
  <2>3. PICK n \in Nat, m \in Nat : n = size[p] /\ m = Cardinality(Blocks(p))
    BY <2>1, Ends, FS_CardinalityType DEF IInv
  <2>4. n <= m
    BY <2>1, <2>2, <2>3, SizeBound DEF IInv
  <2>5. allocatedBlocks[p] = m - n
    BY <2>3, MemManagerAssumption DEF IInv, CountInv
  <2> QED
    BY <2>3, <2>4, <2>5
<1>4. \A t \in Task : /\ task[t].pc \in {"idle", "remove", "addprev", "dequeue", "free"}
                      /\ task[t].element \in Buffer \union {NULL}
                      /\ task[t].new \in Buffer \union Queue \union {NULL}
  BY DEF IInv, TaskInv, TaskState
<1>5. /\ {head, tail} \subseteq [List -> Buffer \union {NULL}]
      /\ {next, prev} \subseteq [Buffer -> Buffer \union {NULL}]
      /\ list \in [Buffer -> List \union {NULL}]
      /\ holder \in [Buffer -> Task \union {NoTask}]
  BY DEF IInv, ListInv, LinkTypes, HolderInv
<1> QED
  BY <1>1, <1>2, <1>3, <1>4, <1>5 DEF TypeOK

(* Read from its tail, a list is the reverse of what one reads from its    *)
(* head.                                                                   *)
LEMMA BackwardIs ==
    ASSUME ListInv, NEW l \in List
    PROVE  Backward(l) = [i \in 1 .. size[l] |-> Forward(l)[size[l] + 1 - i]]
<1>1. PICK n \in Nat : n = size[l]
  BY Ends
<1>2. PICK c \in [1 .. n -> Buffer] : c = Forward(l)
  BY <1>1, Ends
<1>3. PICK first, link : first = tail[l] /\ link = prev
  OBVIOUS
<1>4. PICK r : r = [i \in 1 .. n |-> c[n + 1 - i]]
  OBVIOUS
<1>5. /\ first = IF n = 0 THEN NULL ELSE c[n]
      /\ \A i \in 1 .. n : link[c[i]] = IF i = 1 THEN NULL ELSE c[i - 1]
      /\ \A i, j \in 1 .. n : c[i] = c[j] => i = j
  BY <1>1, <1>2, <1>3, Ends
<1>6. r \in [1 .. n -> Buffer] /\ \A i, j \in 1 .. n : r[i] = r[j] => i = j
  BY <1>4, <1>5
<1>7. first = (IF n = 0 THEN NULL ELSE r[1]) /\ \A i \in 1 .. n : link[r[i]] = IF i = n THEN NULL ELSE r[i + 1]
  <2>1. first = IF n = 0 THEN NULL ELSE r[1]
    BY <1>4, <1>5
  <2>2. ASSUME NEW i \in 1 .. n PROVE link[r[i]] = IF i = n THEN NULL ELSE r[i + 1]
    <3>1. PICK k \in 1 .. n : k = n + 1 - i
      OBVIOUS
    <3>2. r[i] = c[k] /\ link[c[k]] = IF k = 1 THEN NULL ELSE c[k - 1]
      BY <1>4, <1>5, <3>1
    <3>3. i # n => r[i + 1] = c[k - 1]
      BY <1>4, <3>1
    <3> QED
      BY <3>1, <3>2, <3>3
  <2> QED
    BY <2>1, <2>2
<1>8. Chain(first, link) = r
  BY <1>6, <1>7, ChainIs
<1> QED
  BY <1>1, <1>2, <1>3, <1>4, <1>8 DEF Backward

(* The inductive invariant implies that the lists are well formed.         *)
LEMMA WellFormedFollows ==
    ASSUME IInv
    PROVE  ListsWellFormed
<1>1. CountsAgree
  <2>1. ASSUME NEW p \in Pool PROVE allocatedBlocks[p] + size[p] = Len(poolInfo[p].blocks)
    <3>1. PICK n \in Nat, m \in Nat : n = size[p] /\ m = Len(poolInfo[p].blocks)
      BY BlocksOf, Ends DEF IInv, List
    <3>2. allocatedBlocks[p] = m - n
      BY <3>1 DEF IInv, CountInv
    <3> QED
      BY <3>1, <3>2
  <2> QED
    BY <2>1 DEF IInv, CountInv, CountsAgree
<1>2. ASSUME NEW l \in List
      PROVE  /\ Len(Forward(l)) = size[l] /\ Len(Backward(l)) = size[l]
             /\ \A k \in 1 .. size[l] : Backward(l)[k] = Forward(l)[size[l] + 1 - k]
             /\ {Forward(l)[k] : k \in 1 .. size[l]} = {b \in Buffer : list[b] = l}
  <2>1. PICK n \in Nat : n = size[l]
    BY Ends DEF IInv
  <2>2. PICK c \in [1 .. n -> Buffer] : c = Forward(l)
    BY <2>1, Ends DEF IInv
  <2>3. PICK r : r = Backward(l) /\ r = [i \in 1 .. n |-> c[n + 1 - i]]
    BY <2>1, <2>2, BackwardIs DEF IInv
  <2>4. Len(c) = n /\ Len(r) = n
    BY <2>3
  <2>5. {c[k] : k \in 1 .. n} = {b \in Buffer : list[b] = l}
    <3>1. \A k \in 1 .. n : list[c[k]] = l
      BY <2>1, <2>2, Ends DEF IInv
    <3>2. \A b \in Buffer : list[b] = l => \E k \in 1 .. n : c[k] = b
      BY <2>1, <2>2, Ends DEF IInv
    <3> QED
      BY <3>1, <3>2
  <2> QED
    BY <2>1, <2>2, <2>3, <2>4, <2>5
<1>3. \A b \in Buffer : holder[b] = NoTask <=> list[b] # NULL
  BY DEF IInv, HolderInv
<1>4. \A t \in Task : task[t].pc \in {"remove", "addprev"} => FoundInQueue(t, task[t].element)
  BY DEF IInv, TaskInv, TaskOk
<1> QED
  BY <1>1, <1>2, <1>3, <1>4, TypesFollow DEF ListsWellFormed

(* The first pool that has a free block has the smallest one, since the    *)
(* pools are sorted by block size.                                         *)
LEMMA BestFitFollows ==
    ASSUME \A p \in Pool : size[p] \in Nat
    PROVE  BestFit
<1>1. SUFFICES ASSUME NEW r \in Request
               PROVE  LET fits == {p \in Pool : size[p] > 0 /\ r[1] <= poolInfo[p].blockSize /\ r[2] = poolInfo[p].poolId}
                          p == PoolFor(r[1], r[2])
                      IN IF fits = {} THEN p = 0
                         ELSE p \in fits /\ \A q \in fits : poolInfo[p].blockSize <= poolInfo[q].blockSize
  BY DEF BestFit
<1>2. PICK T : T = {p \in Pool : size[p] > 0 /\ r[1] <= poolInfo[p].blockSize /\ r[2] = poolInfo[p].poolId}
  OBVIOUS
<1>3. Len(poolInfo) \in Nat /\ Pool = 1 .. Len(poolInfo) /\ r[1] \in Nat \ {0}
  BY PoolFacts DEF Request
<1>4. T = From(1, r[1], r[2])
  <2>1. \A q \in Pool : q >= 1
    BY <1>3
  <2> QED
    BY <1>2, <2>1 DEF From
<1>5. PoolFor(r[1], r[2]) = Least(T)
  BY <1>3, <1>4, PoolForIs
<1>6. CASE T = {}
  BY <1>2, <1>5, <1>6 DEF Least
<1>7. CASE T # {}
  <2>1. T \subseteq Nat /\ T \subseteq Pool
    BY <1>2, <1>3
  <2>2. PICK p \in T : p = Least(T) /\ \A q \in T : p <= q
    BY <1>7, <2>1, LeastIs
  <2>3. ASSUME NEW q \in T PROVE poolInfo[p].blockSize <= poolInfo[q].blockSize
    <3>1. p \in Pool /\ q \in Pool /\ (p = q \/ p < q)
      BY <2>1, <2>2
    <3>2. poolInfo[p].blockSize \in Nat /\ poolInfo[q].blockSize \in Nat
      BY <3>1, PoolFacts
    <3>3. p < q => poolInfo[p].blockSize <= poolInfo[q].blockSize
      BY <3>1, MemManagerAssumption
    <3> QED
      BY <3>1, <3>2, <3>3
  <2> QED
    BY <1>2, <1>5, <1>7, <2>2, <2>3
<1> QED
  BY <1>6, <1>7

-----------------------------------------------------------------------------
(* The inductive invariant holds in every reachable state.                 *)
LEMMA Invariance ==
    ASSUME SingleConsumer
    PROVE  Spec => []IInv
<1>1. Init => IInv
  BY InitInv
<1>2. IInv /\ [Next]_vars => IInv'
  BY NextGood DEF Good
<1> QED
  BY <1>1, <1>2, PTL DEF Spec

(***************************************************************************)
(* The links, the sizes and the counters that GenericList.c and            *)
(* MemManager.c maintain one by one agree in every state, whatever tasks   *)
(* and interrupts do between the orphan test of ListRemoveElement or       *)
(* ListAddPrevElement and the change itself.  That each queue has one      *)
(* consumer is needed: two of them can both pass the test for the same     *)
(* message, and the second then unlinks what is no longer there.           *)
(***************************************************************************)
THEOREM ListsWellFormedHolds ==
    ASSUME SingleConsumer
    PROVE  Spec => []ListsWellFormed
<1>1. IInv => ListsWellFormed
  BY WellFormedFollows
<1> QED
  BY <1>1, Invariance, PTL

(***************************************************************************)
(* MEM_BufferAllocWithId returns NULL only when every pool of that id is   *)
(* empty or too small, and else takes a block no larger than any other     *)
(* that would do: the loop that gives up on an empty pool when the next    *)
(* one is smaller than the request is a best-fit search.                   *)
(***************************************************************************)
THEOREM BestFitHolds ==
    ASSUME SingleConsumer
    PROVE  Spec => []BestFit
<1>1. IInv => BestFit
  <2>1. IInv => \A p \in Pool : size[p] \in Nat
    BY DEF IInv, ListInv, LinkTypes, List
  <2> QED
    BY <2>1, BestFitFollows
<1> QED
  BY <1>1, Invariance, PTL

(***************************************************************************)
(* The memory manager and the message queues implement BufferPools: each   *)
(* step takes one buffer out of one place of one list for one task, puts   *)
(* one that the task holds into one place of one list, or changes neither. *)
(* No buffer is lost, doubled or moved by somebody else.                   *)
(***************************************************************************)
THEOREM PoolsImplemented ==
    ASSUME SingleConsumer
    PROVE  Spec => ImplementsPools
<1>1. Init => Pools!Init
  BY InitPools
<1>2. IInv /\ [Next]_vars => [Pools!Next]_<<holder, [l \in List |-> Forward(l)]>>
  <2>1. SUFFICES ASSUME IInv, [Next]_vars
                 PROVE  [Pools!Next]_<<holder, [l \in List |-> Forward(l)]>>
    OBVIOUS
  <2>2. PoolsStep
    BY <2>1, NextGood DEF Good
  <2>3. CASE \E t \in Task, b \in Buffer : Pools!Take(t, b) \/ Pools!Put(t, b)
    <3>1. Pools!Next
      BY <2>3, Zenon DEF Pools!Next
    <3> QED
      BY <3>1
  <2>4. CASE holder' = holder /\ \A l \in List : Forward(l)' = Forward(l)
    BY <2>4
  <2> QED
    BY <2>2, <2>3, <2>4 DEF PoolsStep
<1> QED
  BY <1>1, <1>2, Invariance, PTL DEF Spec, ImplementsPools, Pools!Spec
=============================================================================
