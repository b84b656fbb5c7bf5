--------------------------- MODULE NvQueueProofs ---------------------------
(***************************************************************************)
(* Proofs about the queue of idle saves and the types of the non-volatile  *)
(* storage, as long as in addition no critical section begins in the       *)
(* middle of a call.  The pages are as NvStorageProofs shows them to be.   *)
(***************************************************************************)
EXTENDS NvStorageProofs

NoSectionInCall == "critical section in a call" \notin Circumstances

-----------------------------------------------------------------------------
(* The queue of idle saves.  Operations that may add to the queue, and     *)
(* those that are about to save the data set e.                            *)
Requests(o) ==
    \/ o.op \in {"NvAddSaveRequestToQueue", "NvPushPendingSave", "NvIdle", "saves", "NvCompletePendingOperations"}
    \/ o.op = "NvWriteRecord" /\ o.by = "NvIdle"
Takes(o, e) ==
    \/ o.op \in {"NvAtomicSave", "formatted"}
    \/ o.op = "NvSyncSave" /\ e \in o.entry .. o.last
    \/ o.op \in {"NvWriteRecord", "written", "erase old page"} /\ o.entry = e
Taken(s, e) == \E k \in DOMAIN s : Takes(s[k], e)
InQueue(q, e) == {e, ALL} \intersect ToSet(q) # {}
AddsNow(s, q, e) ==
    s # << >> /\ Head(s).op = "NvAddSaveRequestToQueue" /\ Head(s).entry = e /\ Len(q) < gNvPendingSavesQueueSize_c
Covered(s, q, e) == InQueue(q, e) \/ Taken(s, e) \/ AddsNow(s, q, e)

(* With the rest s of a call, the queue q and the requests r: what will be *)
(* pushed is not in the queue and nothing else is added before; the record *)
(* __NvIdle took from the queue leaves a place free; every request is in   *)
(* the queue or the call is about to make it.                              *)
PushOk(s, q) ==
    \A k \in DOMAIN s : s[k].op = "NvPushPendingSave" =>
        s[k].entry \notin ToSet(q) /\ \A j \in 1 .. k - 1 : ~Requests(s[j])
IdleOk(s, q) ==
    \A k \in DOMAIN s : s[k].op = "NvWriteRecord" /\ s[k].by = "NvIdle" => k = 1 /\ Len(q) < gNvPendingSavesQueueSize_c
QueueOk(s, q, r) ==
    /\ Stack(s) /\ q \in Seq(Entry \union {ALL})
    /\ IsInjective(q) /\ Len(q) <= gNvPendingSavesQueueSize_c /\ r \subseteq Entry
    /\ PushOk(s, q) /\ IdleOk(s, q)
    /\ \A e \in r : Covered(s, q, e)

(* A critical section that is not in the middle of a call: calls that find *)
(* it open queue their requests and do not touch the flash.                *)
SectionCalls ==
    {<< >>, <<Call("NvAtomicSave")>>, <<Call("NvIdle")>>, <<Call("NvIdle"), Call("NvCompletePendingOperations")>>,
     <<Call("NvCompletePendingOperations")>>, <<Call("NvShutdown")>>}
      \union {<<SyncSave(e, e)>> : e \in Entry}
      \union {<<CallFor("NvAddSaveRequestToQueue", e)>> : e \in Entry}
      \union {<<Call("NvProcessFirstSaveInQueue"), CallFor("NvPushPendingSave", e)>> : e \in Entry}
      \union {<<CallFor("NvPushPendingSave", e)>> : e \in Entry}
Section(s, q, r) ==
    /\ s \in SectionCalls
    /\ \A e \in r : InQueue(q, e)

QueueInv ==
    /\ QueueOk(todo, mNvPendingSavesQueue, requested)
    /\ mNvCriticalSectionFlag # 0 => boot = "ok" /\ Section(todo, mNvPendingSavesQueue, requested)

LEMMA QueueSet == \A q : ToSet(q) = {q[k] : k \in DOMAIN q}
BY DEF ToSet

Joined(u, t, w) ==
    /\ Stack(u) /\ Len(t) \in Nat /\ Len(w) \in Nat /\ DOMAIN t = 1 .. Len(t) /\ DOMAIN w = 1 .. Len(w)
    /\ DOMAIN u = 1 .. Len(t) + Len(w)
    /\ \A k \in DOMAIN t : u[k] = t[k]
    /\ \A k \in DOMAIN w : u[Len(t) + k] = w[k]
LEMMA JoinFacts ==
    ASSUME NEW t, Stack(t), NEW w, Stack(w), NEW u, u = t \o w
    PROVE  Joined(u, t, w)
<1> DEFINE S == {t[k] : k \in DOMAIN t} \union {w[k] : k \in DOMAIN w}
<1>1. t \in Seq(S) /\ w \in Seq(S)
  <2>1. t \in [1 .. Len(t) -> {t[k] : k \in DOMAIN t}] /\ Len(t) \in Nat
    BY LenProperties DEF Stack
  <2>2. w \in [1 .. Len(w) -> {w[k] : k \in DOMAIN w}] /\ Len(w) \in Nat
    BY LenProperties DEF Stack
  <2>3. t \in [1 .. Len(t) -> S] /\ w \in [1 .. Len(w) -> S]
    BY <2>1, <2>2
  <2> HIDE DEF S
  <2> QED
    BY <2>1, <2>2, <2>3, SeqDef
<1> HIDE DEF S
<1>2. /\ u \in Seq(S) /\ Len(u) = Len(t) + Len(w)
      /\ \A i \in 1 .. Len(t) + Len(w) : u[i] = IF i <= Len(t) THEN t[i] ELSE w[i - Len(t)]
  BY <1>1, ConcatProperties
<1>3. Len(t) \in Nat /\ Len(w) \in Nat /\ DOMAIN t = 1 .. Len(t) /\ DOMAIN w = 1 .. Len(w)
  BY <1>1, LenProperties
<1>4. DOMAIN u = 1 .. Len(t) + Len(w)
  BY <1>2, LenProperties
<1>5. \A k \in DOMAIN t : u[k] = t[k]
  BY <1>2, <1>3
<1>6. \A k \in DOMAIN w : u[Len(t) + k] = w[k]
  BY <1>2, <1>3
<1> QED
  BY <1>3, <1>4, <1>5, <1>6, StackJoin DEF Joined

(* The rest w of the call s, without its first j operations.               *)
Below(w, s, j) == Stack(w) /\ \A k \in DOMAIN w : k + j \in DOMAIN s /\ w[k] = s[k + j]

(* Operations that take the place of the top of a call.                    *)
Follows(o, k, top, q) ==
    /\ o.op # "NvPushPendingSave"
    /\ o.op = "NvWriteRecord" /\ o.by = "NvIdle" => k = 1 /\ Len(q) < gNvPendingSavesQueueSize_c
    /\ Requests(o) => Requests(top)

LEMMA CallKeeps ==
    ASSUME NEW s, s # << >>, NEW q, NEW r, QueueOk(s, q, r),
           NEW p \in Seq(Entry \union {ALL}), IsInjective(p), ToSet(p) \subseteq ToSet(q), Len(p) <= Len(q),
           NEW x, x \subseteq r, NEW t, Stack(t), NEW w, NEW j \in Nat, Below(w, s, j),
           j > 0 \/ Head(s).op \notin {"NvPushPendingSave", "NvWriteRecord"},
           \A k \in DOMAIN t : Follows(t[k], k, Head(s), p),
           NEW u, u = t \o w, \A e \in x : Covered(u, p, e)
    PROVE  QueueOk(u, p, x)
<1>1. PICK top : top = Head(s)
  OBVIOUS
<1>2. Stack(t) /\ Stack(w)
  BY DEF Below
<1>3. /\ Stack(u) /\ Len(t) \in Nat /\ Len(w) \in Nat /\ DOMAIN t = 1 .. Len(t) /\ DOMAIN w = 1 .. Len(w)
      /\ DOMAIN u = 1 .. Len(t) + Len(w)
      /\ \A k \in DOMAIN t : u[k] = t[k]
      /\ \A k \in DOMAIN w : u[Len(t) + k] = w[k]
  <2>1. Joined(u, t, w)
    BY <1>2, JoinFacts
  <2> QED
    BY <2>1 DEF Joined
<1>4. Len(s) \in Nat \ {0} /\ DOMAIN s = 1 .. Len(s) /\ top = s[1]
  BY <1>1, StackTail DEF QueueOk
<1>5. Len(p) \in Nat /\ Len(q) \in Nat
  BY DEF QueueOk
<1>6. ASSUME NEW k \in DOMAIN u
      PROVE  \/ k \in DOMAIN t /\ u[k] = t[k] /\ Follows(u[k], k, top, p)
             \/ /\ k - Len(t) \in DOMAIN w /\ k - Len(t) + j \in DOMAIN s /\ u[k] = s[k - Len(t) + j]
                /\ k > Len(t)
  <2>1. CASE k <= Len(t)
    BY <1>1, <1>3, <2>1
  <2>2. CASE k > Len(t)
    <3>1. PICK i : i = k - Len(t)
      OBVIOUS
    <3>2. i \in DOMAIN w /\ k = Len(t) + i
      BY <1>3, <2>2, <3>1
    <3>3. u[k] = w[i] /\ w[i] = s[i + j] /\ i + j \in DOMAIN s
      BY <1>3, <3>2 DEF Below
    <3> QED
      BY <2>2, <3>1, <3>2, <3>3
  <2> QED
    BY <1>3, <2>1, <2>2
<1>7. PushOk(u, p)
  <2>1. SUFFICES ASSUME NEW k \in DOMAIN u, u[k].op = "NvPushPendingSave"
                 PROVE  u[k].entry \notin ToSet(p) /\ \A i \in 1 .. k - 1 : ~Requests(u[i])
    BY DEF PushOk
  <2>2. PICK m : m = k - Len(t) + j
    OBVIOUS
  <2>3. m \in DOMAIN s /\ u[k] = s[m] /\ k - Len(t) \in DOMAIN w /\ k > Len(t)
    BY <1>6, <2>1, <2>2 DEF Follows
  <2>4. u[k].entry \notin ToSet(p) /\ \A i \in 1 .. m - 1 : ~Requests(s[i])
    BY <2>1, <2>3 DEF QueueOk, PushOk
  <2>5. m > 1 \/ (m = 1 /\ j = 0)
    BY <1>3, <2>2, <2>3
  <2>6. m > 1
    BY <1>1, <1>4, <2>1, <2>3, <2>5
  <2>7. ~Requests(top)
    BY <1>4, <2>3, <2>4, <2>6
  <2>8. ASSUME NEW i \in 1 .. k - 1 PROVE ~Requests(u[i])
    <3>1. i \in DOMAIN u
      BY <1>3
    <3>2. CASE i \in DOMAIN t /\ Follows(u[i], i, top, p)
      BY <2>7, <3>2 DEF Follows
    <3>3. CASE i - Len(t) + j \in DOMAIN s /\ u[i] = s[i - Len(t) + j]
      <4>1. i - Len(t) + j \in 1 .. m - 1
        <5>1. i \in Int /\ k \in Int /\ i < k /\ Len(t) \in Int
          BY <1>3
        <5> QED
          BY <1>4, <2>2, <3>3, <5>1
      <4> QED
        BY <2>4, <3>3, <4>1
    <3> QED
      BY <1>6, <3>1, <3>2, <3>3
  <2> QED
    BY <2>4, <2>8
<1>8. IdleOk(u, p)
  <2>1. SUFFICES ASSUME NEW k \in DOMAIN u, u[k].op = "NvWriteRecord", u[k].by = "NvIdle"
                 PROVE  k = 1 /\ Len(p) < gNvPendingSavesQueueSize_c
    BY DEF IdleOk
  <2>2. CASE Follows(u[k], k, top, p)
    BY <2>1, <2>2 DEF Follows
  <2>3. CASE k - Len(t) \in DOMAIN w /\ k - Len(t) + j \in DOMAIN s /\ u[k] = s[k - Len(t) + j]
    <3>1. k - Len(t) + j = 1
      BY <2>1, <2>3 DEF QueueOk, IdleOk
    <3>2. j = 0 /\ s[1] = u[k]
      BY <1>3, <2>3, <3>1
    <3> QED
      BY <1>1, <1>4, <2>1, <3>2
  <2> QED
    BY <1>6, <2>2, <2>3
<1>9. Len(p) <= gNvPendingSavesQueueSize_c
  BY <1>5, NvStorageAssumption DEF QueueOk
<1> QED
  BY <1>3, <1>7, <1>8, <1>9 DEF QueueOk

(* The rest of a call.                                                     *)
LEMMA BelowFacts ==
    ASSUME NEW s, Stack(s), s # << >>
    PROVE  /\ Below(s, s, 0) /\ Below(Tail(s), s, 1)
           /\ \A name : \/ Without(Tail(s), name) = Tail(s)
                        \/ /\ Below(Without(Tail(s), name), s, 2)
                           /\ 2 \in DOMAIN s /\ s[2].op = name
<1>1. /\ Stack(Tail(s)) /\ \A k \in DOMAIN Tail(s) : k + 1 \in DOMAIN s /\ Tail(s)[k] = s[k + 1]
      /\ Len(s) \in Nat \ {0} /\ DOMAIN s = 1 .. Len(s)
  BY StackTail
<1>2. Below(s, s, 0) /\ Below(Tail(s), s, 1)
  BY <1>1 DEF Below
<1>3. ASSUME NEW name, Without(Tail(s), name) # Tail(s)
      PROVE  Below(Without(Tail(s), name), s, 2) /\ 2 \in DOMAIN s /\ s[2].op = name
  <2>1. PICK w : w = Tail(s)
    OBVIOUS
  <2>2. Without(w, name) = Tail(w) /\ w # << >> /\ Head(w).op = name
    BY <1>3, <2>1 DEF Without
  <2>3. /\ Stack(Tail(w)) /\ \A k \in DOMAIN Tail(w) : k + 1 \in DOMAIN w /\ Tail(w)[k] = w[k + 1]
        /\ Len(w) \in Nat \ {0} /\ DOMAIN w = 1 .. Len(w) /\ Head(w) = w[1]
        /\ DOMAIN Tail(w) = 1 .. Len(Tail(w))
    BY <1>1, <2>1, <2>2, StackTail
  <2>4. ASSUME NEW k \in DOMAIN Tail(w) PROVE k + 2 \in DOMAIN s /\ Tail(w)[k] = s[k + 2]
    <3>1. k + 1 \in DOMAIN w /\ Tail(w)[k] = w[k + 1] /\ k \in Int
      BY <2>3
    <3>2. k + 1 + 1 \in DOMAIN s /\ w[k + 1] = s[k + 1 + 1]
      BY <1>1, <2>1, <3>1
    <3> QED
      BY <3>1, <3>2
  <2>5. 1 \in DOMAIN w
    BY <2>3
  <2>6. 2 \in DOMAIN s /\ s[2] = w[1]
    BY <1>1, <2>1, <2>5
  <2> QED
    BY <2>1, <2>2, <2>3, <2>4, <2>6 DEF Below
<1> QED
  BY <1>2, <1>3

(* Operations that take the place of the top of a call while the queue     *)
(* stays as it is.                                                         *)
PlainOp(o, top) ==
    /\ o.op # "NvPushPendingSave" /\ ~(o.op = "NvWriteRecord" /\ o.by = "NvIdle")
    /\ Requests(o) => Requests(top)
Plain(t, top) == Stack(t) /\ \A k \in DOMAIN t : PlainOp(t[k], top)

LEMMA PlainTuples ==
    ASSUME NEW top, NEW a, NEW b, NEW c
    PROVE  /\ Plain(<< >>, top)
           /\ PlainOp(a, top) => Plain(<<a>>, top)
           /\ PlainOp(a, top) /\ PlainOp(b, top) => Plain(<<a, b>>, top)
           /\ PlainOp(a, top) /\ PlainOp(b, top) /\ PlainOp(c, top) => Plain(<<a, b, c>>, top)
<1>1. Stack(<< >>) /\ Stack(<<a>>) /\ Stack(<<a, b>>) /\ Stack(<<a, b, c>>)
  BY StackTuples
<1>2. PICK s1, s2, s3 : s1 = <<a>> /\ s2 = <<a, b>> /\ s3 = <<a, b, c>>
  OBVIOUS
<1>3. /\ DOMAIN s1 = 1 .. 1 /\ s1[1] = a
      /\ DOMAIN s2 = 1 .. 2 /\ s2[1] = a /\ s2[2] = b
      /\ DOMAIN s3 = 1 .. 3 /\ s3[1] = a /\ s3[2] = b /\ s3[3] = c
      /\ DOMAIN << >> = {}
  BY <1>2
<1>4. /\ \A k \in DOMAIN s1 : s1[k] = a
      /\ \A k \in DOMAIN s2 : s2[k] \in {a, b}
      /\ \A k \in DOMAIN s3 : s3[k] \in {a, b, c}
  BY <1>3
<1>5. \A k \in DOMAIN << >> : PlainOp(<< >>[k], top)
  BY <1>3
<1>6. PlainOp(a, top) => Plain(s1, top)
  BY <1>1, <1>2, <1>4 DEF Plain
<1>7. PlainOp(a, top) /\ PlainOp(b, top) => Plain(s2, top)
  BY <1>1, <1>2, <1>4 DEF Plain
<1>8. PlainOp(a, top) /\ PlainOp(b, top) /\ PlainOp(c, top) => Plain(s3, top)
  BY <1>1, <1>2, <1>4 DEF Plain
<1> QED
  BY <1>1, <1>2, <1>5, <1>6, <1>7, <1>8 DEF Plain

LEMMA PlainJoin ==
    ASSUME NEW top, NEW t, NEW w, Plain(t, top), Plain(w, top)
    PROVE  Plain(t \o w, top)
<1>1. PICK u : u = t \o w
  OBVIOUS
<1> Stack(t) /\ Stack(w)
  BY DEF Plain
<1>2. /\ Stack(u) /\ Len(t) \in Nat /\ Len(w) \in Nat /\ DOMAIN t = 1 .. Len(t) /\ DOMAIN w = 1 .. Len(w)
      /\ DOMAIN u = 1 .. Len(t) + Len(w)
      /\ \A k \in DOMAIN t : u[k] = t[k]
      /\ \A k \in DOMAIN w : u[Len(t) + k] = w[k]
  <2>1. Joined(u, t, w)
    BY <1>1, JoinFacts
  <2> QED
    BY <2>1 DEF Joined
<1>3. ASSUME NEW k \in DOMAIN u PROVE PlainOp(u[k], top)
  <2>1. CASE k <= Len(t)
    BY <1>2, <2>1 DEF Plain
  <2>2. CASE k > Len(t)
    <3>1. PICK i : i = k - Len(t)
      OBVIOUS
    <3>2. i \in DOMAIN w /\ k = Len(t) + i
      BY <1>2, <2>2, <3>1
    <3> QED
      BY <1>2, <3>2 DEF Plain
  <2> QED
    BY <1>2, <2>1, <2>2
<1> QED
  BY <1>1, <1>2, <1>3 DEF Plain

LEMMA PlainOps ==
    ASSUME NEW top
    PROVE  /\ \A p, s, l : PlainOp(EraseSectors(p, s, l), top)
           /\ \A p, a, c : PlainOp(Program(p, a, c), top)
           /\ \A name \in {"NvCopyPage", "copied", "erased", "erase sector", "NvAtomicSave", "NvProcessFirstSaveInQueue",
                           "NvUpdateLastMetaInfoAddress", "formatted", "init", "return"} : PlainOp(Call(name), top)
           /\ \A e : PlainOp(CallFor("erase old page", e), top)
           /\ \A e, l : PlainOp(SyncSave(e, l), top)
           /\ \A s, d, r : PlainOp(CopyRecords(s, d, r), top)
           /\ \A e, by : by # "NvIdle" => PlainOp(WriteRecord(e, by), top)
           /\ \A e, m : PlainOp(WrittenCall(e, m), top)
           /\ \A n : PlainOp(InternalFormat(n), top)
<1>1. \A p, s, l : PlainOp(EraseSectors(p, s, l), top)
  BY DEF PlainOp, Requests, EraseSectors
<1>2. \A p, a, c : PlainOp(Program(p, a, c), top)
  BY DEF PlainOp, Requests, Program
<1>3. \A name \in {"NvCopyPage", "copied", "erased", "erase sector", "NvAtomicSave", "NvProcessFirstSaveInQueue",
                   "NvUpdateLastMetaInfoAddress", "formatted", "init", "return"} : PlainOp(Call(name), top)
  BY DEF PlainOp, Requests, Call
<1>4. \A e : PlainOp(CallFor("erase old page", e), top)
  BY DEF PlainOp, Requests, CallFor
<1>5. \A e, l : PlainOp(SyncSave(e, l), top)
  BY DEF PlainOp, Requests, SyncSave
<1>6. \A s, d, r : PlainOp(CopyRecords(s, d, r), top)
  BY DEF PlainOp, Requests, CopyRecords
<1>7. \A e, by : by # "NvIdle" => PlainOp(WriteRecord(e, by), top)
  BY DEF PlainOp, Requests, WriteRecord
<1>8. \A e, m : PlainOp(WrittenCall(e, m), top)
  BY DEF PlainOp, Requests, WrittenCall
<1>9. \A n : PlainOp(InternalFormat(n), top)
  BY DEF PlainOp, Requests, InternalFormat
<1> QED
  BY <1>1, <1>2, <1>3, <1>4, <1>5, <1>6, <1>7, <1>8, <1>9

LEMMA TakesOps ==
    ASSUME NEW e
    PROVE  /\ \A name \in {"NvAtomicSave", "formatted"} : Takes(Call(name), e)
           /\ \A by : Takes(WriteRecord(e, by), e)
           /\ \A m : Takes(WrittenCall(e, m), e)
           /\ Takes(CallFor("erase old page", e), e)
           /\ \A a, b : e \in a .. b => Takes(SyncSave(a, b), e)
<1>1. \A name \in {"NvAtomicSave", "formatted"} : Takes(Call(name), e)
  BY DEF Takes, Call
<1>2. \A by : Takes(WriteRecord(e, by), e)
  BY DEF Takes, WriteRecord
<1>3. \A m : Takes(WrittenCall(e, m), e)
  BY DEF Takes, WrittenCall
<1>4. Takes(CallFor("erase old page", e), e)
  BY DEF Takes, CallFor
<1>5. \A a, b : e \in a .. b => Takes(SyncSave(a, b), e)
  BY DEF Takes, SyncSave
<1> QED
  BY <1>1, <1>2, <1>3, <1>4, <1>5

LEMMA TakenTuples ==
    ASSUME NEW e, NEW a, NEW b, NEW c
    PROVE  /\ ~Taken(<< >>, e)
           /\ Taken(<<a>>, e) <=> Takes(a, e)
           /\ Taken(<<a, b>>, e) <=> Takes(a, e) \/ Takes(b, e)
           /\ Taken(<<a, b, c>>, e) <=> Takes(a, e) \/ Takes(b, e) \/ Takes(c, e)
<1>1. PICK s1, s2, s3 : s1 = <<a>> /\ s2 = <<a, b>> /\ s3 = <<a, b, c>>
  OBVIOUS
<1>2. /\ DOMAIN s1 = {1} /\ s1[1] = a
      /\ DOMAIN s2 = {1, 2} /\ s2[1] = a /\ s2[2] = b
      /\ DOMAIN s3 = {1, 2, 3} /\ s3[1] = a /\ s3[2] = b /\ s3[3] = c
      /\ DOMAIN << >> = {}
  BY <1>1
<1>3. ~Taken(<< >>, e)
  BY <1>2 DEF Taken
<1>4. Taken(s1, e) <=> Takes(a, e)
  BY <1>2, Zenon DEF Taken
<1>5. Taken(s2, e) <=> Takes(a, e) \/ Takes(b, e)
  BY <1>2, Zenon DEF Taken
<1>6. Taken(s3, e) <=> Takes(a, e) \/ Takes(b, e) \/ Takes(c, e)
  BY <1>2, Zenon DEF Taken
<1> QED
  BY <1>1, <1>3, <1>4, <1>5, <1>6, Zenon

LEMMA TakenJoin ==
    ASSUME NEW e, NEW t, Stack(t), NEW w, Stack(w), Taken(t, e) \/ Taken(w, e)
    PROVE  Taken(t \o w, e)
<1>1. PICK u : u = t \o w
  OBVIOUS
<1>2. /\ Stack(u) /\ Len(t) \in Nat /\ Len(w) \in Nat /\ DOMAIN t = 1 .. Len(t) /\ DOMAIN w = 1 .. Len(w)
      /\ DOMAIN u = 1 .. Len(t) + Len(w)
      /\ \A k \in DOMAIN t : u[k] = t[k]
      /\ \A k \in DOMAIN w : u[Len(t) + k] = w[k]
  <2>1. Joined(u, t, w)
    BY <1>1, JoinFacts
  <2> QED
    BY <2>1 DEF Joined
<1>3. CASE Taken(t, e)
  <2>1. PICK k \in DOMAIN t : Takes(t[k], e)
    BY <1>3 DEF Taken
  <2>2. k \in DOMAIN u /\ u[k] = t[k]
    BY <1>2
  <2>3. Takes(u[k], e)
    BY <2>1, <2>2, Zenon
  <2> QED
    BY <1>1, <2>2, <2>3 DEF Taken
<1>4. CASE Taken(w, e)
  <2>1. PICK k \in DOMAIN w : Takes(w[k], e)
    BY <1>4 DEF Taken
  <2>2. Len(t) + k \in DOMAIN u /\ u[Len(t) + k] = w[k]
    BY <1>2
  <2>3. Takes(u[Len(t) + k], e)
    BY <2>1, <2>2, Zenon
  <2> QED
    BY <1>1, <2>2, <2>3 DEF Taken
<1> QED
  BY <1>3, <1>4

LEMMA TakenRest ==
    ASSUME NEW e, NEW s, Stack(s), s # << >>, Taken(s, e)
    PROVE  /\ Takes(Head(s), e) \/ Taken(Tail(s), e)
           /\ Takes(Head(s), e) \/ Taken(Without(Tail(s), "saves"), e)
<1>1. /\ Stack(Tail(s)) /\ \A k \in DOMAIN Tail(s) : k + 1 \in DOMAIN s /\ Tail(s)[k] = s[k + 1]
      /\ Len(s) \in Nat \ {0} /\ DOMAIN s = 1 .. Len(s) /\ Head(s) = s[1]
      /\ DOMAIN Tail(s) = 1 .. Len(Tail(s)) /\ Len(Tail(s)) = Len(s) - 1
  BY StackTail
<1>2. PICK k \in DOMAIN s : Takes(s[k], e)
  BY DEF Taken
<1>3. CASE k = 1
  BY <1>1, <1>2, <1>3
<1>4. CASE k # 1
  <2>1. PICK w, i : w = Tail(s) /\ i = k - 1
    OBVIOUS
  <2>2. i \in DOMAIN w /\ k = i + 1
    BY <1>1, <1>4, <2>1
  <2>3. Takes(w[i], e)
    BY <1>1, <1>2, <2>1, <2>2
  <2>4. CASE Without(w, "saves") = w
    BY <2>1, <2>2, <2>3, <2>4 DEF Taken
  <2>5. CASE Without(w, "saves") # w
    <3>1. Without(w, "saves") = Tail(w) /\ w # << >> /\ Head(w).op = "saves"
      BY <2>5 DEF Without
    <3>2. /\ \A j \in DOMAIN Tail(w) : j + 1 \in DOMAIN w /\ Tail(w)[j] = w[j + 1]
          /\ Len(w) \in Nat \ {0} /\ DOMAIN w = 1 .. Len(w) /\ Head(w) = w[1]
          /\ DOMAIN Tail(w) = 1 .. Len(Tail(w)) /\ Len(Tail(w)) = Len(w) - 1
      BY <1>1, <2>1, <3>1, StackTail
    <3>3. i # 1
      <4>1. ~Takes(Head(w), e)
        BY <3>1 DEF Takes
      <4> QED
        BY <2>3, <3>2, <4>1
    <3>4. PICK j : j = i - 1
      OBVIOUS
    <3>5. j \in DOMAIN Tail(w) /\ i = j + 1
      BY <2>2, <3>2, <3>3, <3>4
    <3>6. Takes(Tail(w)[j], e)
      BY <2>3, <3>2, <3>5
    <3> QED
      BY <2>1, <2>2, <2>3, <3>1, <3>5, <3>6 DEF Taken
  <2> QED
    BY <2>4, <2>5
<1> QED
  BY <1>3, <1>4

(* A step of a call that leaves the queue as it is.                        *)
LEMMA PlainStep ==
    ASSUME NEW s, s # << >>, NEW q, NEW r, QueueOk(s, q, r), Head(s).op # "NvAddSaveRequestToQueue",
           NEW x, x \subseteq r, NEW t, Plain(t, Head(s)),
           \A e \in x : Takes(Head(s), e) => Taken(t, e)
    PROVE  QueueOk(t \o Tail(s), q, x) /\ QueueOk(t \o Without(Tail(s), "saves"), q, x)
<1>1. Stack(s) /\ Stack(t) /\ Stack(Tail(s)) /\ Stack(Without(Tail(s), "saves"))
  BY StackTail, StackWithout DEF QueueOk, Plain
<1>2. Below(Tail(s), s, 1) /\ \E j \in Nat : j > 0 /\ Below(Without(Tail(s), "saves"), s, j)
  <2>1. Below(Tail(s), s, 1)
    BY <1>1, BelowFacts
  <2>2. Without(Tail(s), "saves") = Tail(s) \/ Below(Without(Tail(s), "saves"), s, 2)
    BY <1>1, BelowFacts
  <2> QED
    BY <2>1, <2>2, 1 \in Nat, 2 \in Nat, 1 > 0, 2 > 0, Zenon
<1>3. \A k \in DOMAIN t : Follows(t[k], k, Head(s), q)
  BY DEF Plain, PlainOp, Follows
<1>4. q \in Seq(Entry \union {ALL}) /\ IsInjective(q) /\ ToSet(q) \subseteq ToSet(q) /\ Len(q) <= Len(q)
  BY DEF QueueOk
<1>5. ASSUME NEW w \in {Tail(s), Without(Tail(s), "saves")} PROVE QueueOk(t \o w, q, x)
  <2>1. PICK u : u = t \o w
    OBVIOUS
  <2>2. Stack(w) /\ \E j \in Nat : j > 0 /\ Below(w, s, j)
    BY <1>1, <1>2, 1 \in Nat, 1 > 0, Zenon
  <2>3. ASSUME NEW e \in x PROVE Covered(u, q, e)
    <3>1. InQueue(q, e) \/ Taken(s, e)
      <4>1. Covered(s, q, e)
        BY DEF QueueOk
      <4> QED
        BY <4>1 DEF Covered, AddsNow
    <3>2. Taken(s, e) => Taken(t, e) \/ Taken(w, e)
      BY <1>1, TakenRest
    <3>3. Taken(t, e) \/ Taken(w, e) => Taken(u, e)
      BY <1>1, <2>1, <2>2, TakenJoin
    <3> QED
      BY <3>1, <3>2, <3>3 DEF Covered
  <2>4. PICK j \in Nat : j > 0 /\ Below(w, s, j)
    BY <2>2
  <2>5. QueueOk(u, q, x)
    BY <1>1, <1>3, <1>4, <2>1, <2>3, <2>4, CallKeeps
  <2> QED
    BY <2>1, <2>5
<1> QED
  BY <1>5

LEMMA QueueEmpty == QueueOk(<< >>, << >>, {})
<1>1. << >> \in Seq(Entry \union {ALL}) /\ Len(<< >>) = 0 /\ DOMAIN << >> = {}
  OBVIOUS
<1>2. gNvPendingSavesQueueSize_c \in Nat
  BY NvStorageAssumption
<1>3. IsInjective(<< >>) /\ Stack(<< >>)
  BY <1>1 DEF IsInjective, Stack
<1>4. PushOk(<< >>, << >>) /\ IdleOk(<< >>, << >>)
  BY <1>1 DEF PushOk, IdleOk
<1> QED
  BY <1>1, <1>2, <1>3, <1>4 DEF QueueOk

(* A call that was just made, or one that no request depends on.           *)
LEMMA NewCall ==
    ASSUME NEW s, NEW q, NEW r, QueueOk(s, q, r), NEW u, Plain(u, Call("NvIdle")), NEW x, x \subseteq r,
           \A e \in x : InQueue(q, e) \/ Taken(u, e)
    PROVE  QueueOk(u, q, x)
<1>1. Stack(u) /\ PushOk(u, q) /\ IdleOk(u, q)
  BY DEF Plain, PlainOp, PushOk, IdleOk
<1> QED
  BY <1>1 DEF QueueOk, Covered

LEMMA PlainAction ==
    ASSUME QueueInv, mNvCriticalSectionFlag = 0, UNCHANGED <<mNvPendingSavesQueue, mNvCriticalSectionFlag>>,
           todo # << >>, Head(todo).op # "NvAddSaveRequestToQueue", requested' \subseteq requested,
           NEW t, Plain(t, Head(todo)), \A e \in requested' : Takes(Head(todo), e) => Taken(t, e),
           todo' \in {t \o Rest, t \o Without(Rest, "saves")}
    PROVE  QueueInv'
<1>1. PICK q, r, s, x, u : q = mNvPendingSavesQueue /\ r = requested /\ s = todo /\ x = requested' /\ u = todo'
  OBVIOUS
<1>2. QueueOk(s, q, r) /\ Head(s).op # "NvAddSaveRequestToQueue" /\ s # << >> /\ Plain(t, Head(s))
      /\ x \subseteq r /\ \A e \in x : Takes(Head(s), e) => Taken(t, e)
  BY <1>1 DEF QueueInv
<1>3. QueueOk(t \o Tail(s), q, x) /\ QueueOk(t \o Without(Tail(s), "saves"), q, x)
  BY <1>2, PlainStep
<1>4. u \in {t \o Tail(s), t \o Without(Tail(s), "saves")}
  BY <1>1 DEF Rest
<1>5. QueueOk(u, q, x)
  BY <1>3, <1>4, Zenon
<1>6. QueueOk(todo', mNvPendingSavesQueue', requested')
  BY <1>1, <1>5, Zenon
<1> QED
  BY <1>6 DEF QueueInv

LEMMA DropAction ==
    ASSUME QueueInv, mNvCriticalSectionFlag = 0, UNCHANGED <<mNvPendingSavesQueue, mNvCriticalSectionFlag>>,
           todo # << >>, Head(todo).op # "NvAddSaveRequestToQueue", requested' \subseteq requested,
           \A e \in requested' : ~Takes(Head(todo), e),
           todo' \in {Rest, Without(Rest, "saves")}
    PROVE  QueueInv'
<1>1. Plain(<< >>, Head(todo))
  BY PlainTuples
<1>2. Stack(Rest) /\ Stack(Without(Rest, "saves"))
  BY StackTail, StackWithout DEF QueueInv, QueueOk, Rest
<1>3. << >> \o Rest = Rest /\ << >> \o Without(Rest, "saves") = Without(Rest, "saves")
  BY <1>2, StackAgain
<1>4. todo' \in {<< >> \o Rest, << >> \o Without(Rest, "saves")}
  BY <1>3, Zenon
<1> QED
  BY <1>1, <1>4, PlainAction

(* Steps on the flash and around them.                                     *)
LEMMA DropSteps ==
    ASSUME QueueInv, mNvCriticalSectionFlag = 0,
           \/ FlashProgram \/ NvWriteRecord_written \/ Copied \/ NvSyncSave_erased
           \/ NvUpdateLastMetaInfoAddress \/ NvModuleInit_return \/ NvShutdown
    PROVE  QueueInv'
<1>1. /\ todo # << >> /\ todo' = Rest /\ UNCHANGED <<mNvPendingSavesQueue, mNvCriticalSectionFlag>>
      /\ \/ /\ Head(todo).op \in {"program", "copied", "erased", "NvUpdateLastMetaInfoAddress", "return", "NvShutdown"}
            /\ requested' = requested
         \/ Head(todo).op = "written" /\ requested' = requested \ {Head(todo).entry}
  <2>1. CASE FlashProgram \/ Copied
    BY <2>1 DEF FlashProgram, Copied, Running, ramState
  <2>2. CASE NvWriteRecord_written
    BY <2>2 DEF NvWriteRecord_written, Running
  <2>3. CASE NvSyncSave_erased \/ NvUpdateLastMetaInfoAddress
    BY <2>3 DEF NvSyncSave_erased, NvUpdateLastMetaInfoAddress, Running
  <2>4. CASE NvModuleInit_return \/ NvShutdown
    BY <2>4 DEF NvModuleInit_return, NvShutdown, Running, ramState
  <2> QED
    BY <2>1, <2>2, <2>3, <2>4
<1>2. requested' \subseteq requested /\ \A e \in requested' : ~Takes(Head(todo), e)
  BY <1>1 DEF Takes
<1> QED
  BY <1>1, <1>2, DropAction

LEMMA FlashSteps ==
    ASSUME QueueInv, mNvCriticalSectionFlag = 0,
           FlashErase \/ NvCopyPage \/ NvInternalCopy \/ NvCopyPage_switch \/ NvSyncSave_copied
    PROVE  QueueInv'
<1>1. /\ todo # << >> /\ UNCHANGED <<mNvPendingSavesQueue, mNvCriticalSectionFlag, requested>>
      /\ Head(todo).op \in {"erase", "NvCopyPage", "copy records", "erase old page"}
      /\ Head(todo).op = "erase old page" => NvSyncSave_copied
  <2>1. CASE FlashErase \/ NvCopyPage
    BY <2>1 DEF FlashErase, NvCopyPage, Running, ramState
  <2>2. CASE NvInternalCopy \/ NvCopyPage_switch \/ NvSyncSave_copied
    BY <2>2 DEF NvInternalCopy, NvCopyPage_switch, NvSyncSave_copied, Running, ramState
  <2> QED
    BY <2>1, <2>2
<1>2. PICK top : top = Head(todo)
  OBVIOUS
<1>3. \E t : /\ Plain(t, top) /\ todo' = t \o Rest
             /\ \A e \in requested' : Takes(top, e) => Taken(t, e)
  <2>1. top.op # "erase old page" => \A e : ~Takes(top, e)
    BY <1>1, <1>2 DEF Takes
  <2>2. CASE FlashErase
    <3>1. PICK t : /\ todo' = t \o Rest
                   /\ (t = << >> \/ \E p, s, l : t = <<EraseSectors(p, s, l)>>)
      BY <2>2 DEF FlashErase
    <3>2. Plain(t, top)
      <4>1. ASSUME NEW p, NEW s, NEW l PROVE Plain(<<EraseSectors(p, s, l)>>, top)
        <5>1. PlainOp(EraseSectors(p, s, l), top)
          BY PlainOps
        <5> QED
          BY <5>1, PlainTuples
      <4>2. Plain(<< >>, top)
        BY PlainTuples
      <4> QED
        BY <3>1, <4>1, <4>2, Zenon
    <3>3. top.op # "erase old page"
      BY <1>2, <2>2 DEF FlashErase, Running
    <3> QED
      BY <2>1, <3>1, <3>2, <3>3
  <2>3. CASE NvCopyPage
    <3>1. PICK t, b, c : /\ todo' = t \o Rest /\ t = b \o <<c>>
                         /\ (b = << >> \/ b = <<Erase(OtherPage)>>)
                         /\ c = CopyRecords(NvLastMetaInfoAddress[mNvActivePageId], FirstMeta, Bottom)
      BY <2>3 DEF NvCopyPage
    <3>2. Plain(t, top)
      <4>1. PlainOp(Erase(OtherPage), top) /\ PlainOp(c, top)
        BY <3>1, PlainOps DEF Erase
      <4>2. Plain(b, top) /\ Plain(<<c>>, top)
        BY <3>1, <4>1, PlainTuples
      <4> QED
        BY <3>1, <4>2, PlainJoin
    <3>3. top.op # "erase old page"
      BY <1>2, <2>3 DEF NvCopyPage, Running
    <3> QED
      BY <2>1, <3>1, <3>2, <3>3
  <2>4. CASE NvInternalCopy
    <3>1. PICK t, a, b, c : /\ todo' = t \o Rest /\ t = <<a, b, c>>
                            /\ \E p1, a1, c1 : a = Program(p1, a1, c1)
                            /\ \E p1, a1, c1 : b = Program(p1, a1, c1)
                            /\ \E p1, a1, c1 : c = CopyRecords(p1, a1, c1)
      BY <2>4 DEF NvInternalCopy
    <3>2. Plain(t, top)
      <4>1. PlainOp(a, top) /\ PlainOp(b, top) /\ PlainOp(c, top)
        BY <3>1, PlainOps
      <4> QED
        BY <3>1, <4>1, PlainTuples
    <3>3. top.op # "erase old page"
      BY <1>2, <2>4 DEF NvInternalCopy, Running
    <3> QED
      BY <2>1, <3>1, <3>2, <3>3
  <2>5. CASE NvCopyPage_switch
    <3>1. PICK t, a, b : /\ todo' = t \o Rest /\ t = <<a, b>>
                         /\ a = Program(OtherPage, 0, <<Counter(mNvPageCounter + 1)>>)
                         /\ b = Program(OtherPage, Bottom, <<Counter(mNvPageCounter + 1)>>)
      BY <2>5 DEF NvCopyPage_switch, NvSaveRamTable
    <3>2. Plain(t, top)
      <4>1. PlainOp(a, top) /\ PlainOp(b, top)
        BY <3>1, PlainOps
      <4> QED
        BY <3>1, <4>1, PlainTuples
    <3>3. top.op # "erase old page"
      BY <1>2, <2>5 DEF NvCopyPage_switch, Running
    <3> QED
      BY <2>1, <3>1, <3>2, <3>3
  <2>6. CASE NvSyncSave_copied
    <3>1. PICK d : d = top.entry
      OBVIOUS
    <3>2. PICK t, p : /\ todo' = t \o Rest
                      /\ t = <<Erase(p), Call("erased"), WriteRecord(d, "again")>>
      BY <1>2, <2>6, <3>1 DEF NvSyncSave_copied
    <3>3. Plain(t, top)
      <4>1. PlainOp(Erase(p), top) /\ PlainOp(Call("erased"), top) /\ PlainOp(WriteRecord(d, "again"), top)
        BY PlainOps DEF Erase
      <4> QED
        BY <3>2, <4>1, PlainTuples
    <3>4. top.op = "erase old page"
      BY <1>2, <2>6 DEF NvSyncSave_copied, Running
    <3>5. ASSUME NEW e, Takes(top, e) PROVE Taken(t, e)
      <4>1. e = d
        BY <3>1, <3>4, <3>5 DEF Takes
      <4>2. Takes(WriteRecord(d, "again"), e)
        BY <4>1, TakesOps
      <4> QED
        BY <3>2, <4>2, TakenTuples
    <3> QED
      BY <3>2, <3>3, <3>5
  <2> QED
    BY <2>2, <2>3, <2>4, <2>5, <2>6
<1>4. PICK t : /\ Plain(t, top) /\ todo' = t \o Rest
               /\ \A e \in requested' : Takes(top, e) => Taken(t, e)
  BY <1>3
<1>5. /\ Plain(t, Head(todo)) /\ todo' \in {t \o Rest, t \o Without(Rest, "saves")}
      /\ \A e \in requested' : Takes(Head(todo), e) => Taken(t, e)
      /\ requested' \subseteq requested /\ Head(todo).op # "NvAddSaveRequestToQueue"
  BY <1>1, <1>2, <1>4
<1> QED
  BY <1>1, <1>5, PlainAction

(* Records, and the calls that lead to them, outside critical sections.    *)
LEMMA WriteStep ==
    ASSUME QueueInv, FlashInv, mNvCriticalSectionFlag = 0, NvWriteRecord
    PROVE  QueueInv'
<1>1. PICK top : top = Head(todo)
  OBVIOUS
<1>2. /\ todo # << >> /\ top.op = "NvWriteRecord"
      /\ UNCHANGED <<mNvPendingSavesQueue, mNvCriticalSectionFlag, requested>>
      /\ \/ \E p, r, c, m, d, w : todo' = <<Program(p, r, c), Program(p, m, d), WrittenCall(top.entry, w)>> \o Rest
         \/ (mNvCopyOperationIsPending \/ Room(top.entry) = {}) /\ todo' = WhenPending(top.entry, top.by)
  <2>1. /\ todo # << >> /\ top.op = "NvWriteRecord"
        /\ UNCHANGED <<mNvPendingSavesQueue, mNvCriticalSectionFlag, requested>>
    BY <1>1 DEF NvWriteRecord, Running
  <2>2. \/ \E at \in Room(top.entry) :
             todo' = <<Program(mNvActivePageId, at.record, Data(top.entry, ram[top.entry])),
                       Program(mNvActivePageId, at.meta, <<Meta(top.entry, at.record)>>),
                       WrittenCall(top.entry, at.meta)>> \o Rest
        \/ (mNvCopyOperationIsPending \/ Room(top.entry) = {}) /\ todo' = WhenPending(top.entry, top.by)
    BY <1>1, Zenon DEF NvWriteRecord, WrittenCall
  <2> QED
    BY <2>1, <2>2, Zenon
<1>3. \A e : Takes(top, e) => e = top.entry
  BY <1>2 DEF Takes
<1>4. top.by \in {"NvSyncSave", "NvIdle", "NvProcessFirstSaveInQueue"}
        \/ (~mNvCopyOperationIsPending /\ Room(top.entry) # {})
  <2>1. Running("NvWriteRecord")
    BY <1>1, <1>2 DEF Running
  <2>2. \/ top.by \in {"NvSyncSave", "NvIdle", "NvProcessFirstSaveInQueue"}
        \/ top.by \in {"again", "after copy"}
    BY <1>1, <2>1, WriteRunning
  <2>3. FitsAfterCopy
    BY SecondFits
  <2> QED
    BY <1>1, <2>1, <2>2, <2>3, Zenon DEF FitsAfterCopy
<1>5. ASSUME NEW t, Plain(t, top), \E e : Takes(WriteRecord(top.entry, "again"), e) /\ Taken(t, e), todo' = t \o Rest
      PROVE  QueueInv'
  <2>1. PICK e : Takes(WriteRecord(top.entry, "again"), e) /\ Taken(t, e)
    BY <1>5
  <2>2. e = top.entry
    BY <2>1 DEF Takes, WriteRecord
  <2>3. \A d : Takes(top, d) => Taken(t, d)
    BY <1>3, <2>1, <2>2
  <2>4. /\ Plain(t, Head(todo)) /\ todo' \in {t \o Rest, t \o Without(Rest, "saves")}
        /\ \A d \in requested' : Takes(Head(todo), d) => Taken(t, d)
        /\ requested' \subseteq requested /\ Head(todo).op # "NvAddSaveRequestToQueue"
    BY <1>1, <1>2, <1>5, <2>3
  <2> QED
    BY <1>2, <2>4, PlainAction
<1>6. Takes(WriteRecord(top.entry, "again"), top.entry)
  BY TakesOps
<1>7. CASE \E p, r, c, m, d, w : todo' = <<Program(p, r, c), Program(p, m, d), WrittenCall(top.entry, w)>> \o Rest
  <2>1. PICK a, b, w, p, r, c, m, d, t :
           /\ a = Program(p, r, c) /\ b = Program(p, m, d) /\ t = <<a, b, WrittenCall(top.entry, w)>>
           /\ todo' = t \o Rest
    BY <1>7, Zenon
  <2>2. PlainOp(a, top) /\ PlainOp(b, top) /\ PlainOp(WrittenCall(top.entry, w), top)
    BY <2>1, PlainOps
  <2>3. Takes(WrittenCall(top.entry, w), top.entry)
    BY TakesOps
  <2>4. Plain(t, top) /\ Taken(t, top.entry)
    BY <2>1, <2>2, <2>3, PlainTuples, TakenTuples
  <2> QED
    BY <1>5, <1>6, <2>1, <2>4
<1>8. CASE (mNvCopyOperationIsPending \/ Room(top.entry) = {}) /\ todo' = WhenPending(top.entry, top.by)
  <2>1. CASE top.by = "NvSyncSave"
    <3>1. PICK a, b, t : /\ a = Call("NvCopyPage") /\ b = CallFor("erase old page", top.entry) /\ t = <<a, b>>
                         /\ todo' = t \o Rest
      BY <1>8, <2>1 DEF WhenPending
    <3>2. PlainOp(a, top) /\ PlainOp(b, top) /\ Takes(b, top.entry)
      BY <3>1, PlainOps, TakesOps
    <3>3. Plain(t, top) /\ Taken(t, top.entry)
      BY <3>1, <3>2, PlainTuples, TakenTuples
    <3> QED
      BY <1>5, <1>6, <3>1, <3>3
  <2>2. CASE top.by = "NvProcessFirstSaveInQueue"
    <3>1. PICK a, b, c, t : /\ a = Call("NvCopyPage") /\ b = Call("copied") /\ c = WriteRecord(top.entry, "after copy")
                            /\ t = <<a, b, c>> /\ todo' = t \o Rest
      BY <1>8, <2>2 DEF WhenPending
    <3>2. PlainOp(a, top) /\ PlainOp(b, top) /\ PlainOp(c, top) /\ Takes(c, top.entry)
      BY <3>1, PlainOps, TakesOps
    <3>3. Plain(t, top) /\ Taken(t, top.entry)
      BY <3>1, <3>2, PlainTuples, TakenTuples
    <3> QED
      BY <1>5, <1>6, <3>1, <3>3
  <2>3. CASE top.by = "NvIdle"
    <3>1. PICK q, r, s, u, w, t, a :
             /\ q = mNvPendingSavesQueue /\ r = requested /\ s = todo /\ u = todo'
             /\ a = CallFor("NvAddSaveRequestToQueue", top.entry) /\ t = <<a>> /\ w = Without(Rest, "saves")
      OBVIOUS
    <3>2. u = t \o w
      BY <1>8, <2>3, <3>1 DEF WhenPending
    <3>3. QueueOk(s, q, r) /\ s # << >> /\ top = Head(s)
      BY <1>1, <1>2, <3>1 DEF QueueInv
    <3>4. Stack(s) /\ Stack(t) /\ Stack(Tail(s)) /\ Stack(w) /\ w = Without(Tail(s), "saves")
      <4>1. Stack(s) /\ w = Without(Tail(s), "saves")
        BY <3>1, <3>3 DEF QueueOk, Rest
      <4> QED
        BY <3>1, <3>3, <4>1, StackTail, StackWithout, StackOne
    <3>5. PICK j \in Nat : j > 0 /\ Below(w, s, j)
      <4>1. Below(Tail(s), s, 1)
        BY <3>3, <3>4, BelowFacts
      <4>2. Without(Tail(s), "saves") = Tail(s) \/ Below(Without(Tail(s), "saves"), s, 2)
        BY <3>3, <3>4, BelowFacts
      <4> QED
        BY <3>4, <4>1, <4>2, 1 \in Nat, 2 \in Nat, 1 > 0, 2 > 0, Zenon
    <3>6. Len(q) < gNvPendingSavesQueueSize_c
      <4>1. 1 \in DOMAIN s /\ s[1] = top
        BY <3>3, <3>4, StackTail
      <4> QED
        BY <1>2, <2>3, <3>3, <4>1 DEF QueueOk, IdleOk
    <3>7. \A k \in DOMAIN t : Follows(t[k], k, top, q)
      <4>1. \A k \in DOMAIN t : t[k] = a
        BY <3>1
      <4>2. a.op = "NvAddSaveRequestToQueue" /\ Requests(top)
        BY <1>2, <2>3, <3>1 DEF CallFor, Requests
      <4> QED
        BY <4>1, <4>2 DEF Follows
    <3>8. ASSUME NEW e \in r PROVE Covered(u, q, e)
      <4>1. InQueue(q, e) \/ Taken(s, e)
        <5>1. ~AddsNow(s, q, e)
          BY <1>2, <3>3 DEF AddsNow
        <5> QED
          BY <3>3, <5>1 DEF QueueOk, Covered
      <4>2. CASE InQueue(q, e)
        BY <4>2 DEF Covered
      <4>3. CASE Takes(top, e)
        <5>1. Head(u) = a /\ u # << >>
          BY <3>1, <3>2, <3>4, StackPush
        <5>2. a.op = "NvAddSaveRequestToQueue" /\ a.entry = e
          BY <1>3, <3>1, <4>3 DEF CallFor
        <5> QED
          BY <3>6, <5>1, <5>2 DEF Covered, AddsNow
      <4>4. CASE Taken(w, e)
        <5>1. Taken(u, e)
          BY <3>2, <3>4, <4>4, TakenJoin
        <5> QED
          BY <5>1 DEF Covered
      <4> QED
        BY <3>3, <3>4, <4>1, <4>2, <4>3, <4>4, TakenRest
    <3>9. q \in Seq(Entry \union {ALL}) /\ IsInjective(q) /\ ToSet(q) \subseteq ToSet(q) /\ Len(q) <= Len(q)
      BY <3>3 DEF QueueOk
    <3>10. \A k \in DOMAIN t : Follows(t[k], k, Head(s), q)
      BY <3>3, <3>7
    <3>11. QueueOk(u, q, r)
      BY <3>2, <3>3, <3>4, <3>5, <3>8, <3>9, <3>10, CallKeeps
    <3>12. QueueOk(todo', mNvPendingSavesQueue', requested')
      BY <1>2, <3>1, <3>11, Zenon
    <3> QED
      BY <1>2, <3>12 DEF QueueInv
  <2> QED
    BY <1>4, <1>8, <2>1, <2>2, <2>3
<1> QED
  BY <1>2, <1>7, <1>8

LEMMA SyncSaveStep ==
    ASSUME QueueInv, FlashInv, mNvCriticalSectionFlag = 0, NvSyncSave
    PROVE  QueueInv'
<1>1. PICK top : top = Head(todo)
  OBVIOUS
<1>2. /\ todo # << >> /\ top.op = "NvSyncSave"
      /\ UNCHANGED <<mNvPendingSavesQueue, mNvCriticalSectionFlag, requested>>
      /\ todo' = <<WriteRecord(top.entry, "NvSyncSave")>>
                      \o (IF top.entry < top.last THEN <<SyncSave(top.entry + 1, top.last)>> ELSE << >>) \o Rest
  BY <1>1 DEF NvSyncSave, Running, ramState
<1>3. top.entry \in Entry /\ top.last \in Entry
  <2>1. top \in QuietOp
    BY <1>1, <1>2, QuietRunning DEF QuietNames
  <2> QED
    BY <1>2, <2>1, QuietFields
<1>4. PICK a, b, x, t :
         /\ a = WriteRecord(top.entry, "NvSyncSave") /\ b = SyncSave(top.entry + 1, top.last)
         /\ x = (IF top.entry < top.last THEN <<b>> ELSE << >>) /\ t = <<a>> \o x
  OBVIOUS
<1>5. todo' = t \o Rest
  BY <1>2, <1>4
<1>6. PlainOp(a, top) /\ PlainOp(b, top)
  BY <1>4, PlainOps
<1>7. Plain(<<a>>, top) /\ Plain(x, top)
  BY <1>4, <1>6, PlainTuples
<1>8. Plain(t, top)
  BY <1>4, <1>7, PlainJoin
<1>9. ASSUME NEW e, Takes(top, e) PROVE Taken(t, e)
  <2>1. e \in top.entry .. top.last /\ e \in Int /\ top.entry \in Int /\ top.last \in Int
    <3>1. e \in top.entry .. top.last
      BY <1>2, <1>9 DEF Takes
    <3> QED
      BY <1>3, <3>1, Sizes
  <2>2. e = top.entry \/ (e \in top.entry + 1 .. top.last /\ top.entry < top.last)
    BY <2>1
  <2>3. CASE e = top.entry
    <3>1. Takes(a, e)
      BY <1>4, <2>3, TakesOps
    <3>2. Taken(<<a>>, e)
      BY <3>1, TakenTuples
    <3> QED
      BY <1>4, <1>7, <3>2, TakenJoin DEF Plain
  <2>4. CASE e \in top.entry + 1 .. top.last /\ top.entry < top.last
    <3>1. Takes(b, e) /\ x = <<b>>
      BY <1>4, <2>4, TakesOps
    <3>2. Taken(x, e)
      BY <3>1, TakenTuples
    <3> QED
      BY <1>4, <1>7, <3>2, TakenJoin DEF Plain
  <2> QED
    BY <2>2, <2>3, <2>4
<1>10. /\ Plain(t, Head(todo)) /\ todo' \in {t \o Rest, t \o Without(Rest, "saves")}
       /\ \A d \in requested' : Takes(Head(todo), d) => Taken(t, d)
       /\ requested' \subseteq requested /\ Head(todo).op # "NvAddSaveRequestToQueue"
  BY <1>1, <1>2, <1>5, <1>8, <1>9
<1> QED
  BY <1>2, <1>10, PlainAction

(* The idle task, outside critical sections.                               *)
LEMMA IdleSteps ==
    ASSUME QueueInv, mNvCriticalSectionFlag = 0, NvIdle \/ NvIdle_erase
    PROVE  QueueInv'
<1>1. PICK top : top = Head(todo)
  OBVIOUS
<1>2. /\ todo # << >> /\ top.op \in {"NvIdle", "erase sector"}
      /\ UNCHANGED <<mNvPendingSavesQueue, mNvCriticalSectionFlag, requested>>
  <2>1. CASE NvIdle
    BY <1>1, <2>1 DEF NvIdle, Running, ramState
  <2>2. CASE NvIdle_erase
    BY <1>1, <2>2 DEF NvIdle_erase, Running
  <2> QED
    BY <2>1, <2>2
<1>3. \A e : ~Takes(top, e)
  BY <1>2 DEF Takes
<1>4. ASSUME NEW t, Plain(t, top), todo' \in {t \o Rest, t \o Without(Rest, "saves")}
      PROVE  QueueInv'
  <2>1. /\ Plain(t, Head(todo)) /\ requested' \subseteq requested
        /\ \A d \in requested' : Takes(Head(todo), d) => Taken(t, d)
        /\ Head(todo).op # "NvAddSaveRequestToQueue"
    BY <1>1, <1>2, <1>3, <1>4
  <2> QED
    BY <1>2, <1>4, <2>1, PlainAction
<1>5. Plain(<< >>, top)
  BY PlainTuples
<1>6. CASE NvIdle
  <2>1. top.op = "NvIdle"
    BY <1>1, <1>6 DEF NvIdle, Running
  <2>2. PICK a, b, c, d, x, y, t :
           /\ a = Call("NvCopyPage") /\ b = Call("copied") /\ c = Call("erase sector") /\ d = Call("saves")
           /\ x = (IF mNvCopyOperationIsPending THEN <<a, b>> ELSE << >>) /\ y = <<c, d>>
           /\ t \in {<< >>, x \o y} /\ todo' = t \o Rest
    <3>1. PICK t : /\ t \in {<< >>, (IF mNvCopyOperationIsPending THEN <<Call("NvCopyPage"), Call("copied")>> ELSE << >>)
                                       \o <<Call("erase sector"), Call("saves")>>}
                   /\ todo' = t \o Rest
      BY <1>6 DEF NvIdle
    <3> QED
      BY <3>1, Zenon
  <2>3. PlainOp(a, top) /\ PlainOp(b, top) /\ PlainOp(c, top)
    BY <2>2, PlainOps
  <2>4. PlainOp(d, top)
    BY <2>1, <2>2 DEF PlainOp, Requests, Call
  <2>5. Plain(x, top) /\ Plain(y, top)
    BY <2>2, <2>3, <2>4, PlainTuples
  <2>6. Plain(x \o y, top)
    BY <2>5, PlainJoin
  <2>7. Plain(t, top)
    BY <1>5, <2>2, <2>6, Zenon
  <2> QED
    BY <1>4, <2>2, <2>7
<1>7. CASE NvIdle_erase
  <2>1. PICK w : w = Without(Rest, "saves")
    OBVIOUS
  <2>2. \/ todo' \in {Rest, w}
        \/ \E p, s, l : todo' = <<EraseSectors(p, s, l)>> \o w
    BY <1>7, <2>1 DEF NvIdle_erase
  <2>3. CASE todo' \in {Rest, w}
    <3>1. /\ requested' \subseteq requested /\ \A e \in requested' : ~Takes(Head(todo), e)
          /\ Head(todo).op # "NvAddSaveRequestToQueue" /\ todo' \in {Rest, Without(Rest, "saves")}
      BY <1>1, <1>2, <1>3, <2>1, <2>3
    <3> QED
      BY <1>2, <3>1, DropAction
  <2>4. CASE \E p, s, l : todo' = <<EraseSectors(p, s, l)>> \o w
    <3>1. PICK p, s, l, a, t : a = EraseSectors(p, s, l) /\ t = <<a>> /\ todo' = t \o w
      BY <2>4, Zenon
    <3>2. PlainOp(a, top)
      BY <3>1, PlainOps
    <3>3. Plain(t, top)
      BY <3>1, <3>2, PlainTuples
    <3> QED
      BY <1>4, <2>1, <3>1, <3>3
  <2> QED
    BY <2>2, <2>3, <2>4
<1> QED
  BY <1>6, <1>7

LEMMA CompleteStep ==
    ASSUME QueueInv, mNvCriticalSectionFlag = 0, NvCompletePendingOperations
    PROVE  QueueInv'
<1>1. /\ todo # << >> /\ Head(todo).op = "NvCompletePendingOperations"
      /\ UNCHANGED <<mNvPendingSavesQueue, mNvCriticalSectionFlag, requested>>
      /\ todo' \in {<<Call("NvIdle")>> \o todo, Rest}
  BY DEF NvCompletePendingOperations, Running, ramState
<1>2. CASE todo' = Rest
  <2>1. /\ requested' \subseteq requested /\ \A e \in requested' : ~Takes(Head(todo), e)
        /\ todo' \in {Rest, Without(Rest, "saves")}
    BY <1>1, <1>2 DEF Takes
  <2> QED
    BY <1>1, <2>1, DropAction
<1>3. CASE todo' = <<Call("NvIdle")>> \o todo
  <2>1. PICK q, r, s, u, a, t :
           /\ q = mNvPendingSavesQueue /\ r = requested /\ s = todo /\ u = todo' /\ a = Call("NvIdle") /\ t = <<a>>
    OBVIOUS
  <2>2. QueueOk(s, q, r) /\ s # << >> /\ Head(s).op = "NvCompletePendingOperations" /\ u = t \o s
    BY <1>1, <1>3, <2>1 DEF QueueInv
  <2>3. Stack(s) /\ Stack(t) /\ Below(s, s, 0)
    BY <2>1, <2>2, StackOne, BelowFacts DEF QueueOk
  <2>4. \A k \in DOMAIN t : Follows(t[k], k, Head(s), q)
    <3>1. \A k \in DOMAIN t : t[k] = a
      BY <2>1
    <3>2. a.op = "NvIdle" /\ Requests(Head(s))
      BY <2>1, <2>2 DEF Call, Requests
    <3> QED
      BY <3>1, <3>2 DEF Follows
  <2>5. ASSUME NEW e \in r PROVE Covered(u, q, e)
    <3>1. InQueue(q, e) \/ Taken(s, e)
      BY <2>2 DEF QueueOk, Covered, AddsNow
    <3>2. Taken(s, e) => Taken(u, e)
      BY <2>2, <2>3, TakenJoin
    <3> QED
      BY <3>1, <3>2 DEF Covered
  <2>6. q \in Seq(Entry \union {ALL}) /\ IsInjective(q) /\ ToSet(q) \subseteq ToSet(q) /\ Len(q) <= Len(q)
    BY <2>2 DEF QueueOk
  <2>7. QueueOk(u, q, r)
    BY <2>2, <2>3, <2>4, <2>5, <2>6, 0 \in Nat, CallKeeps
  <2>8. QueueOk(todo', mNvPendingSavesQueue', requested')
    BY <1>1, <2>1, <2>7, Zenon
  <2> QED
    BY <1>1, <2>8 DEF QueueInv
<1> QED
  BY <1>1, <1>2, <1>3

(* The first request of the queue is taken out of it.                      *)
LEMMA TailQueue ==
    ASSUME NEW q \in Seq(Entry \union {ALL}), q # << >>, IsInjective(q)
    PROVE  /\ Tail(q) \in Seq(Entry \union {ALL}) /\ Head(q) \in Entry \union {ALL}
           /\ Len(q) \in Nat /\ Len(Tail(q)) = Len(q) - 1
           /\ IsInjective(Tail(q)) /\ ToSet(Tail(q)) \subseteq ToSet(q)
           /\ \A e : InQueue(q, e) => InQueue(Tail(q), e) \/ Head(q) \in {e, ALL}
<1>1. PICK p, n : p = Tail(q) /\ n = Len(q)
  OBVIOUS
<1>2. /\ n \in Nat \ {0} /\ DOMAIN q = 1 .. n /\ Head(q) = q[1] /\ Head(q) \in Entry \union {ALL}
      /\ p \in Seq(Entry \union {ALL}) /\ Len(p) = n - 1 /\ DOMAIN p = 1 .. n - 1
      /\ \A k \in 1 .. n - 1 : p[k] = q[k + 1]
  <2>1. n \in Nat \ {0} /\ DOMAIN q = 1 .. n
    BY <1>1, EmptySeq, LenProperties
  <2>2. p \in Seq(Entry \union {ALL}) /\ Len(p) = n - 1 /\ Head(q) = q[1] /\ Head(q) \in Entry \union {ALL}
        /\ \A k \in 1 .. n - 1 : p[k] = q[k + 1]
    BY <1>1, <2>1, HeadTailProperties
  <2> QED
    BY <2>1, <2>2, LenProperties
<1>3. \A i, j \in DOMAIN q : q[i] = q[j] => i = j
  BY DEF IsInjective
<1>4. ASSUME NEW i \in DOMAIN p, NEW j \in DOMAIN p, p[i] = p[j] PROVE i = j
  <2>1. /\ i + 1 \in DOMAIN q /\ j + 1 \in DOMAIN q /\ i \in Int /\ j \in Int
        /\ p[i] = q[i + 1] /\ p[j] = q[j + 1]
    BY <1>2
  <2>2. i + 1 = j + 1
    BY <1>3, <1>4, <2>1, Zenon
  <2> QED
    BY <2>1, <2>2
<1>5. ToSet(p) \subseteq ToSet(q)
  BY <1>2, QueueSet
<1>6. ASSUME NEW x \in ToSet(q) PROVE x \in ToSet(p) \/ x = Head(q)
  <2>1. PICK k \in DOMAIN q : x = q[k]
    BY <1>6, QueueSet
  <2>2. CASE k = 1
    BY <1>2, <2>1, <2>2
  <2>3. CASE k # 1
    <3>1. k - 1 \in 1 .. n - 1 /\ p[k - 1] = x
      BY <1>2, <2>1, <2>3
    <3> QED
      BY <1>2, <3>1, QueueSet
  <2> QED
    BY <2>2, <2>3
<1>7. \A e : InQueue(q, e) => InQueue(p, e) \/ Head(q) \in {e, ALL}
  BY <1>6 DEF InQueue
<1>8. IsInjective(p)
  BY <1>4 DEF IsInjective
<1> QED
  BY <1>1, <1>2, <1>5, <1>7, <1>8

LEMMA PopKeeps ==
    ASSUME NEW s, s # << >>, NEW q, q # << >>, NEW r, QueueOk(s, q, r), NEW by, NEW w, NEW a, NEW u,
           NEW top, top = Head(s),
           \/ top.op = "NvProcessFirstSaveInQueue" /\ by = "NvProcessFirstSaveInQueue" /\ w = Tail(s)
           \/ top.op = "saves" /\ by = "NvIdle" /\ w = s,
           \/ Head(q) = ALL /\ a = Call("NvAtomicSave") /\ u = <<a>> \o s
           \/ Head(q) # ALL /\ a = WriteRecord(Head(q), by) /\ u = <<a>> \o w
    PROVE  QueueOk(u, Tail(q), r)
<1>1. /\ Stack(s) /\ q \in Seq(Entry \union {ALL}) /\ IsInjective(q) /\ Len(q) <= gNvPendingSavesQueueSize_c
      /\ r \subseteq r /\ \A e \in r : InQueue(q, e) \/ Taken(s, e)
  BY DEF QueueOk, Covered, AddsNow
<1>2. PICK t, p : t = <<a>> /\ p = Tail(q)
  OBVIOUS
<1>3. /\ p \in Seq(Entry \union {ALL}) /\ Len(q) \in Nat /\ Len(p) = Len(q) - 1
      /\ IsInjective(p) /\ ToSet(p) \subseteq ToSet(q)
      /\ \A e : InQueue(q, e) => InQueue(p, e) \/ Head(q) \in {e, ALL}
  BY <1>1, <1>2, TailQueue
<1>4. gNvPendingSavesQueueSize_c \in Nat /\ Len(p) <= Len(q) /\ Len(p) < gNvPendingSavesQueueSize_c
  BY <1>1, <1>3, NvStorageAssumption
<1>5. Stack(t) /\ Stack(Tail(s)) /\ \A k \in DOMAIN t : k = 1 /\ t[k] = a
  BY <1>1, <1>2, StackOne, StackTail
<1>6. ~\E e : Takes(top, e)
  BY DEF Takes
<1>7. Follows(a, 1, top, p)
  <2>1. CASE a = Call("NvAtomicSave")
    BY <2>1 DEF Call, Follows, Requests
  <2>2. CASE a = WriteRecord(Head(q), by)
    <3>1. a.op = "NvWriteRecord" /\ a.by = by
      BY <2>2 DEF WriteRecord
    <3>2. by = "NvIdle" => Requests(top)
      BY DEF Requests
    <3> QED
      BY <1>4, <3>1, <3>2 DEF Follows, Requests
  <2> QED
    BY <2>1, <2>2
<1>8. \A k \in DOMAIN t : Follows(t[k], k, Head(s), p)
  BY <1>5, <1>7, Zenon
<1>9. PICK v : u = t \o v /\ v \in {s, Tail(s)}
  BY <1>2, Zenon
<1>10. ASSUME NEW e \in r PROVE Covered(u, p, e)
  <2>1. Taken(s, e) => Taken(v, e)
    BY <1>1, <1>6, <1>9, TakenRest
  <2>2. Taken(v, e) \/ Taken(t, e) => Taken(u, e)
    BY <1>1, <1>5, <1>9, TakenJoin
  <2>3. Head(q) \in {e, ALL} => Takes(a, e)
    BY TakesOps
  <2>4. Head(q) \in {e, ALL} => Taken(t, e)
    BY <1>2, <2>3, TakenTuples
  <2> QED
    BY <1>1, <1>3, <2>1, <2>2, <2>4 DEF Covered
<1>11. Head(s).op \notin {"NvPushPendingSave", "NvWriteRecord"}
  OBVIOUS
<1>12. PICK j \in Nat : Below(v, s, j)
  <2>1. Below(s, s, 0) /\ Below(Tail(s), s, 1)
    BY <1>1, BelowFacts
  <2> QED
    BY <1>9, <2>1, 0 \in Nat, 1 \in Nat, Zenon
<1>13. QueueOk(u, p, r)
  BY <1>1, <1>3, <1>4, <1>5, <1>8, <1>9, <1>10, <1>11, <1>12, CallKeeps
<1> QED
  BY <1>2, <1>13

LEMMA PopQueue ==
    ASSUME QueueInv, mNvCriticalSectionFlag = 0, NvProcessFirstSaveInQueue \/ NvIdle_saves
    PROVE  QueueInv'
<1>1. PICK q, s, top : q = mNvPendingSavesQueue /\ s = todo /\ top = Head(todo)
  OBVIOUS
<1>2. /\ s # << >> /\ UNCHANGED <<mNvCriticalSectionFlag, requested>>
      /\ top.op \in {"NvProcessFirstSaveInQueue", "saves"}
      /\ \/ todo' = Rest /\ mNvPendingSavesQueue' = q
         \/ /\ q # << >>
            /\ \/ top.op = "NvProcessFirstSaveInQueue" /\ Pop("NvProcessFirstSaveInQueue", Rest)
               \/ top.op = "saves" /\ Pop("NvIdle", todo)
  <2>1. CASE NvProcessFirstSaveInQueue
    BY <1>1, <2>1 DEF NvProcessFirstSaveInQueue, Running
  <2>2. CASE NvIdle_saves
    BY <1>1, <2>2 DEF NvIdle_saves, Running
  <2> QED
    BY <2>1, <2>2
<1>3. CASE todo' = Rest /\ mNvPendingSavesQueue' = q
  <2>1. /\ requested' \subseteq requested /\ \A e \in requested' : ~Takes(Head(todo), e)
        /\ Head(todo).op # "NvAddSaveRequestToQueue" /\ todo' \in {Rest, Without(Rest, "saves")}
        /\ UNCHANGED <<mNvPendingSavesQueue, mNvCriticalSectionFlag>> /\ todo # << >>
    BY <1>1, <1>2, <1>3 DEF Takes
  <2> QED
    BY <2>1, DropAction
<1>4. ASSUME NEW by, NEW w, q # << >>, Pop(by, w),
             \/ top.op = "NvProcessFirstSaveInQueue" /\ by = "NvProcessFirstSaveInQueue" /\ w = Rest
             \/ top.op = "saves" /\ by = "NvIdle" /\ w = todo
      PROVE  QueueInv'
  <2>1. PICK u, a : /\ u = todo' /\ mNvPendingSavesQueue' = Tail(q)
                    /\ \/ Head(q) = ALL /\ a = Call("NvAtomicSave") /\ u = <<a>> \o s
                       \/ Head(q) # ALL /\ a = WriteRecord(Head(q), by) /\ u = <<a>> \o w
    BY <1>1, <1>4, Zenon DEF Pop
  <2>2. /\ QueueOk(s, q, requested) /\ top = Head(s)
        /\ \/ top.op = "NvProcessFirstSaveInQueue" /\ by = "NvProcessFirstSaveInQueue" /\ w = Tail(s)
           \/ top.op = "saves" /\ by = "NvIdle" /\ w = s
    BY <1>1, <1>4 DEF QueueInv, Rest
  <2>3. PICK r : r = requested
    OBVIOUS
  <2>4. QueueOk(s, q, r)
    BY <2>2, <2>3
  <2>5. QueueOk(u, Tail(q), r)
    BY <1>2, <1>4, <2>1, <2>2, <2>4, PopKeeps
  <2>6. QueueOk(todo', mNvPendingSavesQueue', requested')
    BY <1>2, <2>1, <2>3, <2>5, Zenon
  <2> QED
    BY <1>2, <2>6 DEF QueueInv
<1> QED
  BY <1>2, <1>3, <1>4

(* A request is added to the queue.                                        *)
LEMMA NoneBelow ==
    ASSUME NEW s, s # << >>, NEW q, NEW r, QueueOk(s, q, r), Head(s).op \in {"NvAddSaveRequestToQueue", "NvPushPendingSave"}
    PROVE  /\ Stack(Tail(s)) /\ Below(Tail(s), s, 1)
           /\ \A k \in DOMAIN Tail(s) : /\ Tail(s)[k].op # "NvPushPendingSave"
                                        /\ ~(Tail(s)[k].op = "NvWriteRecord" /\ Tail(s)[k].by = "NvIdle")
           /\ \A e \in r : InQueue(q, e) \/ Taken(Tail(s), e) \/ AddsNow(s, q, e)
           /\ Head(s).op = "NvPushPendingSave" => Head(s).entry \notin ToSet(q)
<1>1. PICK w : w = Tail(s)
  OBVIOUS
<1>2. /\ Stack(s) /\ Stack(w) /\ Below(w, s, 1) /\ Head(s) = s[1] /\ Len(s) \in Nat \ {0} /\ DOMAIN s = 1 .. Len(s)
      /\ DOMAIN w = 1 .. Len(w) /\ \A k \in DOMAIN w : k + 1 \in DOMAIN s /\ w[k] = s[k + 1]
  <2>1. Stack(s)
    BY DEF QueueOk
  <2> QED
    BY <1>1, <2>1, StackTail, BelowFacts
<1>3. Requests(s[1])
  BY <1>2 DEF Requests
<1>4. ASSUME NEW k \in DOMAIN w
      PROVE  w[k].op # "NvPushPendingSave" /\ ~(w[k].op = "NvWriteRecord" /\ w[k].by = "NvIdle")
  <2>1. k + 1 \in DOMAIN s /\ w[k] = s[k + 1] /\ 1 \in 1 .. (k + 1) - 1 /\ k + 1 # 1
    BY <1>2
  <2> QED
    BY <1>3, <2>1 DEF QueueOk, PushOk, IdleOk
<1>5. ASSUME NEW e \in r PROVE InQueue(q, e) \/ Taken(w, e) \/ AddsNow(s, q, e)
  <2>1. Covered(s, q, e)
    BY DEF QueueOk
  <2>2. ~Takes(Head(s), e)
    BY DEF Takes
  <2>3. Taken(s, e) => Taken(w, e)
    BY <1>1, <1>2, <2>2, TakenRest
  <2> QED
    BY <2>1, <2>3 DEF Covered
<1>6. Head(s).op = "NvPushPendingSave" => Head(s).entry \notin ToSet(q)
  <2>1. 1 \in DOMAIN s
    BY <1>2
  <2> QED
    BY <1>2, <2>1 DEF QueueOk, PushOk
<1> QED
  BY <1>1, <1>2, <1>4, <1>5, <1>6

LEMMA AppendQueue ==
    ASSUME NEW q \in Seq(Entry \union {ALL}), IsInjective(q), NEW e \in Entry \union {ALL}, e \notin ToSet(q)
    PROVE  /\ Append(q, e) \in Seq(Entry \union {ALL}) /\ Len(q) \in Nat /\ Len(Append(q, e)) = Len(q) + 1
           /\ IsInjective(Append(q, e)) /\ ToSet(Append(q, e)) = ToSet(q) \union {e}
<1>1. PICK p, n : p = Append(q, e) /\ n = Len(q)
  OBVIOUS
<1>2. /\ p \in Seq(Entry \union {ALL}) /\ n \in Nat /\ Len(p) = n + 1 /\ DOMAIN q = 1 .. n /\ DOMAIN p = 1 .. n + 1
      /\ \A k \in 1 .. n : p[k] = q[k]
      /\ p[n + 1] = e
  <2>1. n \in Nat /\ DOMAIN q = 1 .. n
    BY <1>1, LenProperties
  <2>2. /\ p \in Seq(Entry \union {ALL}) /\ Len(p) = n + 1
        /\ \A k \in 1 .. n : p[k] = q[k]
        /\ p[n + 1] = e
    BY <1>1, AppendProperties
  <2> QED
    BY <2>1, <2>2, LenProperties
<1>3. \A k \in DOMAIN p : (k \in DOMAIN q /\ p[k] = q[k]) \/ (k = n + 1 /\ p[k] = e)
  BY <1>2
<1>4. \A k \in DOMAIN q : q[k] # e
  BY QueueSet
<1>5. \A i, j \in DOMAIN q : q[i] = q[j] => i = j
  BY DEF IsInjective
<1>6. \A i, j \in DOMAIN p : p[i] = p[j] => i = j
  BY <1>3, <1>4, <1>5, Zenon
<1>7. IsInjective(p)
  BY <1>6 DEF IsInjective
<1>8. ToSet(p) = ToSet(q) \union {e}
  <2>1. \A k \in DOMAIN q : k \in DOMAIN p /\ p[k] = q[k]
    BY <1>2
  <2>2. n + 1 \in DOMAIN p
    BY <1>2
  <2> QED
    BY <1>2, <1>3, <2>1, <2>2, QueueSet
<1> QED
  BY <1>1, <1>2, <1>7, <1>8

Requested(r, e) == IF e = ALL THEN r ELSE r \union {e}

LEMMA AddKeeps ==
    ASSUME NEW s, s # << >>, NEW q, NEW r, QueueOk(s, q, r), NEW top, top = Head(s),
           top.op \in {"NvAddSaveRequestToQueue", "NvPushPendingSave"}, NEW e, e = top.entry, e \in Entry \union {ALL}
    PROVE  /\ top.op = "NvAddSaveRequestToQueue" /\ e \in ToSet(q) => QueueOk(Tail(s), q, Requested(r, e))
           /\ e \notin ToSet(q) /\ Len(q) < gNvPendingSavesQueueSize_c =>
                QueueOk(Tail(s), Append(q, e), Requested(r, e))
           /\ Len(q) = gNvPendingSavesQueueSize_c => QueueOk(Tail(s), q, r)
<1>1. PICK w, x : w = Tail(s) /\ x = Requested(r, e)
  OBVIOUS
<1>2. /\ Stack(w)
      /\ \A k \in DOMAIN w : w[k].op # "NvPushPendingSave" /\ ~(w[k].op = "NvWriteRecord" /\ w[k].by = "NvIdle")
      /\ \A d \in r : InQueue(q, d) \/ Taken(w, d) \/ AddsNow(s, q, d)
  BY <1>1, NoneBelow
<1>3. /\ q \in Seq(Entry \union {ALL}) /\ IsInjective(q) /\ Len(q) <= gNvPendingSavesQueueSize_c /\ r \subseteq Entry
      /\ Len(q) \in Nat /\ gNvPendingSavesQueueSize_c \in Nat
  BY NvStorageAssumption DEF QueueOk
<1>4. \A p : PushOk(w, p) /\ IdleOk(w, p)
  BY <1>2 DEF PushOk, IdleOk
<1>5. x \subseteq Entry /\ \A d \in x : d \in r \/ d = e
  BY <1>1, <1>3 DEF Requested
<1>6. ASSUME NEW d, AddsNow(s, q, d) PROVE d = e /\ Len(q) < gNvPendingSavesQueueSize_c
  BY <1>6 DEF AddsNow
<1>7. CASE e \in ToSet(q)
  <2>1. ASSUME NEW d \in x PROVE Covered(w, q, d)
    BY <1>2, <1>5, <1>6, <1>7, <2>1 DEF Covered, InQueue
  <2>2. QueueOk(w, q, x)
    BY <1>2, <1>3, <1>4, <1>5, <2>1 DEF QueueOk
  <2>3. \A d \in r : Covered(w, q, d)
    BY <1>2, <1>6, <1>7 DEF Covered, InQueue
  <2>4. QueueOk(w, q, r)
    BY <1>2, <1>3, <1>4, <2>3 DEF QueueOk
  <2> QED
    BY <1>1, <1>7, <2>2, <2>4
<1>8. CASE e \notin ToSet(q)
  <2>1. PICK p : p = Append(q, e)
    OBVIOUS
  <2>2. p \in Seq(Entry \union {ALL}) /\ Len(p) = Len(q) + 1 /\ IsInjective(p) /\ ToSet(p) = ToSet(q) \union {e}
    BY <1>3, <1>8, <2>1, AppendQueue
  <2>3. \A d \in x : Covered(w, p, d)
    BY <1>2, <1>5, <1>6, <2>2 DEF Covered, InQueue
  <2>4. Len(q) < gNvPendingSavesQueueSize_c => Len(p) <= gNvPendingSavesQueueSize_c
    BY <1>3, <2>2
  <2>5. Len(q) < gNvPendingSavesQueueSize_c => QueueOk(w, p, x)
    BY <1>2, <1>4, <1>5, <2>2, <2>3, <2>4 DEF QueueOk
  <2>6. Len(q) = gNvPendingSavesQueueSize_c => QueueOk(w, q, r)
    <3>1. SUFFICES ASSUME Len(q) = gNvPendingSavesQueueSize_c PROVE QueueOk(w, q, r)
      OBVIOUS
    <3>2. \A d \in r : ~AddsNow(s, q, d)
      BY <1>3, <1>6, <3>1
    <3>3. \A d \in r : Covered(w, q, d)
      BY <1>2, <3>2 DEF Covered
    <3> QED
      BY <1>2, <1>3, <1>4, <3>3 DEF QueueOk
  <2> QED
    BY <1>1, <1>8, <2>1, <2>5, <2>6
<1> QED
  BY <1>7, <1>8

LEMMA FullKeeps ==
    ASSUME NEW s, s # << >>, NEW q, NEW r, QueueOk(s, q, r), NEW top, top = Head(s),
           top.op = "NvAddSaveRequestToQueue", NEW e, e \notin ToSet(q), Len(q) = gNvPendingSavesQueueSize_c
    PROVE  QueueOk(<<Call("NvProcessFirstSaveInQueue"), CallFor("NvPushPendingSave", e)>> \o Tail(s), q, r)
<1> DEFINE a == Call("NvProcessFirstSaveInQueue")
           b == CallFor("NvPushPendingSave", e)
           t == <<a, b>>
<1>1. PICK w, u : w = Tail(s) /\ u = t \o w
  OBVIOUS
<1>2. /\ Stack(w)
      /\ \A k \in DOMAIN w : w[k].op # "NvPushPendingSave" /\ ~(w[k].op = "NvWriteRecord" /\ w[k].by = "NvIdle")
      /\ \A d \in r : InQueue(q, d) \/ Taken(w, d) \/ AddsNow(s, q, d)
  BY <1>1, NoneBelow
<1>3. /\ q \in Seq(Entry \union {ALL}) /\ IsInjective(q) /\ Len(q) <= gNvPendingSavesQueueSize_c /\ r \subseteq Entry
      /\ Len(q) \in Nat /\ gNvPendingSavesQueueSize_c \in Nat
  BY NvStorageAssumption DEF QueueOk
<1>4. a.op = "NvProcessFirstSaveInQueue" /\ b.op = "NvPushPendingSave" /\ b.entry = e /\ ~Requests(a)
  BY DEF Call, CallFor, Requests
<1>5. QueueOk(u, q, r) => QueueOk(<<Call("NvProcessFirstSaveInQueue"), CallFor("NvPushPendingSave", e)>> \o Tail(s), q, r)
  BY <1>1, Zenon
<1> HIDE DEF a, b
<1>6. Stack(t) /\ DOMAIN t = 1 .. 2 /\ Len(t) = 2 /\ t[1] = a /\ t[2] = b
  <2>1. Stack(t)
    BY StackTuples
  <2>2. DOMAIN t = 1 .. 2 /\ Len(t) = 2 /\ t[1] = a /\ t[2] = b
    OBVIOUS
  <2> QED
    BY <2>1, <2>2
<1> HIDE DEF t
<1>7. Joined(u, t, w)
  BY <1>1, <1>2, <1>6, JoinFacts
<1>8. /\ Stack(u) /\ Len(w) \in Nat /\ DOMAIN w = 1 .. Len(w) /\ DOMAIN u = 1 .. 2 + Len(w)
      /\ u[1] = a /\ u[2] = b
      /\ \A k \in DOMAIN w : u[2 + k] = w[k]
  BY <1>6, <1>7 DEF Joined
<1>9. ASSUME NEW k \in DOMAIN u
      PROVE  \/ k = 1 /\ u[k] = a
             \/ k = 2 /\ u[k] = b
             \/ u[k].op # "NvPushPendingSave" /\ ~(u[k].op = "NvWriteRecord" /\ u[k].by = "NvIdle")
  <2>1. CASE k > 2
    <3>1. PICK i : i = k - 2
      OBVIOUS
    <3>2. i \in DOMAIN w /\ k = 2 + i
      BY <1>8, <2>1, <3>1
    <3> QED
      BY <1>2, <1>8, <3>2
  <2> QED
    BY <1>8, <2>1
<1>10. PushOk(u, q)
  <2>1. \A k \in DOMAIN u : u[k].op = "NvPushPendingSave" => k = 2 /\ u[k] = b
    BY <1>9, <1>4
  <2>2. ASSUME NEW k \in DOMAIN u, u[k].op = "NvPushPendingSave"
        PROVE  u[k].entry \notin ToSet(q) /\ \A j \in 1 .. k - 1 : ~Requests(u[j])
    <3>1. k = 2 /\ u[k] = b
      BY <2>1, <2>2
    <3>2. \A j \in 1 .. k - 1 : j = 1
      BY <3>1
    <3> QED
      BY <1>8, <1>4, <3>1, <3>2
  <2> QED
    BY <2>2 DEF PushOk
<1>11. IdleOk(u, q)
  BY <1>9, <1>4 DEF IdleOk
<1>12. ASSUME NEW d \in r PROVE Covered(u, q, d)
  <2>1. ~AddsNow(s, q, d)
    BY <1>3 DEF AddsNow
  <2>2. Taken(w, d) => Taken(u, d)
    BY <1>1, <1>2, <1>6, TakenJoin
  <2> QED
    BY <1>2, <2>1, <2>2 DEF Covered
<1>13. QueueOk(u, q, r)
  BY <1>3, <1>8, <1>10, <1>11, <1>12 DEF QueueOk
<1> QED
  BY <1>13, <1>5

LEMMA AddSteps ==
    ASSUME QueueInv, FlashInv, NvAddSaveRequestToQueue \/ NvPushPendingSave
    PROVE  /\ QueueOk(todo', mNvPendingSavesQueue', requested')
           /\ UNCHANGED mNvCriticalSectionFlag
<1>1. PICK s, q, r, top, e : s = todo /\ q = mNvPendingSavesQueue /\ r = requested /\ top = Head(todo) /\ e = top.entry
  OBVIOUS
<1>2. /\ s # << >> /\ top = Head(s) /\ QueueOk(s, q, r)
      /\ top.op \in {"NvAddSaveRequestToQueue", "NvPushPendingSave"} /\ UNCHANGED mNvCriticalSectionFlag
      /\ top.op = "NvAddSaveRequestToQueue" => NvAddSaveRequestToQueue
      /\ top.op = "NvPushPendingSave" => NvPushPendingSave
  <2>1. QueueOk(s, q, r)
    BY <1>1 DEF QueueInv
  <2>2. CASE NvAddSaveRequestToQueue
    BY <1>1, <2>1, <2>2 DEF NvAddSaveRequestToQueue, Running
  <2>3. CASE NvPushPendingSave
    BY <1>1, <2>1, <2>3 DEF NvPushPendingSave, Running
  <2> QED
    BY <2>2, <2>3
<1>3. e \in Entry \union {ALL}
  <2>1. top \in QuietOp
    BY <1>1, <1>2, QuietRunning DEF QuietNames
  <2> QED
    BY <1>1, <1>2, <2>1, QuietFields
<1>4. /\ top.op = "NvAddSaveRequestToQueue" /\ e \in ToSet(q) => QueueOk(Tail(s), q, Requested(r, e))
      /\ e \notin ToSet(q) /\ Len(q) < gNvPendingSavesQueueSize_c =>
           QueueOk(Tail(s), Append(q, e), Requested(r, e))
      /\ Len(q) = gNvPendingSavesQueueSize_c => QueueOk(Tail(s), q, r)
  BY <1>1, <1>2, <1>3, AddKeeps
<1>5. Accept(e) => requested' = Requested(r, e)
  BY <1>1 DEF Accept, Requested
<1>6. CASE top.op = "NvAddSaveRequestToQueue"
  <2>1. \/ e \in ToSet(q) /\ Accept(e) /\ todo' = Tail(s) /\ mNvPendingSavesQueue' = q
        \/ /\ e \notin ToSet(q) /\ Len(q) < gNvPendingSavesQueueSize_c /\ mNvPendingSavesQueue' = Append(q, e)
           /\ Accept(e) /\ todo' = Tail(s)
        \/ /\ e \notin ToSet(q) /\ Len(q) = gNvPendingSavesQueueSize_c /\ mNvPendingSavesQueue' = q /\ requested' = r
           /\ todo' = <<Call("NvProcessFirstSaveInQueue"), CallFor("NvPushPendingSave", e)>> \o Tail(s)
    BY <1>1, <1>2, <1>6, Zenon DEF NvAddSaveRequestToQueue, Rest
  <2>2. CASE e \in ToSet(q) /\ Accept(e) /\ todo' = Tail(s) /\ mNvPendingSavesQueue' = q
    BY <1>2, <1>4, <1>5, <1>6, <2>2, Zenon
  <2>3. CASE /\ e \notin ToSet(q) /\ Len(q) < gNvPendingSavesQueueSize_c /\ mNvPendingSavesQueue' = Append(q, e)
             /\ Accept(e) /\ todo' = Tail(s)
    BY <1>2, <1>4, <1>5, <2>3, Zenon
  <2>4. CASE /\ e \notin ToSet(q) /\ Len(q) = gNvPendingSavesQueueSize_c /\ mNvPendingSavesQueue' = q /\ requested' = r
             /\ todo' = <<Call("NvProcessFirstSaveInQueue"), CallFor("NvPushPendingSave", e)>> \o Tail(s)
    <3>1. QueueOk(<<Call("NvProcessFirstSaveInQueue"), CallFor("NvPushPendingSave", e)>> \o Tail(s), q, r)
      BY <1>2, <1>6, <2>4, FullKeeps
    <3> QED
      BY <1>2, <2>4, <3>1, Zenon
  <2> QED
    BY <2>1, <2>2, <2>3, <2>4
<1>7. CASE top.op = "NvPushPendingSave"
  <2>1. /\ todo' = Tail(s)
        /\ \/ Len(q) < gNvPendingSavesQueueSize_c /\ mNvPendingSavesQueue' = Append(q, e) /\ Accept(e)
           \/ Len(q) = gNvPendingSavesQueueSize_c /\ mNvPendingSavesQueue' = q /\ requested' = r
    BY <1>1, <1>2, <1>7, Zenon DEF NvPushPendingSave, Rest
  <2>2. e \notin ToSet(q)
    BY <1>1, <1>2, <1>7, NoneBelow
  <2>3. CASE Len(q) < gNvPendingSavesQueueSize_c /\ mNvPendingSavesQueue' = Append(q, e) /\ Accept(e)
    BY <1>2, <1>4, <1>5, <2>1, <2>2, <2>3, Zenon
  <2>4. CASE Len(q) = gNvPendingSavesQueueSize_c /\ mNvPendingSavesQueue' = q /\ requested' = r
    BY <1>2, <1>4, <2>1, <2>4, Zenon
  <2> QED
    BY <2>1, <2>3, <2>4
<1> QED
  BY <1>2, <1>6, <1>7

(* Calls that empty the queue, the start of the module and the format.     *)
LEMMA AtomicSaveStep ==
    ASSUME QueueInv, mNvCriticalSectionFlag = 0, NvAtomicSave
    PROVE  QueueInv'
<1>1. PICK q, r, s, u, n : q = mNvPendingSavesQueue /\ r = requested /\ s = todo /\ u = todo' /\ n = Len(pNVM_DataTable)
  OBVIOUS
<1> DEFINE a == SyncSave(1, n)
           t == <<a>>
<1>2. /\ s # << >> /\ Head(s).op = "NvAtomicSave" /\ QueueOk(s, q, r)
      /\ UNCHANGED <<mNvCriticalSectionFlag, requested>> /\ mNvPendingSavesQueue' = << >>
      /\ u = t \o Tail(s)
  <2>1. QueueOk(s, q, r)
    BY <1>1 DEF QueueInv
  <2> QED
    BY <1>1, <2>1 DEF NvAtomicSave, Running, Rest
<1>3. \A e \in Entry : Takes(a, e)
  <2>1. Entry = 1 .. n
    BY <1>1, Sizes
  <2> QED
    BY <2>1, TakesOps
<1>4. Follows(a, 1, Head(s), << >>)
  BY DEF SyncSave, Follows, Requests
<1> HIDE DEF a
<1>5. Stack(t) /\ \A k \in DOMAIN t : k = 1 /\ t[k] = a
  <2>1. Stack(t)
    BY StackOne
  <2>2. \A k \in DOMAIN t : k = 1 /\ t[k] = a
    OBVIOUS
  <2> QED
    BY <2>1, <2>2
<1>6. \A e \in Entry : Taken(t, e)
  BY <1>3, TakenTuples
<1> HIDE DEF t
<1>7. \A k \in DOMAIN t : Follows(t[k], k, Head(s), << >>)
  BY <1>4, <1>5, Zenon
<1>8. Stack(s) /\ Stack(Tail(s)) /\ Below(Tail(s), s, 1)
  <2>1. Stack(s)
    BY <1>2 DEF QueueOk
  <2> QED
    BY <1>2, <2>1, StackTail, BelowFacts
<1>9. ASSUME NEW e \in r PROVE Covered(u, << >>, e)
  <2>1. e \in Entry
    BY <1>2 DEF QueueOk
  <2>2. Taken(u, e)
    BY <1>2, <1>5, <1>6, <1>8, <2>1, TakenJoin
  <2> QED
    BY <2>2 DEF Covered
<1>10. /\ << >> \in Seq(Entry \union {ALL}) /\ IsInjective(<< >>) /\ ToSet(<< >>) \subseteq ToSet(q) /\ Len(<< >>) <= Len(q)
  <2>1. QueueOk(<< >>, << >>, {})
    BY QueueEmpty
  <2>2. ToSet(<< >>) = {} /\ Len(<< >>) = 0 /\ << >> \in Seq(Entry \union {ALL})
    BY QueueSet
  <2>3. Len(q) \in Nat
    BY <1>2 DEF QueueOk
  <2>4. IsInjective(<< >>)
    BY <2>1 DEF QueueOk
  <2> QED
    BY <2>2, <2>3, <2>4
<1>11. QueueOk(u, << >>, r)
  <2>1. PICK j, p : j = 1 /\ p = << >>
    OBVIOUS
  <2>2. j \in Nat /\ j > 0 /\ r \subseteq r
    BY <2>1
  <2>3. QueueOk(u, p, r)
    BY <1>2, <1>5, <1>7, <1>8, <1>9, <1>10, <2>1, <2>2, CallKeeps
  <2> QED
    BY <2>1, <2>3
<1>12. QueueOk(todo', mNvPendingSavesQueue', requested')
  BY <1>1, <1>2, <1>11, Zenon
<1> QED
  BY <1>2, <1>12 DEF QueueInv

LEMMA FormatSteps ==
    ASSUME QueueInv, FlashInv, mNvCriticalSectionFlag = 0, NvInternalFormat \/ NvModuleInit_init \/ NvFormat_formatted
    PROVE  QueueInv'
<1> DEFINE idle == Call("NvIdle")
<1>1. Phase /\ BootOk
  BY DEF FlashInv
<1>2. ASSUME NEW u, Plain(u, idle), UNCHANGED <<mNvPendingSavesQueue, requested, mNvCriticalSectionFlag>>, u = todo',
             requested = {} \/ \A e : Taken(u, e)
      PROVE  QueueInv'
  <2>1. PICK q, r, s : q = mNvPendingSavesQueue /\ r = requested /\ s = todo
    OBVIOUS
  <2>2. QueueOk(s, q, r)
    BY <2>1 DEF QueueInv
  <2>3. \A e \in r : InQueue(q, e) \/ Taken(u, e)
    BY <1>2, <2>1
  <2>4. QueueOk(u, q, r)
    BY <1>2, <2>2, <2>3, NewCall
  <2>5. QueueOk(todo', mNvPendingSavesQueue', requested')
    BY <1>2, <2>1, <2>4, Zenon
  <2> QED
    BY <1>2, <2>5 DEF QueueInv
<1>3. CASE NvInternalFormat
  <2>1. /\ todo # << >> /\ Head(todo).op = "NvInternalFormat"
        /\ UNCHANGED <<mNvPendingSavesQueue, requested, mNvCriticalSectionFlag>>
    BY <1>3 DEF NvInternalFormat, Running
  <2>2. FormatCaller(Rest)
    <3>1. AtFormat
      BY <1>1, <2>1, PhaseOf DEF QuietNames
    <3> QED
      BY <3>1 DEF AtFormat
  <2>3. PICK a, b, c, d, g, n : /\ a = Erase(0) /\ b = Erase(1) /\ g = Call("NvUpdateLastMetaInfoAddress")
                                /\ c = Program(0, 0, <<Counter(n)>>) /\ d = Program(0, Bottom, <<Counter(n)>>)
                                /\ todo' = <<a, b>> \o (<<c, d>> \o (<<g>> \o Rest))
    BY <1>3 DEF NvInternalFormat, NvSaveRamTable
  <2>4. PICK x, y, z, u1, u2, u : /\ x = <<a, b>> /\ y = <<c, d>> /\ z = <<g>>
                                  /\ u1 = z \o Rest /\ u2 = y \o u1 /\ u = x \o u2
    OBVIOUS
  <2>5. Plain(x, idle) /\ Plain(y, idle) /\ Plain(z, idle)
    <3>1. /\ PlainOp(a, idle) /\ PlainOp(b, idle) /\ PlainOp(c, idle)
          /\ PlainOp(d, idle) /\ PlainOp(g, idle)
      BY <2>3, PlainOps DEF Erase
    <3> QED
      BY <2>4, <3>1, PlainTuples
  <2>6. PICK name \in {"formatted", "init", "return"} :
           Rest = <<Call(name)>> /\ (mNvModuleInitialized => name = "formatted")
    BY <2>2, Zenon DEF FormatCaller
  <2>7. Plain(Rest, idle)
    <3>1. PlainOp(Call(name), idle)
      BY PlainOps
    <3> QED
      BY <2>6, <3>1, PlainTuples
  <2>8. Plain(u1, idle) /\ Plain(u2, idle) /\ Plain(u, idle)
    <3>1. Plain(u1, idle)
      BY <2>4, <2>5, <2>7, PlainJoin
    <3>2. Plain(u2, idle)
      BY <2>4, <2>5, <3>1, PlainJoin
    <3> QED
      BY <2>4, <2>5, <3>1, <3>2, PlainJoin
  <2>9. requested = {} \/ \A e : Taken(u, e)
    <3>1. CASE ~mNvModuleInitialized
      BY <1>1, <3>1 DEF BootOk
    <3>2. CASE mNvModuleInitialized
      <4>1. SUFFICES ASSUME NEW e PROVE Taken(u, e)
        OBVIOUS
      <4>2. Rest = <<Call("formatted")>>
        BY <2>6, <3>2
      <4>3. Taken(Rest, e)
        <5>1. Takes(Call("formatted"), e)
          BY TakesOps
        <5> QED
          BY <4>2, <5>1, TakenTuples
      <4>4. Taken(u1, e)
        BY <2>4, <2>5, <2>7, <4>3, TakenJoin DEF Plain
      <4>5. Taken(u2, e)
        BY <2>4, <2>5, <2>8, <4>4, TakenJoin DEF Plain
      <4> QED
        BY <2>4, <2>5, <2>8, <4>5, TakenJoin DEF Plain
    <3> QED
      BY <3>1, <3>2
  <2>10. u = todo'
    BY <2>3, <2>4
  <2> QED
    BY <1>2, <2>1, <2>8, <2>9, <2>10
<1>4. CASE NvModuleInit_init
  <2>1. /\ todo # << >> /\ Head(todo).op = "init"
        /\ UNCHANGED <<mNvPendingSavesQueue, requested, mNvCriticalSectionFlag>>
    BY <1>4 DEF NvModuleInit_init, Running
  <2>2. AtInit
    BY <1>1, <2>1, PhaseOf DEF QuietNames
  <2>3. requested = {} /\ Rest = << >>
    <3>1. ~mNvModuleInitialized /\ todo = <<Call("init")>>
      BY <2>2 DEF AtInit
    <3>2. Tail(<<Call("init")>>) = << >>
      BY StackCall
    <3> QED
      BY <1>1, <3>1, <3>2 DEF BootOk, Rest
  <2>4. PICK a, b, c : a = Call("NvCopyPage") /\ b = Call("return") /\ c = InternalFormat(0)
    OBVIOUS
  <2>5. PICK x : x \in {<< >>, <<a>>} /\ todo' \in {x \o <<b>>, <<c, b>>}
    <3>1. \E x \in {<< >>, <<a>>} : todo' \in {x \o <<b>>, <<c, b>>}
      <4>1. \/ todo' = << >> \o <<b>>
            \/ todo' = <<a>> \o <<b>>
            \/ todo' = <<c, b>>
        BY <1>4, <2>3, <2>4 DEF NvModuleInit_init
      <4> QED
        BY <4>1, Zenon
    <3> QED
      BY <3>1
  <2>6. PlainOp(a, idle) /\ PlainOp(b, idle) /\ PlainOp(c, idle)
    BY <2>4, PlainOps
  <2>7. Plain(<< >>, idle) /\ Plain(<<a>>, idle) /\ Plain(<<b>>, idle) /\ Plain(<<c, b>>, idle)
    BY <2>6, PlainTuples
  <2>8. Plain(x, idle)
    BY <2>5, <2>7, Zenon
  <2>9. Plain(x \o <<b>>, idle)
    BY <2>7, <2>8, PlainJoin
  <2>10. PICK u : u = todo'
    OBVIOUS
  <2>11. Plain(u, idle)
    BY <2>5, <2>7, <2>9, <2>10, Zenon
  <2> QED
    BY <1>2, <2>1, <2>3, <2>10, <2>11
<1>5. CASE NvFormat_formatted
  <2>1. /\ todo # << >> /\ Head(todo).op = "formatted" /\ UNCHANGED mNvCriticalSectionFlag
        /\ mNvPendingSavesQueue' = << >> /\ requested' = {} /\ todo' = Rest
    BY <1>5 DEF NvFormat_formatted, Running
  <2>2. AtFormatted
    BY <1>1, <2>1, PhaseOf DEF QuietNames
  <2>3. todo' = << >>
    BY <2>1, <2>2, StackCall DEF AtFormatted, Rest
  <2>4. QueueOk(todo', mNvPendingSavesQueue', requested')
    BY <2>1, <2>3, QueueEmpty, Zenon
  <2> QED
    BY <2>1, <2>4 DEF QueueInv
<1> QED
  BY <1>3, <1>4, <1>5

LEMMA StepKeepsQueue ==
    ASSUME QueueInv, FlashInv, mNvCriticalSectionFlag = 0, Step
    PROVE  QueueInv'
<1>1. \/ FlashErase \/ NvCopyPage \/ NvInternalCopy \/ NvCopyPage_switch \/ NvSyncSave_copied
      \/ FlashProgram \/ NvWriteRecord_written \/ Copied \/ NvSyncSave_erased
      \/ NvUpdateLastMetaInfoAddress \/ NvModuleInit_return \/ NvShutdown
      \/ NvInternalFormat \/ NvModuleInit_init \/ NvFormat_formatted
      \/ NvAddSaveRequestToQueue \/ NvPushPendingSave \/ NvProcessFirstSaveInQueue \/ NvIdle_saves
      \/ NvWriteRecord \/ NvSyncSave \/ NvAtomicSave \/ NvIdle \/ NvIdle_erase \/ NvCompletePendingOperations
  BY Zenon DEF Step
<1>2. CASE FlashErase \/ NvCopyPage \/ NvInternalCopy \/ NvCopyPage_switch \/ NvSyncSave_copied
  BY <1>2, FlashSteps
<1>3. CASE \/ FlashProgram \/ NvWriteRecord_written \/ Copied \/ NvSyncSave_erased
           \/ NvUpdateLastMetaInfoAddress \/ NvModuleInit_return \/ NvShutdown
  BY <1>3, DropSteps
<1>4. CASE NvInternalFormat \/ NvModuleInit_init \/ NvFormat_formatted
  BY <1>4, FormatSteps
<1>5. CASE NvAddSaveRequestToQueue \/ NvPushPendingSave
  BY <1>5, AddSteps DEF QueueInv
<1>6. CASE NvProcessFirstSaveInQueue \/ NvIdle_saves
  BY <1>6, PopQueue
<1>7. CASE NvWriteRecord
  BY <1>7, WriteStep
<1>8. CASE NvSyncSave
  BY <1>8, SyncSaveStep
<1>9. CASE NvAtomicSave
  BY <1>9, AtomicSaveStep
<1>10. CASE NvIdle \/ NvIdle_erase
  BY <1>10, IdleSteps
<1>11. CASE NvCompletePendingOperations
  BY <1>11, CompleteStep
<1> QED
  BY <1>1, <1>2, <1>3, <1>4, <1>5, <1>6, <1>7, <1>8, <1>9, <1>10, <1>11, Zenon

(* Calls in a critical section.                                            *)
LEMMA StepNames ==
    ASSUME Step
    PROVE  /\ todo # << >>
           /\ Head(todo).op = "NvAtomicSave" => NvAtomicSave
           /\ Head(todo).op = "NvSyncSave" => NvSyncSave
           /\ Head(todo).op = "NvAddSaveRequestToQueue" => NvAddSaveRequestToQueue
           /\ Head(todo).op = "NvPushPendingSave" => NvPushPendingSave
           /\ Head(todo).op = "NvProcessFirstSaveInQueue" => NvProcessFirstSaveInQueue
           /\ Head(todo).op = "NvCompletePendingOperations" => NvCompletePendingOperations
BY DEF Step, FlashErase, FlashProgram, NvWriteRecord, NvWriteRecord_written, NvCopyPage, NvInternalCopy,
       NvCopyPage_switch, Copied, NvSyncSave_copied, NvSyncSave_erased, NvInternalFormat, NvUpdateLastMetaInfoAddress,
       NvModuleInit_init, NvModuleInit_return, NvAddSaveRequestToQueue, NvPushPendingSave, NvProcessFirstSaveInQueue,
       NvSyncSave, NvAtomicSave, NvIdle, NvIdle_erase, NvIdle_saves, NvCompletePendingOperations, NvShutdown,
       NvFormat_formatted, Running

(* A call of one operation, and the two of two operations.                 *)
SectionOp(o) ==
    \/ o \in {Call("NvAtomicSave"), Call("NvIdle"), Call("NvCompletePendingOperations"), Call("NvShutdown")}
    \/ \E e \in Entry : o \in {SyncSave(e, e), CallFor("NvAddSaveRequestToQueue", e), CallFor("NvPushPendingSave", e)}
LEMMA SectionShape ==
    \A s : s \in SectionCalls <=>
        \/ s = << >>
        \/ \E o : SectionOp(o) /\ s = <<o>>
        \/ s = <<Call("NvIdle"), Call("NvCompletePendingOperations")>>
        \/ \E e \in Entry : s = <<Call("NvProcessFirstSaveInQueue"), CallFor("NvPushPendingSave", e)>>
<1>1. SUFFICES ASSUME NEW s
               PROVE  s \in SectionCalls <=>
                        \/ s = << >>
                        \/ \E o : SectionOp(o) /\ s = <<o>>
                        \/ s = <<Call("NvIdle"), Call("NvCompletePendingOperations")>>
                        \/ \E e \in Entry : s = <<Call("NvProcessFirstSaveInQueue"), CallFor("NvPushPendingSave", e)>>
  OBVIOUS
<1>2. (\E o : SectionOp(o) /\ s = <<o>>) <=>
          \/ s \in {<<Call("NvAtomicSave")>>, <<Call("NvIdle")>>, <<Call("NvCompletePendingOperations")>>,
                    <<Call("NvShutdown")>>}
          \/ \E e \in Entry : s \in {<<SyncSave(e, e)>>, <<CallFor("NvAddSaveRequestToQueue", e)>>,
                                     <<CallFor("NvPushPendingSave", e)>>}
  BY Zenon DEF SectionOp
<1>3. s \in SectionCalls <=>
          \/ s = << >>
          \/ s \in {<<Call("NvAtomicSave")>>, <<Call("NvIdle")>>, <<Call("NvCompletePendingOperations")>>,
                    <<Call("NvShutdown")>>}
          \/ \E e \in Entry : s \in {<<SyncSave(e, e)>>, <<CallFor("NvAddSaveRequestToQueue", e)>>,
                                     <<CallFor("NvPushPendingSave", e)>>}
          \/ s = <<Call("NvIdle"), Call("NvCompletePendingOperations")>>
          \/ \E e \in Entry : s = <<Call("NvProcessFirstSaveInQueue"), CallFor("NvPushPendingSave", e)>>
  BY Zenon DEF SectionCalls
<1> QED
  BY <1>2, <1>3, Zenon

(* What is in them: nothing is pushed after another request, and nothing   *)
(* is written.                                                             *)
LEMMA SectionStack ==
    ASSUME NEW s \in SectionCalls
    PROVE  /\ Stack(s)
           /\ \A k \in DOMAIN s : s[k].op # "NvWriteRecord"
           /\ \A k \in DOMAIN s : s[k].op = "NvPushPendingSave" => \A j \in 1 .. k - 1 : ~Requests(s[j])
<1>1. CASE s = << >>
  <2>1. DOMAIN s = {} /\ Stack(s)
    BY <1>1, StackEmpty
  <2> QED
    BY <2>1
<1>2. ASSUME NEW o, SectionOp(o), s = <<o>> PROVE /\ Stack(s) /\ o.op # "NvWriteRecord"
                                                  /\ \A k \in DOMAIN s : s[k] = o /\ k = 1
  <2>1. o.op # "NvWriteRecord"
    BY <1>2 DEF SectionOp, Call, CallFor, SyncSave
  <2>2. Stack(s)
    BY <1>2, StackOne
  <2>3. \A k \in DOMAIN s : s[k] = o /\ k = 1
    BY <1>2
  <2> QED
    BY <2>1, <2>2, <2>3
<1>3. ASSUME NEW a, NEW b, s = <<a, b>>, a.op \in {"NvIdle", "NvProcessFirstSaveInQueue"}, b.op # "NvWriteRecord",
             b.op = "NvPushPendingSave" => ~Requests(a)
      PROVE  /\ Stack(s)
             /\ \A k \in DOMAIN s : s[k].op # "NvWriteRecord"
             /\ \A k \in DOMAIN s : s[k].op = "NvPushPendingSave" => \A j \in 1 .. k - 1 : ~Requests(s[j])
  <2>1. DOMAIN s = {1, 2} /\ s[1] = a /\ s[2] = b /\ \A j \in 1 .. 2 - 1 : j = 1
    BY <1>3
  <2>2. Stack(s)
    BY <1>3, StackTuples
  <2> QED
    BY <1>3, <2>1, <2>2
<1>4. CASE \E o : SectionOp(o) /\ s = <<o>>
  <2>1. PICK o : SectionOp(o) /\ s = <<o>>
    BY <1>4
  <2>2. /\ Stack(s) /\ o.op # "NvWriteRecord" /\ \A k \in DOMAIN s : s[k] = o /\ k = 1
    BY <1>2, <2>1
  <2>3. \A j \in 1 .. 1 - 1 : FALSE
    OBVIOUS
  <2> QED
    BY <2>2, <2>3
<1>5. CASE s = <<Call("NvIdle"), Call("NvCompletePendingOperations")>>
  <2>1. Call("NvIdle").op = "NvIdle" /\ Call("NvCompletePendingOperations").op = "NvCompletePendingOperations"
    BY DEF Call
  <2> QED
    BY <1>3, <1>5, <2>1
<1>6. CASE \E e \in Entry : s = <<Call("NvProcessFirstSaveInQueue"), CallFor("NvPushPendingSave", e)>>
  <2>1. PICK e \in Entry : s = <<Call("NvProcessFirstSaveInQueue"), CallFor("NvPushPendingSave", e)>>
    BY <1>6
  <2>2. /\ Call("NvProcessFirstSaveInQueue").op = "NvProcessFirstSaveInQueue" /\ ~Requests(Call("NvProcessFirstSaveInQueue"))
        /\ CallFor("NvPushPendingSave", e).op = "NvPushPendingSave"
    BY DEF Call, CallFor, Requests
  <2> QED
    BY <1>3, <2>1, <2>2
<1> QED
  BY <1>1, <1>4, <1>5, <1>6, SectionShape

LEMMA SectionOk ==
    ASSUME NEW u \in SectionCalls, NEW q \in Seq(Entry \union {ALL}), IsInjective(q), Len(q) <= gNvPendingSavesQueueSize_c,
           NEW x, x \subseteq Entry, \A e \in x : InQueue(q, e),
           \A k \in DOMAIN u : u[k].op = "NvPushPendingSave" => u[k].entry \notin ToSet(q)
    PROVE  QueueOk(u, q, x) /\ Section(u, q, x)
<1>1. /\ Stack(u)
      /\ \A k \in DOMAIN u : u[k].op # "NvWriteRecord"
      /\ \A k \in DOMAIN u : u[k].op = "NvPushPendingSave" => \A j \in 1 .. k - 1 : ~Requests(u[j])
  BY SectionStack
<1>2. PushOk(u, q) /\ IdleOk(u, q)
  BY <1>1 DEF PushOk, IdleOk
<1> QED
  BY <1>1, <1>2 DEF QueueOk, Section, Covered

LEMMA SectionStep ==
    ASSUME QueueInv, FlashInv, mNvCriticalSectionFlag # 0, Step
    PROVE  QueueInv'
<1>1. PICK q, r, s, top : q = mNvPendingSavesQueue /\ r = requested /\ s = todo /\ top = Head(todo)
  OBVIOUS
<1>2. /\ boot = "ok" /\ s \in SectionCalls /\ QueueOk(s, q, r) /\ s # << >> /\ todo # << >>
      /\ \A e \in r : InQueue(q, e)
  BY <1>1, StepNames DEF QueueInv, Section
<1>3. q \in Seq(Entry \union {ALL}) /\ IsInjective(q) /\ Len(q) <= gNvPendingSavesQueueSize_c /\ r \subseteq Entry
  BY <1>2 DEF QueueOk
<1>4. ASSUME NEW u \in SectionCalls, todo' = u, UNCHANGED <<mNvPendingSavesQueue, requested, boot, mNvCriticalSectionFlag>>,
             \A k \in DOMAIN u : u[k].op = "NvPushPendingSave" => u[k].entry \notin ToSet(q)
      PROVE  QueueInv'
  <2>1. QueueOk(u, q, r) /\ Section(u, q, r)
    BY <1>2, <1>3, <1>4, SectionOk
  <2>2. QueueOk(todo', mNvPendingSavesQueue', requested') /\ Section(todo', mNvPendingSavesQueue', requested')
    BY <1>1, <1>4, <2>1, Zenon
  <2> QED
    BY <1>2, <1>4, <2>2 DEF QueueInv
<1>5. << >> \in SectionCalls /\ DOMAIN << >> = {}
  BY SectionShape
<1>6. ASSUME QueueOk(todo', mNvPendingSavesQueue', requested'), todo' = << >>, boot' = boot
      PROVE  QueueInv'
  <2>1. PICK p, x : p = mNvPendingSavesQueue' /\ x = requested'
    OBVIOUS
  <2>2. QueueOk(<< >>, p, x)
    BY <1>6, <2>1, Zenon
  <2>3. ASSUME NEW e \in x PROVE InQueue(p, e)
    <3>1. ~Taken(<< >>, e)
      BY TakenTuples
    <3> QED
      BY <2>2, <3>1 DEF QueueOk, Covered, AddsNow
  <2>4. Section(<< >>, p, x)
    BY <1>5, <2>3 DEF Section
  <2>5. Section(todo', mNvPendingSavesQueue', requested')
    BY <1>6, <2>1, <2>4, Zenon
  <2> QED
    BY <1>2, <1>6, <2>5 DEF QueueInv
<1>7. ASSUME NEW o, SectionOp(o), s = <<o>>
      PROVE  QueueInv'
  <2>1. top = o /\ Rest = << >>
    BY <1>1, <1>7, StackOne DEF Rest
  <2>2. CASE o = Call("NvAtomicSave")
    <3>1. top.op = "NvAtomicSave"
      BY <2>1, <2>2 DEF Call
    <3>2. NvAtomicSave
      BY <1>1, <3>1, StepNames
    <3>3. /\ mNvPendingSavesQueue' = <<ALL>> /\ todo' = << >> \o << >>
          /\ UNCHANGED <<requested, boot, mNvCriticalSectionFlag>>
      BY <2>1, <3>2 DEF NvAtomicSave
    <3>4. PICK p : p = <<ALL>>
      OBVIOUS
    <3>5. /\ p \in Seq(Entry \union {ALL}) /\ Len(p) = 1 /\ DOMAIN p = {1} /\ p[1] = ALL
      BY <3>4
    <3>6. IsInjective(p) /\ \A e : InQueue(p, e)
      BY <3>5, QueueSet DEF IsInjective, InQueue
    <3>7. Len(p) <= gNvPendingSavesQueueSize_c
      BY <3>5, NvStorageAssumption
    <3>8. QueueOk(<< >>, p, r)
      BY <1>3, <1>5, <3>5, <3>6, <3>7, SectionOk
    <3>9. todo' = << >>
      BY <3>3, StackEmpty, StackAgain
    <3>10. QueueOk(todo', mNvPendingSavesQueue', requested')
      BY <1>1, <3>3, <3>4, <3>8, <3>9, Zenon
    <3> QED
      BY <1>6, <3>3, <3>9, <3>10
  <2>3. CASE o = Call("NvIdle")
    <3>1. top.op = "NvIdle"
      BY <2>1, <2>3 DEF Call
    <3>2. NvIdle
      BY <1>1, <3>1, StepOf
    <3>3. /\ todo' = << >> \o << >>
          /\ UNCHANGED <<mNvPendingSavesQueue, requested, boot, mNvCriticalSectionFlag>>
      BY <2>1, <3>2 DEF NvIdle, ramState
    <3>4. todo' = << >>
      BY <3>3, StackEmpty, StackAgain
    <3> QED
      BY <1>4, <1>5, <3>3, <3>4
  <2>4. CASE o = Call("NvCompletePendingOperations")
    <3>1. top.op = "NvCompletePendingOperations"
      BY <2>1, <2>4 DEF Call
    <3>2. NvCompletePendingOperations
      BY <1>1, <3>1, StepNames
    <3>3. /\ todo' \in {<<Call("NvIdle")>> \o <<Call("NvCompletePendingOperations")>>, << >>}
          /\ UNCHANGED <<mNvPendingSavesQueue, requested, boot, mNvCriticalSectionFlag>>
      BY <1>1, <1>7, <2>1, <2>4, <3>2 DEF NvCompletePendingOperations, ramState
    <3>4. PICK u : u = <<Call("NvIdle"), Call("NvCompletePendingOperations")>>
      OBVIOUS
    <3>5. todo' \in {u, << >>}
      BY <3>3, <3>4, StackPair, Zenon
    <3>6. u \in SectionCalls
      BY <3>4, SectionShape
    <3>7. \A k \in DOMAIN u : u[k].op # "NvPushPendingSave"
      BY <3>4 DEF Call
    <3> QED
      BY <1>4, <1>5, <3>3, <3>5, <3>6, <3>7
  <2>5. CASE o = Call("NvShutdown")
    <3>1. top.op = "NvShutdown"
      BY <2>1, <2>5 DEF Call
    <3>2. NvShutdown
      BY <1>1, <3>1, StepOf
    <3>3. /\ todo' = << >>
          /\ UNCHANGED <<mNvPendingSavesQueue, requested, boot, mNvCriticalSectionFlag>>
      BY <2>1, <3>2 DEF NvShutdown, ramState
    <3> QED
      BY <1>4, <1>5, <3>3
  <2>6. ASSUME NEW e \in Entry, o = SyncSave(e, e)
        PROVE  QueueInv'
    <3>1. top.op = "NvSyncSave" /\ top.entry = e
      BY <2>1, <2>6 DEF SyncSave
    <3>2. NvSyncSave
      BY <1>1, <3>1, StepNames
    <3>3. /\ todo' = <<CallFor("NvAddSaveRequestToQueue", e)>> \o << >>
          /\ UNCHANGED <<mNvPendingSavesQueue, requested, boot, mNvCriticalSectionFlag>>
      BY <1>1, <2>1, <3>1, <3>2 DEF NvSyncSave, ramState
    <3>4. PICK u : u = <<CallFor("NvAddSaveRequestToQueue", e)>>
      OBVIOUS
    <3>5. todo' = u
      BY <3>3, <3>4, StackPair
    <3>6. u \in SectionCalls
      BY <3>4, SectionShape DEF SectionOp
    <3>7. \A k \in DOMAIN u : u[k].op # "NvPushPendingSave"
      BY <3>4 DEF CallFor
    <3> QED
      BY <1>4, <3>3, <3>5, <3>6, <3>7
  <2>7. ASSUME NEW e \in Entry, o \in {CallFor("NvAddSaveRequestToQueue", e), CallFor("NvPushPendingSave", e)}
        PROVE  QueueInv'
    <3>1. /\ top.op \in {"NvAddSaveRequestToQueue", "NvPushPendingSave"} /\ top.entry = e
      BY <2>1, <2>7 DEF CallFor
    <3>2. NvAddSaveRequestToQueue \/ NvPushPendingSave
      BY <1>1, <3>1, StepNames
    <3>3. QueueOk(todo', mNvPendingSavesQueue', requested')
      BY <3>2, AddSteps
    <3>4. /\ UNCHANGED <<boot, mNvCriticalSectionFlag>>
          /\ \/ todo' = << >>
             \/ /\ e \notin ToSet(q) /\ UNCHANGED <<mNvPendingSavesQueue, requested>>
                /\ todo' = <<Call("NvProcessFirstSaveInQueue"), CallFor("NvPushPendingSave", e)>> \o << >>
      BY <1>1, <2>1, <3>1, <3>2 DEF NvAddSaveRequestToQueue, NvPushPendingSave
    <3>5. CASE todo' = << >>
      BY <1>6, <3>3, <3>4, <3>5
    <3>6. CASE /\ e \notin ToSet(q) /\ UNCHANGED <<mNvPendingSavesQueue, requested>>
               /\ todo' = <<Call("NvProcessFirstSaveInQueue"), CallFor("NvPushPendingSave", e)>> \o << >>
      <4>1. PICK a, b, u : a = Call("NvProcessFirstSaveInQueue") /\ b = CallFor("NvPushPendingSave", e) /\ u = <<a, b>>
        OBVIOUS
      <4>2. u \in SectionCalls
        BY <4>1, SectionShape
      <4>3. todo' = u
        <5>1. todo' = u \o << >>
          BY <3>6, <4>1
        <5>2. u \o << >> = u
          BY <4>1
        <5> QED
          BY <5>1, <5>2
      <4>4. \A k \in DOMAIN u : u[k] \in {a, b}
        BY <4>1
      <4>5. a.op # "NvPushPendingSave" /\ b.entry = e
        BY <4>1 DEF Call, CallFor
      <4>6. \A k \in DOMAIN u : u[k].op = "NvPushPendingSave" => u[k].entry \notin ToSet(q)
        BY <3>6, <4>4, <4>5
      <4> QED
        BY <1>4, <3>4, <3>6, <4>2, <4>3, <4>6
    <3> QED
      BY <3>4, <3>5, <3>6
  <2> QED
    BY <1>7, <2>2, <2>3, <2>4, <2>5, <2>6, <2>7 DEF SectionOp
<1>8. CASE s = <<Call("NvIdle"), Call("NvCompletePendingOperations")>>
  <2>1. PICK a, b : a = Call("NvIdle") /\ b = Call("NvCompletePendingOperations")
    OBVIOUS
  <2>2. top = a /\ Rest = <<b>>
    BY <1>1, <1>8, <2>1 DEF Rest
  <2>3. top.op = "NvIdle"
    BY <2>1, <2>2 DEF Call
  <2>4. NvIdle
    BY <1>1, <2>3, StepOf
  <2>5. /\ todo' = << >> \o <<b>>
        /\ UNCHANGED <<mNvPendingSavesQueue, requested, boot, mNvCriticalSectionFlag>>
    BY <2>2, <2>4 DEF NvIdle, ramState
  <2>6. PICK u : u = <<b>>
    OBVIOUS
  <2>7. todo' = u
    <3>1. << >> \o u = u
      BY <2>6, StackOne, StackAgain
    <3> QED
      BY <2>5, <2>6, <3>1
  <2>8. u \in SectionCalls
    BY <2>1, <2>6, SectionShape DEF SectionOp
  <2>9. \A k \in DOMAIN u : u[k].op # "NvPushPendingSave"
    BY <2>1, <2>6 DEF Call
  <2> QED
    BY <1>4, <2>5, <2>7, <2>8, <2>9
<1>9. ASSUME NEW e \in Entry, s = <<Call("NvProcessFirstSaveInQueue"), CallFor("NvPushPendingSave", e)>>
      PROVE  QueueInv'
  <2>1. PICK a, b : a = Call("NvProcessFirstSaveInQueue") /\ b = CallFor("NvPushPendingSave", e)
    OBVIOUS
  <2>2. top = a /\ Rest = <<b>> /\ 2 \in DOMAIN s /\ s[2] = b
    <3>1. s = <<a, b>>
      BY <1>9, <2>1
    <3> QED
      BY <1>1, <3>1 DEF Rest
  <2>3. top.op = "NvProcessFirstSaveInQueue" /\ b.op = "NvPushPendingSave"
    BY <2>1, <2>2 DEF Call, CallFor
  <2>4. NvProcessFirstSaveInQueue
    BY <1>1, <2>3, StepNames
  <2>5. /\ todo' = <<b>>
        /\ UNCHANGED <<mNvPendingSavesQueue, requested, boot, mNvCriticalSectionFlag>>
    BY <2>2, <2>4 DEF NvProcessFirstSaveInQueue
  <2>6. PICK u : u = <<b>>
    OBVIOUS
  <2>7. u \in SectionCalls
    BY <2>1, <2>6, SectionShape DEF SectionOp
  <2>8. b.entry \notin ToSet(q)
    BY <1>2, <2>2, <2>3 DEF QueueOk, PushOk
  <2>9. \A k \in DOMAIN u : u[k] = b
    BY <2>6
  <2> QED
    BY <1>4, <2>5, <2>6, <2>7, <2>8, <2>9
<1> QED
  BY <1>2, <1>7, <1>8, <1>9, SectionShape

(* The steps that are not steps of a call.                                 *)
LEMMA NewCallQueue ==
    ASSUME QueueInv, FlashInv, NEW calls, Enter(calls),
           \/ calls \in SectionCalls /\ \A k \in DOMAIN calls : calls[k].op # "NvPushPendingSave"
           \/ mNvCriticalSectionFlag = 0 /\ Plain(calls, Call("NvIdle"))
    PROVE  QueueInv'
<1>1. PICK q, r : q = mNvPendingSavesQueue /\ r = requested
  OBVIOUS
<1>2. /\ boot = "ok" /\ QueueOk(<< >>, q, r) /\ todo' = calls
      /\ UNCHANGED <<mNvPendingSavesQueue, requested, boot, mNvCriticalSectionFlag>>
  <2>1. boot = "ok" /\ todo = << >> /\ todo' = calls
    BY DEF Enter
  <2>2. UNCHANGED <<mNvPendingSavesQueue, requested, boot, mNvCriticalSectionFlag>>
    BY DEF Enter, ramState
  <2>3. QueueOk(todo, q, r)
    BY <1>1 DEF QueueInv
  <2> QED
    BY <2>1, <2>2, <2>3, Zenon
<1>3. ASSUME NEW e \in r PROVE InQueue(q, e)
  <2>1. ~Taken(<< >>, e)
    BY TakenTuples
  <2> QED
    BY <1>2, <2>1 DEF QueueOk, Covered, AddsNow
<1>4. CASE calls \in SectionCalls /\ \A k \in DOMAIN calls : calls[k].op # "NvPushPendingSave"
  <2>1. q \in Seq(Entry \union {ALL}) /\ IsInjective(q) /\ Len(q) <= gNvPendingSavesQueueSize_c /\ r \subseteq Entry
    BY <1>2 DEF QueueOk
  <2>2. QueueOk(calls, q, r) /\ Section(calls, q, r)
    BY <1>3, <1>4, <2>1, SectionOk
  <2>3. QueueOk(todo', mNvPendingSavesQueue', requested') /\ Section(todo', mNvPendingSavesQueue', requested')
    BY <1>1, <1>2, <2>2, Zenon
  <2> QED
    BY <1>2, <2>3 DEF QueueInv
<1>5. CASE mNvCriticalSectionFlag = 0 /\ Plain(calls, Call("NvIdle"))
  <2>1. QueueOk(calls, q, r)
    BY <1>2, <1>3, <1>5, NewCall
  <2>2. QueueOk(todo', mNvPendingSavesQueue', requested')
    BY <1>1, <1>2, <2>1, Zenon
  <2> QED
    BY <1>2, <1>5, <2>2 DEF QueueInv
<1> QED
  BY <1>4, <1>5

LEMMA CallsQueue ==
    ASSUME QueueInv, FlashInv,
           \/ \E e \in Entry, v \in Value : CallSave(e, v)
           \/ CallNvAtomicSave \/ CallNvIdle \/ CallNvCompletePendingOperations \/ CallNvShutdown \/ CallNvFormat
    PROVE  QueueInv'
<1>1. ASSUME NEW o, SectionOp(o), o.op # "NvPushPendingSave", Enter(<<o>>)
      PROVE  QueueInv'
  <2>1. <<o>> \in SectionCalls
    BY <1>1, SectionShape
  <2>2. PICK c : c = <<o>>
    OBVIOUS
  <2>3. \A k \in DOMAIN c : c[k] = o
    BY <2>2
  <2>4. c \in SectionCalls /\ Enter(c)
    BY <1>1, <2>1, <2>2
  <2> QED
    BY <1>1, <2>3, <2>4, NewCallQueue
<1>2. ASSUME NEW e \in Entry, NEW v, CallSave(e, v)
      PROVE  QueueInv'
  <2>1. PICK o : o \in {SyncSave(e, e), CallFor("NvAddSaveRequestToQueue", e)} /\ Enter(<<o>>)
    BY <1>2 DEF CallSave, Saves
  <2>2. SectionOp(o) /\ o.op # "NvPushPendingSave"
    BY <2>1 DEF SectionOp, SyncSave, CallFor
  <2> QED
    BY <1>1, <2>1, <2>2
<1>3. ASSUME NEW name \in {"NvAtomicSave", "NvIdle", "NvShutdown"}, Enter(<<Call(name)>>)
      PROVE  QueueInv'
  <2>1. SectionOp(Call(name)) /\ Call(name).op # "NvPushPendingSave"
    BY DEF SectionOp, Call
  <2> QED
    BY <1>1, <1>3, <2>1
<1>4. CASE CallNvAtomicSave \/ CallNvIdle \/ CallNvShutdown
  BY <1>3, <1>4 DEF CallNvAtomicSave, CallNvIdle, CallNvShutdown, Saves
<1>5. CASE CallNvCompletePendingOperations
  <2>1. PICK c : c = <<Call("NvIdle"), Call("NvCompletePendingOperations")>>
    OBVIOUS
  <2>2. Enter(c)
    BY <1>5, <2>1 DEF CallNvCompletePendingOperations
  <2>3. c \in SectionCalls
    BY <2>1, SectionShape
  <2>4. \A k \in DOMAIN c : c[k].op # "NvPushPendingSave"
    BY <2>1 DEF Call
  <2> QED
    BY <2>2, <2>3, <2>4, NewCallQueue
<1>6. CASE CallNvFormat
  <2>1. PICK a, b, c : a = InternalFormat(flash[mNvActivePageId][0].n) /\ b = Call("formatted") /\ c = <<a, b>>
    OBVIOUS
  <2>2. Enter(c) /\ mNvCriticalSectionFlag = 0
    BY <1>6, <2>1 DEF CallNvFormat, Saves
  <2>3. PlainOp(a, Call("NvIdle")) /\ PlainOp(b, Call("NvIdle"))
    BY <2>1, PlainOps
  <2>4. Plain(c, Call("NvIdle"))
    BY <2>1, <2>3, PlainTuples
  <2> QED
    BY <2>2, <2>4, NewCallQueue
<1> QED
  BY <1>2, <1>4, <1>5, <1>6

LEMMA StartQueue ==
    ASSUME QueueInv, FlashInv, PowerLoss \/ NvModuleInit
    PROVE  QueueInv'
<1>1. CASE PowerLoss
  <2>1. todo' = << >> /\ mNvPendingSavesQueue' = << >> /\ requested' = {} /\ mNvCriticalSectionFlag' = 0
    BY <1>1 DEF PowerLoss
  <2>2. QueueOk(todo', mNvPendingSavesQueue', requested')
    BY <2>1, QueueEmpty, Zenon
  <2> QED
    BY <2>1, <2>2 DEF QueueInv
<1>2. CASE NvModuleInit
  <2>1. /\ boot = "off" /\ UNCHANGED <<mNvPendingSavesQueue, requested, mNvCriticalSectionFlag>>
        /\ todo' \in {<<InternalFormat(0), Call("init")>>, <<Call("init")>>}
    BY <1>2 DEF NvModuleInit
  <2>2. mNvCriticalSectionFlag = 0
    BY <2>1 DEF QueueInv
  <2>3. requested = {}
    BY <2>1 DEF FlashInv, BootOk
  <2>4. PICK a, b, q, s, u : a = InternalFormat(0) /\ b = Call("init") /\ q = mNvPendingSavesQueue /\ s = todo /\ u = todo'
    OBVIOUS
  <2>5. PlainOp(a, Call("NvIdle")) /\ PlainOp(b, Call("NvIdle"))
    BY <2>4, PlainOps
  <2>6. Plain(<<a, b>>, Call("NvIdle")) /\ Plain(<<b>>, Call("NvIdle"))
    BY <2>5, PlainTuples
  <2>7. Plain(u, Call("NvIdle"))
    BY <2>1, <2>4, <2>6, Zenon
  <2>8. PICK r : r = requested
    OBVIOUS
  <2>9. QueueOk(s, q, r) /\ r = {}
    BY <2>3, <2>4, <2>8 DEF QueueInv
  <2>10. QueueOk(u, q, r)
    BY <2>7, <2>9, NewCall
  <2>11. QueueOk(todo', mNvPendingSavesQueue', requested')
    BY <2>1, <2>4, <2>8, <2>10, Zenon
  <2> QED
    BY <2>1, <2>2, <2>11 DEF QueueInv
<1> QED
  BY <1>1, <1>2

LEMMA SectionsQueue ==
    ASSUME QueueInv, FlashInv, NoSectionInCall,
           \/ \E e \in Entry : NvRestoreDataSet(e)
           \/ NvSetCriticalSection \/ NvClearCriticalSection \/ UNCHANGED vars
    PROVE  QueueInv'
<1>1. CASE (\E e \in Entry : NvRestoreDataSet(e)) \/ UNCHANGED vars
  <2>1. UNCHANGED <<todo, mNvPendingSavesQueue, requested, boot, mNvCriticalSectionFlag>>
    BY <1>1 DEF NvRestoreDataSet, vars, ramState
  <2> QED
    BY <2>1, Zenon DEF QueueInv
<1>2. CASE NvClearCriticalSection
  <2>1. mNvCriticalSectionFlag # 0 /\ UNCHANGED <<todo, mNvPendingSavesQueue, requested, boot>>
    BY <1>2 DEF NvClearCriticalSection, ramState
  <2>2. boot = "ok" /\ Section(todo, mNvPendingSavesQueue, requested)
    BY <2>1 DEF QueueInv
  <2> QED
    BY <2>1, <2>2, Zenon DEF QueueInv
<1>3. CASE NvSetCriticalSection
  <2>1. boot = "ok" /\ todo = << >> /\ UNCHANGED <<todo, mNvPendingSavesQueue, requested, boot>>
    BY <1>3 DEF NvSetCriticalSection, NoSectionInCall, ramState
  <2>2. PICK q, r : q = mNvPendingSavesQueue /\ r = requested
    OBVIOUS
  <2>3. QueueOk(<< >>, q, r)
    BY <2>1, <2>2, Zenon DEF QueueInv
  <2>4. ASSUME NEW e \in r PROVE InQueue(q, e)
    <3>1. ~Taken(<< >>, e)
      BY TakenTuples
    <3> QED
      BY <2>3, <3>1 DEF QueueOk, Covered, AddsNow
  <2>5. << >> \in SectionCalls
    BY SectionShape
  <2>6. Section(<< >>, q, r)
    BY <2>4, <2>5 DEF Section
  <2>7. /\ QueueOk(todo', mNvPendingSavesQueue', requested') /\ Section(todo', mNvPendingSavesQueue', requested')
        /\ boot' = "ok"
    BY <2>1, <2>2, <2>3, <2>6, Zenon
  <2> QED
    BY <2>7 DEF QueueInv
<1> QED
  BY <1>1, <1>2, <1>3

LEMMA QueueKept ==
    ASSUME QueueInv, FlashInv, NoSectionInCall, [Next]_vars
    PROVE  QueueInv'
<1>1. \/ Step
      \/ PowerLoss \/ NvModuleInit
      \/ \E e \in Entry, v \in Value : CallSave(e, v)
      \/ CallNvAtomicSave \/ CallNvIdle \/ CallNvCompletePendingOperations \/ CallNvShutdown \/ CallNvFormat
      \/ \E e \in Entry : NvRestoreDataSet(e)
      \/ NvSetCriticalSection \/ NvClearCriticalSection \/ UNCHANGED vars
  BY Zenon DEF Next
<1>2. CASE Step
  BY <1>2, StepKeepsQueue, SectionStep
<1>3. CASE PowerLoss \/ NvModuleInit
  BY <1>3, StartQueue
<1>4. CASE \/ \E e \in Entry, v \in Value : CallSave(e, v)
           \/ CallNvAtomicSave \/ CallNvIdle \/ CallNvCompletePendingOperations \/ CallNvShutdown \/ CallNvFormat
  BY <1>4, CallsQueue
<1>5. CASE \/ \E e \in Entry : NvRestoreDataSet(e)
           \/ NvSetCriticalSection \/ NvClearCriticalSection \/ UNCHANGED vars
  BY <1>5, SectionsQueue
<1> QED
  BY <1>1, <1>2, <1>3, <1>4, <1>5, Zenon

(* The inductive invariant of the queue.                                   *)
THEOREM QueueInvariant ==
    ASSUME NoFormatWhileErasing, NoSectionInCall
    PROVE  Spec => []QueueInv
<1>1. Init => QueueInv
  <2>1. SUFFICES ASSUME Init PROVE QueueInv
    OBVIOUS
  <2>2. todo = << >> /\ mNvPendingSavesQueue = << >> /\ requested = {} /\ mNvCriticalSectionFlag = 0
    BY <2>1 DEF Init
  <2>3. QueueOk(todo, mNvPendingSavesQueue, requested)
    BY <2>2, QueueEmpty, Zenon
  <2> QED
    BY <2>2, <2>3 DEF QueueInv
<1>2. QueueInv /\ FlashInv /\ [Next]_vars => QueueInv'
  BY QueueKept
<1>3. Spec => []FlashInv
  BY FlashInvariant
<1> QED
  BY <1>1, <1>2, <1>3, PTL DEF Spec

(* An idle save that was accepted is queued, or the call that runs is      *)
(* about to make it, until its record is written (mNvPendingSavesQueue,    *)
(* NvAddSaveRequestToQueue, __NvIdle).                                     *)
THEOREM AcceptedSavesKept ==
    ASSUME NoFormatWhileErasing, NoSectionInCall
    PROVE  Spec => []RequestsKept
<1>1. QueueInv => RequestsKept
  <2>1. SUFFICES ASSUME QueueInv, NEW e \in requested
                 PROVE  \/ {e, ALL} \intersect ToSet(mNvPendingSavesQueue) # {}
                        \/ \E k \in DOMAIN todo :
                             \/ todo[k].op = "NvAtomicSave"
                             \/ todo[k].op = "NvSyncSave" /\ e \in todo[k].entry .. todo[k].last
                             \/ /\ todo[k].op \in {"NvAddSaveRequestToQueue", "NvWriteRecord", "written", "erase old page"}
                                /\ todo[k].entry = e
                             \/ todo[k].op = "formatted"
    BY DEF RequestsKept
  <2>2. Covered(todo, mNvPendingSavesQueue, e) /\ Stack(todo)
    BY <2>1 DEF QueueInv, QueueOk
  <2>3. CASE InQueue(mNvPendingSavesQueue, e)
    BY <2>3 DEF InQueue
  <2>4. CASE Taken(todo, e)
    <3>1. PICK k \in DOMAIN todo : Takes(todo[k], e)
      BY <2>4 DEF Taken
    <3> QED
      BY <3>1 DEF Takes
  <2>5. CASE AddsNow(todo, mNvPendingSavesQueue, e)
    <3>1. todo # << >> /\ Head(todo).op = "NvAddSaveRequestToQueue" /\ Head(todo).entry = e
      BY <2>5 DEF AddsNow
    <3>2. 1 \in DOMAIN todo /\ Head(todo) = todo[1]
      BY <2>2, <3>1, StackTail
    <3> QED
      BY <3>1, <3>2
  <2> QED
    BY <2>2, <2>3, <2>4, <2>5 DEF Covered
<1>2. Spec => []QueueInv
  BY QueueInvariant
<1> QED
  BY <1>1, <1>2, PTL

-----------------------------------------------------------------------------
(* Types.                                                                  *)
Bounds ==
    /\ losses \in 0 .. MAX_LOSS /\ criticals \in 0 .. MAX_CRITICAL /\ mNvCriticalSectionFlag <= criticals
    /\ mNvModuleInitialized => mNvActivePageId \in Page

LEMMA StepBounds ==
    ASSUME Bounds, FlashInv, Step
    PROVE  Bounds'
<1>1. UNCHANGED <<losses, criticals, mNvCriticalSectionFlag>>
  <2>1. CASE FlashErase \/ FlashProgram \/ NvWriteRecord \/ NvWriteRecord_written \/ NvCopyPage \/ NvInternalCopy
    BY <2>1 DEF FlashErase, FlashProgram, NvWriteRecord, NvWriteRecord_written, NvCopyPage, NvInternalCopy, bounds
  <2>2. CASE NvCopyPage_switch \/ Copied \/ NvSyncSave_copied \/ NvSyncSave_erased \/ NvInternalFormat
    BY <2>2 DEF NvCopyPage_switch, Copied, NvSyncSave_copied, NvSyncSave_erased, NvInternalFormat, bounds
  <2>3. CASE NvUpdateLastMetaInfoAddress \/ NvModuleInit_init \/ NvModuleInit_return \/ NvAddSaveRequestToQueue
               \/ NvPushPendingSave
    BY <2>3 DEF NvUpdateLastMetaInfoAddress, NvModuleInit_init, NvModuleInit_return, NvAddSaveRequestToQueue,
                NvPushPendingSave, bounds
  <2>4. CASE NvProcessFirstSaveInQueue \/ NvSyncSave \/ NvAtomicSave \/ NvIdle \/ NvIdle_erase
    BY <2>4 DEF NvProcessFirstSaveInQueue, NvSyncSave, NvAtomicSave, NvIdle, NvIdle_erase, bounds
  <2>5. CASE NvIdle_saves \/ NvCompletePendingOperations \/ NvShutdown \/ NvFormat_formatted
    BY <2>5 DEF NvIdle_saves, NvCompletePendingOperations, NvShutdown, NvFormat_formatted, bounds
  <2> QED
    BY <2>1, <2>2, <2>3, <2>4, <2>5 DEF Step
<1>2. mNvModuleInitialized' => mNvActivePageId' \in Page
  <2>1. CASE NvCopyPage_switch
    <3>1. todo # << >> /\ Head(todo).op = "copy records" /\ mNvActivePageId' = OtherPage
      BY <2>1 DEF NvCopyPage_switch, Running
    <3>2. AtCopy
      BY <3>1, PhaseOf DEF FlashInv, QuietNames
    <3>3. mNvActivePageId \in Page
      BY <3>2 DEF AtCopy, RamOk
    <3> QED
      BY <3>1, <3>3, Other
  <2>2. CASE NvInternalFormat
    BY <2>2 DEF NvInternalFormat, Page
  <2>3. CASE NvModuleInit_init
    <3>1. todo # << >> /\ Head(todo).op = "init" /\ mNvActivePageId' = mNvActivePageId
      BY <2>3 DEF NvModuleInit_init, Running
    <3>2. AtInit
      BY <3>1, PhaseOf DEF FlashInv, QuietNames
    <3> QED
      BY <3>1, <3>2 DEF AtInit
  <2>4. CASE UNCHANGED <<mNvModuleInitialized, mNvActivePageId>>
    BY <2>4, Zenon DEF Bounds
  <2>5. CASE FlashErase \/ FlashProgram \/ NvWriteRecord \/ NvWriteRecord_written \/ NvCopyPage \/ NvInternalCopy
    BY <2>4, <2>5 DEF FlashErase, FlashProgram, NvWriteRecord, NvWriteRecord_written, NvCopyPage, NvInternalCopy, ramState
  <2>6. CASE Copied \/ NvSyncSave_copied \/ NvSyncSave_erased \/ NvUpdateLastMetaInfoAddress
    BY <2>4, <2>6 DEF Copied, NvSyncSave_copied, NvSyncSave_erased, NvUpdateLastMetaInfoAddress
  <2>7. CASE NvModuleInit_return \/ NvAddSaveRequestToQueue \/ NvPushPendingSave \/ NvProcessFirstSaveInQueue
    BY <2>4, <2>7 DEF NvModuleInit_return, NvAddSaveRequestToQueue, NvPushPendingSave, NvProcessFirstSaveInQueue, ramState
  <2>8. CASE NvSyncSave \/ NvAtomicSave \/ NvIdle \/ NvIdle_erase \/ NvIdle_saves
    BY <2>4, <2>8 DEF NvSyncSave, NvAtomicSave, NvIdle, NvIdle_erase, NvIdle_saves, ramState
  <2>9. CASE NvCompletePendingOperations \/ NvShutdown \/ NvFormat_formatted
    BY <2>4, <2>9 DEF NvCompletePendingOperations, NvShutdown, NvFormat_formatted, ramState
  <2> QED
    BY <2>1, <2>2, <2>3, <2>5, <2>6, <2>7, <2>8, <2>9 DEF Step
<1> QED
  BY <1>1, <1>2 DEF Bounds

LEMMA BoundsKept ==
    ASSUME Bounds, FlashInv, [Next]_vars
    PROVE  Bounds'
<1>1. MAX_LOSS \in Nat /\ MAX_CRITICAL \in Nat
  BY NvStorageAssumption
<1>2. CASE Step
  BY <1>2, StepBounds
<1>3. mNvCriticalSectionFlag \in Nat
  BY DEF FlashInv, Types
<1>4. CASE PowerLoss
  BY <1>4, <1>1 DEF PowerLoss, Bounds
<1>5. CASE NvModuleInit
  <2>1. ~mNvModuleInitialized /\ UNCHANGED <<losses, criticals, mNvCriticalSectionFlag, mNvModuleInitialized>>
    BY <1>5 DEF NvModuleInit, FlashInv, BootOk, bounds
  <2> QED
    BY <2>1 DEF Bounds
<1>6. CASE NvSetCriticalSection
  <2>1. /\ criticals < MAX_CRITICAL /\ mNvCriticalSectionFlag' = mNvCriticalSectionFlag + 1 /\ criticals' = criticals + 1
        /\ UNCHANGED <<losses, mNvModuleInitialized, mNvActivePageId>>
    BY <1>6 DEF NvSetCriticalSection, ramState
  <2> QED
    BY <1>3, <1>1, <2>1 DEF Bounds
<1>7. CASE NvClearCriticalSection
  BY <1>3, <1>7 DEF NvClearCriticalSection, Bounds, ramState, bounds
<1>8. ASSUME UNCHANGED <<losses, criticals, mNvCriticalSectionFlag, mNvModuleInitialized, mNvActivePageId>>
      PROVE  Bounds'
  BY <1>8, Zenon DEF Bounds
<1>9. ASSUME NEW calls, Enter(calls) PROVE Bounds'
  BY <1>8, <1>9 DEF Enter, ramState, bounds
<1>10. CASE \/ \E e \in Entry, v \in Value : CallSave(e, v)
           \/ CallNvAtomicSave \/ CallNvIdle \/ CallNvCompletePendingOperations \/ CallNvShutdown \/ CallNvFormat
  <2>1. CASE \E e \in Entry, v \in Value : CallSave(e, v)
    BY <1>9, <2>1 DEF CallSave, Saves
  <2>2. CASE CallNvAtomicSave \/ CallNvIdle \/ CallNvCompletePendingOperations \/ CallNvShutdown \/ CallNvFormat
    BY <1>9, <2>2 DEF CallNvAtomicSave, CallNvIdle, CallNvCompletePendingOperations, CallNvShutdown, CallNvFormat, Saves
  <2> QED
    BY <1>10, <2>1, <2>2
<1>11. CASE (\E e \in Entry : NvRestoreDataSet(e)) \/ UNCHANGED vars
  BY <1>8, <1>11 DEF NvRestoreDataSet, vars, ramState, bounds
<1>12. \/ Step
       \/ PowerLoss \/ NvModuleInit
       \/ \E e \in Entry, v \in Value : CallSave(e, v)
       \/ CallNvAtomicSave \/ CallNvIdle \/ CallNvCompletePendingOperations \/ CallNvShutdown \/ CallNvFormat
       \/ \E e \in Entry : NvRestoreDataSet(e)
       \/ NvSetCriticalSection \/ NvClearCriticalSection \/ UNCHANGED vars
  BY Zenon DEF Next
<1> QED
  BY <1>2, <1>4, <1>5, <1>6, <1>7, <1>10, <1>11, <1>12, Zenon

(* Types of the storage: among them that every meta on a page describes a  *)
(* record inside it, that the queue of idle saves never holds a request    *)
(* twice, nor more of them than it has room for.                           *)
THEOREM Typing ==
    ASSUME NoFormatWhileErasing, NoSectionInCall
    PROVE  Spec => []TypeOK
<1>1. Init => Bounds
  BY NvStorageAssumption DEF Init, Bounds
<1>2. Bounds /\ FlashInv /\ [Next]_vars => Bounds'
  BY BoundsKept
<1>3. Spec => []FlashInv
  BY FlashInvariant
<1>4. Spec => []Bounds
  BY <1>1, <1>2, <1>3, PTL DEF Spec
<1>5. Bounds /\ FlashInv /\ QueueInv => TypeOK
  <2>1. SUFFICES ASSUME Bounds, FlashInv, QueueInv PROVE TypeOK
    OBVIOUS
  <2>2. Types
    BY <2>1 DEF FlashInv
  <2>3. /\ DOMAIN flash = Page /\ \A p \in Page : DOMAIN flash[p] = Cell
        /\ \A p \in Page, a \in Cell : Is(flash[p][a], "meta") =>
              flash[p][a].entry \in Entry /\ flash[p][a].offset \in a + 1 .. Bottom - pNVM_DataTable[flash[p][a].entry]
    <3>1. FlashTypes(flash)
      BY <2>2 DEF Types
    <3>2. DOMAIN flash = Page /\ \A p \in Page : DOMAIN flash[p] = Cell
      BY <3>1 DEF FlashTypes
    <3>3. \A p \in Page, a \in Cell : MetaOk(flash[p][a], a)
      BY <3>1 DEF FlashTypes
    <3> QED
      BY <3>2, <3>3, Zenon DEF MetaOk, Size
  <2>4. /\ mNvPendingSavesQueue \in Seq(Entry \union {ALL}) /\ IsInjective(mNvPendingSavesQueue)
        /\ Len(mNvPendingSavesQueue) <= gNvPendingSavesQueueSize_c /\ requested \subseteq Entry
    BY <2>1 DEF QueueInv, QueueOk
  <2>5. mNvCriticalSectionFlag \in 0 .. MAX_CRITICAL
    BY <2>1, <2>2, NvStorageAssumption DEF Types, Bounds
  <2>6. /\ mNvActivePageId \in Page \union {gVirtualPageNone_c}
        /\ mNvModuleInitialized => mNvActivePageId \in Page
        /\ mNvPageCounter \in Nat
        /\ NvLastMetaInfoAddress \in [Page -> gEmptyPageMetaAddress_c .. Bottom - 1]
        /\ mNvCopyOperationIsPending \in BOOLEAN
        /\ mNvErasePgCmdStatus \in [pending : BOOLEAN, page : Page, sector : 0 .. SECTORS]
        /\ mNvModuleInitialized \in BOOLEAN /\ ram \in [Entry -> Value] /\ boot \in {"off", "NvModuleInit", "ok"}
        /\ losses \in 0 .. MAX_LOSS /\ criticals \in 0 .. MAX_CRITICAL
    BY <2>1, <2>2, Zenon DEF Types, Bounds, gEmptyPageMetaAddress_c
  <2> QED
    BY <2>3, <2>4, <2>5, <2>6, Zenon DEF TypeOK
<1>6. Spec => []QueueInv
  BY QueueInvariant
<1> QED
  BY <1>3, <1>4, <1>5, <1>6, PTL
=============================================================================
