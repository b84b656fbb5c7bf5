----------------------------- MODULE MemManager -----------------------------
(***************************************************************************)
(* The memory manager, the generic list and the messaging layer of the     *)
(* connectivity framework.  Buffers of fixed sizes lie in pools; a buffer  *)
(* is preceded by a list element that links it into the free list of its   *)
(* pool, into a message queue, or nowhere while a task holds it.  Tasks    *)
(* and interrupts call the operations; what runs with interrupts disabled  *)
(* is one step.  ListRemoveElement and ListAddPrevElement look at the      *)
(* element's list before they disable interrupts and are two steps.        *)
(***************************************************************************)
EXTENDS Naturals, FiniteSets, Sequences

CONSTANTS
    Task,           \* tasks and interrupts that use buffers
    Buffer,
    poolInfo,       \* sequence of pools: blockSize, poolId, blocks (a sequence of buffers)
    Queue,          \* message queues (ListInitMsg: no limit)
    Consumers,      \* tasks that take messages out of a queue
    MAX_HELD,       \* bound on the buffers one task holds
    NoTask, NULL

Pool == DOMAIN poolInfo
List == Pool \union Queue
Blocks(p) == {poolInfo[p].blocks[k] : k \in DOMAIN poolInfo[p].blocks}

ASSUME MemManagerAssumption ==
    /\ poolInfo \in Seq([blockSize : Nat \ {0}, poolId : Nat, blocks : Seq(Buffer)])
    /\ Buffer = UNION {Blocks(p) : p \in Pool}
    /\ \A p, q \in Pool : p # q => Blocks(p) \intersect Blocks(q) = {}
    /\ \A p \in Pool : Cardinality(Blocks(p)) = Len(poolInfo[p].blocks)
    /\ \A p, q \in Pool : p < q => poolInfo[p].blockSize <= poolInfo[q].blockSize
    /\ Consumers \in [Queue -> SUBSET Task]
    /\ Pool \intersect Queue = {} /\ NULL \notin List \union Buffer /\ NoTask \notin Task
    /\ MAX_HELD \in Nat

VARIABLES
    head, tail, size,       \* list_t of each list
    next, prev, list,       \* listElement_t of each buffer
    gFreeMessagesCount,
    allocatedBlocks,
    task,                   \* a call that has looked at the element and not yet changed the list
    holder                  \* history: the task a buffer was handed to

links == <<head, tail, size, next, prev, list>>
vars == <<links, gFreeMessagesCount, allocatedBlocks, task, holder>>

ParentPool(b) == CHOOSE p \in Pool : b \in Blocks(p)
Held(t) == {b \in Buffer : holder[b] = t}
Idle == [pc |-> "idle", element |-> NULL, new |-> NULL]

(* Position of a block in the free list that MEM_Init builds. *)
Position(b) == CHOOSE k \in DOMAIN poolInfo[ParentPool(b)].blocks : poolInfo[ParentPool(b)].blocks[k] = b

Init ==
    /\ size = [l \in List |-> IF l \in Pool THEN Len(poolInfo[l].blocks) ELSE 0]
    /\ head = [l \in List |-> IF size[l] > 0 THEN poolInfo[l].blocks[1] ELSE NULL]
    /\ tail = [l \in List |-> IF size[l] > 0 THEN poolInfo[l].blocks[size[l]] ELSE NULL]
    /\ next = [b \in Buffer |-> LET s == poolInfo[ParentPool(b)].blocks IN
                                IF Position(b) = Len(s) THEN NULL ELSE s[Position(b) + 1]]
    /\ prev = [b \in Buffer |-> LET s == poolInfo[ParentPool(b)].blocks IN
                                IF Position(b) = 1 THEN NULL ELSE s[Position(b) - 1]]
    /\ list = [b \in Buffer |-> ParentPool(b)]
    /\ gFreeMessagesCount = Cardinality(Buffer)
    /\ allocatedBlocks = [p \in Pool |-> 0]
    /\ task = [t \in Task |-> Idle]
    /\ holder = [b \in Buffer |-> NoTask]

-----------------------------------------------------------------------------
(* GenericList.c, the parts with interrupts disabled. *)

(* Mutant: the element keeps the backward link it had. *)
AddTail_noprev(l, b) ==
    /\ head' = IF size[l] = 0 THEN [head EXCEPT ![l] = b] ELSE head
    /\ next' = [n \in Buffer |-> IF n = b THEN NULL ELSE IF size[l] > 0 /\ n = tail[l] THEN b ELSE next[n]]
    /\ prev' = prev
    /\ list' = [list EXCEPT ![b] = l]
    /\ tail' = [tail EXCEPT ![l] = b]
    /\ size' = [size EXCEPT ![l] = @ + 1]

ListAddTail(l, b) ==
    /\ head' = IF size[l] = 0 THEN [head EXCEPT ![l] = b] ELSE head
    /\ next' = [n \in Buffer |-> IF n = b THEN NULL ELSE IF size[l] > 0 /\ n = tail[l] THEN b ELSE next[n]]
    /\ prev' = [prev EXCEPT ![b] = tail[l]]
    /\ list' = [list EXCEPT ![b] = l]
    /\ tail' = [tail EXCEPT ![l] = b]
    /\ size' = [size EXCEPT ![l] = @ + 1]

ListAddHead(l, b) ==
    /\ tail' = IF size[l] = 0 THEN [tail EXCEPT ![l] = b] ELSE tail
    /\ prev' = [n \in Buffer |-> IF n = b THEN NULL ELSE IF size[l] > 0 /\ n = head[l] THEN b ELSE prev[n]]
    /\ next' = [next EXCEPT ![b] = head[l]]
    /\ list' = [list EXCEPT ![b] = l]
    /\ head' = [head EXCEPT ![l] = b]
    /\ size' = [size EXCEPT ![l] = @ + 1]

(* The links of the element that leaves stay as they are. *)
ListRemoveHead(l) ==
    LET b == head[l] IN
    /\ size' = [size EXCEPT ![l] = @ - 1]
    /\ tail' = IF size[l] = 1 THEN [tail EXCEPT ![l] = NULL] ELSE tail
    /\ prev' = IF size[l] = 1 THEN prev ELSE [prev EXCEPT ![next[b]] = NULL]
    /\ head' = [head EXCEPT ![l] = next[b]]
    /\ list' = [list EXCEPT ![b] = NULL]
    /\ next' = next

(* Mutant: an element at the tail leaves the tail pointer alone. *)
Remove_keeps_tail(b) ==
    LET l == list[b] IN
    /\ head' = IF prev[b] = NULL THEN [head EXCEPT ![l] = next[b]] ELSE head
    /\ tail' = tail
    /\ next' = IF prev[b] # NULL THEN [next EXCEPT ![prev[b]] = next[b]] ELSE next
    /\ prev' = IF next[b] # NULL THEN [prev EXCEPT ![next[b]] = prev[b]] ELSE prev
    /\ size' = [size EXCEPT ![l] = @ - 1]
    /\ list' = [list EXCEPT ![b] = NULL]

ListRemoveElement(b) ==
    LET l == list[b] IN
    /\ head' = IF prev[b] = NULL THEN [head EXCEPT ![l] = next[b]] ELSE head
    /\ tail' = IF next[b] = NULL THEN [tail EXCEPT ![l] = prev[b]] ELSE tail
    /\ next' = IF prev[b] # NULL THEN [next EXCEPT ![prev[b]] = next[b]] ELSE next
    /\ prev' = IF next[b] # NULL THEN [prev EXCEPT ![next[b]] = prev[b]] ELSE prev
    /\ size' = [size EXCEPT ![l] = @ - 1]
    /\ list' = [list EXCEPT ![b] = NULL]

ListAddPrevElement(e, b) ==
    LET l == list[e] IN
    /\ head' = IF prev[e] = NULL THEN [head EXCEPT ![l] = b] ELSE head
    /\ next' = [n \in Buffer |-> IF n = b THEN e ELSE IF n = prev[e] THEN b ELSE next[n]]
    /\ prev' = [prev EXCEPT ![b] = prev[e], ![e] = b]
    /\ list' = [list EXCEPT ![b] = l]
    /\ size' = [size EXCEPT ![l] = @ + 1]
    /\ tail' = tail

-----------------------------------------------------------------------------
(***************************************************************************)
(* The pool that MEM_BufferAllocWithId takes its block from, 0 when it     *)
(* returns NULL: fit[p][n] is the answer of the loop when it stands at     *)
(* pool p with n bytes to satisfy.                                         *)
(***************************************************************************)
nextBlockSize(p) == IF p = Len(poolInfo) THEN 0 ELSE poolInfo[p + 1].blockSize

(* Mutant: an empty pool ends the search. *)
PoolFor_first(numBytes, poolId) ==
    LET fits == {p \in Pool : numBytes <= poolInfo[p].blockSize /\ poolInfo[p].poolId = poolId}
        first == CHOOSE p \in fits : \A q \in fits : p <= q
    IN IF fits = {} THEN 0 ELSE IF size[first] = 0 THEN 0 ELSE first

PoolFor(numBytes, poolId) ==
    LET fit[p \in 1 .. Len(poolInfo) + 1] ==
            [n \in {numBytes} \union {poolInfo[q].blockSize : q \in Pool} |->
                IF p \notin Pool THEN 0
                ELSE IF ~(n <= poolInfo[p].blockSize /\ poolInfo[p].poolId = poolId) THEN fit[p + 1][n]
                ELSE IF size[p] > 0 THEN p
                ELSE IF n > nextBlockSize(p) THEN 0
                ELSE fit[p + 1][nextBlockSize(p)]]
    IN fit[1][numBytes]

MEM_BufferAllocWithId(t, numBytes, poolId) ==
    /\ task[t].pc = "idle" /\ Cardinality(Held(t)) < MAX_HELD
    /\ LET p == PoolFor(numBytes, poolId) IN
       IF p = 0 THEN UNCHANGED vars
       ELSE /\ holder' = [holder EXCEPT ![head[p]] = t]
            /\ ListRemoveHead(p)
            /\ gFreeMessagesCount' = gFreeMessagesCount - 1
            /\ allocatedBlocks' = [allocatedBlocks EXCEPT ![p] = @ + 1]
            /\ task' = task

(* A buffer the task holds, or one that it freed or queued already and     *)
(* that is still in a list: that one is refused.                           *)
MEM_BufferFree(t, b) ==
    /\ task[t].pc = "idle"
    /\ holder[b] = t \/ list[b] # NULL
    /\ IF list[b] # NULL THEN UNCHANGED vars
       ELSE /\ gFreeMessagesCount' = gFreeMessagesCount + 1
            /\ ListAddTail(ParentPool(b), b)
            /\ allocatedBlocks' = [allocatedBlocks EXCEPT ![ParentPool(b)] = @ - 1]
            /\ holder' = [holder EXCEPT ![b] = NoTask]
            /\ task' = task

-----------------------------------------------------------------------------
(* Messaging.c: MSG_Queue, MSG_QueueHead, MSG_DeQueue. *)
ListAddTailMsg(t, q, b) ==
    /\ task[t].pc = "idle" /\ holder[b] = t
    /\ ListAddTail(q, b)
    /\ holder' = [holder EXCEPT ![b] = NoTask]
    /\ UNCHANGED <<gFreeMessagesCount, allocatedBlocks, task>>

ListAddHeadMsg(t, q, b) ==
    /\ task[t].pc = "idle" /\ holder[b] = t
    /\ ListAddHead(q, b)
    /\ holder' = [holder EXCEPT ![b] = NoTask]
    /\ UNCHANGED <<gFreeMessagesCount, allocatedBlocks, task>>

ListRemoveHeadMsg(t, q) ==
    /\ task[t].pc = "idle" /\ t \in Consumers[q] /\ Cardinality(Held(t)) < MAX_HELD
    /\ size[q] > 0
    /\ holder' = [holder EXCEPT ![head[q]] = t]
    /\ ListRemoveHead(q)
    /\ UNCHANGED <<gFreeMessagesCount, allocatedBlocks, task>>

(* ListRemoveMsg and ListAddPrevMsg: the orphan test, then the change.  A  *)
(* consumer applies them to messages of its queue.  The change does not    *)
(* look again: on an element that has left its list meanwhile it writes    *)
(* through a null pointer, which the model has no successor for.           *)
FoundInQueue(t, b) == list[b] \in Queue /\ t \in Consumers[list[b]]

ListRemoveMsg(t, b) ==
    /\ task[t].pc = "idle" /\ Cardinality(Held(t)) < MAX_HELD
    /\ FoundInQueue(t, b)
    /\ task' = [task EXCEPT ![t] = [Idle EXCEPT !.pc = "remove", !.element = b]]
    /\ UNCHANGED <<links, gFreeMessagesCount, allocatedBlocks, holder>>

ListRemoveMsg_change(t) ==
    /\ task[t].pc = "remove"
    /\ list[task[t].element] # NULL
    /\ ListRemoveElement(task[t].element)
    /\ holder' = [holder EXCEPT ![task[t].element] = t]
    /\ task' = [task EXCEPT ![t] = Idle]
    /\ UNCHANGED <<gFreeMessagesCount, allocatedBlocks>>

ListAddPrevMsg(t, e, b) ==
    /\ task[t].pc = "idle" /\ holder[b] = t
    /\ FoundInQueue(t, e)
    /\ task' = [task EXCEPT ![t] = [pc |-> "addprev", element |-> e, new |-> b]]
    /\ UNCHANGED <<links, gFreeMessagesCount, allocatedBlocks, holder>>

ListAddPrevMsg_change(t) ==
    /\ task[t].pc = "addprev"
    /\ list[task[t].element] # NULL
    /\ ListAddPrevElement(task[t].element, task[t].new)
    /\ holder' = [holder EXCEPT ![task[t].new] = NoTask]
    /\ task' = [task EXCEPT ![t] = Idle]
    /\ UNCHANGED <<gFreeMessagesCount, allocatedBlocks>>

(* MSG_FreeQueue: while a message is pending it is dequeued and freed;     *)
(* between the steps others queue messages.                                *)
MSG_FreeQueue(t, q) ==
    /\ task[t].pc = "idle" /\ t \in Consumers[q]
    /\ head[q] # NULL
    /\ task' = [task EXCEPT ![t] = [Idle EXCEPT !.pc = "dequeue", !.new = q]]
    /\ UNCHANGED <<links, gFreeMessagesCount, allocatedBlocks, holder>>

MSG_FreeQueue_dequeue(t) ==
    /\ task[t].pc = "dequeue"
    /\ LET q == task[t].new IN
       IF size[q] = 0 THEN task' = [task EXCEPT ![t] = Idle] /\ UNCHANGED <<links, holder>>
       ELSE /\ task' = [task EXCEPT ![t].pc = "free", ![t].element = head[q]]
            /\ holder' = [holder EXCEPT ![head[q]] = t]
            /\ ListRemoveHead(q)
    /\ UNCHANGED <<gFreeMessagesCount, allocatedBlocks>>

MSG_FreeQueue_free(t) ==
    /\ task[t].pc = "free"
    /\ LET b == task[t].element
           q == task[t].new
       IN /\ gFreeMessagesCount' = gFreeMessagesCount + 1
          /\ ListAddTail(ParentPool(b), b)
          /\ allocatedBlocks' = [allocatedBlocks EXCEPT ![ParentPool(b)] = @ - 1]
          /\ holder' = [holder EXCEPT ![b] = NoTask]
          /\ task' = [task EXCEPT ![t] = IF head[q] # NULL THEN [Idle EXCEPT !.pc = "dequeue", !.new = q] ELSE Idle]

Request == {<<poolInfo[p].blockSize, poolInfo[p].poolId>> : p \in Pool}

Next ==
    \E t \in Task :
        \/ \E r \in Request : MEM_BufferAllocWithId(t, r[1], r[2])
        \/ \E b \in Buffer : MEM_BufferFree(t, b) \/ ListRemoveMsg(t, b)
        \/ \E q \in Queue, b \in Buffer : ListAddTailMsg(t, q, b) \/ ListAddHeadMsg(t, q, b)
        \/ \E q \in Queue : ListRemoveHeadMsg(t, q) \/ MSG_FreeQueue(t, q)
        \/ \E e, b \in Buffer : ListAddPrevMsg(t, e, b)
        \/ ListRemoveMsg_change(t)
        \/ ListAddPrevMsg_change(t)
        \/ MSG_FreeQueue_dequeue(t)
        \/ MSG_FreeQueue_free(t)

Spec == Init /\ [][Next]_vars

-----------------------------------------------------------------------------
(* Types of the lists, the elements and the calls. *)
TypeOK ==
    /\ {head, tail} \subseteq [List -> Buffer \union {NULL}]
    /\ size \in [List -> 0 .. Cardinality(Buffer)]
    /\ {next, prev} \subseteq [Buffer -> Buffer \union {NULL}]
    /\ list \in [Buffer -> List \union {NULL}]
    /\ gFreeMessagesCount \in 0 .. Cardinality(Buffer)
    /\ \A p \in Pool : allocatedBlocks[p] \in 0 .. Cardinality(Blocks(p))
    /\ holder \in [Buffer -> Task \union {NoTask}]
    /\ \A t \in Task : /\ task[t].pc \in {"idle", "remove", "addprev", "dequeue", "free"}
                       /\ task[t].element \in Buffer \union {NULL}
                       /\ task[t].new \in Buffer \union Queue \union {NULL}

(* The buffers that one meets from first along a link, and a list read so  *)
(* from its head and from its tail.                                        *)
Chain(first, link) ==
    LET at[k \in 1 .. Cardinality(Buffer) + 1] ==
            IF k = 1 THEN first ELSE IF at[k - 1] \in Buffer THEN link[at[k - 1]] ELSE NULL
    IN [k \in 1 .. Cardinality({i \in 1 .. Cardinality(Buffer) + 1 : at[i] # NULL}) |-> at[k]]
Forward(l) == Chain(head[l], next)
Backward(l) == Chain(tail[l], prev)

(* gFreeMessagesCount and the allocatedBlocks of the pools agree with the  *)
(* free lists in every state, and a free pool holds only its own blocks.   *)
CountsAgree ==
    /\ \A p \in Pool : allocatedBlocks[p] + size[p] = Len(poolInfo[p].blocks)
    /\ gFreeMessagesCount = Cardinality({b \in Buffer : list[b] \in Pool})
    /\ \A b \in Buffer : list[b] \in Pool => list[b] = ParentPool(b)

(* The links that GenericList.c maintains one by one agree: both readings  *)
(* of a list are each other's reverse, as long as its size, and consist of *)
(* the elements whose list field names it; a buffer that a task holds is   *)
(* in none, so that only one owner can free or queue it.  An element that  *)
(* passed the orphan test (GenericList.c:281, "Element was previusly       *)
(* removed or never added") is still queued when its links are changed.    *)
(* The counts agree with the lists.                                        *)
ListsWellFormed ==
    /\ TypeOK /\ CountsAgree
    /\ \A l \in List : /\ Len(Forward(l)) = size[l] /\ Len(Backward(l)) = size[l]
                       /\ \A k \in 1 .. size[l] : Backward(l)[k] = Forward(l)[size[l] + 1 - k]
                       /\ {Forward(l)[k] : k \in 1 .. size[l]} = {b \in Buffer : list[b] = l}
    /\ \A b \in Buffer : holder[b] = NoTask <=> list[b] # NULL
    /\ \A t \in Task : task[t].pc \in {"remove", "addprev"} => FoundInQueue(t, task[t].element)

(* MEM_BufferAllocWithId fails only when no block that is large enough is  *)
(* free in the pools of that id, and never takes a larger one than needed. *)
BestFit ==
    \A r \in Request :
        LET fits == {p \in Pool : size[p] > 0 /\ r[1] <= poolInfo[p].blockSize /\ r[2] = poolInfo[p].poolId}
            p == PoolFor(r[1], r[2])
        IN IF fits = {} THEN p = 0
           ELSE p \in fits /\ \A q \in fits : poolInfo[p].blockSize <= poolInfo[q].blockSize

(* Every behaviour is one of lists of buffers that single owners take from *)
(* and put into: no buffer is lost, doubled or moved by somebody else.     *)
Pools == INSTANCE BufferPools WITH content <- [l \in List |-> Forward(l)]
ImplementsPools == Pools!Spec
=============================================================================
