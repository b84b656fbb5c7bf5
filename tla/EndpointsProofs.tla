-------------------------- MODULE EndpointsProofs --------------------------
(***************************************************************************)
(* Proofs about the endpoint list, for every number of tasks, endpoints    *)
(* and addresses.  The invariant names the order of the list: a numbering  *)
(* c of the listed nodes by 1 .. L that the links agree with, except where *)
(* the holder of the lock is between two of its assignments.               *)
(***************************************************************************)
EXTENDS Endpoints, FiniteSetTheorems, WellFoundedInduction, TLAPS

(* The steps at which a task holds the device lock, and those at which its *)
(* node is not in the list.                                                *)
Locked == {"add", "head", "clear", "unlock", "remove", "relink"}
Outside == {"add", "head", "relink", "free"}

(* A task at work has a node that it owns; the lock is held exactly by the *)
(* task that changes the list.                                             *)
TaskInv ==
    /\ \A t \in Task : IF task[t].pc = "idle" THEN task[t].node = NoNode
                       ELSE task[t].node \in Node /\ owner[task[t].node] = t
    /\ \A t \in Task : task[t].pc \in Locked <=> lock = t
    /\ \A t \in Task : task[t].pc = "add" => next[task[t].node] = Wild

Clearing == \E t \in Task : task[t].pc = "clear"

(* next leads from the head through c.  The only element of a list has no  *)
(* link while add_to_list has not cleared it.                              *)
Forth(L, c) ==
    /\ c \in [1 .. L -> Node]
    /\ \A i, j \in 1 .. L : c[i] = c[j] => i = j
    /\ rl_endpoints = IF L = 0 THEN LIST_NULL ELSE c[1]
    /\ \A i \in 1 .. L - 1 : next[c[i]] = c[i + 1]
    /\ L > 0 => next[c[L]] = IF Clearing THEN Wild ELSE LIST_NULL
    /\ Clearing => L = 1

(* prev leads back, except to the element behind one that is being removed. *)
Back(L, c) ==
    /\ \A i \in 2 .. L : \/ prev[c[i]] = c[i - 1]
                         \/ \E t \in Task : task[t].pc = "relink" /\ next[task[t].node] = c[i]
    /\ \A t \in Task : task[t].pc = "relink" =>
          \E j \in 2 .. L : next[task[t].node] = c[j] /\ prev[task[t].node] = c[j - 1]
    /\ \A t \in Task : task[t].pc = "head" =>
          L > 0 /\ next[task[t].node] = c[1] /\ prev[c[1]] = task[t].node

(* The list holds the nodes that are allocated and not at a step outside.  *)
Members(L, c) ==
    \A n \in Node : (\E i \in 1 .. L : n = c[i])
        <=> /\ owner[n] # NoTask
            /\ \A t \in Task : task[t].node = n => task[t].pc \notin Outside

(* Addresses are distinct, the one that is about to be added included.     *)
Addresses(L, c) ==
    /\ \A i \in 1 .. L : addr[c[i]] \in Addr
    /\ \A i, j \in 1 .. L : addr[c[i]] = addr[c[j]] => i = j
    /\ \A t \in Task : task[t].pc \in {"add", "head"} =>
          /\ addr[task[t].node] \in Addr
          /\ \A i \in 1 .. L : addr[c[i]] # addr[task[t].node]

Numbering(L, c) == Forth(L, c) /\ Back(L, c) /\ Members(L, c) /\ Addresses(L, c)

IInv ==
    /\ TypeOK
    /\ TaskInv
    /\ \E L \in Nat : \E c \in [1 .. L -> Node] : Numbering(L, c)

-----------------------------------------------------------------------------
(* A nonempty set of natural numbers has a least element.                  *)
LEMMA LeastNat ==
    ASSUME NEW T, T \subseteq Nat, T # {}
    PROVE  \E m \in T : \A k \in T : m <= k
<1> DEFINE R == {x \in Nat \X Nat : x[1] < x[2]}
<1>1. IsWellFoundedOn(R, Nat)
  BY NatLessThanWellFounded, Zenon DEF OpToRel
<1>2. \A k, m \in Nat : k < m => <<k, m>> \in R
  OBVIOUS
<1> HIDE DEF R
<1>3. PICK m \in T : \A k \in T : ~(<<k, m>> \in R)
  BY <1>1, WFMin
<1>4. \A k \in T : ~(k < m)
  BY <1>2, <1>3, Zenon
<1> QED
  BY <1>4

(* The walk is the one function that satisfies its recursive definition.   *)
LEMMA WalkUnique ==
    ASSUME Cardinality(Node) \in Nat, NEW g,
           g = [k \in 0 .. Cardinality(Node) |->
                  IF k = 0 THEN rl_endpoints
                  ELSE IF g[k - 1] \in Node THEN next[g[k - 1]] ELSE g[k - 1]]
    PROVE  Walk = g
<1> DEFINE D == 0 .. Cardinality(Node)
           Def(w) == [k \in D |-> IF k = 0 THEN rl_endpoints
                                  ELSE IF w[k - 1] \in Node THEN next[w[k - 1]] ELSE w[k - 1]]
<1>1. Walk = Def(Walk)
  <2>1. Walk = CHOOSE w : w = Def(w)
    BY DEF Walk
  <2>2. \E w : w = Def(w)
    OBVIOUS
  <2> HIDE DEF Def
  <2> QED
    BY <2>1, <2>2, Zenon
<1> DEFINE T == {k \in D : Walk[k] # g[k]}
<1>2. SUFFICES ASSUME T # {} PROVE FALSE
  BY <1>1
<1>3. PICK m \in T : \A k \in T : m <= k
  <2>1. T \subseteq Nat
    OBVIOUS
  <2> HIDE DEF T
  <2> QED
    BY <1>2, <2>1, LeastNat
<1>4. m # 0
  BY <1>1, <1>3
<1>5. m - 1 \in D /\ m - 1 \notin T
  BY <1>3, <1>4
<1>6. Walk[m - 1] = g[m - 1]
  BY <1>5
<1> QED
  BY <1>1, <1>3, <1>4, <1>6

(* The walk visits the nodes of the numbering, then stays where it ends.   *)
LEMMA WalkThroughList ==
    ASSUME NEW L \in Nat, NEW c \in [1 .. L -> Node], Forth(L, c)
    PROVE  /\ Visited = {c[i] : i \in 1 .. L}
           /\ Walk[Cardinality(Node)] = IF Clearing THEN Wild ELSE LIST_NULL
<1>1. Cardinality(Node) \in Nat /\ L <= Cardinality(Node)
  <2>1. c \in Injection(1 .. L, Node)
    BY DEF Forth, Injection, IsInjective
  <2>2. Cardinality(1 .. L) = L
    BY FS_Interval
  <2> QED
    BY <2>1, <2>2, FS_Injection, FS_CardinalityType, EndpointsAssumption
<1> DEFINE end == IF Clearing THEN Wild ELSE LIST_NULL
           g == [k \in 0 .. Cardinality(Node) |-> IF k < L THEN c[k + 1] ELSE end]
<1>2. end \notin Node
  BY EndpointsAssumption
<1>3. Clearing => L = 1
  BY DEF Forth
<1>4. Walk = g
  <2>1. ASSUME NEW k \in 0 .. Cardinality(Node)
        PROVE  g[k] = IF k = 0 THEN rl_endpoints
                      ELSE IF g[k - 1] \in Node THEN next[g[k - 1]] ELSE g[k - 1]
    <3>1. CASE k = 0
      BY <1>1, <1>3, <3>1 DEF Forth
    <3>2. CASE k # 0 /\ k < L
      BY <1>1, <3>2 DEF Forth
    <3>3. CASE k # 0 /\ k = L
      BY <1>1, <3>3 DEF Forth
    <3>4. CASE k # 0 /\ k > L
      BY <1>1, <1>2, <3>4
    <3> QED
      BY <3>1, <3>2, <3>3, <3>4
  <2>2. g = [k \in 0 .. Cardinality(Node) |->
               IF k = 0 THEN rl_endpoints
               ELSE IF g[k - 1] \in Node THEN next[g[k - 1]] ELSE g[k - 1]]
    BY <2>1, Zenon
  <2> HIDE DEF g
  <2> QED
    BY <1>1, <2>2, WalkUnique
<1>5. DOMAIN Walk = 0 .. Cardinality(Node)
  BY <1>4
<1>6. \A n \in Node : n \in Visited <=> \E i \in 1 .. L : n = c[i]
  <2>1. ASSUME NEW i \in 1 .. L PROVE c[i] \in Visited
    <3>1. i - 1 \in DOMAIN Walk /\ Walk[i - 1] = c[i]
      BY <1>1, <1>4
    <3> QED
      BY <3>1 DEF Visited
  <2>2. ASSUME NEW n \in Visited PROVE \E i \in 1 .. L : n = c[i]
    <3>1. PICK k \in 0 .. Cardinality(Node) : n = Walk[k] /\ n \in Node
      BY <1>5 DEF Visited
    <3>2. k < L /\ n = c[k + 1]
      BY <1>2, <1>4, <3>1
    <3> QED
      BY <3>2
  <2> QED
    BY <2>1, <2>2
<1>7. Visited = {c[i] : i \in 1 .. L}
  <2>1. Visited \subseteq Node
    BY DEF Visited
  <2> QED
    BY <1>6, <2>1
<1>8. Walk[Cardinality(Node)] = end
  BY <1>1, <1>4
<1> QED
  BY <1>7, <1>8

(* What a lookup finds.                                                    *)
LEMMA Lookup ==
    ASSUME NEW L \in Nat, NEW c \in [1 .. L -> Node], Forth(L, c), NEW a
    PROVE  /\ \A n : n \in rpmsg_lite_get_endpoint_from_addr(a)
                        <=> \E i \in 1 .. L : n = c[i] /\ addr[c[i]] = a
           /\ rpmsg_lite_get_endpoint_from_addr(a) = {} <=> \A i \in 1 .. L : addr[c[i]] # a
  BY WalkThroughList DEF rpmsg_lite_get_endpoint_from_addr

-----------------------------------------------------------------------------
(* The empty list satisfies the invariant.                                 *)
LEMMA InitInv == Init => IInv
<1> SUFFICES ASSUME Init PROVE IInv
  OBVIOUS
<1>1. TypeOK
  BY DEF Init, TypeOK, Pointer, Idle
<1>2. TaskInv
  BY EndpointsAssumption DEF Init, TaskInv, Idle, Locked
<1> DEFINE c == [i \in 1 .. 0 |-> LIST_NULL]
<1>3. c \in [1 .. 0 -> Node]
  OBVIOUS
<1>4. Numbering(0, c)
  BY <1>3 DEF Init, Idle, Numbering, Forth, Back, Members, Addresses, Clearing
<1> QED
  BY <1>1, <1>2, <1>3, <1>4 DEF IInv

(* A task at work owns its node and no other task works on it.             *)
LEMMA AtWork ==
    ASSUME IInv, NEW t \in Task, task[t].pc # "idle"
    PROVE  /\ task[t].node \in Node /\ owner[task[t].node] = t /\ t # NoTask
           /\ \A u \in Task : u # t => task[u].node # task[t].node
  BY EndpointsAssumption DEF IInv, TaskInv

(* create_ept takes memory that no task and no list uses.                  *)
LEMMA CreateInv ==
    ASSUME IInv, NEW t \in Task, NEW a \in Addr, create_ept(t, a)
    PROVE  IInv'
<1>1. PICK n \in Node :
         /\ owner[n] = NoTask
         /\ owner' = [owner EXCEPT ![n] = t]
         /\ addr' = [addr EXCEPT ![n] = a]
         /\ next' = [next EXCEPT ![n] = Wild]
         /\ prev' = [prev EXCEPT ![n] = Wild]
         /\ task' = [task EXCEPT ![t] = At("add", n)]
  BY DEF create_ept
<1>2. /\ task[t].pc = "idle" /\ lock = NoTask /\ lock' = t /\ rl_endpoints' = rl_endpoints
      /\ rpmsg_lite_get_endpoint_from_addr(a) = {}
  BY DEF create_ept
<1>3. PICK L \in Nat : \E c \in [1 .. L -> Node] : Numbering(L, c)
  BY DEF IInv
<1>4. PICK c \in [1 .. L -> Node] : Numbering(L, c)
  BY <1>3
<1>5. \A u \in Task : u # t => task'[u] = task[u]
  BY <1>1 DEF IInv, TypeOK
<1>6. task'[t].pc = "add" /\ task'[t].node = n
  BY <1>1 DEF IInv, TypeOK, At
<1>7. \A u \in Task : task[u].node # n /\ task[u].pc \notin Locked
  BY <1>1, <1>2, EndpointsAssumption DEF IInv, TaskInv
<1>8. \A i \in 1 .. L : c[i] \in Node /\ c[i] # n
  BY <1>1, <1>4 DEF Numbering, Members
<1>9. TypeOK'
  BY <1>1, <1>2, EndpointsAssumption DEF IInv, TypeOK, Pointer, At
<1>10. TaskInv'
  BY <1>1, <1>2, <1>5, <1>6, <1>7, EndpointsAssumption DEF IInv, TypeOK, TaskInv, Locked
<1>11. Numbering(L, c)'
  <2>1. Clearing' = Clearing /\ ~Clearing
    BY <1>5, <1>6, <1>7 DEF Clearing, Locked
  <2>2. \A i \in 1 .. L : next'[c[i]] = next[c[i]] /\ prev'[c[i]] = prev[c[i]] /\ addr'[c[i]] = addr[c[i]]
    BY <1>1, <1>8 DEF IInv, TypeOK
  <2>3. Forth(L, c)'
    BY <1>2, <1>4, <2>1, <2>2 DEF Numbering, Forth
  <2>4. Back(L, c)'
    BY <1>4, <1>5, <1>6, <1>7, <2>2 DEF Numbering, Back, Locked
  <2>5. Members(L, c)'
    <3>1. \A x \in Node : x # n => owner'[x] = owner[x] /\ task'[t].node # x /\ task[t].node # x
      BY <1>1, <1>2, <1>6, EndpointsAssumption DEF IInv, TypeOK, TaskInv
    <3>2. ASSUME NEW x \in Node, x # n
          PROVE  (\E i \in 1 .. L : x = c[i])
                   <=> /\ owner'[x] # NoTask
                       /\ \A u \in Task : task'[u].node = x => task'[u].pc \notin Outside
      BY <1>4, <1>5, <3>1, <3>2 DEF Numbering, Members
    <3> QED
      BY <1>6, <1>8, <3>2 DEF Members, Outside
  <2>6. Addresses(L, c)'
    <3>1. addr'[n] = a /\ \A i \in 1 .. L : addr[c[i]] # a
      BY <1>1, <1>2, <1>4, Lookup DEF IInv, TypeOK, Numbering
    <3> QED
      BY <1>4, <1>5, <1>6, <1>7, <2>2, <3>1 DEF Numbering, Addresses, Locked
  <2> QED
    BY <2>3, <2>4, <2>5, <2>6 DEF Numbering
<1> QED
  BY <1>9, <1>10, <1>11 DEF IInv

(* LowestFree is an address when one is free.                              *)
LEMMA LowestFreeIsAddr ==
    ASSUME NEW a \in Addr, rpmsg_lite_get_endpoint_from_addr(a) = {}
    PROVE  LowestFree \in Addr
<1> DEFINE T == {b \in Addr : rpmsg_lite_get_endpoint_from_addr(b) = {}}
<1>1. PICK m \in T : \A k \in T : m <= k
  <2>1. T \subseteq Nat /\ T # {}
    BY DEF Addr
  <2> HIDE DEF T
  <2> QED
    BY <2>1, LeastNat
<1>2. \A b \in 1 .. m - 1 : rpmsg_lite_get_endpoint_from_addr(b) # {}
  BY <1>1, EndpointsAssumption DEF Addr
<1>3. \E b \in Addr : /\ rpmsg_lite_get_endpoint_from_addr(b) = {}
                      /\ \A k \in 1 .. b - 1 : rpmsg_lite_get_endpoint_from_addr(k) # {}
  BY <1>1, <1>2
<1> QED
  BY <1>3, Zenon DEF LowestFree

(* The new node gets its forward link: it is not yet in the list.          *)
LEMMA AddLinkInv ==
    ASSUME IInv, NEW t \in Task, add_link(t)
    PROVE  IInv'
<1> DEFINE n == task[t].node
<1>1. /\ task[t].pc = "add" /\ rl_endpoints # LIST_NULL
      /\ next' = [next EXCEPT ![n] = rl_endpoints]
      /\ prev' = [prev EXCEPT ![n] = LIST_NULL, ![rl_endpoints] = n]
      /\ task' = [task EXCEPT ![t].pc = "head"]
      /\ UNCHANGED <<rl_endpoints, addr, owner, lock>>
  BY DEF add_link
<1>2. PICK L \in Nat : \E c \in [1 .. L -> Node] : Numbering(L, c)
  BY DEF IInv
<1>3. PICK c \in [1 .. L -> Node] : Numbering(L, c)
  BY <1>2
<1>4. n \in Node /\ owner[n] = t /\ lock = t
  BY <1>1 DEF IInv, TaskInv, Locked
<1>5. \A u \in Task : u # t => task'[u] = task[u] /\ task[u].pc \notin Locked
  BY <1>1, <1>4 DEF IInv, TypeOK, TaskInv
<1>6. task'[t].pc = "head" /\ task'[t].node = n
  BY <1>1 DEF IInv, TypeOK
<1>7. L > 0 /\ rl_endpoints = c[1] /\ c[1] \in Node
  BY <1>1, <1>3 DEF Numbering, Forth
<1>8. \A i \in 1 .. L : c[i] \in Node /\ c[i] # n
  BY <1>1, <1>3, <1>4 DEF Numbering, Members, Outside
<1>9. TypeOK'
  BY <1>1, <1>4, <1>7 DEF IInv, TypeOK, Pointer
<1>10. TaskInv'
  BY <1>1, <1>4, <1>5, <1>6 DEF IInv, TaskInv, Locked
<1>11. Numbering(L, c)'
  <2>1. ~Clearing' /\ ~Clearing
    BY <1>1, <1>5, <1>6 DEF Clearing, Locked
  <2>2. \A i \in 1 .. L : next'[c[i]] = next[c[i]]
    BY <1>1, <1>8 DEF IInv, TypeOK
  <2>3. Forth(L, c)'
    BY <1>1, <1>3, <2>1, <2>2 DEF Numbering, Forth
  <2>4. Back(L, c)'
    <3>1. \A i \in 2 .. L : prev'[c[i]] = prev[c[i]]
      <4>1. \A i \in 2 .. L : i \in 1 .. L /\ c[i] # c[1]
        BY <1>3, <1>7 DEF Numbering, Forth
      <4> QED
        BY <1>1, <1>7, <1>8, <4>1 DEF IInv, TypeOK
    <3>2. \A i \in 2 .. L : prev[c[i]] = c[i - 1]
      BY <1>1, <1>3, <1>5 DEF Numbering, Back, Locked
    <3>3. next'[n] = c[1] /\ prev'[c[1]] = n
      BY <1>1, <1>4, <1>7, <1>8 DEF IInv, TypeOK
    <3> QED
      BY <1>5, <1>6, <1>7, <3>1, <3>2, <3>3 DEF Back, Locked
  <2>5. Members(L, c)'
    BY <1>1, <1>3, <1>5, <1>6 DEF Numbering, Members, Outside
  <2>6. Addresses(L, c)'
    BY <1>1, <1>3, <1>5, <1>6 DEF Numbering, Addresses, Locked
  <2> QED
    BY <2>3, <2>4, <2>5, <2>6 DEF Numbering
<1> QED
  BY <1>9, <1>10, <1>11 DEF IInv

(* The old first node points back to the new one.                          *)
LEMMA AddHeadInv ==
    ASSUME IInv, NEW t \in Task, add_head(t)
    PROVE  IInv'
<1>0. PICK n : n = task[t].node
  OBVIOUS
<1>1. /\ task[t].pc = "head"
      /\ rl_endpoints' = n
      /\ task' = [task EXCEPT ![t].pc = "unlock"]
      /\ UNCHANGED <<next, prev, addr, owner, lock>>
  BY <1>0 DEF add_head
<1>2. PICK L \in Nat : \E c \in [1 .. L -> Node] : Numbering(L, c)
  BY DEF IInv
<1>3. PICK c \in [1 .. L -> Node] : Numbering(L, c)
  BY <1>2
<1>4. n \in Node /\ owner[n] = t /\ lock = t
  BY <1>0, <1>1 DEF IInv, TaskInv, Locked
<1>5. \A u \in Task : u # t => task'[u] = task[u] /\ task[u].pc \notin Locked
  BY <1>1, <1>4 DEF IInv, TypeOK, TaskInv
<1>6. task'[t].pc = "unlock" /\ task'[t].node = n
  BY <1>0, <1>1 DEF IInv, TypeOK
<1>7. L > 0 /\ next[n] = c[1] /\ prev[c[1]] = n
  BY <1>0, <1>1, <1>3 DEF Numbering, Back
<1>8. \A i \in 1 .. L : c[i] \in Node /\ c[i] # n
  BY <1>0, <1>1, <1>3, <1>4 DEF Numbering, Members, Outside
<1>9. TypeOK'
  BY <1>1, <1>4 DEF IInv, TypeOK
<1>10. TaskInv'
  BY <1>1, <1>4, <1>5, <1>6 DEF IInv, TaskInv, Locked
<1>11. PICK e \in [1 .. L + 1 -> Node] :
          e[1] = n /\ \A i \in 2 .. L + 1 : e[i] = c[i - 1] /\ i - 1 \in 1 .. L
  <2> DEFINE f == [i \in 1 .. L + 1 |-> IF i = 1 THEN n ELSE c[i - 1]]
  <2>1. f \in [1 .. L + 1 -> Node] /\ f[1] = n /\ \A i \in 2 .. L + 1 : f[i] = c[i - 1] /\ i - 1 \in 1 .. L
    BY <1>4
  <2> QED
    BY <2>1
<1>12. Numbering(L + 1, e)'
  <2>1. ~Clearing' /\ ~Clearing
    BY <1>1, <1>5, <1>6 DEF Clearing, Locked
  <2>2. Forth(L + 1, e)'
    <3>1. \A i, j \in 1 .. L + 1 : e[i] = e[j] => i = j
      BY <1>3, <1>8, <1>11 DEF Numbering, Forth
    <3>2. \A i \in 1 .. L : next[e[i]] = e[i + 1]
      <4>1. \A i \in 2 .. L : next[c[i - 1]] = c[i] /\ e[i] = c[i - 1] /\ e[i + 1] = c[i]
        BY <1>3, <1>11 DEF Numbering, Forth
      <4> QED
        BY <1>7, <1>11, <4>1
    <3>3. next[e[L + 1]] = LIST_NULL
      BY <1>3, <1>7, <1>11, <2>1 DEF Numbering, Forth
    <3> QED
      BY <1>1, <1>11, <2>1, <3>1, <3>2, <3>3 DEF Forth
  <2>3. Back(L + 1, e)'
    <3>1. \A i \in 2 .. L : prev[c[i]] = c[i - 1]
      BY <1>1, <1>3, <1>5 DEF Numbering, Back, Locked
    <3>2. \A i \in 2 .. L + 1 : prev[e[i]] = e[i - 1]
      BY <1>7, <1>11, <3>1
    <3> QED
      BY <1>1, <1>5, <1>6, <3>2 DEF Back, Locked
  <2>4. Members(L + 1, e)'
    <3>1. ASSUME NEW x \in Node
          PROVE  (\E i \in 1 .. L + 1 : x = e[i]) <=> x = n \/ \E i \in 1 .. L : x = c[i]
      <4>1. \A i \in 1 .. L : i + 1 \in 2 .. L + 1 /\ e[i + 1] = c[i]
        BY <1>11
      <4> QED
        BY <1>11, <4>1
    <3>2. \A u \in Task : u # t => task[u].node # n
      BY <1>4, EndpointsAssumption DEF IInv, TaskInv
    <3>3. owner[n] # NoTask
      BY <1>4, EndpointsAssumption
    <3> QED
      BY <1>1, <1>3, <1>5, <1>6, <3>1, <3>2, <3>3 DEF Numbering, Members, Outside
  <2>5. Addresses(L + 1, e)'
    <3>1. addr[n] \in Addr /\ \A i \in 1 .. L : addr[c[i]] \in Addr /\ addr[c[i]] # addr[n]
      BY <1>0, <1>1, <1>3 DEF Numbering, Addresses
    <3>2. \A i, j \in 1 .. L : addr[c[i]] = addr[c[j]] => i = j
      BY <1>3 DEF Numbering, Addresses
    <3>3. \A i \in 1 .. L + 1 : addr[e[i]] \in Addr
      BY <1>11, <3>1
    <3>4. \A i, j \in 1 .. L + 1 : addr[e[i]] = addr[e[j]] => i = j
      BY <1>11, <3>1, <3>2
    <3> QED
      BY <1>1, <1>5, <1>6, <3>3, <3>4 DEF Addresses, Locked
  <2> QED
    BY <2>2, <2>3, <2>4, <2>5 DEF Numbering
<1> QED
  BY <1>9, <1>10, <1>11, <1>12 DEF IInv

(* The list starts with the new node: every number moves up by one.        *)
LEMMA AddFirstInv ==
    ASSUME IInv, NEW t \in Task, add_first(t)
    PROVE  IInv'
<1>0. PICK n : n = task[t].node
  OBVIOUS
<1>1. /\ task[t].pc = "add" /\ rl_endpoints = LIST_NULL
      /\ rl_endpoints' = n
      /\ task' = [task EXCEPT ![t].pc = "clear"]
      /\ UNCHANGED <<next, prev, addr, owner, lock>>
  BY <1>0 DEF add_first
<1>2. PICK L \in Nat : \E c \in [1 .. L -> Node] : Numbering(L, c)
  BY DEF IInv
<1>3. PICK c \in [1 .. L -> Node] : Numbering(L, c)
  BY <1>2
<1>4. n \in Node /\ owner[n] = t /\ lock = t
  BY <1>0, <1>1 DEF IInv, TaskInv, Locked
<1>5. \A u \in Task : u # t => task'[u] = task[u] /\ task[u].pc \notin Locked
  BY <1>1, <1>4 DEF IInv, TypeOK, TaskInv
<1>6. task'[t].pc = "clear" /\ task'[t].node = n
  BY <1>0, <1>1 DEF IInv, TypeOK
<1>7. L = 0
  BY <1>1, <1>3, EndpointsAssumption DEF Numbering, Forth
<1>8. next[n] = Wild
  BY <1>0, <1>1 DEF IInv, TaskInv
<1>9. TypeOK'
  BY <1>1, <1>4 DEF IInv, TypeOK
<1>10. TaskInv'
  BY <1>1, <1>4, <1>5, <1>6 DEF IInv, TaskInv, Locked
<1>11. PICK e \in [1 .. 1 -> Node] : e[1] = n
  <2> DEFINE f == [i \in 1 .. 1 |-> n]
  <2>1. f \in [1 .. 1 -> Node] /\ f[1] = n
    BY <1>4
  <2> QED
    BY <2>1
<1>12. Numbering(1, e)'
  <2>1. Clearing'
    BY <1>6 DEF Clearing
  <2>2. Forth(1, e)'
    BY <1>1, <1>8, <1>11, <2>1 DEF Forth
  <2>3. Back(1, e)'
    BY <1>5, <1>6 DEF Back, Locked
  <2>4. Members(1, e)'
    <3>1. \A u \in Task : u # t => task[u].node # n
      BY <1>4, EndpointsAssumption DEF IInv, TaskInv
    <3>2. owner[n] # NoTask
      BY <1>4, EndpointsAssumption
    <3> QED
      BY <1>1, <1>3, <1>5, <1>6, <1>7, <1>11, <3>1, <3>2 DEF Numbering, Members, Outside
  <2>5. Addresses(1, e)'
    BY <1>0, <1>1, <1>3, <1>5, <1>6, <1>11 DEF Numbering, Addresses, Locked
  <2> QED
    BY <2>2, <2>3, <2>4, <2>5 DEF Numbering
<1> QED
  BY <1>9, <1>10, <1>11, <1>12 DEF IInv

(* The new first node has no predecessor.                                  *)
LEMMA AddClearInv ==
    ASSUME IInv, NEW t \in Task, add_clear(t)
    PROVE  IInv'
<1>0. PICK n : n = task[t].node
  OBVIOUS
<1>1. /\ task[t].pc = "clear"
      /\ next' = [next EXCEPT ![n] = LIST_NULL]
      /\ prev' = [prev EXCEPT ![n] = LIST_NULL]
      /\ task' = [task EXCEPT ![t].pc = "unlock"]
      /\ UNCHANGED <<rl_endpoints, addr, owner, lock>>
  BY <1>0 DEF add_clear
<1>2. PICK L \in Nat : \E c \in [1 .. L -> Node] : Numbering(L, c)
  BY DEF IInv
<1>3. PICK c \in [1 .. L -> Node] : Numbering(L, c)
  BY <1>2
<1>4. n \in Node /\ owner[n] = t /\ lock = t
  BY <1>0, <1>1 DEF IInv, TaskInv, Locked
<1>5. \A u \in Task : u # t => task'[u] = task[u] /\ task[u].pc \notin Locked
  BY <1>1, <1>4 DEF IInv, TypeOK, TaskInv
<1>6. task'[t].pc = "unlock" /\ task'[t].node = n
  BY <1>0, <1>1 DEF IInv, TypeOK
<1>7. L = 1
  BY <1>1, <1>3 DEF Numbering, Forth, Clearing
<1>8. c[1] = n
  <2>1. \E i \in 1 .. L : n = c[i]
    BY <1>0, <1>1, <1>3, AtWork DEF Numbering, Members, Outside
  <2> QED
    BY <1>7, <2>1
<1>9. TypeOK'
  BY <1>1, <1>4 DEF IInv, TypeOK, Pointer
<1>10. TaskInv'
  BY <1>1, <1>4, <1>5, <1>6 DEF IInv, TaskInv, Locked
<1>11. Numbering(L, c)'
  <2>1. ~Clearing'
    BY <1>5, <1>6 DEF Clearing, Locked
  <2>2. next'[n] = LIST_NULL
    BY <1>1, <1>4 DEF IInv, TypeOK
  <2>3. Forth(L, c)'
    BY <1>1, <1>3, <1>7, <1>8, <2>1, <2>2 DEF Numbering, Forth
  <2>4. Back(L, c)'
    BY <1>5, <1>6, <1>7 DEF Back, Locked
  <2>5. Members(L, c)'
    BY <1>1, <1>3, <1>5, <1>6 DEF Numbering, Members, Outside, IInv, TypeOK
  <2>6. Addresses(L, c)'
    BY <1>1, <1>3, <1>5, <1>6 DEF Numbering, Addresses, Locked
  <2> QED
    BY <2>3, <2>4, <2>5, <2>6 DEF Numbering
<1> QED
  BY <1>9, <1>10, <1>11 DEF IInv

(* The lock is given back: the endpoint exists.                            *)
LEMMA CreateUnlockInv ==
    ASSUME IInv, NEW t \in Task, create_unlock(t)
    PROVE  IInv'
<1>0. PICK n : n = task[t].node
  OBVIOUS
<1>1. /\ task[t].pc = "unlock"
      /\ lock' = NoTask
      /\ task' = [task EXCEPT ![t] = Idle]
      /\ UNCHANGED <<rl_endpoints, next, prev, addr, owner>>
  BY DEF create_unlock
<1>2. PICK L \in Nat : \E c \in [1 .. L -> Node] : Numbering(L, c)
  BY DEF IInv
<1>3. PICK c \in [1 .. L -> Node] : Numbering(L, c)
  BY <1>2
<1>4. n \in Node /\ owner[n] = t /\ lock = t
  BY <1>0, <1>1 DEF IInv, TaskInv, Locked
<1>5. \A u \in Task : u # t => task'[u] = task[u] /\ task[u].pc \notin Locked
  BY <1>1, <1>4 DEF IInv, TypeOK, TaskInv
<1>6. task'[t].pc = "idle" /\ task'[t].node = NoNode
  BY <1>1 DEF IInv, TypeOK, Idle
<1>9. TypeOK'
  BY <1>1 DEF IInv, TypeOK, Idle
<1>10. TaskInv'
  BY <1>1, <1>4, <1>5, <1>6, EndpointsAssumption DEF IInv, TaskInv, Locked
<1>11. Numbering(L, c)'
  <2>1. ~Clearing' /\ ~Clearing
    BY <1>1, <1>5, <1>6 DEF Clearing, Locked
  <2>2. Forth(L, c)'
    BY <1>1, <1>3, <2>1 DEF Numbering, Forth
  <2>3. Back(L, c)'
    BY <1>1, <1>3, <1>5, <1>6 DEF Numbering, Back, Locked
  <2>4. Members(L, c)'
    BY <1>1, <1>3, <1>5, <1>6 DEF Numbering, Members, Outside
  <2>5. Addresses(L, c)'
    BY <1>1, <1>3, <1>5, <1>6 DEF Numbering, Addresses, Locked
  <2> QED
    BY <2>2, <2>3, <2>4, <2>5 DEF Numbering
<1> QED
  BY <1>9, <1>10, <1>11 DEF IInv

(* destroy_ept finds the node it was called for.                           *)
LEMMA DestroyInv ==
    ASSUME IInv, NEW t \in Task, NEW n \in Node, destroy_ept(t, n)
    PROVE  IInv'
<1>1. /\ task[t].pc = "idle" /\ owner[n] = t /\ lock = NoTask /\ lock' = t
      /\ UNCHANGED <<rl_endpoints, next, prev, addr, owner>>
  BY DEF destroy_ept
<1>2. PICK L \in Nat : \E c \in [1 .. L -> Node] : Numbering(L, c)
  BY DEF IInv
<1>3. PICK c \in [1 .. L -> Node] : Numbering(L, c)
  BY <1>2
<1>4. PICK m \in rpmsg_lite_get_endpoint_from_addr(addr[n]) : task' = [task EXCEPT ![t] = At("remove", m)]
  BY DEF destroy_ept
<1>5. \A u \in Task : task[u].node # n /\ task[u].pc \notin Locked
  BY <1>1, EndpointsAssumption DEF IInv, TaskInv
<1>6. m = n
  <2>1. PICK i \in 1 .. L : m = c[i] /\ addr[c[i]] = addr[n]
    BY <1>3, <1>4, Lookup DEF Numbering
  <2>2. PICK j \in 1 .. L : n = c[j]
    BY <1>1, <1>3, <1>5, EndpointsAssumption DEF Numbering, Members
  <2> QED
    BY <1>3, <2>1, <2>2 DEF Numbering, Addresses
<1>7. task'[t].pc = "remove" /\ task'[t].node = n
  BY <1>4, <1>6 DEF IInv, TypeOK, At
<1>8. \A u \in Task : u # t => task'[u] = task[u]
  BY <1>4 DEF IInv, TypeOK
<1>9. TypeOK'
  BY <1>1, <1>4, <1>6 DEF IInv, TypeOK, At
<1>10. TaskInv'
  BY <1>1, <1>5, <1>7, <1>8, EndpointsAssumption DEF IInv, TaskInv, Locked
<1>11. Numbering(L, c)'
  <2>1. ~Clearing' /\ ~Clearing
    BY <1>5, <1>7, <1>8 DEF Clearing, Locked
  <2>2. Forth(L, c)'
    BY <1>1, <1>3, <2>1 DEF Numbering, Forth
  <2>3. Back(L, c)'
    BY <1>1, <1>3, <1>5, <1>7, <1>8 DEF Numbering, Back, Locked
  <2>4. Members(L, c)'
    BY <1>1, <1>3, <1>5, <1>7, <1>8 DEF Numbering, Members, Outside
  <2>5. Addresses(L, c)'
    BY <1>1, <1>3, <1>5, <1>7, <1>8 DEF Numbering, Addresses, Locked
  <2> QED
    BY <2>2, <2>3, <2>4, <2>5 DEF Numbering
<1> QED
  BY <1>9, <1>10, <1>11 DEF IInv

(* A node leaves the list: the numbers behind it move down by one.         *)
LEMMA RelinkInv ==
    ASSUME IInv, NEW t \in Task, remove_relink(t)
    PROVE  IInv'
<1>0. PICK n : n = task[t].node
  OBVIOUS
<1>1. /\ task[t].pc = "relink"
      /\ prev' = [prev EXCEPT ![next[n]] = prev[n]]
      /\ task' = [task EXCEPT ![t].pc = "free"]
      /\ lock' = NoTask
      /\ UNCHANGED <<rl_endpoints, next, addr, owner>>
  BY <1>0 DEF remove_relink
<1>2. PICK L \in Nat : \E c \in [1 .. L -> Node] : Numbering(L, c)
  BY DEF IInv
<1>3. PICK c \in [1 .. L -> Node] : Numbering(L, c)
  BY <1>2
<1>4. n \in Node /\ owner[n] = t /\ lock = t
  BY <1>0, <1>1 DEF IInv, TaskInv, Locked
<1>5. \A u \in Task : u # t => task'[u] = task[u] /\ task[u].pc \notin Locked
  BY <1>1, <1>4 DEF IInv, TypeOK, TaskInv
<1>6. task'[t].pc = "free" /\ task'[t].node = n
  BY <1>0, <1>1 DEF IInv, TypeOK
<1>7. PICK j \in 2 .. L : next[n] = c[j] /\ prev[n] = c[j - 1]
  BY <1>0, <1>1, <1>3 DEF Numbering, Back
<1>8. c[j] \in Node /\ c[j - 1] \in Node
  BY <1>7
<1>9. TypeOK'
  BY <1>1, <1>7, <1>8 DEF IInv, TypeOK, Pointer
<1>10. TaskInv'
  BY <1>1, <1>4, <1>5, <1>6, EndpointsAssumption DEF IInv, TaskInv, Locked
<1>11. Numbering(L, c)'
  <2>1. ~Clearing' /\ ~Clearing
    BY <1>1, <1>5, <1>6 DEF Clearing, Locked
  <2>2. Forth(L, c)'
    BY <1>1, <1>3, <2>1 DEF Numbering, Forth
  <2>3. Back(L, c)'
    <3>1. ASSUME NEW i \in 2 .. L PROVE prev'[c[i]] = c[i - 1]
      <4>1. CASE i = j
        BY <1>1, <1>7, <1>8, <4>1 DEF IInv, TypeOK
      <4>2. CASE i # j
        <5>1. c[i] # c[j] /\ c[i] \in Node
          BY <1>3, <1>7, <4>2 DEF Numbering, Forth
        <5>2. prev[c[i]] = c[i - 1]
          BY <1>0, <1>3, <1>5, <1>7, <5>1 DEF Numbering, Back, Locked
        <5> QED
          BY <1>1, <1>7, <1>8, <5>1, <5>2 DEF IInv, TypeOK
      <4> QED
        BY <4>1, <4>2
    <3> QED
      BY <1>5, <1>6, <3>1 DEF Back, Locked
  <2>4. Members(L, c)'
    BY <1>0, <1>1, <1>3, <1>5, <1>6 DEF Numbering, Members, Outside
  <2>5. Addresses(L, c)'
    BY <1>1, <1>3, <1>5, <1>6 DEF Numbering, Addresses, Locked
  <2> QED
    BY <2>2, <2>3, <2>4, <2>5 DEF Numbering
<1> QED
  BY <1>9, <1>10, <1>11 DEF IInv

(* remove_from_list: the element in front, or the head, then leads to the  *)
(* element behind.                                                         *)
LEMMA RemoveInv ==
    ASSUME IInv, NEW t \in Task, remove_from_list(t)
    PROVE  IInv'
<1>0. PICK n : n = task[t].node
  OBVIOUS
<1>1. /\ task[t].pc = "remove"
      /\ UNCHANGED <<prev, addr, owner>>
      /\ \/ /\ n = rl_endpoints
            /\ rl_endpoints' = next[n] /\ next' = next
            /\ task' = [task EXCEPT ![t].pc = "free"] /\ lock' = NoTask
         \/ /\ n # rl_endpoints /\ next[n] = LIST_NULL
            /\ rl_endpoints' = rl_endpoints /\ next' = [next EXCEPT ![prev[n]] = next[n]]
            /\ task' = [task EXCEPT ![t].pc = "free"] /\ lock' = NoTask
         \/ /\ n # rl_endpoints /\ next[n] # LIST_NULL
            /\ rl_endpoints' = rl_endpoints /\ next' = [next EXCEPT ![prev[n]] = next[n]]
            /\ task' = [task EXCEPT ![t].pc = "relink"] /\ lock' = lock
  BY <1>0 DEF remove_from_list
<1>2. PICK L \in Nat : \E c \in [1 .. L -> Node] : Numbering(L, c)
  BY DEF IInv
<1>3. PICK c \in [1 .. L -> Node] : Numbering(L, c)
  BY <1>2
<1>4. n \in Node /\ owner[n] = t /\ lock = t
  BY <1>0, <1>1 DEF IInv, TaskInv, Locked
<1>5. \A u \in Task : u # t => task'[u] = task[u] /\ task[u].pc \notin Locked
  BY <1>1, <1>4 DEF IInv, TypeOK, TaskInv
<1>6. task'[t].pc \in {"free", "relink"} /\ task'[t].node = n
  BY <1>0, <1>1 DEF IInv, TypeOK
<1>7. PICK k \in 1 .. L : n = c[k]
  BY <1>0, <1>1, <1>3, AtWork DEF Numbering, Members, Outside
<1>8. /\ ~Clearing /\ ~Clearing'
      /\ n = rl_endpoints <=> k = 1
      /\ next[n] = IF k = L THEN LIST_NULL ELSE c[k + 1]
      /\ k > 1 => prev[n] = c[k - 1]
  <2>1. ~Clearing /\ ~Clearing'
    BY <1>1, <1>5, <1>6 DEF Clearing, Locked
  <2>2. n = rl_endpoints <=> k = 1
    BY <1>3, <1>7 DEF Numbering, Forth
  <2>3. next[n] = IF k = L THEN LIST_NULL ELSE c[k + 1]
    BY <1>3, <1>7, <2>1 DEF Numbering, Forth
  <2>4. k > 1 => prev[n] = c[k - 1]
    BY <1>1, <1>3, <1>5, <1>7 DEF Numbering, Back, Locked
  <2> QED
    BY <2>1, <2>2, <2>3, <2>4
<1>9. PICK e \in [1 .. L - 1 -> Node] :
          \A i \in 1 .. L - 1 : e[i] = IF i < k THEN c[i] ELSE c[i + 1]
  <2> DEFINE f == [i \in 1 .. L - 1 |-> IF i < k THEN c[i] ELSE c[i + 1]]
  <2>1. f \in [1 .. L - 1 -> Node] /\ \A i \in 1 .. L - 1 : f[i] = IF i < k THEN c[i] ELSE c[i + 1]
    OBVIOUS
  <2> QED
    BY <2>1
<1>10. L - 1 \in Nat
  BY <1>7
<1>11. /\ rl_endpoints' = IF k = 1 THEN next[n] ELSE rl_endpoints
       /\ next' = IF k = 1 THEN next ELSE [next EXCEPT ![c[k - 1]] = next[n]]
       /\ task'[t].pc = "relink" <=> k > 1 /\ k < L
       /\ lock' = IF task'[t].pc = "relink" THEN lock ELSE NoTask
  <2>1. next[n] = LIST_NULL <=> k = L
    BY <1>7, <1>8, EndpointsAssumption
  <2>2. /\ task' = [task EXCEPT ![t].pc = "free"] => task'[t].pc = "free"
        /\ task' = [task EXCEPT ![t].pc = "relink"] => task'[t].pc = "relink"
    BY DEF IInv, TypeOK
  <2>3. CASE k = 1
    BY <1>1, <1>8, <2>2, <2>3
  <2>4. CASE k > 1 /\ k = L
    BY <1>1, <1>8, <2>1, <2>2, <2>4
  <2>5. CASE k > 1 /\ k < L
    BY <1>1, <1>8, <2>1, <2>2, <2>5
  <2> QED
    BY <2>3, <2>4, <2>5
<1>12. TypeOK'
  <2>1. rl_endpoints' \in Node \union {LIST_NULL} /\ next' \in [Node -> Pointer]
    BY <1>7, <1>8, <1>11 DEF IInv, TypeOK, Pointer
  <2>2. task' \in [Task -> [pc : {"idle", "add", "head", "clear", "unlock", "remove", "relink", "free"},
                            node : Node \union {NoNode}]]
    <3>1. PICK p \in {"free", "relink"} : task' = [task EXCEPT ![t].pc = p]
      BY <1>1
    <3> QED
      BY <3>1 DEF IInv, TypeOK
  <2> QED
    BY <1>1, <1>4, <1>11, <2>1, <2>2 DEF IInv, TypeOK
<1>13. TaskInv'
  <2>1. \A u \in Task : IF task'[u].pc = "idle" THEN task'[u].node = NoNode
                        ELSE task'[u].node \in Node /\ owner'[task'[u].node] = u
    BY <1>1, <1>4, <1>5, <1>6 DEF IInv, TaskInv
  <2>2. \A u \in Task : task'[u].pc \in Locked <=> lock' = u
    <3>1. t # NoTask /\ \A u \in Task : u # NoTask
      BY EndpointsAssumption
    <3>2. task'[t].pc \in Locked <=> task'[t].pc = "relink"
      BY <1>6 DEF Locked
    <3>3. \A u \in Task : u # t => task'[u].pc \notin Locked
      BY <1>5
    <3> QED
      BY <1>4, <1>11, <3>1, <3>2, <3>3
  <2>3. \A u \in Task : task'[u].pc # "add"
    BY <1>5, <1>6 DEF Locked
  <2> QED
    BY <2>1, <2>2, <2>3 DEF TaskInv
<1>14. Forth(L - 1, e)'
  <2>1. \A i, j \in 1 .. L : c[i] = c[j] => i = j
    BY <1>3 DEF Numbering, Forth
  <2>2. \A i, j \in 1 .. L - 1 : e[i] = e[j] => i = j
    BY <1>9, <2>1
  <2>3. rl_endpoints' = IF L - 1 = 0 THEN LIST_NULL ELSE e[1]
    BY <1>3, <1>7, <1>8, <1>9, <1>11 DEF Numbering, Forth
  <2>4. \A i \in 1 .. L : next'[c[i]] = IF k > 1 /\ i = k - 1 THEN next[n] ELSE next[c[i]]
    BY <1>11, <2>1 DEF IInv, TypeOK
  <2>5. \A i \in 1 .. L : next[c[i]] = IF i = L THEN LIST_NULL ELSE c[i + 1]
    BY <1>3, <1>8 DEF Numbering, Forth
  <2>6. \A i \in 1 .. L - 1 : next'[e[i]] = IF i = L - 1 THEN LIST_NULL ELSE e[i + 1]
    BY <1>7, <1>8, <1>9, <2>4, <2>5
  <2> QED
    BY <1>8, <1>9, <1>10, <2>2, <2>3, <2>6 DEF Forth
<1>15. Back(L - 1, e)'
  <2>1. \A i \in 2 .. L : prev[c[i]] = c[i - 1]
    BY <1>1, <1>3, <1>5 DEF Numbering, Back, Locked
  <2>2. k > 1 => next'[n] = next[n]
    <3>1. k > 1 => c[k - 1] # n
      BY <1>3, <1>7 DEF Numbering, Forth
    <3> QED
      BY <1>4, <1>11, <3>1 DEF IInv, TypeOK
  <2>3. ASSUME NEW i \in 2 .. L - 1
        PROVE  \/ prev'[e[i]] = e[i - 1]
               \/ task'[t].pc = "relink" /\ next'[task'[t].node] = e[i]
    <3>1. CASE i < k
      BY <1>1, <1>9, <2>1, <3>1
    <3>3. CASE i > k
      <4>1. e[i] = c[i + 1] /\ e[i - 1] = c[i] /\ i + 1 \in 2 .. L
        BY <1>9, <3>3
      <4> QED
        BY <1>1, <2>1, <4>1
    <3>2. CASE i = k
      BY <1>6, <1>8, <1>9, <1>11, <2>2, <3>2
    <3> QED
      BY <3>1, <3>2, <3>3
  <2>4. task'[t].pc = "relink" =>
          \E j \in 2 .. L - 1 : next'[task'[t].node] = e[j] /\ prev'[task'[t].node] = e[j - 1]
    BY <1>1, <1>6, <1>8, <1>9, <1>11, <2>2
  <2> QED
    BY <1>5, <1>6, <2>3, <2>4 DEF Back, Locked
<1>16. Members(L - 1, e)'
  <2>1. ASSUME NEW x \in Node
        PROVE  (\E i \in 1 .. L - 1 : x = e[i]) <=> x # n /\ \E i \in 1 .. L : x = c[i]
    <3>1. \A i \in 1 .. L - 1 : e[i] # n /\ \E j \in 1 .. L : e[i] = c[j]
      BY <1>3, <1>7, <1>9 DEF Numbering, Forth
    <3>2. ASSUME NEW i \in 1 .. L, i # k PROVE \E j \in 1 .. L - 1 : c[i] = e[j]
      <4>1. CASE i < k
        BY <1>7, <1>9, <4>1
      <4>2. CASE i > k
        <5>1. i - 1 \in 1 .. L - 1 /\ e[i - 1] = c[i]
          BY <1>7, <1>9, <4>2
        <5> QED
          BY <5>1
      <4> QED
        BY <3>2, <4>1, <4>2
    <3> QED
      BY <1>7, <3>1, <3>2
  <2>2. \A x \in Node : (\E i \in 1 .. L : x = c[i])
          <=> owner[x] # NoTask /\ \A u \in Task : task[u].node = x => task[u].pc \notin Outside
    BY <1>3 DEF Numbering, Members
  <2>3. \A x \in Node : x # n => task[t].node # x /\ task'[t].node # x
    BY <1>0, <1>6
  <2> QED
    BY <1>1, <1>5, <1>6, <2>1, <2>2, <2>3 DEF Members, Outside
<1>17. Addresses(L - 1, e)'
  <2>1. /\ \A i \in 1 .. L : addr[c[i]] \in Addr
        /\ \A i, j \in 1 .. L : addr[c[i]] = addr[c[j]] => i = j
    BY <1>3 DEF Numbering, Addresses
  <2>2. \A i \in 1 .. L - 1 : addr[e[i]] \in Addr
    BY <1>9, <2>1
  <2>3. \A i, j \in 1 .. L - 1 : addr[e[i]] = addr[e[j]] => i = j
    BY <1>9, <2>1
  <2> QED
    BY <1>1, <1>5, <1>6, <2>2, <2>3 DEF Addresses, Locked
<1> QED
  BY <1>9, <1>10, <1>12, <1>13, <1>14, <1>15, <1>16, <1>17 DEF IInv, Numbering

(* The memory of a removed node is given back.                             *)
LEMMA FreeInv ==
    ASSUME IInv, NEW t \in Task, destroy_free(t)
    PROVE  IInv'
<1>0. PICK n : n = task[t].node
  OBVIOUS
<1>1. /\ task[t].pc = "free"
      /\ owner' = [owner EXCEPT ![n] = NoTask]
      /\ task' = [task EXCEPT ![t] = Idle]
      /\ UNCHANGED <<rl_endpoints, next, prev, addr, lock>>
  BY <1>0 DEF destroy_free
<1>2. PICK L \in Nat : \E c \in [1 .. L -> Node] : Numbering(L, c)
  BY DEF IInv
<1>3. PICK c \in [1 .. L -> Node] : Numbering(L, c)
  BY <1>2
<1>4. n \in Node /\ owner[n] = t /\ lock # t
  BY <1>0, <1>1 DEF IInv, TaskInv, Locked
<1>5. \A u \in Task : u # t => task'[u] = task[u] /\ task[u].node # n
  BY <1>1, <1>4, EndpointsAssumption DEF IInv, TypeOK, TaskInv
<1>6. task'[t].pc = "idle" /\ task'[t].node = NoNode
  BY <1>1 DEF IInv, TypeOK, Idle
<1>7. \A x \in Node : owner'[x] = IF x = n THEN NoTask ELSE owner[x]
  BY <1>1, <1>4 DEF IInv, TypeOK
<1>8. TypeOK'
  BY <1>1, <1>4 DEF IInv, TypeOK, Idle
<1>9. TaskInv'
  BY <1>1, <1>4, <1>5, <1>6, <1>7, EndpointsAssumption DEF IInv, TaskInv, Locked
<1>10. Numbering(L, c)'
  <2>1. Clearing' = Clearing
    BY <1>1, <1>5, <1>6 DEF Clearing
  <2>2. Forth(L, c)'
    BY <1>1, <1>3, <2>1 DEF Numbering, Forth
  <2>3. Back(L, c)'
    BY <1>1, <1>3, <1>5, <1>6 DEF Numbering, Back
  <2>4. Members(L, c)'
    BY <1>0, <1>1, <1>3, <1>5, <1>6, <1>7, EndpointsAssumption DEF Numbering, Members, Outside
  <2>5. Addresses(L, c)'
    BY <1>1, <1>3, <1>5, <1>6 DEF Numbering, Addresses
  <2> QED
    BY <2>2, <2>3, <2>4, <2>5 DEF Numbering
<1> QED
  BY <1>8, <1>9, <1>10 DEF IInv

-----------------------------------------------------------------------------
(* Every step keeps the invariant: one case per action of Next.            *)
LEMMA NextInv == IInv /\ [Next]_vars => IInv'
<1> SUFFICES ASSUME IInv, [Next]_vars PROVE IInv'
  OBVIOUS
<1>1. CASE UNCHANGED vars
  <2>1. TypeOK' /\ TaskInv'
    BY <1>1 DEF IInv, TypeOK, TaskInv, vars
  <2>2. ASSUME NEW L \in Nat, NEW c \in [1 .. L -> Node], Numbering(L, c) PROVE Numbering(L, c)'
    BY <1>1, <2>2 DEF Numbering, Forth, Back, Members, Addresses, Clearing, vars
  <2> QED
    BY <2>1, <2>2 DEF IInv
<1>2. ASSUME NEW t \in Task, NEW a \in Addr, create_ept(t, a) PROVE IInv'
  BY <1>2, CreateInv
<1>3. ASSUME NEW t \in Task, create_any(t) PROVE IInv'
  BY <1>3, LowestFreeIsAddr, CreateInv DEF create_any
<1>4. ASSUME NEW t \in Task, NEW n \in Node, destroy_ept(t, n) PROVE IInv'
  BY <1>4, DestroyInv
<1> QED
  BY <1>1, <1>2, <1>3, <1>4, AddLinkInv, AddHeadInv, AddFirstInv, AddClearInv, CreateUnlockInv,
     RemoveInv, RelinkInv, FreeInv DEF Next

(* The list has an order in every reachable state.                         *)
LEMMA Invariance == Spec => []IInv
  BY InitInv, NextInv, PTL DEF Spec

(***************************************************************************)
(* rpmsg_lite_get_endpoint_from_addr in the interrupt finds every endpoint *)
(* that the application has, at every step of create_ept and destroy_ept   *)
(* of other endpoints, however many tasks and endpoints there are.         *)
(***************************************************************************)
THEOREM EndpointsFoundHolds == Spec => []EndpointsFound
<1>1. IInv => EndpointsFound
  <2> SUFFICES ASSUME IInv, NEW n \in Existing PROVE n \in rpmsg_lite_get_endpoint_from_addr(addr[n])
    BY DEF EndpointsFound
  <2>1. PICK L \in Nat : \E c \in [1 .. L -> Node] : Numbering(L, c)
    BY DEF IInv
  <2>2. PICK c \in [1 .. L -> Node] : Numbering(L, c)
    BY <2>1
  <2>3. \E i \in 1 .. L : n = c[i]
    BY <2>2 DEF Numbering, Members, Existing, Busy
  <2> QED
    BY <2>2, <2>3, Lookup DEF Numbering
<1> QED
  BY <1>1, Invariance, PTL

(***************************************************************************)
(* The lookup never meets an endpoint whose memory was given back, and     *)
(* never has two endpoints to choose from.                                 *)
(***************************************************************************)
THEOREM OneEndpointPerAddressHolds == Spec => []OneEndpointPerAddress
<1>1. IInv => OneEndpointPerAddress
  <2> SUFFICES ASSUME IInv PROVE OneEndpointPerAddress
    OBVIOUS
  <2>1. PICK L \in Nat : \E c \in [1 .. L -> Node] : Numbering(L, c)
    BY DEF IInv
  <2>2. PICK c \in [1 .. L -> Node] : Numbering(L, c)
    BY <2>1
  <2>3. \A n \in Visited : owner[n] # NoTask
    BY <2>2, WalkThroughList DEF Numbering, Members
  <2>4. ASSUME NEW a \in Addr PROVE Cardinality(rpmsg_lite_get_endpoint_from_addr(a)) <= 1
    <3> DEFINE S == rpmsg_lite_get_endpoint_from_addr(a)
    <3>1. \A n, m \in S : n = m
      BY <2>2, Lookup DEF Numbering, Addresses
    <3> HIDE DEF S
    <3>2. S = {} \/ \E n \in S : S = {n}
      BY <3>1
    <3>3. Cardinality({}) = 0 /\ \A n : Cardinality({n}) = 1
      BY FS_EmptySet, FS_Singleton
    <3>4. Cardinality(S) = 0 \/ Cardinality(S) = 1
      BY <3>2, <3>3, Zenon
    <3>5. Cardinality(S) <= 1
      BY <3>4
    <3> QED
      BY <3>5 DEF S
  <2> QED
    BY <2>3, <2>4 DEF OneEndpointPerAddress
<1> QED
  BY <1>1, Invariance, PTL

(***************************************************************************)
(* While the lock is free the list is exactly the existing endpoints, ends *)
(* at the null pointer, and can be walked back.                            *)
(***************************************************************************)
THEOREM ListConsistentHolds == Spec => []ListConsistent
<1>1. IInv => ListConsistent
  <2> SUFFICES ASSUME IInv, lock = NoTask
               PROVE  /\ Visited = Existing
                      /\ Walk[Cardinality(Node)] = LIST_NULL
                      /\ \A n \in Visited \ {rl_endpoints} : prev[n] \in Visited /\ next[prev[n]] = n
    BY DEF ListConsistent, IInv
  <2>1. PICK L \in Nat : \E c \in [1 .. L -> Node] : Numbering(L, c)
    BY DEF IInv
  <2>2. PICK c \in [1 .. L -> Node] : Numbering(L, c)
    BY <2>1
  <2>3. \A t \in Task : task[t].pc \notin Locked
    BY EndpointsAssumption DEF IInv, TaskInv
  <2>4. Visited = {c[i] : i \in 1 .. L} /\ Walk[Cardinality(Node)] = LIST_NULL
    <3>1. ~Clearing
      BY <2>3 DEF Clearing, Locked
    <3> QED
      BY <2>2, <3>1, WalkThroughList DEF Numbering
  <2>5. Visited = Existing
    <3>1. \A n \in Node : \A t \in Task : task[t].node = n => task[t].pc = "free"
      BY <2>3, EndpointsAssumption DEF IInv, TypeOK, TaskInv, Locked
    <3>2. \A n \in Node : n \in Existing <=> \E i \in 1 .. L : n = c[i]
      BY <2>2, <3>1 DEF Numbering, Members, Existing, Busy, Outside
    <3>3. Existing \subseteq Node
      BY DEF Existing
    <3> QED
      BY <2>4, <3>2, <3>3
  <2>6. ASSUME NEW n \in Visited \ {rl_endpoints} PROVE prev[n] \in Visited /\ next[prev[n]] = n
    <3>1. PICK i \in 1 .. L : n = c[i]
      BY <2>4
    <3>2. i > 1
      BY <2>2, <3>1 DEF Numbering, Forth
    <3>3. prev[n] = c[i - 1] /\ i - 1 \in 1 .. L - 1
      BY <2>2, <2>3, <3>1, <3>2 DEF Numbering, Back, Locked
    <3> QED
      BY <2>2, <2>4, <3>1, <3>3 DEF Numbering, Forth
  <2> QED
    BY <2>4, <2>5, <2>6
<1> QED
  BY <1>1, Invariance, PTL
=============================================================================
