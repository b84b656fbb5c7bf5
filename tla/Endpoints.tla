----------------------------- MODULE Endpoints -----------------------------
(***************************************************************************)
(* The endpoint list of one rpmsg_lite_instance: rl_endpoints, a doubly    *)
(* linked list (llist.c) that tasks change in rpmsg_lite_create_ept and    *)
(* rpmsg_lite_destroy_ept under the device lock, and that the receive      *)
(* callback walks in the MU interrupt without it.  The interrupt of a core *)
(* runs to its end between two steps of the core's tasks, so a walk sees   *)
(* one state; what it sees is Walk, evaluated in every state.  A node      *)
(* and its endpoint are allocated, used and freed together and are one     *)
(* element of Node.  rpmsg_ns_bind and rpmsg_ns_unbind create and destroy  *)
(* the endpoint of RL_NS_EPT_ADDR by these two calls.                      *)
(***************************************************************************)
EXTENDS Naturals, FiniteSets

CONSTANTS
    Task,           \* tasks that create and destroy endpoints
    Node,           \* memory for list nodes, RL_NULL when none is left
    MAX_ADDR,       \* bound on the addresses, 0xFFFFFFFF in the code
    LIST_NULL,      \* the null pointer
    Wild,           \* a pointer that was never assigned
    NoTask, NoNode

ASSUME EndpointsAssumption ==
    /\ MAX_ADDR \in Nat \ {0}
    /\ IsFiniteSet(Node)
    /\ {LIST_NULL, Wild, NoNode} \intersect Node = {}
    /\ LIST_NULL # Wild
    /\ NoTask \notin Task

Addr == 1 .. MAX_ADDR
Pointer == Node \union {LIST_NULL, Wild}

VARIABLES
    rl_endpoints,   \* head of the list
    next, prev,     \* the links of each node
    addr,           \* address of the endpoint of each node
    owner,          \* task whose endpoint it is; NoTask when the node is free
    lock,           \* holder of the device lock
    task            \* context of each task

vars == <<rl_endpoints, next, prev, addr, owner, lock, task>>

Idle == [pc |-> "idle", node |-> NoNode]
At(pc, n) == [pc |-> pc, node |-> n]

Init ==
    /\ rl_endpoints = LIST_NULL
    /\ next = [n \in Node |-> Wild]
    /\ prev = [n \in Node |-> Wild]
    /\ addr = [n \in Node |-> 0]
    /\ owner = [n \in Node |-> NoTask]
    /\ lock = NoTask
    /\ task = [t \in Task |-> Idle]

-----------------------------------------------------------------------------
(* The pointers that rpmsg_lite_get_endpoint_from_addr visits one after    *)
(* the other if no address matches; a pointer it cannot follow ends them.  *)
Walk[k \in 0 .. Cardinality(Node)] ==
    IF k = 0 THEN rl_endpoints
    ELSE IF Walk[k - 1] \in Node THEN next[Walk[k - 1]] ELSE Walk[k - 1]

Visited == {Walk[k] : k \in DOMAIN Walk} \intersect Node

(* Its result: a node on the way with that address. *)
rpmsg_lite_get_endpoint_from_addr(a) == {n \in Visited : addr[n] = a}

LowestFree == CHOOSE a \in Addr : /\ rpmsg_lite_get_endpoint_from_addr(a) = {}
                                  /\ \A b \in 1 .. a - 1 : rpmsg_lite_get_endpoint_from_addr(b) # {}

(* Mutant: the given address is not looked up. *)
create_unchecked(t, a) ==
    /\ task[t].pc = "idle"
    /\ lock = NoTask
    /\ \E n \in Node :
          /\ owner[n] = NoTask
          /\ owner' = [owner EXCEPT ![n] = t]
          /\ addr' = [addr EXCEPT ![n] = a]
          /\ next' = [next EXCEPT ![n] = Wild]
          /\ prev' = [prev EXCEPT ![n] = Wild]
          /\ task' = [task EXCEPT ![t] = At("add", n)]
    /\ lock' = t
    /\ UNCHANGED rl_endpoints

(***************************************************************************)
(* rpmsg_lite_create_ept up to add_to_list: an address that exists and     *)
(* memory that is exhausted are early returns.  New memory holds anything. *)
(* create_any is the call with RL_ADDR_ANY.                                *)
(***************************************************************************)
create_ept(t, a) ==
    /\ task[t].pc = "idle"
    /\ lock = NoTask
    /\ rpmsg_lite_get_endpoint_from_addr(a) = {}
    /\ \E n \in Node :
          /\ owner[n] = NoTask
          /\ owner' = [owner EXCEPT ![n] = t]
          /\ addr' = [addr EXCEPT ![n] = a]
          /\ next' = [next EXCEPT ![n] = Wild]
          /\ prev' = [prev EXCEPT ![n] = Wild]
          /\ task' = [task EXCEPT ![t] = At("add", n)]
    /\ lock' = t
    /\ UNCHANGED rl_endpoints

create_any(t) ==
    /\ \E a \in Addr : rpmsg_lite_get_endpoint_from_addr(a) = {}
    /\ create_ept(t, LowestFree)

(* Mutant: the list is taken for empty. *)
add_dropping(t) ==
    /\ task[t].pc = "add" /\ rl_endpoints # LIST_NULL
    /\ rl_endpoints' = task[t].node
    /\ task' = [task EXCEPT ![t].pc = "clear"]
    /\ UNCHANGED <<next, prev, addr, owner, lock>>

(* Mutant: the old head does not point back. *)
add_oneway(t) ==
    /\ task[t].pc = "add" /\ rl_endpoints # LIST_NULL
    /\ next' = [next EXCEPT ![task[t].node] = rl_endpoints]
    /\ prev' = [prev EXCEPT ![task[t].node] = LIST_NULL]
    /\ task' = [task EXCEPT ![t].pc = "head"]
    /\ UNCHANGED <<rl_endpoints, addr, owner, lock>>

(***************************************************************************)
(* add_to_list in source order.  A new first element is linked, by three   *)
(* writes that no walk reads, before it becomes the head; the element of   *)
(* an empty list only afterwards.                                          *)
(***************************************************************************)
add_link(t) ==
    LET n == task[t].node IN
    /\ task[t].pc = "add" /\ rl_endpoints # LIST_NULL
    /\ next' = [next EXCEPT ![n] = rl_endpoints]
    /\ prev' = [prev EXCEPT ![n] = LIST_NULL, ![rl_endpoints] = n]
    /\ task' = [task EXCEPT ![t].pc = "head"]
    /\ UNCHANGED <<rl_endpoints, addr, owner, lock>>

add_head(t) ==
    /\ task[t].pc = "head"
    /\ rl_endpoints' = task[t].node
    /\ task' = [task EXCEPT ![t].pc = "unlock"]
    /\ UNCHANGED <<next, prev, addr, owner, lock>>

add_first(t) ==
    /\ task[t].pc = "add" /\ rl_endpoints = LIST_NULL
    /\ rl_endpoints' = task[t].node
    /\ task' = [task EXCEPT ![t].pc = "clear"]
    /\ UNCHANGED <<next, prev, addr, owner, lock>>

add_clear(t) ==
    LET n == task[t].node IN
    /\ task[t].pc = "clear"
    /\ next' = [next EXCEPT ![n] = LIST_NULL]
    /\ prev' = [prev EXCEPT ![n] = LIST_NULL]
    /\ task' = [task EXCEPT ![t].pc = "unlock"]
    /\ UNCHANGED <<rl_endpoints, addr, owner, lock>>

create_unlock(t) ==
    /\ task[t].pc = "unlock"
    /\ lock' = NoTask
    /\ task' = [task EXCEPT ![t] = Idle]
    /\ UNCHANGED <<rl_endpoints, next, prev, addr, owner>>

(***************************************************************************)
(* rpmsg_lite_destroy_ept: the node is looked up by the address of the     *)
(* endpoint, then remove_from_list takes it out.                           *)
(***************************************************************************)
destroy_ept(t, n) ==
    /\ task[t].pc = "idle" /\ owner[n] = t
    /\ lock = NoTask
    /\ lock' = t
    /\ \E m \in rpmsg_lite_get_endpoint_from_addr(addr[n]) : task' = [task EXCEPT ![t] = At("remove", m)]
    /\ UNCHANGED <<rl_endpoints, next, prev, addr, owner>>

remove_from_list(t) ==
    LET n == task[t].node IN
    /\ task[t].pc = "remove"
    /\ \/ /\ n = rl_endpoints
          /\ rl_endpoints' = next[n]
          /\ task' = [task EXCEPT ![t].pc = "free"]
          /\ lock' = NoTask
          /\ UNCHANGED next
       \/ /\ n # rl_endpoints /\ next[n] = LIST_NULL
          /\ next' = [next EXCEPT ![prev[n]] = next[n]]
          /\ task' = [task EXCEPT ![t].pc = "free"]
          /\ lock' = NoTask
          /\ UNCHANGED rl_endpoints
       \/ /\ n # rl_endpoints /\ next[n] # LIST_NULL
          /\ next' = [next EXCEPT ![prev[n]] = next[n]]
          /\ task' = [task EXCEPT ![t].pc = "relink"]
          /\ UNCHANGED <<rl_endpoints, lock>>
    /\ UNCHANGED <<prev, addr, owner>>

remove_relink(t) ==
    LET n == task[t].node IN
    /\ task[t].pc = "relink"
    /\ prev' = [prev EXCEPT ![next[n]] = prev[n]]
    /\ task' = [task EXCEPT ![t].pc = "free"]
    /\ lock' = NoTask
    /\ UNCHANGED <<rl_endpoints, next, addr, owner>>

(* The memory is freed after the lock is released. *)
destroy_free(t) ==
    /\ task[t].pc = "free"
    /\ owner' = [owner EXCEPT ![task[t].node] = NoTask]
    /\ task' = [task EXCEPT ![t] = Idle]
    /\ UNCHANGED <<rl_endpoints, next, prev, addr, lock>>

Next ==
    \E t \in Task :
        \/ \E a \in Addr : create_ept(t, a)
        \/ create_any(t)
        \/ add_link(t)
        \/ add_head(t)
        \/ add_first(t)
        \/ add_clear(t)
        \/ create_unlock(t)
        \/ \E n \in Node : destroy_ept(t, n)
        \/ remove_from_list(t)
        \/ remove_relink(t)
        \/ destroy_free(t)

Spec == Init /\ [][Next]_vars

-----------------------------------------------------------------------------
(* Types of the list, the nodes and the tasks. *)
TypeOK ==
    /\ rl_endpoints \in Node \union {LIST_NULL}
    /\ next \in [Node -> Pointer]
    /\ prev \in [Node -> Pointer]
    /\ addr \in [Node -> Addr \union {0}]
    /\ owner \in [Node -> Task \union {NoTask}]
    /\ lock \in Task \union {NoTask}
    /\ task \in [Task -> [pc : {"idle", "add", "head", "clear", "unlock", "remove", "relink", "free"},
                          node : Node \union {NoNode}]]

Busy(n) == \E t \in Task : task[t].node = n

(* Endpoints that exist for the application: rpmsg_lite_create_ept has     *)
(* returned and rpmsg_lite_destroy_ept has not been called.                *)
Existing == {n \in Node : owner[n] # NoTask /\ ~Busy(n)}

(* Whatever another task adds or removes, an interrupt at any moment finds *)
(* every existing endpoint: no message is released unread because of a     *)
(* list that is half changed.                                              *)
EndpointsFound == \A n \in Existing : n \in rpmsg_lite_get_endpoint_from_addr(addr[n])

(* Nor does it ever call the callback of an endpoint whose memory is free, *)
(* or find two endpoints for one address ("Already exists!",               *)
(* rpmsg_lite.c:426).                                                      *)
OneEndpointPerAddress ==
    /\ \A n \in Visited : owner[n] # NoTask
    /\ \A a \in Addr : Cardinality(rpmsg_lite_get_endpoint_from_addr(a)) <= 1

(* While nobody holds the lock, the list holds exactly the existing        *)
(* endpoints and its back links agree with it, so that the removal of any  *)
(* of them relinks its neighbours.  The back link of the head is left over *)
(* from elements removed before it, and is never used.                     *)
ListConsistent ==
    /\ TypeOK
    /\ lock = NoTask =>
        /\ Visited = Existing
        /\ Walk[Cardinality(Node)] = LIST_NULL
        /\ \A n \in Visited \ {rl_endpoints} : prev[n] \in Visited /\ next[prev[n]] = n

(* "RL_NULL if not found, node pointer containing the ept on success"      *)
(* (rpmsg_lite.c:89): the walk of the interrupt ends at the null pointer   *)
(* and never follows a link that was not assigned.                         *)
LookupDefined == Walk[Cardinality(Node)] = LIST_NULL
=============================================================================
