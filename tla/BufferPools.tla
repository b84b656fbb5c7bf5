---------------------------- MODULE BufferPools ----------------------------
(***************************************************************************)
(* What the memory manager and the message queues promise together: every  *)
(* buffer is either held by one task or has one place in one list, a free  *)
(* pool or a message queue; a task takes from the head of a list or a      *)
(* given buffer of it, and puts what it holds into a list.                 *)
(***************************************************************************)
EXTENDS Naturals, SequencesExt

CONSTANTS Task, Buffer, List, NoTask

VARIABLES
    content,    \* the buffers of each list, in order
    holder      \* the task that holds a buffer, NoTask when it is in a list

Init ==
    /\ DOMAIN content = List
    /\ \A l \in List : ToSet(content[l]) \subseteq Buffer /\ IsInjective(content[l])
    /\ \A b \in Buffer : \E l \in List : \A m \in List : b \in ToSet(content[m]) <=> m = l
    /\ holder = [b \in Buffer |-> NoTask]

Take(t, b) ==
    /\ holder[b] = NoTask
    /\ holder' = [holder EXCEPT ![b] = t]
    /\ \E l \in List : \E k \in DOMAIN content[l] :
          /\ content[l][k] = b
          /\ content' = [content EXCEPT ![l] = RemoveAt(@, k)]

Put(t, b) ==
    /\ holder[b] = t
    /\ holder' = [holder EXCEPT ![b] = NoTask]
    /\ \E l \in List : \E k \in 1 .. Len(content[l]) + 1 :
          content' = [content EXCEPT ![l] = InsertAt(@, k, b)]

Next == \E t \in Task, b \in Buffer : Take(t, b) \/ Put(t, b)

Spec == Init /\ [][Next]_<<holder, content>>
=============================================================================
