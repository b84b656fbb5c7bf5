----------------------------- MODULE NvDataSets -----------------------------
(***************************************************************************)
(* What the non-volatile storage promises: each data set of the table has  *)
(* a stored value that survives a power loss, one save changes one data    *)
(* set in one step, and nothing but a format the application asked for     *)
(* touches the others.  A format that is cut short may leave older values. *)
(***************************************************************************)
CONSTANTS Entry, Value, NONE

VARIABLES
    stored,         \* what a restart would restore, NONE for a data set never saved
    formatting

Init ==
    /\ stored = [e \in Entry |-> NONE]
    /\ formatting = FALSE

Save(e) ==
    /\ ~formatting
    /\ stored'[e] \in Value
    /\ \A d \in Entry \ {e} : stored'[d] = stored[d]
    /\ UNCHANGED formatting

BeginFormat ==
    /\ formatting' = TRUE
    /\ UNCHANGED stored

Format ==
    /\ formatting
    /\ formatting' \in BOOLEAN
    /\ stored' \in [Entry -> Value \union {NONE}]

Next == (\E e \in Entry : Save(e)) \/ BeginFormat \/ Format

Spec == Init /\ [][Next]_<<stored, formatting>>
=============================================================================
