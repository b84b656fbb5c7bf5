--------------------------- MODULE BufferExchange ---------------------------
(***************************************************************************)
(* What a vring promises its two sides: buffers travel over FIFO channels, *)
(* each buffer being at any time in one channel or with one party.         *)
(***************************************************************************)
EXTENDS Sequences

CONSTANTS Buffer, Channel, Party, Giver, Taker

VARIABLES
    fresh,      \* buffers not yet put into service
    chan,       \* the buffers under way, oldest first
    own         \* the buffers each party may touch

Init ==
    /\ fresh = Buffer
    /\ chan = [c \in Channel |-> <<>>]
    /\ own = [p \in Party |-> {}]

(* A fresh buffer is put on a channel before the exchange starts. *)
Supply(c, b) ==
    /\ b \in fresh
    /\ fresh' = fresh \ {b}
    /\ chan' = [chan EXCEPT ![c] = Append(@, b)]
    /\ UNCHANGED own

Give(c, b) ==
    /\ b \in own[Giver[c]]
    /\ own' = [own EXCEPT ![Giver[c]] = @ \ {b}]
    /\ chan' = [chan EXCEPT ![c] = Append(@, b)]
    /\ UNCHANGED fresh

Take(c) ==
    /\ chan[c] # <<>>
    /\ own' = [own EXCEPT ![Taker[c]] = @ \union {Head(chan[c])}]
    /\ chan' = [chan EXCEPT ![c] = Tail(@)]
    /\ UNCHANGED fresh

Next ==
    \E c \in Channel :
        \/ \E b \in Buffer : Supply(c, b) \/ Give(c, b)
        \/ Take(c)

Spec == Init /\ [][Next]_<<fresh, chan, own>>
=============================================================================
