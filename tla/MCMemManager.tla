---------------------------- MODULE MCMemManager ----------------------------
(* Three pools of two ids in the order of their sizes, two queues: the     *)
(* tasks produce into both, each consumes one.                             *)
EXTENDS MemManager
CONSTANTS t1, t2, b1, b2, b3, b4, q1, q2
MCPoolInfo == <<[blockSize |-> 1, poolId |-> 0, blocks |-> <<b1, b2>>],
                [blockSize |-> 2, poolId |-> 1, blocks |-> <<b3>>],
                [blockSize |-> 2, poolId |-> 0, blocks |-> <<b4>>]>>
MCConsumers == [q \in {q1, q2} |-> IF q = q1 THEN {t1} ELSE {t2}]
=============================================================================
