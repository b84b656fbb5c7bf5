------------------------------ MODULE MCTimers ------------------------------
(* Timers started in four ways: each timer with an interval that one       *)
(* compare value covers and with one that takes several.                   *)
EXTENDS Timers
Single == [lp |-> FALSE, shot |-> TRUE]
LowPowerInterval == [lp |-> TRUE, shot |-> FALSE]
LowPowerSingle == [lp |-> TRUE, shot |-> TRUE]
MCUse == {[id |-> 0, interval |-> 9, type |-> Single],
          [id |-> 0, interval |-> 2, type |-> LowPowerInterval],
          [id |-> 1, interval |-> 2, type |-> Single],
          [id |-> 1, interval |-> 9, type |-> LowPowerSingle]}
=============================================================================
