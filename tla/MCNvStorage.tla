---------------------------- MODULE MCNvStorage -----------------------------
(* Two data sets in pages of ten, twelve or eighteen cells. *)
EXTENDS NvStorage

CONSTANT v1
MCTable == <<1, 2>>
MCSmallTable == <<1, 1>>
MCUnevenTable == <<1, 5>>
MCValue == {v1, BLANK}
MCOneValue == {v1}
MCNone == {}
MCFormat == {"format while erasing"}
MCShutdown == {"shutdown while pending"}
MCCritical == {"critical section in a call"}
=============================================================================
