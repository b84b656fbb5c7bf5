------------------------------ MODULE MCMcmgr ------------------------------
(* Mcmgr with two startup words that share no half. *)
EXTENDS Mcmgr
MCData == {<<1, 2>>, <<3, 4>>}
=============================================================================
