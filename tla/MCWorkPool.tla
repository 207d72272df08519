----------------------------- MODULE MCWorkPool -----------------------------
(***************************************************************************)
(* Pools of three workers that fetch at most two items at a time.          *)
(***************************************************************************)
EXTENDS WorkPool
=============================================================================
