----------------------------- MODULE MCReqTrack -----------------------------
(***************************************************************************)
(* An operation with three goroutines and three events, traced or not, in  *)
(* a test or not.                                                          *)
(***************************************************************************)
EXTENDS ReqTrack
=============================================================================
