---------------------------- MODULE MCLiveReload ----------------------------
(***************************************************************************)
(* Two changes of the source, three builds, two processes per group.       *)
(***************************************************************************)
EXTENDS LiveReload
=============================================================================
