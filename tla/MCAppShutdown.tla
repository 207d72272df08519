--------------------------- MODULE MCAppShutdown ---------------------------
(***************************************************************************)
(* An app with one request, one message and one service, each of which may *)
(* come early or late and may hang.                                        *)
(***************************************************************************)
EXTENDS AppShutdown

\* Tasks are given up on when the forced shutdown starts.
MCConfigs == {[total |-> 3, handlers |-> 1,
               shutdownTimeout |-> 0, k8sGrace |-> Unset]}
=============================================================================
