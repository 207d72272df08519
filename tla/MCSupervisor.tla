---------------------------- MODULE MCSupervisor ----------------------------
(***************************************************************************)
(* A process that fails up to four times and exits cleanly in between; the *)
(* back-off of one to five units reaches its cap at the fourth failure.    *)
(***************************************************************************)
EXTENDS Supervisor
=============================================================================
