---------------------------- MODULE MCShutdown ----------------------------
(***************************************************************************)
(* The tracker with two handlers and the configurations that tell its      *)
(* timings apart, in units of half a second.                               *)
(***************************************************************************)
EXTENDS Shutdown

Cfg(total, handlers, timeout, k8s) ==
    [total |-> total, handlers |-> handlers,
     shutdownTimeout |-> timeout, k8sGrace |-> k8s]

\* The tasks are given up on when the forced shutdown starts (and Kubernetes
\* leaves time to keep accepting), long after it, and the older ShutdownTimeout,
\* here so short that running tasks are canceled at once.
MCConfigs == {Cfg(5, Unset, 0, 6),
              Cfg(3, 1, 0, Unset),
              Cfg(Unset, Unset, 1, Unset)}

\* The older ShutdownTimeout under Kubernetes, whose grace period has room for
\* the shutdown.
LegacyK8sConfigs == {Cfg(Unset, Unset, 3, 8)}
=============================================================================
