---------------------------- MODULE MCRouteCache ----------------------------
(* Model values for the TLC run of RouteCache.                             *)
EXTENDS RouteCache

CONSTANTS p1, p2

\* one of two replicas caches tokens
OneCaches == [p \in Procs |-> p = p1]
=============================================================================
