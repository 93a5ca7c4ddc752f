---------------------------- MODULE MCRuntimeLock ----------------------------
(* Three pids: that of a dead owner and two that take over from it.         *)
EXTENDS RuntimeLock

CONSTANTS p1, p2, p3

MCPids == {p1, p2, p3}
PairPids == {p1, p2}
=============================================================================
