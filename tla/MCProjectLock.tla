---------------------------- MODULE MCProjectLock ----------------------------
(***************************************************************************)
(* Instance of ProjectLock for TLC: process p1 with two threads, process   *)
(* p2 with one.                                                            *)
(***************************************************************************)
EXTENDS ProjectLock

CONSTANTS p1, p2, t1, t2, t3

MCProcs   == {p1, p2}
MCThreads == {t1, t2, t3}
MCProcOf  == [t \in MCThreads |-> IF t = t3 THEN p2 ELSE p1]
=============================================================================
