-------------------------- MODULE MCProjectSession --------------------------
(* ProjectSession on small sets of requests, conversations, turn threads   *)
(* and flags, each of whose members are alike.                             *)
EXTENDS ProjectSession, TLC

Symmetry == Permutations(Requests) \cup Permutations(Threads)
              \cup Permutations(Workers) \cup Permutations(Flags)
=============================================================================
