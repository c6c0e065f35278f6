-------------------------- MODULE MCToolInvocation --------------------------
(* ToolInvocation with processes that are alike.                           *)
EXTENDS ToolInvocation, TLC

Symmetry == Permutations(Procs)

(* One process works with every kind of tool and an edit of the inputs; two  *)
(* processes work with the kinds that meet through the store alone.          *)
Focus ==
  \/ \E p \in Procs : \A q \in Procs \ {p} : session[q] = None /\ holder # q
  \/ edits = 0 /\ \A i \in 1..Depth : stack[i].kind \in {"derived", "model", "compound"}
=============================================================================
