--------------------------- MODULE ExclusiveSection ---------------------------
(***************************************************************************)
(* What the project lock promises its callers: one thread at a time is     *)
(* inside, it may enter again while inside, and it leaves as often as it   *)
(* entered; a holder whose process dies leaves at once.                    *)
(***************************************************************************)
EXTENDS Naturals

CONSTANTS Threads, None, MaxDepth

VARIABLES holder, nesting

Init == holder = None /\ nesting = 0

Enter(t) == /\ holder = None
            /\ holder' = t
            /\ nesting' = 1

EnterAgain(t) == /\ holder = t
                 /\ nesting < MaxDepth
                 /\ nesting' = nesting + 1
                 /\ UNCHANGED holder

Leave(t) == /\ holder = t
            /\ nesting' = nesting - 1
            /\ holder' = IF nesting = 1 THEN None ELSE t

Die(t) == /\ holder = t
          /\ holder' = None
          /\ nesting' = 0

Next == \E t \in Threads : Enter(t) \/ EnterAgain(t) \/ Leave(t) \/ Die(t)

Spec == Init /\ [][Next]_<<holder, nesting>>
=============================================================================
