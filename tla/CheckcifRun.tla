---------------------------- MODULE CheckcifRun ----------------------------
(* One run_checkcif: the PLATON process tree it owns, the loop of          *)
(* run_platon that decides when the report is finished                     *)
(* (crystalpilot/refine/checkcif_runner.py, checkcif_process.py), the      *)
(* budget it obeys (crystalpilot/tools/budget.py) and the two looks at the *)
(* cancel event before the result is published (tools_deliver.py).         *)
(*                                                                         *)
(* PLATON writes one block of its report after the other; the report reads *)
(* as complete whenever a block has just been finished.  It pauses for at  *)
(* most Pause ticks while it has more to say, and its helpers may outlive  *)
(* it or keep it from ever exiting.                                        *)
EXTENDS Naturals

CONSTANTS Blocks,   \* blocks in the report of this CIF
          Pause,    \* ticks; less than Stable
          Stable,   \* STABLE_S: ticks without a change; less than Timeout
          Timeout,  \* timeout_s
          None

VARIABLES
  tree,      \* the owned processes: PLATON itself, its helpers
  chk,       \* model.chk: half-blocks written; .quiet: ticks since the last
  clock,     \* the budget's elapsed time
  cancelled, \* the cancel event of the call
  at,        \* where run_platon and its caller are
  look,      \* what this round of the loop has read
  result,    \* execution_status, cleanup_complete
  archive    \* the model.chk kept with the attempt

vars == <<tree, chk, clock, cancelled, at, look, result, archive>>

Dead == [root |-> "none", helpers |-> FALSE]
Active == tree.root = "alive" \/ tree.helpers
Full == 2 * Blocks
Complete(n) == n > 0 /\ n % 2 = 0

Init ==
  /\ tree = Dead /\ chk = [n |-> 0, quiet |-> 0] /\ clock = 0 /\ cancelled = FALSE
  /\ at = "prepare" /\ look = [signature |-> 0, since |-> 0, text |-> 0, code |-> None]
  /\ result = [status |-> "failed", clean |-> TRUE] /\ archive = None

-----------------------------------------------------------------------------
(* PLATON, and time.                                                        *)

\* A block takes longer to write than a round takes from Sign to Read.
Write ==
  /\ tree.root = "alive" /\ chk.n < Full
  /\ at = "read" => chk.n = look.signature
  /\ chk' = [n |-> chk.n + 1, quiet |-> 0]
  /\ \E h \in {TRUE, tree.helpers} : tree' = [tree EXCEPT !.helpers = h]
  /\ UNCHANGED <<clock, cancelled, at, look, result, archive>>

\* With everything written it may exit with 0; it may crash at any time.
ProcessEnds ==
  /\ \/ /\ tree.root = "alive"
        /\ \E c \in {"zero", "error"} :
             (c = "zero" => chk.n = Full) /\ tree' = [tree EXCEPT !.root = c]
     \/ tree.helpers /\ tree' = [tree EXCEPT !.helpers = FALSE]
  /\ UNCHANGED <<chk, clock, cancelled, at, look, result, archive>>

Writing == tree.root = "alive" /\ chk.n \in 1 .. Full - 1

\* A round of the loop takes less than a tick; the sleep between two rounds
\* takes one or more, and everything else may take any number.
Tick ==
  /\ at \notin {"read", "check", "decide", "published", "ended"}
  /\ at = "sleep" \/ clock < Timeout
  /\ Writing => chk.quiet < Pause
  /\ clock' = IF clock < Timeout THEN clock + 1 ELSE clock
  /\ chk' = IF Writing THEN [chk EXCEPT !.quiet = @ + 1] ELSE chk
  /\ at' = IF at = "sleep" THEN "sign" ELSE at
  /\ UNCHANGED <<tree, cancelled, look, result, archive>>

Cancel ==
  /\ ~cancelled /\ cancelled' = TRUE
  /\ UNCHANGED <<tree, chk, clock, at, look, result, archive>>

-----------------------------------------------------------------------------
(* run_platon.                                                              *)

Goto(place) == at' = place
Ends(status) == result' = [result EXCEPT !.status = status] /\ Goto("close")

\* Budget.check: "cancelled" wins over "timeout".
Stops == cancelled \/ clock = Timeout
Stopped == Ends(IF cancelled THEN "cancelled" ELSE "timeout")

\* An executable that is missing, a path that is too long, a copy that fails.
Start ==
  /\ at = "prepare"
  /\ \/ Stops /\ Stopped /\ UNCHANGED <<tree, look>>
     \/ Ends("failed") /\ UNCHANGED <<tree, look>>
     \/ /\ ~Stops
        /\ tree' = [root |-> "alive", helpers |-> FALSE]
        /\ look' = [look EXCEPT !.since = clock]
        /\ Goto("sign") /\ UNCHANGED result
  /\ UNCHANGED <<chk, clock, cancelled, archive>>

\* Bug variant: the clock of a stable report is not set back by a change.
SignOnce ==
  /\ at = "sign" /\ Goto("read")
  /\ look' = [look EXCEPT !.signature = chk.n]
  /\ UNCHANGED <<tree, chk, clock, cancelled, result, archive>>

Sign ==
  /\ at = "sign" /\ Goto("read")
  /\ look' = IF chk.n = look.signature THEN look
             ELSE [look EXCEPT !.signature = chk.n, !.since = clock]
  /\ UNCHANGED <<tree, chk, clock, cancelled, result, archive>>

Read ==
  /\ at = "read"
  /\ look' = [look EXCEPT !.text = chk.n]
  /\ Goto("check")
  /\ UNCHANGED <<tree, chk, clock, cancelled, result, archive>>

\* Bug variant: only the cancel event ends the loop.
CheckCancel ==
  /\ at = "check"
  /\ look' = [look EXCEPT !.code = IF tree.root \in {"zero", "error"} THEN tree.root ELSE None]
  /\ IF cancelled THEN Stopped ELSE Goto("decide") /\ UNCHANGED result
  /\ UNCHANGED <<tree, chk, clock, cancelled, archive>>

Check ==
  /\ at = "check"
  /\ look' = [look EXCEPT !.code = IF tree.root \in {"zero", "error"} THEN tree.root ELSE None]
  /\ IF Stops THEN Stopped ELSE Goto("decide") /\ UNCHANGED result
  /\ UNCHANGED <<tree, chk, clock, cancelled, archive>>

\* The report is taken when it is complete and nothing changed for a while;
\* a tree that is gone without one has failed.  The budget is asked once more.
Decide ==
  /\ at = "decide"
  /\ IF look.code = "error" THEN Ends("failed")
     ELSE IF Complete(look.text) /\ clock - look.since >= Stable
       THEN IF Stops THEN Stopped ELSE Ends("completed")
     ELSE IF ~Active /\ ~Complete(look.text) THEN Ends("failed")
     ELSE Goto("sleep") /\ UNCHANGED result
  /\ UNCHANGED <<tree, chk, clock, cancelled, look, archive>>

\* CheckcifProcess.close kills the tree and confirms it, or cannot.
Close ==
  /\ at = "close"
  /\ \/ tree' = (IF tree.root = "alive" THEN Dead ELSE [tree EXCEPT !.helpers = FALSE])
        /\ UNCHANGED result
     \/ Active /\ UNCHANGED tree /\ result' = [status |-> "failed", clean |-> FALSE]
  /\ Goto("preserve")
  /\ UNCHANGED <<chk, clock, cancelled, look, archive>>

\* The private directory is copied to the attempt's and removed.
Preserve ==
  /\ at = "preserve"
  /\ \/ archive' = chk.n /\ UNCHANGED result
     \/ UNCHANGED archive /\ result' = [result EXCEPT !.status = "failed"]
  /\ Goto("ran")
  /\ UNCHANGED <<tree, chk, clock, cancelled, look>>

-----------------------------------------------------------------------------
(* RunCheckcif.run after run_platon: cancelled, before and after the alerts *)
(* are counted, is not published as a success.                              *)

LookAgain(from, to) ==
  /\ at = from
  /\ IF cancelled THEN result' = [result EXCEPT !.status = "cancelled"] /\ Goto("ended")
     ELSE Goto(IF result.status = "completed" THEN to ELSE "ended") /\ UNCHANGED result
  /\ UNCHANGED <<tree, chk, clock, cancelled, look, archive>>

AfterRun == LookAgain("ran", "count")
Publish == LookAgain("count", "published")

Runner == Start \/ Sign \/ Read \/ Check \/ Decide \/ Close \/ Preserve \/ AfterRun \/ Publish
Next == Runner \/ Write \/ ProcessEnds \/ Tick \/ Cancel

Spec == Init /\ [][Next]_vars

\* The runner's thread runs and its sleep ends; a block once begun is continued
\* (Tick waits for it); PLATON need not begin one, nor exit.
Sleep == at = "sleep" /\ Tick
FairSpec == Spec /\ WF_vars(Runner) /\ WF_vars(Sleep) /\ WF_vars(Writing /\ Write)

-----------------------------------------------------------------------------
TypeOK ==
  /\ tree \in [root : {"none", "alive", "zero", "error"}, helpers : BOOLEAN]
  /\ chk \in [n : 0 .. Full, quiet : 0 .. Pause]
  /\ clock \in 0 .. Timeout /\ cancelled \in BOOLEAN
  /\ at \in {"prepare", "sign", "read", "check", "decide", "sleep", "close", "preserve",
             "ran", "count", "published", "ended"}
  /\ result \in [status : {"completed", "failed", "timeout", "cancelled"}, clean : BOOLEAN]
  /\ archive \in 0 .. Full \cup {None}

\* A published report is the last word of PLATON: the archived file has every
\* block, and nothing of the owned tree is left to write to it.
PublishedIsWhole == at = "published" => archive = Full /\ ~Active

\* The call ends, whatever PLATON and its helpers do.
CheckEnds == <>(at \in {"published", "ended"})
=============================================================================
