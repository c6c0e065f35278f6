---------------------------- MODULE ToolInvocation ----------------------------
(***************************************************************************)
(* One tool call on a project: RefineProject.invoke_tool in                *)
(* crystalpilot/refine/project.py with the input undo of input_undo.py.    *)
(*                                                                         *)
(* A process keeps the model of the active node in memory (its session)    *)
(* between calls and other processes move the project on meanwhile.  A     *)
(* call holds the project lock (module ProjectLock) throughout: it reloads *)
(* a stale session, runs the tool, commits what the tool made as a new     *)
(* node, and on failure or cancellation puts back the working inputs and   *)
(* the pointer.  A compound tool (ghost_test, element_scan, probe_site)    *)
(* calls other tools from its body, on branches it cuts from a baseline.   *)
(*                                                                         *)
(* Publication is one step here (module NodePublication has its parts), a  *)
(* model is the node it was loaded from, and the inputs (context.json) are *)
(* a number, new at every edit.                                            *)
(***************************************************************************)
EXTENDS Integers, Sequences

CONSTANTS Procs,      \* processes with the project open, one call at a time
          Kinds,      \* the kinds of tool called
          None,
          MaxNode,    \* bound: nodes committed after the import
          MaxRev,     \* bound: project revisions
          MaxInputs,  \* bound: edits of the inputs
          MaxFaults   \* bound: processes that die, loads and hooks that fail

ASSUME BoundsAssumption ==
  MaxNode \in Nat /\ MaxRev \in Nat /\ MaxInputs \in Nat /\ MaxFaults \in Nat
ASSUME KindsAssumption ==   \* a compound tool calls model tools
  /\ Kinds \subseteq {"derived", "model", "reference", "metadata", "compound"}
  /\ "compound" \in Kinds => "model" \in Kinds
ASSUME NoneAssumption == None \notin Nat \cup Procs

Nodes    == 0 .. MaxNode
Inputs   == 0 .. MaxInputs
Branches == {"main", "diag"}      \* names the active branch may have
Maybe(S) == S \cup {None}

VARIABLES
  store,    \* state.json: active node, active branch, seq and revision
  inputs,   \* the working inputs
  exper,    \* exper[n]: the inputs recorded with node n
  parent,   \* parent[n]: its parent in node.json
  origin,   \* origin[n]: the node its model was made from (not in the code)
  session,  \* session[p]: the live model
  loaded,   \* loaded[p]: _loaded_version
  stack,    \* the invocations in progress, the innermost first
  holder,   \* the process that has the project lock
  cancel,   \* the caller's cancel event
  entry,    \* the project as the last call found it
  outcome,  \* what the last call reported
  edits, faults

projectVars == <<store, inputs, exper, parent, origin>>
callVars    == <<holder, cancel, entry, outcome>>
vars == <<projectVars, session, loaded, stack, callVars, edits, faults>>

Versions == [node: Maybe(Nodes), rev: Nat]
Sessions == [src: Versions, base: Nodes, edited: BOOLEAN]
ASSUME NoSessionAssumption == None \notin Sessions
Stores   == [active: Maybe(Nodes), branch: Branches, seq: Nat, rev: Nat]
Frames   == [kind: Kinds, step: {"body", "commit", "finish"},
             phase: {"start", "begun", "pointed", "cut", "ready", "restoring",
                     "done", "failed"}, ok: BOOLEAN,
             before: Stores, undo: Maybe(Inputs), valid: BOOLEAN,
             baseline: Maybe(Nodes)]
Outcomes == [ok: BOOLEAN, cancelled: BOOLEAN, recovery: BOOLEAN,
             kind: Maybe(Kinds), committed: BOOLEAN, baseline: Maybe(Nodes)]

TypeOK ==
  /\ store \in Stores
  /\ store.active # None => store.active < store.seq
  /\ inputs \in Inputs
  /\ exper \in [Nodes -> Inputs]
  /\ parent \in [Nodes -> Maybe(Nodes)]
  /\ origin \in [Nodes -> Maybe(Nodes)]
  /\ session \in [Procs -> Maybe(Sessions)]
  /\ loaded \in [Procs -> Maybe(Versions)]
  /\ stack \in Seq(Frames) /\ Len(stack) <= 2
  /\ holder \in Maybe(Procs)
  /\ cancel \in BOOLEAN
  /\ entry \in [store: Stores, inputs: Inputs]
  /\ outcome \in Outcomes
  /\ edits \in 0 .. MaxInputs
  /\ faults \in 0 .. MaxFaults

(* A project with reduced data and a start model, opened by nobody yet.    *)
Init ==
  /\ store = [active |-> None, branch |-> "main", seq |-> 0, rev |-> 0]
  /\ inputs = 0
  /\ exper = [n \in Nodes |-> 0]
  /\ parent = [n \in Nodes |-> None]
  /\ origin = [n \in Nodes |-> None]
  /\ session = [p \in Procs |-> None]
  /\ loaded = [p \in Procs |-> None]
  /\ stack = <<>>
  /\ holder = None
  /\ cancel = FALSE
  /\ entry = [store |-> store, inputs |-> inputs]
  /\ outcome = [ok |-> TRUE, cancelled |-> FALSE, recovery |-> FALSE,
                kind |-> None, committed |-> FALSE, baseline |-> None]
  /\ edits = 0
  /\ faults = 0

-----------------------------------------------------------------------------
(* Versions, sessions and the pointer.                                     *)

VersionOf(st) == [node |-> st.active, rev |-> st.rev]

(* A session rebuilt from node n of st.                                    *)
Clean(n, st) == [src |-> VersionOf(st), base |-> n, edited |-> FALSE]

Remembered(ses, st) ==
  IF ses = None THEN None ELSE [ses EXCEPT !.src = VersionOf(st)]

(* Publishing the pointer brings the inputs recorded with its node back,   *)
(* and does nothing at all when that changes neither.                      *)
Moves(n, b) == store.active # n \/ store.branch # b \/ inputs # exper[n]
Pointed(n, b) == [store EXCEPT !.active = n, !.branch = b, !.rev = @ + 1]

MayFail == faults < MaxFaults /\ faults' = faults + 1

Top == stack[1]
Depth == Len(stack)
Running(p, step) == holder = p /\ Depth > 0 /\ Top.step = step

(* The body of the innermost invocation goes on to phase ph.               *)
Phase(ph) == stack' = [stack EXCEPT ![1].phase = ph]

-----------------------------------------------------------------------------
(* Entering invoke_tool.                                                   *)

Writes(k) == k # "derived"

NewFrame(k, st, ins) ==
  [kind |-> k, step |-> "body", phase |-> "start", ok |-> FALSE, before |-> st,
   undo |-> IF Writes(k) THEN ins ELSE None, valid |-> Writes(k),
   baseline |-> None]

(* Bug variant: a stale session is stamped with the new version.           *)
Restamped(p) ==
  IF session[p] = None THEN Clean(store.active, store)
  ELSE Remembered(session[p], store)

(* The session the tool starts with, once stale memory is dropped and the  *)
(* active node resumed.                                                    *)
Resumed(p) ==
  IF session[p] = None \/ loaded[p] # VersionOf(store)
  THEN Clean(store.active, store)
  ELSE session[p]

(* A call enters with a node to work on.                                   *)
Invoke(p, k) ==
  /\ holder = None /\ stack = <<>> /\ store.active # None
  /\ holder' = p
  /\ cancel' = FALSE
  /\ entry' = [store |-> store, inputs |-> inputs]
  /\ session' = [session EXCEPT ![p] = Resumed(p)]
  /\ loaded' = [loaded EXCEPT ![p] = IF Resumed(p) = session[p] THEN @
                                      ELSE VersionOf(store)]
  /\ stack' = <<NewFrame(k, store, inputs)>>
  /\ UNCHANGED <<projectVars, outcome, edits, faults>>

(* The first call on a project imports the start model, then enters.       *)
Imported == [store EXCEPT !.active = 0, !.seq = 1, !.rev = @ + 1]

InvokeImports(p, k) ==
  /\ holder = None /\ stack = <<>> /\ store.active = None
  /\ store.rev < MaxRev
  /\ holder' = p
  /\ cancel' = FALSE
  /\ entry' = [store |-> Imported, inputs |-> inputs]
  /\ store' = Imported
  /\ exper' = [exper EXCEPT ![0] = inputs]
  /\ session' = [session EXCEPT ![p] = Clean(0, Imported)]
  /\ loaded' = [loaded EXCEPT ![p] = VersionOf(Imported)]
  /\ stack' = <<NewFrame(k, Imported, inputs)>>
  /\ UNCHANGED <<inputs, parent, origin, outcome, edits, faults>>

(* The active node does not load: the call fails before it begins.         *)
InvokeFails(p) ==
  /\ holder = None /\ stack = <<>> /\ store.active # None
  /\ Resumed(p) # session[p]
  /\ MayFail
  /\ session' = [session EXCEPT ![p] = None]
  /\ loaded' = [loaded EXCEPT ![p] = None]
  /\ UNCHANGED <<projectVars, stack, callVars, edits>>

(* The session a nested call starts with: it may have been edited on       *)
(* purpose by the tool that calls, but it is of the active node.           *)
NestedSession(p) ==
  IF session[p] = None \/ session[p].src.node # store.active
  THEN Clean(store.active, store)
  ELSE Remembered(session[p], store)

(* A compound tool edits or refines its candidate.                         *)
InvokeNested(p) ==
  /\ Running(p, "body") /\ Depth = 1
  /\ Top.kind = "compound" /\ Top.phase = "cut"
  /\ session' = [session EXCEPT ![p] = NestedSession(p)]
  /\ loaded' = [loaded EXCEPT ![p] = VersionOf(store)]
  /\ stack' = <<NewFrame("model", store, inputs)>> \o stack
  /\ UNCHANGED <<projectVars, callVars, edits, faults>>

-----------------------------------------------------------------------------
(* Bodies.                                                                 *)

(* The tool changes the model in memory.                                   *)
EditModel(p) ==
  /\ Running(p, "body")
  /\ Top.kind = "model" \/ (Top.kind = "compound" /\ Top.phase = "cut")
  /\ session[p] # None
  /\ session' = [session EXCEPT ![p].edited = TRUE]
  /\ UNCHANGED <<projectVars, loaded, stack, callVars, edits, faults>>

(* The tool rewrites context.json or the investigation.                    *)
EditInputs(p) ==
  /\ Running(p, "body") /\ Top.kind = "metadata"
  /\ edits < MaxInputs
  /\ edits' = edits + 1
  /\ inputs' = edits + 1
  /\ UNCHANGED <<store, exper, parent, origin, session, loaded, stack,
                 callVars, faults>>

(* NodeStore.branch: the pointer moves, the session does not.              *)
MovePointer(n, b) ==
  /\ n < store.seq
  /\ IF Moves(n, b)
     THEN /\ ~cancel /\ store.rev < MaxRev
          /\ store' = Pointed(n, b)
          /\ inputs' = exper[n]
     ELSE UNCHANGED <<store, inputs>>
  /\ UNCHANGED <<exper, parent, origin>>

(* RefineProject.checkout: the session is rebuilt and the pointer follows. *)
Checkout(p, n, b, ph) ==
  /\ MovePointer(n, b)
  /\ session' = [session EXCEPT ![p] = Clean(n, store')]
  /\ loaded' = [loaded EXCEPT ![p] = VersionOf(store')]
  /\ Phase(ph)
  /\ UNCHANGED <<callVars, edits, faults>>

(* set_active keeps the branch of the active node and infers another's.    *)
BranchFor(n) == IF n = store.active THEN {store.branch} ELSE Branches

(* Its node does not load, or the call is cancelled before the pointer     *)
(* moves: what was in memory is dropped.                                   *)
CheckoutFails(p, n, ph) ==
  /\ n < store.seq
  /\ \/ MayFail
     \/ /\ cancel /\ \E b \in BranchFor(n) : Moves(n, b)
        /\ UNCHANGED faults
  /\ session' = [session EXCEPT ![p] = None]
  /\ loaded' = [loaded EXCEPT ![p] = None]
  /\ Phase(ph)
  /\ UNCHANGED <<projectVars, callVars, edits>>

InBody(p, k, ph) == Running(p, "body") /\ Top.kind = k /\ Top.phase = ph

(* CheckoutTool.                                                           *)
CheckoutBody(p) ==
  /\ InBody(p, "reference", "start")
  /\ \E n \in Nodes :
       \/ \E b \in BranchFor(n) : Checkout(p, n, b, "done")
       \/ CheckoutFails(p, n, "failed")

(* BranchTool: first the pointer, then the session.                        *)
BranchBody(p) ==
  /\ InBody(p, "reference", "start")
  /\ \E n \in Nodes, b \in Branches : MovePointer(n, b)
  /\ Phase("pointed")
  /\ UNCHANGED <<session, loaded, callVars, edits, faults>>

BranchReload(p) ==
  /\ InBody(p, "reference", "pointed")
  /\ \/ Checkout(p, store.active, store.branch, "done")
     \/ CheckoutFails(p, store.active, "failed")

(* _begin: the baseline is checked out before anything runs.               *)
CompoundBegin(p) ==
  /\ InBody(p, "compound", "start")
  /\ \E n \in Nodes : \E b \in BranchFor(n) :
       /\ MovePointer(n, b)
       /\ session' = [session EXCEPT ![p] = Clean(n, store')]
       /\ loaded' = [loaded EXCEPT ![p] = VersionOf(store')]
       /\ stack' = [stack EXCEPT ![1].phase = "begun", ![1].baseline = n]
  /\ UNCHANGED <<callVars, edits, faults>>

CompoundBeginFails(p) ==
  /\ InBody(p, "compound", "start")
  /\ \E n \in Nodes : CheckoutFails(p, n, "failed")

(* _cut: a diagnostic branch at the baseline.  The reference refinement    *)
(* uses the session as it is; before a candidate it is rebuilt.            *)
CompoundCut(p) ==
  /\ \E ph \in {"begun", "cut", "ready"} :
       /\ InBody(p, "compound", ph)
       /\ Phase(IF ph = "begun" THEN "cut" ELSE "pointed")
  /\ MovePointer(Top.baseline, "diag")
  /\ UNCHANGED <<session, loaded, callVars, edits, faults>>

CompoundReload(p) ==
  /\ InBody(p, "compound", "pointed")
  /\ \/ Checkout(p, store.active, store.branch, "cut")
     \/ CheckoutFails(p, store.active, "ready")

(* _restore: the baseline is checked out again and then the branch that    *)
(* was active put back.                                                    *)
CompoundRestore(p) ==
  /\ \E ph \in {"begun", "cut", "ready"} : InBody(p, "compound", ph)
  /\ \/ \E b \in BranchFor(Top.baseline) :
            Checkout(p, Top.baseline, b, "restoring")
     \/ CheckoutFails(p, Top.baseline, "failed")

RestoredBranches ==
  {Top.before.branch} \cup
    IF Top.before.active = Top.baseline THEN {} ELSE {"main"}

CompoundRestored(p) ==
  /\ InBody(p, "compound", "restoring")
  /\ \/ /\ \E b \in RestoredBranches : MovePointer(Top.baseline, b)
        /\ Phase("done")
     \/ /\ cancel /\ \E b \in RestoredBranches : Moves(Top.baseline, b)
        /\ Phase("failed")
        /\ UNCHANGED projectVars
  /\ UNCHANGED <<session, loaded, callVars, edits, faults>>

CancelArrives(p) ==
  /\ holder = p /\ ~cancel /\ Depth > 0
  /\ cancel' = TRUE
  /\ UNCHANGED <<projectVars, session, loaded, stack, holder, entry, outcome,
                 edits, faults>>

(* The tool returns; a reference or compound tool is ok when it got to its *)
(* end, and may then still report what failed on the way.                  *)
MayReturn(ok) ==
  \/ Top.kind \notin {"reference", "compound"}
  \/ Top.phase = "done"
  \/ ~ok /\ Top.phase \in {"start", "failed"}

BodyReturns(p) ==
  /\ Running(p, "body")
  /\ \E ok \in BOOLEAN :
       /\ MayReturn(ok)
       /\ stack' = [stack EXCEPT
            ![1].ok = ok,
            ![1].step = IF ok /\ Top.kind = "model" THEN "commit" ELSE "finish"]
  /\ UNCHANGED <<projectVars, session, loaded, callVars, edits, faults>>

-----------------------------------------------------------------------------
(* The commit of a successful model tool.                                  *)

(* Stale, cancelled, or a file operation failed before state.json.         *)
CommitFails(p) ==
  /\ Running(p, "commit")
  /\ \/ (session[p].src # VersionOf(store) \/ cancel) /\ UNCHANGED faults
     \/ MayFail
  /\ stack' = [stack EXCEPT ![1].ok = FALSE, ![1].step = "finish"]
  /\ UNCHANGED <<projectVars, session, loaded, callVars, edits>>

(* owner.committed(): every invocation that has an undo takes the inputs   *)
(* as they are now for its baseline, those in bad do not manage to.        *)
NoCheckpoint(bad) == stack   \* bug variant: the undo never advances

Checkpointed(bad) ==
  [i \in 1 .. Depth |->
     IF stack[i].undo = None THEN stack[i]
     ELSE [stack[i] EXCEPT !.undo = IF i \in bad THEN @ ELSE inputs,
                           !.valid = i \notin bad]]

Undoable == {i \in 1 .. Depth : stack[i].undo # None}

SameSeq == [store EXCEPT !.active = store.seq, !.rev = @ + 1]   \* bug variant
CommittedStore == [store EXCEPT !.active = store.seq, !.seq = @ + 1, !.rev = @ + 1]

(* With a new node in state.json the commit stands; a hook that fails      *)
(* still makes the tool report failure.                                    *)
Commit(p) ==
  /\ Running(p, "commit")
  /\ session[p].src = VersionOf(store) /\ ~cancel
  /\ store.seq <= MaxNode /\ store.rev < MaxRev
  /\ store' = CommittedStore
  /\ exper' = [exper EXCEPT ![store.seq] = inputs]
  /\ parent' = [parent EXCEPT ![store.seq] = store.active]
  /\ origin' = [origin EXCEPT ![store.seq] = session[p].base]
  /\ session' = [session EXCEPT ![p] = Clean(store.seq, store')]
  /\ \E bad \in SUBSET Undoable :
       /\ IF bad = {} THEN UNCHANGED faults ELSE MayFail
       /\ stack' = [Checkpointed(bad) EXCEPT ![1].ok = bad = {},
                                             ![1].step = "finish"]
  /\ UNCHANGED <<inputs, loaded, callVars, edits>>

-----------------------------------------------------------------------------
(* Leaving invoke_tool.                                                    *)

Committed == store.seq > Top.before.seq
Failed    == ~Top.ok \/ (cancel /\ ~Committed)

(* The frame is dropped.  The caller of a compound tool gets its outcome;  *)
(* the compound tool itself gives up a candidate whose step failed.        *)
Pop(ok, recovery) ==
  IF Depth = 1
  THEN /\ stack' = <<>>
       /\ holder' = None
       /\ cancel' = FALSE
       /\ outcome' = [ok |-> ok, cancelled |-> cancel, recovery |-> recovery,
                      kind |-> Top.kind, committed |-> Committed,
                      baseline |-> Top.baseline]
       /\ UNCHANGED entry
  ELSE /\ stack' = [Tail(stack) EXCEPT ![1].phase = IF ok THEN @ ELSE "ready"]
       /\ UNCHANGED callVars

(* The inputs changed and nothing else says so.                            *)
Touches == Top.undo # None /\ inputs # Top.undo /\ store = Top.before
NotTouched == store                          \* bug variant
Touched == IF Touches THEN [store EXCEPT !.rev = @ + 1] ELSE store

Finish(p) ==
  /\ Running(p, "finish") /\ ~Failed
  /\ Touches => store.rev < MaxRev
  /\ store' = Touched
  /\ session' = [session EXCEPT ![p] = Remembered(@, store')]
  /\ loaded' = [loaded EXCEPT ![p] = VersionOf(store')]
  /\ Pop(TRUE, FALSE)
  /\ UNCHANGED <<inputs, exper, parent, origin, edits, faults>>

(* A failed invocation puts the inputs back to the last checkpoint and,    *)
(* unless something was committed, the pointer to where it was.            *)
UndoneInputs == IF Top.undo = None THEN inputs ELSE Top.undo

PointerMoved ==
  /\ ~Committed
  /\ \/ store.active # Top.before.active
     \/ store.branch # Top.before.branch

PointerKept == store                         \* bug variant
UndoneStore ==
  IF PointerMoved
  THEN [store EXCEPT !.active = Top.before.active,
                     !.branch = Top.before.branch, !.rev = @ + 1]
  ELSE store

(* The session is dropped and, unless there is no time for it, rebuilt.    *)
(* A failed solver run never touched it.                                   *)
KeptSession(p) == {Remembered(session[p], store)}   \* bug variant
RebuiltSessions(p) ==
  IF Top.kind = "derived"
  THEN {Remembered(session[p], store), Clean(store.active, store), None}
  ELSE IF cancel THEN {None} ELSE {Clean(UndoneStore.active, UndoneStore)}

FinishFailed(p) ==
  /\ Running(p, "finish") /\ Failed
  /\ Top.undo # None => Top.valid
  /\ PointerMoved => ~cancel /\ store.rev < MaxRev
  /\ inputs' = UndoneInputs
  /\ store' = UndoneStore
  /\ \E ses \in RebuiltSessions(p) : session' = [session EXCEPT ![p] = ses]
  /\ loaded' = [loaded EXCEPT ![p] = VersionOf(store')]
  /\ Pop(FALSE, FALSE)
  /\ UNCHANGED <<exper, parent, origin, edits, faults>>

(* The cleanup raises: an undo that lost its baseline, a pointer that may  *)
(* not be moved back because the call is cancelled, a checkpoint or a      *)
(* rebuild that fails.  The inputs or the pointer stay as they got to.     *)
UndoImpossible == Failed /\ Top.undo # None /\ ~Top.valid
PointerRefused == Failed /\ ~UndoImpossible /\ PointerMoved /\ cancel

FinishRaises(p) ==
  /\ Running(p, "finish")
  /\ \/ /\ UndoImpossible
        /\ UNCHANGED <<inputs, store, faults>>
     \/ /\ PointerRefused
        /\ inputs' = UndoneInputs
        /\ UNCHANGED <<store, faults>>
     \/ /\ Failed /\ ~UndoImpossible /\ ~PointerRefused
        /\ MayFail
        /\ PointerMoved => store.rev < MaxRev
        /\ inputs' \in {inputs, UndoneInputs}
        /\ store' \in {store, IF inputs' = UndoneInputs THEN UndoneStore
                              ELSE store}
     \/ /\ ~Failed /\ Touches /\ MayFail
        /\ store.rev < MaxRev
        /\ store' = Touched
        /\ UNCHANGED inputs
  /\ session' = [session EXCEPT ![p] = None]
  /\ loaded' = [loaded EXCEPT ![p] = None]
  /\ Pop(FALSE, TRUE)
  /\ UNCHANGED <<exper, parent, origin, edits>>

(* The process dies and the lock is free again.  Nothing is undone.        *)
Crash(p) ==
  /\ holder = p
  /\ MayFail
  /\ session' = [session EXCEPT ![p] = None]
  /\ loaded' = [loaded EXCEPT ![p] = None]
  /\ stack' = <<>>
  /\ holder' = None
  /\ cancel' = FALSE
  /\ outcome' = [outcome EXCEPT !.ok = FALSE, !.cancelled = FALSE,
                                !.recovery = TRUE, !.kind = None,
                                !.committed = FALSE, !.baseline = None]
  /\ UNCHANGED <<projectVars, entry, edits>>

-----------------------------------------------------------------------------
Body(p) ==
  \/ EditModel(p) \/ EditInputs(p)
  \/ CheckoutBody(p) \/ BranchBody(p) \/ BranchReload(p)
  \/ CompoundBegin(p) \/ CompoundBeginFails(p) \/ CompoundCut(p)
  \/ CompoundReload(p) \/ CompoundRestore(p) \/ CompoundRestored(p)
  \/ InvokeNested(p) \/ BodyReturns(p)

Next ==
  \E p \in Procs :
    \/ \E k \in Kinds : Invoke(p, k) \/ InvokeImports(p, k)
    \/ InvokeFails(p)
    \/ Body(p)
    \/ CommitFails(p) \/ Commit(p)
    \/ Finish(p) \/ FinishFailed(p) \/ FinishRaises(p)
    \/ CancelArrives(p)
    \/ Crash(p)

Spec == Init /\ [][Next]_vars

-----------------------------------------------------------------------------
(* Properties.                                                             *)

Idle == holder = None
Clear == Idle /\ ~outcome.recovery

(* A node's model was made from the model of its parent: a commit never    *)
(* records on the active node what was computed from another one.          *)
ModelsComeFromParents ==
  \A n \in Nodes : parent[n] # None => origin[n] = parent[n]

(* A revision names one state of the project: a call that leaves the       *)
(* revision alone leaves the pointer and the inputs alone.                 *)
RevisionIdentifies ==
  Clear /\ store.rev = entry.store.rev
    => store = entry.store /\ inputs = entry.inputs

(* A call that failed and committed nothing, and does not ask for manual   *)
(* recovery, left the pointer, the branch and the inputs as it found them. *)
FailedLeavesNoTrace ==
  Clear /\ ~outcome.ok /\ ~outcome.committed
    => /\ store.active = entry.store.active
       /\ store.branch = entry.store.branch
       /\ inputs = entry.inputs

(* Between calls a session a process would use again is the active node's  *)
(* model without anybody's unfinished edits.                               *)
IdleSessionsAreClean ==
  Idle => \A p \in Procs :
    session[p] # None /\ loaded[p] = VersionOf(store)
      => session[p].base = store.active /\ ~session[p].edited

(* Two processes never mix their nodes: what a session holds between calls *)
(* and what a commit records both come from the node they claim.           *)
SessionsFollowTheStore == ModelsComeFromParents /\ IdleSessionsAreClean

(* Nodes committed by a call, even one that fails later, keep the working  *)
(* inputs recorded with the active node: no undo goes back behind them.    *)
InputsFollowCommits ==
  Clear /\ outcome.committed => inputs = exper[store.active]

(* What "Operation cancelled before publication" and restore_refs' "Undo a *)
(* failed pointer-only operation" say: a cancelled call that committed     *)
(* nothing leaves the pointer where it was.  The code does not keep it.    *)
CancelledPointerIsUndone ==
  Idle /\ outcome.cancelled /\ ~outcome.committed
    => store.active = entry.store.active

(* "the baseline is checked out again when the call returns - on failure   *)
(* too": a compound tool leaves its baseline, or what the caller had,      *)
(* active.  The code does not keep it.                                     *)
BaselineIsCheckedOut ==
  Idle /\ outcome.baseline # None
    => store.active \in {outcome.baseline, entry.store.active}
=============================================================================
