--------------------------- MODULE NodePublication ---------------------------
(***************************************************************************)
(* Publication and recovery of project versions: NodeStore in              *)
(* crystalpilot/refine/nodes.py with crystalpilot/refine/data_versions.py. *)
(*                                                                         *)
(* A node package (a model) and, for an input operation, a data package    *)
(* (reflections) are built under .staging, renamed into nodes/ and data/,  *)
(* and become part of the project when state.json is replaced.  Only then  *)
(* are the working input files (the aliases: crystal.hkl, context.json)    *)
(* brought up to date, from a journal of what they were.  A marker file    *)
(* (publishing.json) covers the whole; whoever opens the project next      *)
(* finishes or undoes what it names, following state.json's                *)
(* last_transaction.                                                       *)
(*                                                                         *)
(* All of this runs under the project lock (module ProjectLock), so there  *)
(* is one worker at a time; its process may die at any step, any file      *)
(* operation may fail, and the user may edit the working files at any time *)
(* because editors do not take the lock.                                   *)
(***************************************************************************)
EXTENDS Integers

CONSTANTS Names,      \* the aliases, in .staging/<token>/aliases.json
          Hkl,        \* crystal.hkl, the alias restored from a data package
          Ctx,        \* context.json, restored from a node's experiment
          Edits,      \* contents a user may give an alias, absence included
          None,
          MaxTxn,     \* bound: transactions begun
          MaxRev,     \* bound: project revisions reached by touch
          MaxFaults,  \* bound: crashes and failed file operations
          MaxEdits    \* bound: user edits

ASSUME BoundsAssumption ==
  /\ MaxTxn \in Nat /\ MaxRev \in Nat /\ MaxFaults \in Nat /\ MaxEdits \in Nat
ASSUME AliasAssumption == Hkl \in Names /\ Ctx \in Names /\ Hkl # Ctx

Tokens   == 1 .. MaxTxn           \* uuid4 transactions, in order of creation
Nodes    == 0 .. MaxTxn           \* n0000, n0001, ...
Datas    == 1 .. MaxTxn + 1       \* d000001, d000002, ...
Contents == (0 .. MaxTxn) \cup Edits   \* 0: as found; t: written by t

Maybe(S) == S \cup {None}

VARIABLES
  \* on disk
  state,       \* state.json
  marker,      \* publishing.json
  nodeDir,     \* nodes/<id>: the transaction whose package is there
  dataDir,     \* data/<id>: the transaction whose package is there
  stagedNode,  \* transactions whose node package is under .staging
  stagedData,  \* transactions whose data package is under .staging
  alias,       \* contents of the working files
  before,      \* before[t]: backups of t's journal
  after,       \* after[t][a]: staged content, None if a is not in the journal
  bound,       \* bound[t]: data_revision in t's node.json
  exper,       \* exper[t]: experiment in t's node.json
  obs,         \* obs[t]: observations.hkl of t's data package
  \* in the worker's memory
  pc,          \* next step of the operation
  ctl,         \* which call is running it
  op,          \* the operation
  snap,        \* aliases as read when the operation began
  txn,         \* its transaction
  todo,        \* aliases finish_aliases still has to look at
  now,         \* the alias that passed the check and is being replaced
  \* counters
  lastTxn, faults, edits

journalVars == <<before, after, bound, exper, obs>>
diskVars    == <<state, marker, nodeDir, dataDir, stagedNode, stagedData,
                 alias, journalVars>>
workVars    == <<pc, ctl, op, snap, txn, todo, now>>
counters    == <<lastTxn, faults, edits>>
vars        == <<diskVars, workVars, counters>>

States == [active: Maybe(Nodes), data: Maybe(Datas), seq: Nat, dataSeq: Nat,
           rev: Nat, last: Maybe(Tokens)]

Markers == [node: Maybe(Nodes), token: Tokens, data: Maybe(Datas)]

ASSUME ValuesAssumption == None \notin Nat \cup Edits \cup Names /\ None \notin Markers

Ops == [kind: {"none", "read", "input", "model", "pointer", "touch"},
        target: Maybe(Nodes), restore: BOOLEAN, touched: SUBSET Names]

Steps == {"idle", "recover", "recoverData", "alias", "replace", "unlink",
          "stage", "mark", "publishData", "publishNode", "save",
          "point", "pointSave", "touch"}

TypeOK ==
  /\ state \in States
  /\ marker \in Maybe(Markers)
  /\ nodeDir \in [Nodes -> Maybe(Tokens)]
  /\ dataDir \in [Datas -> Maybe(Tokens)]
  /\ stagedNode \subseteq Tokens
  /\ stagedData \subseteq Tokens
  /\ alias \in [Names -> Contents]
  /\ before \in [Tokens -> [Names -> Contents]]
  /\ after \in [Tokens -> [Names -> Maybe(Contents)]]
  /\ bound \in [Tokens -> Maybe(Datas)]
  /\ exper \in [Tokens -> Contents]
  /\ obs \in [Tokens -> Contents]
  /\ pc \in Steps
  /\ ctl \in {"none", "open", "work", "except"}
  /\ op \in Ops
  /\ snap \in [Names -> Contents]
  /\ txn \in Maybe(Tokens)
  /\ todo \subseteq Names
  /\ now \in Maybe(Names)
  /\ lastTxn \in 0 .. MaxTxn
  /\ faults \in 0 .. MaxFaults
  /\ edits \in 0 .. MaxEdits

NoOp  == [kind |-> "none", target |-> None, restore |-> FALSE, touched |-> {}]
Empty == [a \in Names |-> 0]

(* A project nobody has published into yet.                                *)
Init ==
  /\ state = [active |-> None, data |-> None, seq |-> 0, dataSeq |-> 0,
              rev |-> 0, last |-> None]
  /\ marker = None
  /\ nodeDir = [n \in Nodes |-> None]
  /\ dataDir = [d \in Datas |-> None]
  /\ stagedNode = {} /\ stagedData = {}
  /\ alias = Empty
  /\ before = [t \in Tokens |-> Empty]
  /\ after = [t \in Tokens |-> [a \in Names |-> None]]
  /\ bound = [t \in Tokens |-> None]
  /\ exper = [t \in Tokens |-> 0]
  /\ obs = [t \in Tokens |-> 0]
  /\ pc = "idle" /\ ctl = "none" /\ op = NoOp /\ snap = Empty
  /\ txn = None /\ todo = {} /\ now = None
  /\ lastTxn = 0 /\ faults = 0 /\ edits = 0

-----------------------------------------------------------------------------
(* Leaving and raising.                                                    *)

(* The call returns or its exception reaches the caller: the lock is       *)
(* released and what the worker had in memory is gone.                     *)
Return ==
  /\ pc' = "idle" /\ ctl' = "none" /\ op' = NoOp /\ snap' = Empty
  /\ txn' = None /\ todo' = {} /\ now' = None

(* An exception.  staged_node runs the recovery once more before it lets   *)
(* the exception through; the other callers just let it through.           *)
Raise ==
  IF ctl = "work" /\ op.kind \in {"input", "model"}
  THEN /\ pc' = "recover" /\ ctl' = "except" /\ todo' = {} /\ now' = None
       /\ UNCHANGED <<op, snap, txn>>
  ELSE Return

Step(q) == pc' = q /\ UNCHANGED <<ctl, op, snap, txn, todo, now>>

(* state() has returned: InputStage and the session read the working       *)
(* files, and the operation goes on.                                       *)
FirstStep == CASE op.kind \in {"input", "model"} -> "stage"
               [] op.kind = "pointer" -> "point"
               [] OTHER -> "touch"

Recovered ==
  IF ctl = "open" /\ op.kind # "read"
  THEN pc' = FirstStep /\ ctl' = "work" /\ snap' = alias /\ UNCHANGED <<op, txn, todo, now>>
  ELSE Return

-----------------------------------------------------------------------------
(* _recover_publication, also the tail of a publication.                   *)

(* Bug variant: everything a marker names is undone.                       *)
NeverCommitted == FALSE

(* The transaction the marker names has replaced state.json.               *)
Committed == state.last = marker.token

(* finish_aliases is about to walk the journal of transaction t.           *)
WalkJournal(t) ==
  /\ pc' = "alias"
  /\ todo' = {a \in Names : after[t][a] # None}
  /\ UNCHANGED <<ctl, op, snap, txn, now>>

NothingPending ==
  /\ pc = "recover" /\ marker = None
  /\ Recovered
  /\ UNCHANGED <<diskVars, counters>>

(* Bug variant: only the data package is taken back.                       *)
NodeStays == FALSE

(* The marker's node was already renamed into nodes/.                      *)
NodeToUndo == marker.node # None /\ nodeDir[marker.node] # None

(* Not committed: that node goes back to staging.                          *)
RecoverNode ==
  /\ pc = "recover" /\ marker # None /\ ~Committed
  /\ IF NodeToUndo
     THEN /\ nodeDir' = [nodeDir EXCEPT ![marker.node] = None]
          /\ stagedNode' = stagedNode \cup {marker.token}
     ELSE UNCHANGED <<nodeDir, stagedNode>>
  /\ Step("recoverData")
  /\ UNCHANGED <<state, marker, dataDir, stagedData, alias, journalVars, counters>>

(* recover_data, not committed: the data package goes back, if it is ours. *)
RecoverData ==
  /\ pc = "recoverData"
  /\ IF marker.data = None \/ dataDir[marker.data] = None
     THEN Step("unlink") /\ UNCHANGED <<dataDir, stagedData>>
     ELSE IF dataDir[marker.data] = marker.token
     THEN /\ dataDir' = [dataDir EXCEPT ![marker.data] = None]
          /\ stagedData' = stagedData \cup {marker.token}
          /\ Step("unlink")
     ELSE Raise /\ UNCHANGED <<dataDir, stagedData>>
  /\ UNCHANGED <<state, marker, nodeDir, stagedNode, alias, journalVars, counters>>

(* recover_data, committed: the data must be there, then the aliases.      *)
RecoverCommitted ==
  /\ pc = "recover" /\ marker # None /\ Committed
  /\ IF marker.data # None /\ dataDir[marker.data] = None
     THEN Raise
     ELSE WalkJournal(marker.token)
  /\ UNCHANGED <<diskVars, counters>>

(* Bug variant: an alias replaced before an interruption is taken for one  *)
(* changed by the user.                                                    *)
OnlyUntouched(a) ==
  IF alias[a] = before[marker.token][a] THEN "replace" ELSE "foreign"

(* What finish_aliases makes of one alias: it already has its new content, *)
(* or is still what the journal saw, or somebody else changed it.          *)
Verdict(a) ==
  CASE alias[a] = after[marker.token][a]  -> "done"
    [] alias[a] = before[marker.token][a] -> "replace"
    [] OTHER                              -> "foreign"

CheckAlias(a) ==
  /\ pc = "alias" /\ a \in todo
  /\ \/ /\ Verdict(a) = "done"
        /\ todo' = todo \ {a}
        /\ UNCHANGED <<pc, ctl, op, snap, txn, now>>
     \/ /\ Verdict(a) = "foreign"
        /\ Raise
     \/ /\ Verdict(a) = "replace"
        /\ pc' = "replace" /\ now' = a
        /\ UNCHANGED <<ctl, op, snap, txn, todo>>
  /\ UNCHANGED <<diskVars, counters>>

(* The copy is made next to the journal and swapped in.                    *)
ReplaceAlias ==
  /\ pc = "replace"
  /\ alias' = [alias EXCEPT ![now] = after[marker.token][now]]
  /\ todo' = todo \ {now}
  /\ now' = None
  /\ pc' = "alias"
  /\ UNCHANGED <<ctl, op, snap, txn>>
  /\ UNCHANGED <<state, marker, nodeDir, dataDir, stagedNode, stagedData,
                 journalVars, counters>>

(* completed.json, then the commit hooks.                                  *)
AliasesDone ==
  /\ pc = "alias" /\ todo = {}
  /\ Step("unlink")
  /\ UNCHANGED <<diskVars, counters>>

(* The marker goes last.  After a publication the call returns; after a    *)
(* recovery the operation that came upon the marker goes on.               *)
Unlink ==
  /\ pc = "unlink"
  /\ marker' = None
  /\ Recovered
  /\ UNCHANGED <<state, nodeDir, dataDir, stagedNode, stagedData, alias,
                 journalVars, counters>>

-----------------------------------------------------------------------------
(* Every operation begins with state(), which recovers first.              *)
Begin(o) ==
  /\ pc = "idle"
  /\ o.kind = "touch" => state.rev < MaxRev
  /\ o.kind \in {"input", "model", "pointer"} => lastTxn < MaxTxn
  /\ op' = o /\ pc' = "recover" /\ ctl' = "open"
  /\ UNCHANGED <<snap, txn, todo, now, diskVars, counters>>

(* A fresh transaction and its journal: rows for the aliases that differ.  *)
NewTxn == lastTxn + 1

Journal(t, wanted) ==
  /\ before' = [before EXCEPT ![t] = alias]
  /\ after' = [after EXCEPT ![t] =
       [a \in Names |-> IF wanted[a] = alias[a] THEN None ELSE wanted[a]]]

(* Bug variant: nothing is copied for the files the tool does not write.   *)
OnlyTouched(t) == [a \in Names |-> IF a \in op.touched THEN t ELSE None]

(* What the staged inputs of an input operation contain: what the tool     *)
(* wrote, and the copy taken at the start for the rest.                    *)
StagedInputs(t) == [a \in Names |-> IF a \in op.touched THEN t ELSE snap[a]]

(* InputStage.prepare and the head of staged_node for an input operation.  *)
StageInput ==
  LET t == NewTxn  inputs == StagedInputs(t) IN
  /\ pc = "stage" /\ op.kind = "input"
  /\ IF dataDir[state.dataSeq + 1] # None \/ nodeDir[state.seq] # None
     THEN Raise /\ UNCHANGED <<stagedNode, stagedData, journalVars, lastTxn>>
     ELSE /\ Journal(t, inputs)
          /\ bound' = [bound EXCEPT ![t] = state.dataSeq + 1]
          /\ exper' = [exper EXCEPT ![t] = inputs[Ctx]]
          /\ obs' = [obs EXCEPT ![t] = inputs[Hkl]]
          /\ stagedNode' = stagedNode \cup {t}
          /\ stagedData' = stagedData \cup {t}
          /\ lastTxn' = t /\ txn' = t
          /\ pc' = "mark"
          /\ UNCHANGED <<ctl, op, snap, todo, now>>
  /\ UNCHANGED <<state, marker, nodeDir, dataDir, alias, faults, edits>>

(* What the session of a model operation takes for the experiment: the     *)
(* working one, or the one of the node it was built from.                  *)
SessionExperiments ==
  {snap[Ctx]} \cup
  (IF state.active = None THEN {} ELSE {exper[nodeDir[state.active]]})

(* staged_node for a model on the active data.                             *)
StageModel ==
  LET t == NewTxn IN
  /\ pc = "stage" /\ op.kind = "model"
  /\ IF nodeDir[state.seq] # None
     THEN Raise /\ UNCHANGED <<stagedNode, journalVars, lastTxn>>
     ELSE /\ bound' = [bound EXCEPT ![t] = state.data]
          /\ \E e \in SessionExperiments : exper' = [exper EXCEPT ![t] = e]
          /\ stagedNode' = stagedNode \cup {t}
          /\ lastTxn' = t /\ txn' = t
          /\ pc' = "mark"
          /\ UNCHANGED <<ctl, op, snap, todo, now, before, after, obs>>
  /\ UNCHANGED <<state, marker, nodeDir, dataDir, stagedData, alias, faults, edits>>

(* Bug variant: the reflections stay those of the node left.               *)
ExperimentOnly(d, e, restore) ==
  [a \in Names |-> IF a = Ctx /\ restore THEN e ELSE alias[a]]

(* pointer_aliases: the aliases of a node bound to data revision d.        *)
NodeInputs(d, e, restore) ==
  [a \in Names |-> IF a = Hkl THEN obs[dataDir[d]]
                   ELSE IF a = Ctx /\ restore THEN e ELSE alias[a]]

(* Cancelled at the first check of publish_node.                           *)
CancelBeforeMark ==
  /\ pc = "mark"
  /\ Raise
  /\ UNCHANGED <<diskVars, counters>>

(* publish_node up to the marker.                                          *)
WriteMarker ==
  /\ pc = "mark"
  /\ IF op.kind = "model" /\ state.data # None
     THEN IF dataDir[state.data] = None
          THEN Raise /\ UNCHANGED <<marker, before, after>>
          ELSE /\ Journal(txn, NodeInputs(state.data, exper[txn], TRUE))
               /\ marker' = [node |-> state.seq, token |-> txn, data |-> None]
               /\ Step("publishData")
     ELSE /\ marker' = [node |-> state.seq, token |-> txn,
                        data |-> IF op.kind = "input" THEN bound[txn] ELSE None]
          /\ Step("publishData")
          /\ UNCHANGED <<before, after>>
  /\ UNCHANGED <<state, nodeDir, dataDir, stagedNode, stagedData, alias,
                 bound, exper, obs, counters>>

(* publish_data.                                                           *)
PublishData ==
  /\ pc = "publishData"
  /\ IF marker.data = None
     THEN Step("publishNode") /\ UNCHANGED <<dataDir, stagedData>>
     ELSE IF dataDir[marker.data] # None
     THEN Raise /\ UNCHANGED <<dataDir, stagedData>>
     ELSE /\ dataDir' = [dataDir EXCEPT ![marker.data] = txn]
          /\ stagedData' = stagedData \ {txn}
          /\ Step("publishNode")
  /\ UNCHANGED <<state, marker, nodeDir, stagedNode, alias, journalVars, counters>>

(* Bug variants: the package is copied; the aliases come before the commit *)
(* point.                                                                  *)
CopyNode ==
  /\ pc = "publishNode"
  /\ nodeDir' = [nodeDir EXCEPT ![marker.node] = txn]
  /\ Step("save")
  /\ UNCHANGED <<state, marker, dataDir, stagedNode, stagedData, alias,
                 journalVars, counters>>

AliasesThenSave ==
  /\ pc = "publishNode"
  /\ nodeDir' = [nodeDir EXCEPT ![marker.node] = txn]
  /\ stagedNode' = stagedNode \ {txn}
  /\ WalkJournal(txn)
  /\ UNCHANGED <<state, marker, dataDir, stagedData, alias, journalVars, counters>>

(* os.rename of the staged node into nodes/.                               *)
PublishNode ==
  /\ pc = "publishNode"
  /\ nodeDir' = [nodeDir EXCEPT ![marker.node] = txn]
  /\ stagedNode' = stagedNode \ {txn}
  /\ Step("save")
  /\ UNCHANGED <<state, marker, dataDir, stagedData, alias, journalVars, counters>>

(* Cancelled at the last check before the commit point.                    *)
CancelBeforeSave ==
  /\ pc = "save"
  /\ Raise
  /\ UNCHANGED <<diskVars, counters>>

(* Bug variant: the number of the data revision is not used up.            *)
DataSeqKept ==
  [active |-> marker.node, data |-> bound[txn], seq |-> state.seq + 1,
   dataSeq |-> state.dataSeq, rev |-> state.rev + 1, last |-> txn]

(* state.json after a commit.                                              *)
CommittedState ==
  [active |-> marker.node, data |-> bound[txn], seq |-> state.seq + 1,
   dataSeq |-> IF marker.data = None THEN state.dataSeq ELSE marker.data,
   rev |-> state.rev + 1, last |-> txn]

(* The commit point: state.json is replaced.                               *)
SaveState ==
  /\ pc = "save"
  /\ state' = CommittedState
  /\ WalkJournal(txn)
  /\ UNCHANGED <<marker, nodeDir, dataDir, stagedNode, stagedData, alias,
                 journalVars, counters>>

-----------------------------------------------------------------------------
(* set_active, branch and restore_refs: _publish_refs.                     *)

TargetData == IF op.target = None THEN None ELSE bound[nodeDir[op.target]]

WantedInputs ==
  IF TargetData = None THEN alias
  ELSE NodeInputs(TargetData, exper[nodeDir[op.target]], op.restore)

(* Nothing to publish: neither the pointer nor an alias would change.      *)
PointNowhere ==
  /\ pc = "point"
  /\ op.target = state.active /\ TargetData = state.data /\ WantedInputs = alias
  /\ Return
  /\ UNCHANGED <<diskVars, counters>>

(* Cancelled, or the bound data cannot be resolved.                        *)
PointRefused ==
  /\ pc = "point"
  /\ Return
  /\ UNCHANGED <<diskVars, counters>>

PointMark ==
  /\ pc = "point"
  /\ TargetData # None => dataDir[TargetData] # None
  /\ ~(op.target = state.active /\ TargetData = state.data /\ WantedInputs = alias)
  /\ Journal(NewTxn, WantedInputs)
  /\ marker' = [node |-> None, token |-> NewTxn, data |-> None]
  /\ lastTxn' = NewTxn /\ txn' = NewTxn
  /\ pc' = "pointSave"
  /\ UNCHANGED <<ctl, op, snap, todo, now, state, nodeDir, dataDir, stagedNode,
                 stagedData, alias, bound, exper, obs, faults, edits>>

(* Bug variants: the data revision, or the project revision, is left.      *)
PointedModelOnly ==
  [state EXCEPT !.active = op.target, !.rev = @ + 1, !.last = txn]

PointedSilently ==
  [state EXCEPT !.active = op.target, !.data = TargetData, !.last = txn]

(* state.json after a pointer operation.                                   *)
PointedState ==
  [state EXCEPT !.active = op.target, !.data = TargetData, !.rev = @ + 1, !.last = txn]

PointSave ==
  /\ pc = "pointSave"
  /\ state' = PointedState
  /\ WalkJournal(txn)
  /\ UNCHANGED <<marker, nodeDir, dataDir, stagedNode, stagedData, alias,
                 journalVars, counters>>

(* touch: a new project revision and nothing else.                         *)
Touch ==
  /\ pc = "touch"
  /\ state' = [state EXCEPT !.rev = @ + 1]
  /\ Return
  /\ UNCHANGED <<marker, nodeDir, dataDir, stagedNode, stagedData, alias,
                 journalVars, counters>>

-----------------------------------------------------------------------------
(* The world.                                                              *)

(* The worker's process dies.                                              *)
Crash ==
  /\ pc # "idle" /\ faults < MaxFaults
  /\ faults' = faults + 1
  /\ Return
  /\ UNCHANGED <<diskVars, lastTxn, edits>>

(* A file operation of the next step fails.                                *)
IOError ==
  /\ pc # "idle" /\ faults < MaxFaults
  /\ faults' = faults + 1
  /\ Raise
  /\ UNCHANGED <<diskVars, lastTxn, edits>>

(* A user saves a working file from an editor.                             *)
UserEdit(a, c) ==
  /\ edits < MaxEdits /\ c # alias[a]
  /\ edits' = edits + 1
  /\ alias' = [alias EXCEPT ![a] = c]
  /\ UNCHANGED <<state, marker, nodeDir, dataDir, stagedNode, stagedData,
                 journalVars, workVars, lastTxn, faults>>

(* Manual recovery: the user puts back what the journal saw.               *)
UserRestore(a) ==
  /\ pc = "idle" /\ marker # None
  /\ Committed
  /\ after[marker.token][a] # None
  /\ alias[a] \notin {before[marker.token][a], after[marker.token][a]}
  /\ alias' = [alias EXCEPT ![a] = before[marker.token][a]]
  /\ UNCHANGED <<state, marker, nodeDir, dataDir, stagedNode, stagedData,
                 journalVars, workVars, counters>>

-----------------------------------------------------------------------------
(* What callers ask for.  Pointers go to committed nodes.                  *)
Requests ==
  {[NoOp EXCEPT !.kind = "input", !.touched = S] : S \in SUBSET Names}
  \cup {[NoOp EXCEPT !.kind = k] : k \in {"read", "model", "touch"}}
  \cup {o \in [kind: {"pointer"}, target: Nodes, restore: BOOLEAN, touched: {{}}] :
          o.target < state.seq}

WorkerStep ==
  \/ NothingPending \/ RecoverNode \/ RecoverData \/ RecoverCommitted
  \/ \E a \in Names : CheckAlias(a)
  \/ ReplaceAlias \/ AliasesDone \/ Unlink
  \/ StageInput \/ StageModel \/ CancelBeforeMark \/ WriteMarker
  \/ PublishData \/ PublishNode \/ CancelBeforeSave \/ SaveState
  \/ PointNowhere \/ PointRefused \/ PointMark \/ PointSave \/ Touch

Next ==
  \/ WorkerStep
  \/ \E o \in Requests : Begin(o)
  \/ Crash \/ IOError
  \/ \E a \in Names, c \in Edits : UserEdit(a, c)
  \/ \E a \in Names : UserRestore(a)

Spec == Init /\ [][Next]_vars

(* The worker of a started operation is scheduled, and somebody opens the  *)
(* project again after an interruption.                                    *)
FairSpec ==
  /\ Spec
  /\ WF_vars(WorkerStep)
  /\ WF_vars(marker # None /\ \E o \in Requests : Begin(o))

-----------------------------------------------------------------------------
(* Properties.                                                             *)

(* What state.json counts is on disk, and nothing else is except what an   *)
(* uncommitted marker names: recovery knows everything it has to undo, and *)
(* the next publication never meets a directory it must refuse to          *)
(* overwrite.                                                              *)
DirectoriesMatchState ==
  /\ \A n \in Nodes :
       IF n < state.seq THEN nodeDir[n] # None
       ELSE nodeDir[n] # None =>
              marker # None /\ ~Committed /\ marker.node = n /\ marker.token = nodeDir[n]
  /\ \A d \in Datas :
       IF d <= state.dataSeq THEN dataDir[d] # None
       ELSE dataDir[d] # None =>
              marker # None /\ ~Committed /\ marker.data = d /\ marker.token = dataDir[d]

(* The active node is a published one, and the data revision in state.json *)
(* is the one that node's package was bound to, itself published.          *)
ActiveIsPublished ==
  IF state.active = None THEN state.data = None
  ELSE /\ state.active < state.seq
       /\ state.data = bound[nodeDir[state.active]]
       /\ state.data # None => state.data <= state.dataSeq

(* No package is lost or duplicated by renames, crashes and recoveries: a  *)
(* transaction that staged one has it in exactly one place.                *)
PackagesConserved ==
  /\ \A t \in stagedNode : \A n \in Nodes : nodeDir[n] # t
  /\ \A m, n \in Nodes : nodeDir[m] # None /\ nodeDir[m] = nodeDir[n] => m = n
  /\ \A t \in stagedData : \A d \in Datas : dataDir[d] # t
  /\ \A d, e \in Datas : dataDir[d] # None /\ dataDir[d] = dataDir[e] => d = e
  /\ \A n \in Nodes : n < state.seq /\ bound[nodeDir[n]] # None =>
       dataDir[bound[nodeDir[n]]] # None

(* What is on disk is what state.json counts plus what the marker names,   *)
(* through crashes, failed renames and recoveries that crash themselves.   *)
DiskMatchesState == DirectoriesMatchState /\ PackagesConserved

(* The data revision in state.json is the one the active node was bound    *)
(* to, and when nothing is pending the working crystal.hkl holds its       *)
(* reflections, unless the user changed it.                                *)
WorkingDataIsActive ==
  /\ ActiveIsPublished
  /\ pc = "idle" /\ marker = None /\ state.data # None =>
       alias[Hkl] \in Edits \cup {obs[dataDir[state.data]]}

(* Published history is immutable: no step, recovery included, moves,      *)
(* replaces or removes a committed node or data package, and numbers are   *)
(* never given out twice.                                                  *)
HistoryKept ==
  [][/\ state.seq <= state'.seq /\ state.dataSeq <= state'.dataSeq
     /\ \A n \in Nodes : n < state.seq => nodeDir'[n] = nodeDir[n]
     /\ \A d \in Datas : d <= state.dataSeq => dataDir'[d] = dataDir[d]]_vars

(* Every change of the project's state is a new project revision, so a     *)
(* caller holding an old one is refused.                                   *)
RevisionCountsChanges == [][state' # state => state'.rev = state.rev + 1]_vars

(* The working files change only for a committed transaction (or by the    *)
(* user's hand), and the first of them only after state.json.              *)
AliasesFollowCommit ==
  [][alias' # alias /\ pc # "idle" /\ edits' = edits => marker # None /\ Committed]_vars

(* The versions state.json counts, for whoever reads the project.          *)
History == INSTANCE VersionHistory WITH
  NodeIds <- Nodes, DataIds <- Datas, Packages <- Tokens, None <- None,
  models <- [n \in 0 .. state.seq - 1 |->
              [package |-> nodeDir[n], data |-> bound[nodeDir[n]]]],
  datasets <- [d \in 1 .. state.dataSeq |-> dataDir[d]],
  active <- state.active, rev <- state.rev

(* Through every interruption the store is an append-only history that     *)
(* changes only in whole versions: the replacement of state.json is the    *)
(* one step a reader can see.                                              *)
ImplementsHistory == History!Spec

(* A working file of a committed publication holds neither what it was     *)
(* nor what it is to become.                                               *)
Foreign == marker # None /\ Committed /\
  \E a \in Names : after[marker.token][a] # None /\
                   alias[a] \notin {before[marker.token][a], after[marker.token][a]}

(* An interrupted publication is finished or undone once somebody opens    *)
(* the project, unless the user changed a working file meanwhile and       *)
(* manual recovery is asked for.                                           *)
RecoveryCompletes == []<>(marker = None \/ Foreign)
=============================================================================
