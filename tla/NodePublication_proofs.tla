----------------------- MODULE NodePublication_proofs -----------------------
(***************************************************************************)
(* Proof that the version store, for any aliases, transactions, crashes,   *)
(* failed file operations and user edits, keeps what is on disk equal to   *)
(* what state.json counts plus what the marker names, and implements an    *)
(* append-only version history.                                            *)
(*                                                                         *)
(* The argument: an uncommitted marker names the next numbers and no other *)
(* (Named), tokens are never used twice (Ordered), each step of a          *)
(* publication knows what the steps before it have done (InWork), and a    *)
(* recovery unlinks the marker only when nothing of it is left (Undone).   *)
(* What is in the working files is a matter of its own: a journal leads to *)
(* the reflections of the state it is about to go with (Leads), and until  *)
(* the commit they stay in place (Reflections, Preparing).                 *)
(***************************************************************************)
EXTENDS NodePublication, TLAPS

RecoverySteps == {"recover", "recoverData", "alias", "replace", "unlink"}
MarkedSteps   == {"publishData", "publishNode", "save", "pointSave"}
BuildSteps    == {"mark", "publishData", "publishNode", "save"}

\* Which step may follow which, as far as the call and the marker go.
Control ==
  /\ pc = "idle" <=> ctl = "none"
  /\ ctl \in {"open", "except"} => pc \in RecoverySteps
  /\ ctl = "work" => pc \notin {"recover", "recoverData"}
  /\ ctl = "open" => op.kind # "none"
  /\ ctl = "open" /\ op.kind \in {"input", "model", "pointer"} => lastTxn < MaxTxn
  /\ pc \in {"stage", "point"} => lastTxn < MaxTxn
  /\ pc \in {"stage"} \cup BuildSteps => op.kind \in {"input", "model"}
  /\ pc \in {"point", "pointSave"} => op.kind = "pointer"
  /\ op.kind = "pointer" => op.target \in Nodes /\ op.target < state.seq
  /\ pc \in {"stage", "mark", "point", "touch"} => marker = None
  /\ pc \in MarkedSteps => marker # None /\ ~Committed /\ marker.token = txn
  /\ pc = "recoverData" => marker # None /\ ~Committed
  /\ pc \in {"alias", "replace"} => marker # None /\ Committed
  /\ pc = "unlink" => marker # None
  /\ pc = "replace" => now \in Names /\ after[marker.token][now] # None
  /\ pc \in {"alias", "replace"} => \A a \in todo : after[marker.token][a] # None

\* An uncommitted marker names the next numbers.
Named ==
  marker # None =>
    /\ marker.token <= lastTxn
    /\ ~Committed => /\ marker.node # None => marker.node = state.seq
                     /\ marker.data # None => marker.data = state.dataSeq + 1

\* Tokens and numbers are given out in order.
Ordered ==
  /\ state.seq <= lastTxn /\ state.dataSeq <= lastTxn
  /\ state.last # None => state.last <= lastTxn
  /\ \A n \in Nodes : nodeDir[n] # None => nodeDir[n] <= lastTxn
  /\ \A d \in Datas : dataDir[d] # None => dataDir[d] <= lastTxn
  /\ \A t \in stagedNode \cup stagedData : t <= lastTxn

\* What the steps of a publication before this one have done.
InWork ==
  /\ pc \in BuildSteps \cup {"pointSave"} =>
       txn # None /\ txn <= lastTxn /\ state.last # txn
  /\ pc \in BuildSteps => state.seq < lastTxn /\ state.dataSeq < lastTxn
  /\ pc \in {"mark", "publishData", "publishNode"} => txn \in stagedNode
  /\ pc = "mark" =>
       IF op.kind = "input" THEN bound[txn] = state.dataSeq + 1 /\ txn \in stagedData
       ELSE bound[txn] = state.data
  /\ pc \in {"publishData", "publishNode", "save"} =>
       /\ marker.node = state.seq
       /\ bound[txn] = IF marker.data = None THEN state.data ELSE marker.data
  /\ pc = "publishData" /\ marker.data # None => txn \in stagedData
  /\ pc \in {"publishNode", "save"} /\ marker.data # None => dataDir[marker.data] = txn
  /\ pc = "save" => nodeDir[marker.node] = txn
  /\ pc = "pointSave" => marker.node = None /\ marker.data = None

\* What the steps of a recovery before this one have undone.
Undone ==
  /\ pc = "recoverData" /\ marker.node # None => nodeDir[marker.node] = None
  /\ pc = "unlink" /\ ~Committed =>
       /\ marker.node # None => nodeDir[marker.node] = None
       /\ marker.data # None => dataDir[marker.data] = None

\* A published node is bound to published data.
BoundIsPublished ==
  \A n \in Nodes : n < state.seq /\ bound[nodeDir[n]] # None => bound[nodeDir[n]] <= state.dataSeq

Work == Control /\ InWork /\ Undone
Disk == Named /\ Ordered /\ DirectoriesMatchState /\ PackagesConserved
          /\ ActiveIsPublished /\ BoundIsPublished

StoreInv == TypeOK /\ Work /\ Disk

(* The conjuncts of TypeOK by the part of the system they are about.       *)
DiskTypes ==
  /\ state \in States
  /\ marker \in Maybe(Markers)
  /\ nodeDir \in [Nodes -> Maybe(Tokens)]
  /\ dataDir \in [Datas -> Maybe(Tokens)]
  /\ stagedNode \subseteq Tokens
  /\ stagedData \subseteq Tokens
  /\ alias \in [Names -> Contents]

JournalTypes ==
  /\ before \in [Tokens -> [Names -> Contents]]
  /\ after \in [Tokens -> [Names -> Maybe(Contents)]]
  /\ bound \in [Tokens -> Maybe(Datas)]
  /\ exper \in [Tokens -> Contents]
  /\ obs \in [Tokens -> Contents]

WorkTypes ==
  /\ pc \in Steps
  /\ ctl \in {"none", "open", "work", "except"}
  /\ op \in Ops
  /\ snap \in [Names -> Contents]
  /\ txn \in Maybe(Tokens)
  /\ todo \subseteq Names
  /\ now \in Maybe(Names)

CountTypes == lastTxn \in 0 .. MaxTxn /\ faults \in 0 .. MaxFaults /\ edits \in 0 .. MaxEdits

\* What is published, and the numbers given out.
published == <<state, marker, nodeDir, dataDir, stagedNode, stagedData, bound, lastTxn>>

LEMMA TypeParts == TypeOK <=> DiskTypes /\ JournalTypes /\ WorkTypes /\ CountTypes
BY DEF TypeOK, DiskTypes, JournalTypes, WorkTypes, CountTypes

LEMMA TypePartsNext ==
  TypeOK' <=> DiskTypes' /\ JournalTypes' /\ WorkTypes' /\ CountTypes'
BY DEF TypeOK, DiskTypes, JournalTypes, WorkTypes, CountTypes

(* What the constants say of the sets built from them.                     *)
LEMMA Numbers ==
  /\ MaxTxn \in Nat /\ MaxRev \in Nat /\ MaxFaults \in Nat /\ MaxEdits \in Nat
  /\ Tokens \subseteq Nat /\ Nodes \subseteq Nat /\ Datas \subseteq Nat
  /\ None \notin Tokens /\ None \notin Nodes /\ None \notin Datas
  /\ None \notin Contents /\ None \notin Names /\ None \notin Markers
  /\ Hkl \in Names /\ Ctx \in Names /\ 0 \in Contents
  /\ Tokens \subseteq Contents
BY BoundsAssumption, ValuesAssumption, AliasAssumption DEF Tokens, Nodes, Datas, Contents

(* The initial store satisfies the invariant.                              *)
LEMMA StoreInit == Init => StoreInv
<1> SUFFICES ASSUME Init PROVE StoreInv
  OBVIOUS
<1> USE Numbers
<1>1. DiskTypes
  BY DEF Init, DiskTypes, States, Maybe, Empty
<1>2. JournalTypes
  BY DEF Init, JournalTypes, Maybe, Empty
<1>3. WorkTypes
  BY DEF Init, WorkTypes, Maybe, Empty, Steps, Ops, NoOp
<1>4. CountTypes
  BY DEF Init, CountTypes
<1>5. Control
  BY DEF Init, Control, NoOp, RecoverySteps, MarkedSteps, BuildSteps
<1>6. InWork /\ Undone
  BY DEF Init, InWork, Undone, RecoverySteps, MarkedSteps, BuildSteps
<1>7. Named /\ Ordered /\ BoundIsPublished
  BY DEF Init, Named, Ordered, BoundIsPublished, Nodes, Datas
<1>8. DirectoriesMatchState
  BY DEF Init, DirectoriesMatchState, Nodes, Datas
<1>9. PackagesConserved
  BY DEF Init, PackagesConserved, Nodes, Datas
<1>10. ActiveIsPublished
  BY DEF Init, ActiveIsPublished
<1> QED
  BY <1>1, <1>2, <1>3, <1>4, <1>5, <1>6, <1>7, <1>8, <1>9, <1>10, TypeParts
     DEF StoreInv, Work, Disk

-----------------------------------------------------------------------------
(* What the ways of leaving an operation do to the invariant.              *)

(* A step that publishes nothing leaves what is published as it is.        *)
LEMMA DiskKept == ASSUME Disk, UNCHANGED published PROVE Disk'
<1>1. Named'
  BY DEF Disk, published, Named, Committed
<1>2. Ordered'
  BY DEF Disk, published, Ordered
<1>3. DirectoriesMatchState'
  BY DEF Disk, published, DirectoriesMatchState, Committed
<1>4. PackagesConserved'
  BY DEF Disk, published, PackagesConserved
<1>5. ActiveIsPublished' /\ BoundIsPublished'
  BY DEF Disk, published, ActiveIsPublished, BoundIsPublished
<1> QED
  BY <1>1, <1>2, <1>3, <1>4, <1>5 DEF Disk

(* Whoever returns leaves no work behind.                                  *)
LEMMA ReturnWorks == ASSUME Return PROVE WorkTypes' /\ Work'
<1> USE Numbers
<1>1. WorkTypes'
  BY DEF Return, WorkTypes, Maybe, Empty, Steps, Ops, NoOp
<1>2. Control'
  BY DEF Return, Control, NoOp, RecoverySteps, MarkedSteps, BuildSteps
<1>3. InWork' /\ Undone'
  BY DEF Return, InWork, Undone, RecoverySteps, MarkedSteps, BuildSteps
<1> QED
  BY <1>1, <1>2, <1>3 DEF Work

(* Whoever raises returns, or recovers first.                              *)
LEMMA RaiseWorks ==
  ASSUME TypeOK, Work, Raise, UNCHANGED published, UNCHANGED after
  PROVE  WorkTypes' /\ Work'
<1>1. CASE ctl = "work" /\ op.kind \in {"input", "model"}
  <2>1. /\ pc' = "recover" /\ ctl' = "except" /\ todo' = {} /\ now' = None
        /\ UNCHANGED <<op, snap, txn>>
    BY <1>1 DEF Raise
  <2>2. WorkTypes'
    BY <2>1, Numbers DEF TypeOK, WorkTypes, Steps, Maybe
  <2>3. Control'
    BY <2>1, <1>1 DEF Work, Control, RecoverySteps, MarkedSteps, BuildSteps, published
  <2>4. InWork' /\ Undone'
    BY <2>1 DEF InWork, Undone, RecoverySteps, MarkedSteps, BuildSteps
  <2> QED
    BY <2>2, <2>3, <2>4 DEF Work
<1>2. CASE ~(ctl = "work" /\ op.kind \in {"input", "model"})
  BY <1>2, ReturnWorks DEF Raise
<1> QED
  BY <1>1, <1>2

(* Once nothing is pending the operation that found it goes on.            *)
LEMMA RecoveredWorks ==
  ASSUME TypeOK, Work, Recovered, marker' = None, UNCHANGED <<state, lastTxn>>
  PROVE  WorkTypes' /\ Work'
<1>1. CASE ctl = "open" /\ op.kind # "read"
  <2>1. /\ pc' = FirstStep /\ ctl' = "work" /\ snap' = alias
        /\ UNCHANGED <<op, txn, todo, now>>
    BY <1>1 DEF Recovered
  <2>2. /\ op.kind \in {"input", "model"} => pc' = "stage"
        /\ op.kind = "pointer" => pc' = "point"
        /\ op.kind = "touch" => pc' = "touch"
        /\ op.kind \in {"input", "model", "pointer", "touch"}
    BY <2>1, <1>1 DEF FirstStep, Work, Control, TypeOK, Ops
  <2>3. WorkTypes'
    BY <2>1, <2>2 DEF TypeOK, WorkTypes, Steps
  <2>4. Control'
    BY <2>1, <2>2, <1>1 DEF Work, Control, RecoverySteps, MarkedSteps, BuildSteps
  <2>5. InWork' /\ Undone'
    BY <2>2 DEF InWork, Undone, RecoverySteps, MarkedSteps, BuildSteps
  <2> QED
    BY <2>3, <2>4, <2>5 DEF Work
<1>2. CASE ~(ctl = "open" /\ op.kind # "read")
  BY <1>2, ReturnWorks DEF Recovered
<1> QED
  BY <1>1, <1>2
-----------------------------------------------------------------------------
(* One lemma for each action: it preserves the invariant.                  *)

(* An action that touches only the worker's memory.                        *)
LEMMA MemoryStep ==
  ASSUME StoreInv, UNCHANGED <<diskVars, lastTxn>>, CountTypes', WorkTypes', Work'
  PROVE  StoreInv'
<1>1. DiskTypes' /\ JournalTypes'
  BY TypeParts DEF StoreInv, DiskTypes, JournalTypes, diskVars, journalVars
<1>2. Disk'
  BY DiskKept DEF StoreInv, diskVars, journalVars, published
<1> QED
  BY <1>1, <1>2, TypePartsNext DEF StoreInv

LEMMA CountsKept == ASSUME TypeOK, UNCHANGED counters PROVE CountTypes'
BY DEF TypeOK, CountTypes, counters

(* A step to a later stage of the same call.                               *)
LEMMA StepTypes == ASSUME TypeOK, NEW q \in Steps, Step(q) PROVE WorkTypes'
BY DEF TypeOK, WorkTypes, Step

(* The walk of a journal begins once the marker's transaction is committed.*)
LEMMA WalkWorks ==
  ASSUME TypeOK, Control, pc # "idle", marker # None, WalkJournal(marker.token),
         UNCHANGED <<marker, after, lastTxn>>,
         state'.last = marker.token, state'.seq = state.seq \/ state'.seq = state.seq + 1
  PROVE  WorkTypes' /\ Work'
<1>0. marker.token \in Tokens /\ state.seq \in Nat /\ (op.target \in Nodes => op.target \in Nat)
  BY Numbers DEF TypeOK, Markers, Maybe, States
<1>1. WorkTypes'
  BY DEF TypeOK, WorkTypes, WalkJournal, Steps
<1>2. Control'
  BY <1>0 DEF Control, WalkJournal, RecoverySteps, MarkedSteps, BuildSteps, Committed
<1>3. InWork' /\ Undone'
  BY DEF WalkJournal, InWork, Undone, BuildSteps
<1> QED
  BY <1>1, <1>2, <1>3 DEF Work

LEMMA NothingPendingKeeps == StoreInv /\ NothingPending => StoreInv'
<1> SUFFICES ASSUME StoreInv, NothingPending PROVE StoreInv'
  OBVIOUS
<1>1. UNCHANGED <<diskVars, counters, state, lastTxn>> /\ marker' = None /\ Recovered
  BY DEF NothingPending, diskVars, counters
<1>2. WorkTypes' /\ Work'
  BY <1>1, RecoveredWorks DEF StoreInv
<1> QED
  BY <1>1, <1>2, MemoryStep, CountsKept DEF StoreInv

(* A memory step that raises.                                              *)
LEMMA RaiseKeeps ==
  ASSUME StoreInv, Raise, UNCHANGED <<diskVars, lastTxn>>, CountTypes'
  PROVE  StoreInv'
<1>1. WorkTypes' /\ Work'
  BY RaiseWorks DEF StoreInv, diskVars, journalVars, published
<1> QED
  BY <1>1, MemoryStep

LEMMA ReturnKeeps ==
  ASSUME StoreInv, Return, UNCHANGED <<diskVars, lastTxn>>, CountTypes'
  PROVE  StoreInv'
<1>1. WorkTypes' /\ Work'
  BY ReturnWorks
<1> QED
  BY <1>1, MemoryStep

LEMMA CancelsKeep ==
  StoreInv /\ (CancelBeforeMark \/ CancelBeforeSave \/ PointNowhere \/ PointRefused)
    => StoreInv'
<1> SUFFICES ASSUME StoreInv, CancelBeforeMark \/ CancelBeforeSave \/ PointNowhere \/ PointRefused
             PROVE  StoreInv'
  OBVIOUS
<1>1. (Raise \/ Return) /\ UNCHANGED <<diskVars, counters, lastTxn>>
  BY DEF CancelBeforeMark, CancelBeforeSave, PointNowhere, PointRefused, counters
<1> QED
  BY <1>1, RaiseKeeps, ReturnKeeps, CountsKept DEF StoreInv

LEMMA FaultsKeep == StoreInv /\ (Crash \/ IOError) => StoreInv'
<1> SUFFICES ASSUME StoreInv, Crash \/ IOError PROVE StoreInv'
  OBVIOUS
<1>1. (Raise \/ Return) /\ UNCHANGED <<diskVars, lastTxn>>
  BY DEF Crash, IOError
<1>2. CountTypes'
  BY Numbers DEF Crash, IOError, StoreInv, TypeOK, CountTypes
<1> QED
  BY <1>1, <1>2, RaiseKeeps, ReturnKeeps

LEMMA RecoverCommittedKeeps == StoreInv /\ RecoverCommitted => StoreInv'
<1> SUFFICES ASSUME StoreInv, RecoverCommitted PROVE StoreInv'
  OBVIOUS
<1>1. UNCHANGED <<diskVars, counters, marker, state, after, lastTxn>> /\ CountTypes'
  BY CountsKept DEF RecoverCommitted, StoreInv, diskVars, journalVars, counters
<1>2. CASE WalkJournal(marker.token)
  <2>1. WorkTypes' /\ Work'
    BY <1>1, <1>2, WalkWorks DEF RecoverCommitted, Committed, StoreInv, Work
  <2> QED
    BY <2>1, <1>1, MemoryStep
<1> QED
  BY <1>1, <1>2, RaiseKeeps DEF RecoverCommitted

LEMMA CheckAliasKeeps == ASSUME NEW a \in Names PROVE StoreInv /\ CheckAlias(a) => StoreInv'
<1> SUFFICES ASSUME StoreInv, CheckAlias(a) PROVE StoreInv'
  OBVIOUS
<1>1. UNCHANGED <<diskVars, counters, marker, state, after, lastTxn>> /\ CountTypes'
  BY CountsKept DEF CheckAlias, StoreInv, diskVars, journalVars, counters
<1>2. pc = "alias" /\ a \in todo
  BY DEF CheckAlias
<1>3. CASE todo' = todo \ {a} /\ UNCHANGED <<pc, ctl, op, snap, txn, now>>
  <2>1. WorkTypes'
    BY <1>3 DEF StoreInv, TypeOK, WorkTypes
  <2>2. Control' /\ InWork' /\ Undone'
    BY <1>1, <1>2, <1>3 DEF StoreInv, Work, Control, InWork, Undone, Committed, BuildSteps, MarkedSteps
  <2> QED
    BY <1>1, <2>1, <2>2, MemoryStep DEF Work
<1>4. CASE pc' = "replace" /\ now' = a /\ UNCHANGED <<ctl, op, snap, txn, todo>>
  <2>1. WorkTypes'
    BY <1>4 DEF StoreInv, TypeOK, WorkTypes, Steps, Maybe
  <2>2. Control'
    BY <1>1, <1>2, <1>4 DEF StoreInv, Work, Control, Committed, BuildSteps, MarkedSteps, RecoverySteps
  <2>3. InWork' /\ Undone'
    BY <1>4 DEF InWork, Undone, BuildSteps
  <2> QED
    BY <1>1, <2>1, <2>2, <2>3, MemoryStep DEF Work
<1> QED
  BY <1>1, <1>3, <1>4, RaiseKeeps DEF CheckAlias

LEMMA AliasesDoneKeeps == StoreInv /\ AliasesDone => StoreInv'
<1> SUFFICES ASSUME StoreInv, AliasesDone PROVE StoreInv'
  OBVIOUS
<1>1. UNCHANGED <<diskVars, counters, marker, state, after, lastTxn>> /\ CountTypes'
  BY CountsKept DEF AliasesDone, StoreInv, diskVars, journalVars, counters
<1>2. pc = "alias" /\ Step("unlink")
  BY DEF AliasesDone
<1>3. WorkTypes'
  BY <1>2, StepTypes DEF StoreInv, Steps
<1>4. Control'
  BY <1>1, <1>2 DEF StoreInv, Work, Control, Step, Committed, BuildSteps, MarkedSteps, RecoverySteps
<1>5. InWork' /\ Undone'
  BY <1>1, <1>2 DEF StoreInv, Work, Control, InWork, Undone, Step, Committed, BuildSteps
<1> QED
  BY <1>1, <1>3, <1>4, <1>5, MemoryStep DEF Work

LEMMA BeginKeeps == ASSUME NEW o \in Requests PROVE StoreInv /\ Begin(o) => StoreInv'
<1> SUFFICES ASSUME StoreInv, Begin(o) PROVE StoreInv'
  OBVIOUS
<1>1. UNCHANGED <<diskVars, counters, marker, state, after, lastTxn>> /\ CountTypes'
  BY CountsKept DEF Begin, StoreInv, diskVars, journalVars, counters
<1>2. /\ o \in Ops /\ o.kind # "none"
      /\ o.kind = "pointer" => o.target \in Nodes /\ o.target < state.seq
  <2>1. NoOp \in Ops /\ NoOp.kind = "none"
    BY DEF NoOp, Ops, Maybe
  <2>2. CASE o \in {[NoOp EXCEPT !.kind = "input", !.touched = S] : S \in SUBSET Names}
    <3>1. PICK S \in SUBSET Names : o = [NoOp EXCEPT !.kind = "input", !.touched = S]
      BY <2>2, Zenon
    <3> QED
      BY <2>1, <3>1 DEF Ops
  <2>3. CASE o \in {[NoOp EXCEPT !.kind = k] : k \in {"read", "model", "touch"}}
    <3>1. PICK k \in {"read", "model", "touch"} : o = [NoOp EXCEPT !.kind = k]
      BY <2>3, Zenon
    <3> QED
      BY <2>1, <3>1 DEF Ops
  <2>4. CASE /\ o \in [kind: {"pointer"}, target: Nodes, restore: BOOLEAN, touched: {{}}]
             /\ o.target < state.seq
    BY <2>4 DEF Ops, Maybe
  <2> QED
    BY <2>2, <2>3, <2>4 DEF Requests
<1>3. WorkTypes'
  BY <1>2 DEF Begin, StoreInv, TypeOK, WorkTypes, Steps
<1>4. lastTxn \in Nat /\ (o.kind \in {"input", "model", "pointer"} => lastTxn < MaxTxn)
  BY Numbers DEF Begin, StoreInv, TypeOK
<1>5. Control'
  BY <1>1, <1>2, <1>4 DEF Begin, Control, BuildSteps, MarkedSteps, RecoverySteps
<1>6. InWork' /\ Undone'
  BY DEF Begin, InWork, Undone, BuildSteps
<1> QED
  BY <1>1, <1>3, <1>5, <1>6, MemoryStep DEF Work

(* A change of the working files alone.                                    *)
LEMMA AliasStep ==
  ASSUME StoreInv, alias' \in [Names -> Contents],
         UNCHANGED <<state, marker, nodeDir, dataDir, stagedNode, stagedData,
                     journalVars, lastTxn>>,
         CountTypes', WorkTypes', Work'
  PROVE  StoreInv'
<1>1. DiskTypes' /\ JournalTypes'
  BY TypeParts DEF StoreInv, DiskTypes, JournalTypes, journalVars
<1>2. Disk'
  BY DiskKept DEF StoreInv, journalVars, published
<1> QED
  BY <1>1, <1>2, TypePartsNext DEF StoreInv

LEMMA ReplaceAliasKeeps == StoreInv /\ ReplaceAlias => StoreInv'
<1> SUFFICES ASSUME StoreInv, ReplaceAlias PROVE StoreInv'
  OBVIOUS
<1>1. /\ UNCHANGED <<state, marker, nodeDir, dataDir, stagedNode, stagedData,
                     journalVars, after, lastTxn>>
      /\ CountTypes'
  BY CountsKept DEF ReplaceAlias, StoreInv, journalVars, counters
<1>2. /\ pc = "replace" /\ marker # None /\ Committed
      /\ now \in Names /\ after[marker.token][now] # None
  BY DEF ReplaceAlias, StoreInv, Work, Control
<1>3. after[marker.token][now] \in Contents
  BY <1>2 DEF StoreInv, TypeOK, Markers, Maybe
<1>4. alias' \in [Names -> Contents]
  BY <1>3 DEF ReplaceAlias, StoreInv, TypeOK
<1>5. WorkTypes'
  BY DEF ReplaceAlias, StoreInv, TypeOK, WorkTypes, Steps, Maybe
<1>6. Control'
  BY <1>1, <1>2 DEF ReplaceAlias, StoreInv, Work, Control, Committed, BuildSteps, MarkedSteps, RecoverySteps
<1>7. InWork' /\ Undone'
  BY DEF ReplaceAlias, InWork, Undone, BuildSteps
<1> QED
  BY <1>1, <1>4, <1>5, <1>6, <1>7, AliasStep DEF Work

(* The user's hand moves no part of the worker.                            *)
LEMMA UserKeeps ==
  ASSUME StoreInv, alias' \in [Names -> Contents], CountTypes',
         UNCHANGED <<state, marker, nodeDir, dataDir, stagedNode, stagedData,
                     journalVars, workVars, lastTxn>>
  PROVE  StoreInv'
<1>1. WorkTypes'
  BY DEF StoreInv, TypeOK, WorkTypes, workVars
<1>2. Control'
  BY DEF StoreInv, Work, Control, Committed, workVars, journalVars
<1>3. InWork' /\ Undone'
  BY DEF StoreInv, Work, InWork, Undone, Committed, workVars, journalVars
<1> QED
  BY <1>1, <1>2, <1>3, AliasStep DEF Work

LEMMA UserEditKeeps ==
  ASSUME NEW a \in Names, NEW c \in Edits PROVE StoreInv /\ UserEdit(a, c) => StoreInv'
<1> SUFFICES ASSUME StoreInv, UserEdit(a, c) PROVE StoreInv'
  OBVIOUS
<1>1. alias' \in [Names -> Contents]
  BY DEF UserEdit, StoreInv, TypeOK, Contents
<1>2. CountTypes'
  BY Numbers DEF UserEdit, StoreInv, TypeOK, CountTypes
<1> QED
  BY <1>1, <1>2, UserKeeps DEF UserEdit

LEMMA UserRestoreKeeps ==
  ASSUME NEW a \in Names PROVE StoreInv /\ UserRestore(a) => StoreInv'
<1> SUFFICES ASSUME StoreInv, UserRestore(a) PROVE StoreInv'
  OBVIOUS
<1>1. marker.token \in Tokens
  BY DEF UserRestore, StoreInv, TypeOK, Markers, Maybe
<1>2. alias' \in [Names -> Contents]
  BY <1>1 DEF UserRestore, StoreInv, TypeOK
<1>3. CountTypes' /\ UNCHANGED lastTxn
  BY CountsKept DEF UserRestore, StoreInv, counters
<1> QED
  BY <1>2, <1>3, UserKeeps DEF UserRestore
(* What the types say of the fields the store is made of.                  *)
LEMMA Fields ==
  ASSUME TypeOK
  PROVE  /\ state.seq \in Nat /\ state.dataSeq \in Nat /\ state.rev \in Nat
         /\ state.active \in Maybe(Nodes) /\ state.data \in Maybe(Datas)
         /\ state.last \in Maybe(Tokens)
         /\ marker # None => /\ marker.token \in Tokens
                             /\ marker.node \in Maybe(Nodes)
                             /\ marker.data \in Maybe(Datas)
         /\ lastTxn \in Nat /\ lastTxn <= MaxTxn
BY Numbers DEF TypeOK, States, Markers, Maybe

(* Packages that are staged or in one directory, each in one place, stay   *)
(* so when one is renamed back to staging or out of it.                    *)
InOnePlace(dir, S, staged) ==
  /\ \A t \in staged : \A n \in S : dir[n] # t
  /\ \A m, n \in S : dir[m] # None /\ dir[m] = dir[n] => m = n

LEMMA RenamedBack ==
  ASSUME NEW S, NEW dir \in [S -> Maybe(Tokens)], NEW staged, NEW k \in S,
         dir[k] # None, InOnePlace(dir, S, staged), \A t \in staged : t # None
  PROVE  InOnePlace([dir EXCEPT ![k] = None], S, staged \cup {dir[k]})
BY DEF InOnePlace, Maybe

LEMMA RenamedInto ==
  ASSUME NEW S, NEW dir \in [S -> Maybe(Tokens)], NEW staged, NEW k \in S, NEW t \in staged,
         InOnePlace(dir, S, staged)
  PROVE  InOnePlace([dir EXCEPT ![k] = t], S, staged \ {t})
BY DEF InOnePlace

LEMMA OnePlaces ==
  PackagesConserved <=>
    /\ InOnePlace(nodeDir, Nodes, stagedNode) /\ InOnePlace(dataDir, Datas, stagedData)
    /\ \A n \in Nodes : n < state.seq /\ bound[nodeDir[n]] # None =>
         dataDir[bound[nodeDir[n]]] # None
BY DEF PackagesConserved, InOnePlace

LEMMA OnePlacesNext ==
  PackagesConserved' <=>
    /\ InOnePlace(nodeDir', Nodes, stagedNode') /\ InOnePlace(dataDir', Datas, stagedData')
    /\ \A n \in Nodes : n < state'.seq /\ bound'[nodeDir'[n]] # None =>
         dataDir'[bound'[nodeDir'[n]]] # None
BY DEF PackagesConserved, InOnePlace

(* Nothing is left to do once the marker is gone.                          *)
LEMMA UnmarkedDisk ==
  ASSUME TypeOK, Disk, marker # None, marker' = None,
         UNCHANGED <<state, nodeDir, dataDir, stagedNode, stagedData, bound, lastTxn>>,
         ~Committed => /\ marker.node # None => nodeDir[marker.node] = None
                       /\ marker.data # None => dataDir[marker.data] = None
  PROVE  Disk'
<1>1. None \notin Nodes /\ None \notin Datas
  BY Numbers
<1>2. Named' /\ Ordered'
  BY DEF Disk, Named, Ordered
<1>3. DirectoriesMatchState'
  BY <1>1 DEF Disk, DirectoriesMatchState
<1>4. PackagesConserved' /\ ActiveIsPublished' /\ BoundIsPublished'
  BY DEF Disk, PackagesConserved, ActiveIsPublished, BoundIsPublished
<1> QED
  BY <1>2, <1>3, <1>4 DEF Disk

LEMMA UnlinkKeeps == StoreInv /\ Unlink => StoreInv'
<1> SUFFICES ASSUME StoreInv, Unlink PROVE StoreInv'
  OBVIOUS
<1>1. /\ pc = "unlink" /\ marker # None /\ marker' = None /\ Recovered
      /\ UNCHANGED <<state, nodeDir, dataDir, stagedNode, stagedData, alias,
                     journalVars, bound, counters, lastTxn>>
  BY DEF Unlink, StoreInv, Work, Control, journalVars, counters
<1>2. WorkTypes' /\ Work'
  BY <1>1, RecoveredWorks DEF StoreInv
<1>3. ~Committed => /\ marker.node # None => nodeDir[marker.node] = None
                    /\ marker.data # None => dataDir[marker.data] = None
  BY <1>1 DEF StoreInv, Work, Undone
<1>4. Disk'
  BY <1>1, <1>3, UnmarkedDisk DEF StoreInv
<1>5. DiskTypes' /\ JournalTypes'
  BY <1>1 DEF StoreInv, TypeOK, DiskTypes, JournalTypes, journalVars, Maybe
<1> QED
  BY <1>1, <1>2, <1>4, <1>5, TypePartsNext, CountsKept DEF StoreInv

LEMMA TouchKeeps == StoreInv /\ Touch => StoreInv'
<1> SUFFICES ASSUME StoreInv, Touch PROVE StoreInv'
  OBVIOUS
<1>1. /\ state' = [state EXCEPT !.rev = @ + 1] /\ Return
      /\ UNCHANGED <<marker, nodeDir, dataDir, stagedNode, stagedData, alias,
                     journalVars, bound, counters, lastTxn>>
  BY DEF Touch, journalVars, counters
<1>2. /\ state' \in States
      /\ state'.active = state.active /\ state'.data = state.data
      /\ state'.seq = state.seq /\ state'.dataSeq = state.dataSeq /\ state'.last = state.last
  BY <1>1 DEF StoreInv, TypeOK, States
<1>3. WorkTypes' /\ Work'
  BY <1>1, ReturnWorks
<1>4. DiskTypes' /\ JournalTypes'
  BY <1>1, <1>2 DEF StoreInv, TypeOK, DiskTypes, JournalTypes, journalVars
<1>5. Named' /\ Ordered'
  BY <1>1, <1>2 DEF StoreInv, Disk, Named, Ordered, Committed
<1>6. DirectoriesMatchState'
  BY <1>1, <1>2 DEF StoreInv, Disk, DirectoriesMatchState, Committed
<1>7. PackagesConserved' /\ ActiveIsPublished' /\ BoundIsPublished'
  BY <1>1, <1>2 DEF StoreInv, Disk, PackagesConserved, ActiveIsPublished, BoundIsPublished
<1> QED
  BY <1>1, <1>3, <1>4, <1>5, <1>6, <1>7, TypePartsNext, CountsKept DEF StoreInv, Disk

LEMMA RecoverNodeKeeps == StoreInv /\ RecoverNode => StoreInv'
<1> SUFFICES ASSUME StoreInv, RecoverNode PROVE StoreInv'
  OBVIOUS
<1> USE Fields, Numbers
<1>1. /\ pc = "recover" /\ marker # None /\ ~Committed /\ Step("recoverData")
      /\ UNCHANGED <<state, marker, dataDir, stagedData, alias, journalVars, after,
                     bound, counters, lastTxn>>
  BY DEF RecoverNode, journalVars, counters
<1>2. /\ marker.token \in Tokens
      /\ marker.node # None => marker.node \in Nodes /\ marker.node = state.seq
  BY <1>1 DEF StoreInv, Disk, Named, Maybe
<1>3. NodeToUndo => nodeDir[marker.node] = marker.token
  BY <1>2 DEF NodeToUndo, StoreInv, Disk, DirectoriesMatchState
<1>4. WorkTypes'
  BY <1>1, StepTypes DEF StoreInv, Steps
<1>5. Control'
  BY <1>1 DEF StoreInv, Work, Control, Step, Committed, BuildSteps, MarkedSteps, RecoverySteps
<1>6. marker.node # None => nodeDir'[marker.node] = None
  BY <1>2 DEF RecoverNode, NodeToUndo, StoreInv, TypeOK
<1>7. InWork' /\ Undone'
  BY <1>1, <1>6 DEF InWork, Undone, Step, BuildSteps
<1>8. DiskTypes' /\ JournalTypes'
  BY <1>1, <1>2 DEF RecoverNode, StoreInv, TypeOK, DiskTypes, JournalTypes, journalVars, Maybe
<1>9. Disk'
  <2>1. CASE NodeToUndo
    <3>1. /\ nodeDir' = [nodeDir EXCEPT ![marker.node] = None]
          /\ stagedNode' = stagedNode \cup {marker.token}
          /\ marker.node \in Nodes /\ marker.node = state.seq
          /\ nodeDir[marker.node] = marker.token /\ nodeDir \in [Nodes -> Maybe(Tokens)]
      BY <1>2, <1>3, <2>1 DEF RecoverNode, NodeToUndo, StoreInv, TypeOK
    <3>2. Named' /\ Ordered'
      BY <1>1, <1>2, <3>1 DEF StoreInv, Disk, Named, Ordered, Committed
    <3>3. DirectoriesMatchState'
      BY <1>1, <3>1 DEF StoreInv, Disk, DirectoriesMatchState, Committed
    <3>4. PackagesConserved'
      <4>1. InOnePlace(nodeDir', Nodes, stagedNode')
        BY <1>2, <3>1, RenamedBack, OnePlaces DEF StoreInv, TypeOK, Disk
      <4>2. \A n \in Nodes : n < state.seq => nodeDir'[n] = nodeDir[n]
        BY <3>1
      <4> QED
        BY <1>1, <4>1, <4>2, OnePlaces, OnePlacesNext DEF StoreInv, Disk
    <3>5. ActiveIsPublished' /\ BoundIsPublished'
      BY <1>1, <3>1 DEF StoreInv, Disk, ActiveIsPublished, BoundIsPublished, Maybe
    <3> QED
      BY <3>2, <3>3, <3>4, <3>5 DEF Disk
  <2>2. CASE ~NodeToUndo
    BY <1>1, <2>2, DiskKept DEF RecoverNode, StoreInv, published
  <2> QED
    BY <2>1, <2>2
<1> QED
  BY <1>1, <1>4, <1>5, <1>7, <1>8, <1>9, TypePartsNext, CountsKept DEF StoreInv, Work

LEMMA RecoverDataKeeps == StoreInv /\ RecoverData => StoreInv'
<1> SUFFICES ASSUME StoreInv, RecoverData PROVE StoreInv'
  OBVIOUS
<1> USE Fields, Numbers
<1>1. /\ pc = "recoverData" /\ marker # None /\ ~Committed
      /\ UNCHANGED <<state, marker, nodeDir, stagedNode, alias, journalVars, after,
                     bound, counters, lastTxn>>
  BY DEF RecoverData, StoreInv, Work, Control, journalVars, counters
<1>2. /\ marker.token \in Tokens
      /\ marker.data # None => marker.data \in Datas /\ marker.data = state.dataSeq + 1
  BY <1>1 DEF StoreInv, Disk, Named, Maybe
<1>3. CountTypes'
  BY <1>1, CountsKept DEF StoreInv
<1>4. CASE Raise /\ UNCHANGED <<dataDir, stagedData>>
  BY <1>1, <1>3, <1>4, RaiseKeeps DEF diskVars
<1>5. CASE /\ Step("unlink")
           /\ \/ marker.data # None => dataDir[marker.data] = None
              \/ dataDir[marker.data] = marker.token /\ marker.data # None
           /\ IF marker.data # None /\ dataDir[marker.data] = marker.token
              THEN /\ dataDir' = [dataDir EXCEPT ![marker.data] = None]
                   /\ stagedData' = stagedData \cup {marker.token}
              ELSE UNCHANGED <<dataDir, stagedData>>
  <2>1. WorkTypes'
    BY <1>5, StepTypes DEF StoreInv, Steps
  <2>2. Control'
    BY <1>1, <1>5 DEF StoreInv, Work, Control, Step, Committed, BuildSteps, MarkedSteps, RecoverySteps
  <2>3. marker.data # None => dataDir'[marker.data] = None
    BY <1>2, <1>5 DEF StoreInv, TypeOK
  <2>4. marker.node # None => nodeDir[marker.node] = None
    BY <1>1 DEF StoreInv, Work, Undone
  <2>5. InWork' /\ Undone'
    BY <1>1, <1>5, <2>3, <2>4 DEF InWork, Undone, Step, BuildSteps
  <2>6. DiskTypes' /\ JournalTypes'
    BY <1>1, <1>2, <1>5 DEF StoreInv, TypeOK, DiskTypes, JournalTypes, journalVars, Maybe
  <2>7. Disk'
    <3>1. CASE marker.data # None /\ dataDir[marker.data] = marker.token
      <4>1. /\ dataDir' = [dataDir EXCEPT ![marker.data] = None]
            /\ stagedData' = stagedData \cup {marker.token}
            /\ marker.data \in Datas /\ marker.data = state.dataSeq + 1
            /\ dataDir[marker.data] = marker.token /\ dataDir \in [Datas -> Maybe(Tokens)]
        BY <1>2, <1>5, <3>1 DEF StoreInv, TypeOK
      <4>2. Named' /\ Ordered'
        BY <1>1, <1>2, <4>1 DEF StoreInv, Disk, Named, Ordered, Committed
      <4>3. DirectoriesMatchState'
        BY <1>1, <4>1 DEF StoreInv, Disk, DirectoriesMatchState, Committed
      <4>4. PackagesConserved'
        <5>1. \A n \in Nodes : n < state.seq /\ bound[nodeDir[n]] # None =>
                bound[nodeDir[n]] <= state.dataSeq /\ bound[nodeDir[n]] \in Datas
          <6>1. \A n \in Nodes : n < state.seq => nodeDir[n] \in Tokens
            BY DEF StoreInv, TypeOK, Disk, DirectoriesMatchState, Maybe
          <6> QED
            BY <6>1 DEF StoreInv, TypeOK, Disk, BoundIsPublished, Maybe
        <5>2. \A n \in Nodes : n < state.seq /\ bound[nodeDir[n]] # None =>
                dataDir'[bound[nodeDir[n]]] # None
          BY <4>1, <5>1 DEF StoreInv, Disk, PackagesConserved
        <5>3. InOnePlace(dataDir', Datas, stagedData')
          BY <1>2, <4>1, RenamedBack, OnePlaces DEF StoreInv, TypeOK, Disk
        <5> QED
          BY <1>1, <5>2, <5>3, OnePlaces, OnePlacesNext DEF StoreInv, Disk
      <4>5. ActiveIsPublished' /\ BoundIsPublished'
        BY <1>1 DEF StoreInv, Disk, ActiveIsPublished, BoundIsPublished
      <4> QED
        BY <4>2, <4>3, <4>4, <4>5 DEF Disk
    <3>2. CASE ~(marker.data # None /\ dataDir[marker.data] = marker.token)
      BY <1>1, <1>5, <3>2, DiskKept DEF StoreInv, published
    <3> QED
      BY <3>1, <3>2
  <2> HIDE Fields, Numbers
  <2> QED
    BY <1>3, <2>1, <2>2, <2>5, <2>6, <2>7, TypePartsNext DEF StoreInv, Work
<1>6. CASE marker.data = None \/ dataDir[marker.data] = None
  BY <1>2, <1>5, <1>6 DEF RecoverData
<1>7. CASE /\ ~(marker.data = None \/ dataDir[marker.data] = None)
           /\ dataDir[marker.data] = marker.token
  BY <1>5, <1>7 DEF RecoverData
<1>8. CASE /\ ~(marker.data = None \/ dataDir[marker.data] = None)
           /\ dataDir[marker.data] # marker.token
  BY <1>4, <1>8 DEF RecoverData
<1> QED
  BY <1>6, <1>7, <1>8
(* What is counted is there, bound to a data revision or to none.          *)
LEMMA Counted ==
  ASSUME TypeOK, DirectoriesMatchState
  PROVE  /\ \A n \in Nodes : n < state.seq =>
              nodeDir[n] \in Tokens /\ bound[nodeDir[n]] \in Maybe(Datas)
         /\ \A d \in Datas : d <= state.dataSeq => dataDir[d] \in Tokens
<1>1. \A n \in Nodes : n < state.seq => nodeDir[n] \in Tokens
  BY DEF TypeOK, DirectoriesMatchState, Maybe
<1>2. \A d \in Datas : d <= state.dataSeq => dataDir[d] \in Tokens
  BY DEF TypeOK, DirectoriesMatchState, Maybe
<1> QED
  BY <1>1, <1>2 DEF TypeOK

LEMMA JournalTyped ==
  ASSUME TypeOK, NEW t \in Tokens, NEW wanted \in [Names -> Contents], Journal(t, wanted)
  PROVE  /\ before' \in [Tokens -> [Names -> Contents]]
         /\ after' \in [Tokens -> [Names -> Maybe(Contents)]]
<1>1. before' \in [Tokens -> [Names -> Contents]]
  BY DEF Journal, TypeOK
<1>2. [a \in Names |-> IF wanted[a] = alias[a] THEN None ELSE wanted[a]]
        \in [Names -> Maybe(Contents)]
  BY DEF Maybe
<1>3. after' \in [Tokens -> [Names -> Maybe(Contents)]]
  BY <1>2 DEF Journal, TypeOK
<1> QED
  BY <1>1, <1>3

(* A new token is nowhere yet: it may be staged, bound and marked.         *)
LEMMA FreshDisk ==
  ASSUME TypeOK, Disk, marker = None, lastTxn < MaxTxn, lastTxn' = NewTxn,
         UNCHANGED <<state, nodeDir, dataDir>>,
         marker' = None \/ marker' = [node |-> None, token |-> NewTxn, data |-> None],
         stagedNode' \subseteq stagedNode \cup {NewTxn},
         stagedData' \subseteq stagedData \cup {NewTxn},
         \A t \in Tokens : t # NewTxn => bound'[t] = bound[t]
  PROVE  Disk'
<1>1. lastTxn \in Nat /\ NewTxn = lastTxn + 1 /\ NewTxn \in Nat /\ NewTxn # None
  <2>1. lastTxn \in Nat
    BY Fields
  <2> QED
    BY <2>1, ValuesAssumption DEF NewTxn
<1>2. /\ \A n \in Nodes : nodeDir[n] # NewTxn
      /\ \A d \in Datas : dataDir[d] # NewTxn
      /\ state.last # NewTxn
  <2>1. \A n \in Nodes : nodeDir[n] \in Tokens \cup {None}
    BY DEF TypeOK, Maybe
  <2>2. \A d \in Datas : dataDir[d] \in Tokens \cup {None}
    BY DEF TypeOK, Maybe
  <2>3. state.last \in Tokens \cup {None}
    BY Fields DEF Maybe
  <2> QED
    BY <1>1, <2>1, <2>2, <2>3 DEF Disk, Ordered, Tokens
<1>3. Named'
  BY <1>1, <1>2 DEF Disk, Named, Committed
<1>4. Ordered'
  <2>1. /\ state.seq \in Nat /\ state.dataSeq \in Nat
        /\ state.last \in Maybe(Tokens) /\ Tokens \subseteq Nat
        /\ \A n \in Nodes : nodeDir[n] \in Maybe(Tokens)
        /\ \A d \in Datas : dataDir[d] \in Maybe(Tokens)
        /\ \A t \in stagedNode \cup stagedData : t \in Nat
    BY Fields, Numbers DEF TypeOK
  <2>0. \A x \in Nat : x <= lastTxn => x <= lastTxn'
    BY <1>1
  <2>2. state.seq <= lastTxn' /\ state.dataSeq <= lastTxn'
    BY <2>0, <2>1 DEF Disk, Ordered
  <2>3. state.last # None => state.last \in Nat /\ state.last <= lastTxn
    BY <2>1 DEF Disk, Ordered, Maybe
  <2>4. /\ \A n \in Nodes : nodeDir[n] # None => nodeDir[n] \in Nat /\ nodeDir[n] <= lastTxn
        /\ \A d \in Datas : dataDir[d] # None => dataDir[d] \in Nat /\ dataDir[d] <= lastTxn
    BY <2>1 DEF Disk, Ordered, Maybe
  <2>5. \A t \in stagedNode' \cup stagedData' : t <= lastTxn'
    BY <1>1, <2>1 DEF Disk, Ordered
  <2> QED
    BY <2>0, <2>2, <2>3, <2>4, <2>5 DEF Ordered
<1>5. DirectoriesMatchState'
  BY DEF Disk, DirectoriesMatchState
<1>6. \A n \in Nodes : n < state.seq => bound'[nodeDir[n]] = bound[nodeDir[n]]
  BY <1>2, Counted DEF Disk
<1>7. PackagesConserved'
  BY <1>2, <1>6 DEF Disk, PackagesConserved
<1>8. ActiveIsPublished' /\ BoundIsPublished'
  BY <1>6, Fields DEF Disk, ActiveIsPublished, BoundIsPublished, Maybe
<1> QED
  BY <1>3, <1>4, <1>5, <1>7, <1>8 DEF Disk

LEMMA StageInputKeeps == StoreInv /\ StageInput => StoreInv'
<1> SUFFICES ASSUME StoreInv, StageInput PROVE StoreInv'
  OBVIOUS
<1> DEFINE t == NewTxn
<1>1. /\ pc = "stage" /\ op.kind = "input" /\ marker = None /\ lastTxn < MaxTxn /\ lastTxn \in Nat
      /\ ctl = "work"
      /\ UNCHANGED <<state, marker, nodeDir, dataDir, alias, faults, edits>>
  BY Numbers DEF StageInput, StoreInv, TypeOK, Work, Control, RecoverySteps
<1>2. CASE Raise /\ UNCHANGED <<stagedNode, stagedData, journalVars, lastTxn>>
  <2>1. CountTypes'
    BY <1>1, <1>2 DEF StoreInv, TypeOK, CountTypes
  <2> QED
    BY <1>1, <1>2, <2>1, RaiseKeeps DEF diskVars
<1>3. CASE /\ Journal(t, StagedInputs(t))
           /\ bound' = [bound EXCEPT ![t] = state.dataSeq + 1]
           /\ exper' = [exper EXCEPT ![t] = StagedInputs(t)[Ctx]]
           /\ obs' = [obs EXCEPT ![t] = StagedInputs(t)[Hkl]]
           /\ stagedNode' = stagedNode \cup {t}
           /\ stagedData' = stagedData \cup {t}
           /\ lastTxn' = t /\ txn' = t
           /\ pc' = "mark"
           /\ UNCHANGED <<ctl, op, snap, todo, now>>
  <2>1. t \in Tokens /\ t \in Nat /\ t = lastTxn + 1 /\ t <= MaxTxn
    BY <1>1, Numbers DEF NewTxn, Tokens
  <2>2. StagedInputs(t) \in [Names -> Contents]
    BY <2>1, Numbers DEF StagedInputs, StoreInv, TypeOK
  <2>3. StagedInputs(t)[Ctx] \in Contents /\ StagedInputs(t)[Hkl] \in Contents
    BY <2>2, Numbers
  <2>4. state.dataSeq + 1 \in Datas /\ state.dataSeq <= lastTxn /\ state.seq <= lastTxn
    BY <1>1, Fields, Numbers DEF StoreInv, Disk, Ordered, Datas
  <2>5. JournalTypes'
    <3>1. before' \in [Tokens -> [Names -> Contents]] /\ after' \in [Tokens -> [Names -> Maybe(Contents)]]
      BY <1>3, <2>1, <2>2, JournalTyped DEF StoreInv
    <3> HIDE DEF t
    <3>2. bound' \in [Tokens -> Maybe(Datas)]
      BY <1>3, <2>4 DEF StoreInv, TypeOK, Maybe
    <3>3. exper' \in [Tokens -> Contents] /\ obs' \in [Tokens -> Contents]
      BY <1>3, <2>3 DEF StoreInv, TypeOK
    <3> QED
      BY <3>1, <3>2, <3>3 DEF JournalTypes
  <2> HIDE DEF t
  <2>6. DiskTypes' /\ CountTypes'
    BY <1>1, <1>3, <2>1 DEF StoreInv, TypeOK, DiskTypes, CountTypes
  <2>7. WorkTypes'
    BY <1>3, <2>1 DEF StoreInv, TypeOK, WorkTypes, Steps, Maybe
  <2>8. Control'
    BY <1>1, <1>3 DEF StoreInv, Work, Control, BuildSteps, MarkedSteps, RecoverySteps
  <2>9. bound'[t] = state.dataSeq + 1 /\ (\A u \in Tokens : u # t => bound'[u] = bound[u])
    BY <1>3, <2>1 DEF StoreInv, TypeOK
  <2>10. t # None /\ state.last # t /\ state.seq \in Nat /\ state.dataSeq \in Nat
    BY <2>1, Fields, Numbers DEF StoreInv, Disk, Ordered, Maybe
  <2>11. InWork' /\ Undone'
    BY <1>1, <1>3, <2>1, <2>4, <2>9, <2>10 DEF InWork, Undone, BuildSteps
  <2>12. Disk'
    BY <1>1, <1>3, <2>9, FreshDisk DEF t, StoreInv
  <2> QED
    BY <2>5, <2>6, <2>7, <2>8, <2>11, <2>12, TypePartsNext DEF StoreInv, Work
<1> QED
  BY <1>2, <1>3 DEF StageInput

LEMMA StageModelKeeps == StoreInv /\ StageModel => StoreInv'
<1> SUFFICES ASSUME StoreInv, StageModel PROVE StoreInv'
  OBVIOUS
<1> DEFINE t == NewTxn
<1>1. /\ pc = "stage" /\ op.kind = "model" /\ marker = None /\ lastTxn < MaxTxn /\ lastTxn \in Nat
      /\ ctl = "work"
      /\ UNCHANGED <<state, marker, nodeDir, dataDir, stagedData, alias, faults, edits>>
  BY Numbers DEF StageModel, StoreInv, TypeOK, Work, Control, RecoverySteps
<1>2. CASE Raise /\ UNCHANGED <<stagedNode, journalVars, lastTxn>>
  <2>1. CountTypes'
    BY <1>1, <1>2 DEF StoreInv, TypeOK, CountTypes
  <2> QED
    BY <1>1, <1>2, <2>1, RaiseKeeps DEF diskVars
<1>3. CASE /\ bound' = [bound EXCEPT ![t] = state.data]
           /\ \E e \in SessionExperiments : exper' = [exper EXCEPT ![t] = e]
           /\ stagedNode' = stagedNode \cup {t}
           /\ lastTxn' = t /\ txn' = t
           /\ pc' = "mark"
           /\ UNCHANGED <<ctl, op, snap, todo, now, before, after, obs>>
  <2>1. t \in Tokens /\ t \in Nat /\ t = lastTxn + 1 /\ t <= MaxTxn
    BY <1>1, Numbers DEF NewTxn, Tokens
  <2>2. SessionExperiments \subseteq Contents
    <3>1. snap[Ctx] \in Contents
      BY Numbers DEF StoreInv, TypeOK
    <3>2. state.active # None => exper[nodeDir[state.active]] \in Contents
      BY Fields, Counted DEF StoreInv, TypeOK, Disk, ActiveIsPublished, Maybe
    <3> QED
      BY <3>1, <3>2 DEF SessionExperiments
  <2>4. state.dataSeq <= lastTxn /\ state.seq <= lastTxn /\ state.data \in Maybe(Datas)
    BY Fields DEF StoreInv, Disk, Ordered
  <2> HIDE DEF t
  <2>5. JournalTypes'
    BY <1>3, <2>1, <2>2, <2>4 DEF StoreInv, TypeOK, JournalTypes
  <2>6. DiskTypes' /\ CountTypes'
    BY <1>1, <1>3, <2>1 DEF StoreInv, TypeOK, DiskTypes, CountTypes
  <2>7. WorkTypes'
    BY <1>3, <2>1 DEF StoreInv, TypeOK, WorkTypes, Steps, Maybe
  <2>8. Control'
    BY <1>1, <1>3 DEF StoreInv, Work, Control, BuildSteps, MarkedSteps, RecoverySteps
  <2>9. bound'[t] = state.data /\ (\A u \in Tokens : u # t => bound'[u] = bound[u])
    BY <1>3, <2>1 DEF StoreInv, TypeOK
  <2>10. t # None /\ state.last # t /\ state.seq \in Nat /\ state.dataSeq \in Nat
    BY <2>1, Fields, Numbers DEF StoreInv, Disk, Ordered, Maybe
  <2>11. InWork' /\ Undone'
    BY <1>1, <1>3, <2>1, <2>4, <2>9, <2>10 DEF InWork, Undone, BuildSteps
  <2>12. Disk'
    BY <1>1, <1>3, <2>9, FreshDisk DEF t, StoreInv
  <2> QED
    BY <2>5, <2>6, <2>7, <2>8, <2>11, <2>12, TypePartsNext DEF StoreInv, Work
<1> QED
  BY <1>2, <1>3 DEF StageModel

(* The aliases of a published node are contents.                           *)
LEMMA InputsTyped ==
  ASSUME TypeOK, NEW d \in Datas, dataDir[d] # None, NEW e \in Contents, NEW restore \in BOOLEAN
  PROVE  NodeInputs(d, e, restore) \in [Names -> Contents]
<1>1. obs[dataDir[d]] \in Contents
  BY DEF TypeOK, Maybe
<1> QED
  BY <1>1 DEF NodeInputs, TypeOK

LEMMA WriteMarkerKeeps == StoreInv /\ WriteMarker => StoreInv'
<1> SUFFICES ASSUME StoreInv, WriteMarker PROVE StoreInv'
  OBVIOUS
<1>1. /\ pc = "mark" /\ marker = None /\ op.kind \in {"input", "model"} /\ ctl \in {"work"}
      /\ UNCHANGED <<state, nodeDir, dataDir, stagedNode, stagedData, alias,
                     bound, exper, obs, counters, lastTxn, faults, edits>>
  BY DEF WriteMarker, StoreInv, TypeOK, Work, Control, BuildSteps, RecoverySteps, counters
<1>2. /\ txn \in Tokens /\ txn <= lastTxn /\ state.last # txn /\ txn \in stagedNode
      /\ bound[txn] \in Maybe(Datas) /\ state.data \in Maybe(Datas)
      /\ state.seq < lastTxn /\ state.seq \in Nat /\ state.dataSeq \in Nat
  BY <1>1, Fields DEF StoreInv, TypeOK, Work, InWork, BuildSteps, Maybe
<1>3. /\ op.kind = "input" => bound[txn] = state.dataSeq + 1 /\ txn \in stagedData
      /\ op.kind = "model" => bound[txn] = state.data
  BY <1>1 DEF StoreInv, Work, InWork
<1>4. CountTypes'
  BY <1>1, CountsKept DEF StoreInv
<1>5. CASE Raise /\ UNCHANGED <<marker, before, after>>
  BY <1>1, <1>4, <1>5, RaiseKeeps DEF diskVars, journalVars
<1>6. CASE /\ Step("publishData")
           /\ marker' = [node |-> state.seq, token |-> txn,
                         data |-> IF op.kind = "input" THEN bound[txn] ELSE None]
           /\ before' \in [Tokens -> [Names -> Contents]]
           /\ after' \in [Tokens -> [Names -> Maybe(Contents)]]
  <2>1. state.seq \in Nodes
    BY <1>2, Fields, Numbers DEF Nodes, StoreInv
  <2>2. /\ marker' \in Markers /\ marker' # None /\ marker'.node = state.seq /\ marker'.token = txn
        /\ marker'.data = IF op.kind = "input" THEN bound[txn] ELSE None
    BY <1>2, <1>6, <2>1, Numbers DEF Markers, Maybe
  <2>3. DiskTypes' /\ JournalTypes'
    BY <1>1, <1>6, <2>2 DEF StoreInv, TypeOK, DiskTypes, JournalTypes, Maybe
  <2>4. WorkTypes'
    BY <1>6, StepTypes DEF StoreInv, Steps
  <2>5. Control'
    BY <1>1, <1>2, <1>6, <2>2 DEF StoreInv, Work, Control, Step, Committed, BuildSteps, MarkedSteps, RecoverySteps
  <2>6. None # state.dataSeq + 1
    BY <1>2, ValuesAssumption
  <2>7. txn # None /\ state.seq < lastTxn /\ state.dataSeq < lastTxn
    BY <1>1, <1>2, Numbers DEF StoreInv, Work, InWork, BuildSteps
  <2>8. InWork' /\ Undone'
    BY <1>1, <1>2, <1>3, <1>6, <2>2, <2>6, <2>7 DEF InWork, Undone, Step, BuildSteps
  <2>9. Named' /\ Ordered'
    BY <1>1, <1>2, <1>3, <2>2 DEF StoreInv, Disk, Named, Ordered, Committed
  <2>10. DirectoriesMatchState'
    BY <1>1 DEF StoreInv, Disk, DirectoriesMatchState
  <2>11. PackagesConserved' /\ ActiveIsPublished' /\ BoundIsPublished'
    BY <1>1 DEF StoreInv, Disk, PackagesConserved, ActiveIsPublished, BoundIsPublished
  <2> QED
    BY <1>4, <2>3, <2>4, <2>5, <2>8, <2>9, <2>10, <2>11, TypePartsNext DEF StoreInv, Work, Disk
<1>7. CASE op.kind = "model" /\ state.data # None
  <2>1. CASE dataDir[state.data] = None
    BY <1>5, <1>7, <2>1 DEF WriteMarker
  <2>2. CASE dataDir[state.data] # None
    <3>1. NodeInputs(state.data, exper[txn], TRUE) \in [Names -> Contents]
      BY <1>2, <1>7, <2>2, InputsTyped DEF StoreInv, TypeOK, Maybe
    <3>2. /\ Journal(txn, NodeInputs(state.data, exper[txn], TRUE))
          /\ marker' = [node |-> state.seq, token |-> txn, data |-> None]
          /\ Step("publishData")
      BY <1>7, <2>2 DEF WriteMarker
    <3>3. /\ before' \in [Tokens -> [Names -> Contents]]
          /\ after' \in [Tokens -> [Names -> Maybe(Contents)]]
      BY <1>2, <3>1, <3>2, JournalTyped DEF StoreInv
    <3> QED
      BY <1>6, <1>7, <3>2, <3>3
  <2> QED
    BY <2>1, <2>2
<1>8. CASE ~(op.kind = "model" /\ state.data # None)
  BY <1>6, <1>8 DEF WriteMarker, StoreInv, TypeOK
<1> QED
  BY <1>7, <1>8
(* The marker of the publication at hand.                                  *)
LEMMA MarkedWork ==
  ASSUME StoreInv, pc \in MarkedSteps
  PROVE  /\ marker # None /\ ~Committed /\ marker.token = txn
         /\ txn \in Tokens /\ txn # None /\ txn <= lastTxn
         /\ state.seq \in Nat /\ state.dataSeq \in Nat /\ lastTxn \in Nat
         /\ pc # "pointSave" => marker.node \in Nodes /\ marker.node = state.seq
         /\ marker.data # None => marker.data \in Datas /\ marker.data = state.dataSeq + 1
<1>1. marker # None /\ ~Committed /\ marker.token = txn
  BY DEF StoreInv, Work, Control
<1>2. txn \in Tokens /\ txn # None /\ state.seq \in Nat /\ state.dataSeq \in Nat /\ lastTxn \in Nat
  BY <1>1, Fields, Numbers DEF StoreInv
<1>3. txn <= lastTxn
  BY DEF StoreInv, Work, InWork, MarkedSteps, BuildSteps
<1>4. marker.data # None => marker.data \in Datas /\ marker.data = state.dataSeq + 1
  BY <1>1, Fields DEF StoreInv, Disk, Named, Maybe
<1>5. pc # "pointSave" => marker.node = state.seq
  BY DEF StoreInv, Work, InWork, MarkedSteps
<1>6. marker.node \in Nodes \cup {None} /\ None \notin Nat
  BY <1>1, Fields, ValuesAssumption DEF StoreInv, Maybe
<1> QED
  BY <1>1, <1>2, <1>3, <1>4, <1>5, <1>6

LEMMA PublishDataKeeps == StoreInv /\ PublishData => StoreInv'
<1> SUFFICES ASSUME StoreInv, PublishData PROVE StoreInv'
  OBVIOUS
<1>1. /\ pc = "publishData" /\ marker # None /\ ~Committed /\ marker.token = txn /\ txn \in Tokens
      /\ txn <= lastTxn /\ txn # None
      /\ marker.data # None => /\ marker.data \in Datas /\ marker.data = state.dataSeq + 1
                               /\ txn \in stagedData
      /\ UNCHANGED <<state, marker, nodeDir, stagedNode, alias, journalVars, after,
                     bound, counters, lastTxn>>
  <2>1. pc = "publishData" /\ pc \in MarkedSteps
    BY DEF PublishData, MarkedSteps
  <2>2. marker.data # None => txn \in stagedData
    BY <2>1 DEF StoreInv, Work, InWork
  <2>3. UNCHANGED <<state, marker, nodeDir, stagedNode, alias, journalVars, after,
                    bound, counters, lastTxn>>
    BY DEF PublishData, journalVars, counters
  <2> QED
    BY <2>1, <2>2, <2>3, MarkedWork
<1>2. CountTypes'
  BY <1>1, CountsKept DEF StoreInv
<1>3. CASE Raise /\ UNCHANGED <<dataDir, stagedData>>
  BY <1>1, <1>2, <1>3, RaiseKeeps DEF diskVars
<1>4. CASE /\ Step("publishNode")
           /\ \/ marker.data = None /\ UNCHANGED <<dataDir, stagedData>>
              \/ /\ marker.data # None /\ dataDir[marker.data] = None
                 /\ dataDir' = [dataDir EXCEPT ![marker.data] = txn]
                 /\ stagedData' = stagedData \ {txn}
  <2>1. WorkTypes'
    BY <1>4, StepTypes DEF StoreInv, Steps
  <2>2. Control'
    BY <1>1, <1>4 DEF StoreInv, Work, Control, Step, Committed, BuildSteps, MarkedSteps, RecoverySteps
  <2>3. marker.data # None => dataDir'[marker.data] = txn
    BY <1>1, <1>4 DEF StoreInv, TypeOK
  <2>4. InWork' /\ Undone'
    BY <1>1, <1>4, <2>3 DEF StoreInv, Work, InWork, Undone, Step, BuildSteps
  <2>5. DiskTypes' /\ JournalTypes'
    BY <1>1, <1>4 DEF StoreInv, TypeOK, DiskTypes, JournalTypes, journalVars, Maybe
  <2>6. Disk'
    <3>1. CASE marker.data = None
      BY <1>1, <1>4, <3>1, DiskKept DEF StoreInv, published
    <3>2. CASE marker.data # None
      <4>1. /\ dataDir' = [dataDir EXCEPT ![marker.data] = txn]
            /\ stagedData' = stagedData \ {txn} /\ txn \in stagedData
            /\ marker.data \in Datas /\ marker.data = state.dataSeq + 1
            /\ dataDir \in [Datas -> Maybe(Tokens)]
            /\ state.dataSeq \in Nat
        BY <1>1, <1>4, <3>2, Fields DEF StoreInv, TypeOK
      <4>2. Named' /\ Ordered'
        BY <1>1, <4>1 DEF StoreInv, Disk, Named, Ordered, Committed
      <4>3. DirectoriesMatchState'
        <5>1. \A d \in Datas : d # marker.data => dataDir'[d] = dataDir[d]
          BY <4>1
        <5>2. dataDir'[marker.data] = txn /\ ~(marker.data <= state.dataSeq)
          BY <4>1
        <5> QED
          BY <1>1, <5>1, <5>2 DEF StoreInv, Disk, DirectoriesMatchState, Committed
      <4>4. PackagesConserved'
        <5>1. \A d \in Datas : dataDir[d] # None => dataDir'[d] # None
          BY <1>1, <4>1
        <5>2. \A n \in Nodes : n < state.seq /\ bound[nodeDir[n]] # None =>
                bound[nodeDir[n]] \in Datas
          BY Counted DEF StoreInv, Disk, Maybe
        <5>3. InOnePlace(dataDir', Datas, stagedData')
          BY <4>1, RenamedInto, OnePlaces DEF StoreInv, Disk
        <5> QED
          BY <1>1, <5>1, <5>2, <5>3, OnePlaces, OnePlacesNext DEF StoreInv, Disk
      <4>5. ActiveIsPublished' /\ BoundIsPublished'
        BY <1>1 DEF StoreInv, Disk, ActiveIsPublished, BoundIsPublished
      <4> QED
        BY <4>2, <4>3, <4>4, <4>5 DEF Disk
    <3> QED
      BY <3>1, <3>2
  <2> QED
    BY <1>2, <2>1, <2>2, <2>4, <2>5, <2>6, TypePartsNext DEF StoreInv, Work
<1> QED
  BY <1>3, <1>4 DEF PublishData

LEMMA PublishNodeKeeps == StoreInv /\ PublishNode => StoreInv'
<1> SUFFICES ASSUME StoreInv, PublishNode PROVE StoreInv'
  OBVIOUS
<1>1. /\ pc = "publishNode" /\ marker # None /\ ~Committed /\ marker.token = txn /\ txn \in Tokens
      /\ txn <= lastTxn /\ txn # None /\ txn \in stagedNode
      /\ marker.node \in Nodes /\ marker.node = state.seq /\ state.seq \in Nat
      /\ nodeDir' = [nodeDir EXCEPT ![marker.node] = txn]
      /\ stagedNode' = stagedNode \ {txn}
      /\ Step("save")
      /\ UNCHANGED <<state, marker, dataDir, stagedData, alias, journalVars, after,
                     bound, counters, lastTxn>>
  <2>1. pc = "publishNode" /\ pc \in MarkedSteps
    BY DEF PublishNode, MarkedSteps
  <2>2. txn \in stagedNode
    BY <2>1 DEF StoreInv, Work, InWork
  <2>3. /\ nodeDir' = [nodeDir EXCEPT ![marker.node] = txn]
        /\ stagedNode' = stagedNode \ {txn}
        /\ Step("save")
        /\ UNCHANGED <<state, marker, dataDir, stagedData, alias, journalVars, after,
                       bound, counters, lastTxn>>
    BY DEF PublishNode, journalVars, counters
  <2> QED
    BY <2>1, <2>2, <2>3, MarkedWork
<1>2. CountTypes'
  BY <1>1, CountsKept DEF StoreInv
<1>3. WorkTypes'
  BY <1>1, StepTypes DEF StoreInv, Steps
<1>4. Control'
  BY <1>1 DEF StoreInv, Work, Control, Step, Committed, BuildSteps, MarkedSteps, RecoverySteps
<1>5. nodeDir'[marker.node] = txn /\ (\A n \in Nodes : n # marker.node => nodeDir'[n] = nodeDir[n])
  BY <1>1 DEF StoreInv, TypeOK
<1>6. InWork' /\ Undone'
  BY <1>1, <1>5 DEF StoreInv, Work, InWork, Undone, Step, BuildSteps
<1>7. DiskTypes' /\ JournalTypes'
  BY <1>1 DEF StoreInv, TypeOK, DiskTypes, JournalTypes, journalVars, Maybe
<1>8. Named' /\ Ordered'
  BY <1>1, <1>5 DEF StoreInv, Disk, Named, Ordered, Committed
<1>9. \A n \in Nodes : n < state.seq => nodeDir'[n] = nodeDir[n]
  BY <1>1, <1>5
<1>10. DirectoriesMatchState'
  BY <1>1, <1>5, <1>9 DEF StoreInv, Disk, DirectoriesMatchState, Committed
<1>11. InOnePlace(nodeDir', Nodes, stagedNode')
  BY <1>1, RenamedInto, OnePlaces DEF StoreInv, TypeOK, Disk
<1>12. PackagesConserved'
  BY <1>1, <1>9, <1>11, OnePlaces, OnePlacesNext DEF StoreInv, Disk
<1>13. ActiveIsPublished' /\ BoundIsPublished'
  BY <1>1, <1>9, Fields DEF StoreInv, Disk, ActiveIsPublished, BoundIsPublished, Maybe
<1> QED
  BY <1>2, <1>3, <1>4, <1>6, <1>7, <1>8, <1>10, <1>12, <1>13, TypePartsNext
     DEF StoreInv, Work, Disk

LEMMA SaveStateKeeps == StoreInv /\ SaveState => StoreInv'
<1> SUFFICES ASSUME StoreInv, SaveState PROVE StoreInv'
  OBVIOUS
<1>1. /\ pc = "save" /\ marker # None /\ ~Committed /\ marker.token = txn /\ txn \in Tokens
      /\ txn <= lastTxn /\ txn # None /\ nodeDir[marker.node] = txn
      /\ marker.node \in Nodes /\ marker.node = state.seq /\ state.seq < lastTxn
      /\ state.dataSeq < lastTxn
      /\ state.seq \in Nat /\ state.dataSeq \in Nat /\ state.rev \in Nat /\ lastTxn \in Nat
      /\ state.data \in Maybe(Datas) /\ bound[txn] \in Maybe(Datas)
      /\ bound[txn] = (IF marker.data = None THEN state.data ELSE marker.data)
      /\ marker.data # None => /\ marker.data \in Datas /\ marker.data = state.dataSeq + 1
                               /\ dataDir[marker.data] = txn
      /\ state' = CommittedState /\ WalkJournal(marker.token)
      /\ UNCHANGED <<marker, nodeDir, dataDir, stagedNode, stagedData, alias, journalVars, after,
                     bound, counters, lastTxn>>
  <2>1. /\ pc = "save" /\ marker # None /\ ~Committed /\ marker.token = txn
        /\ txn <= lastTxn /\ txn # None /\ nodeDir[marker.node] = txn
        /\ marker.node = state.seq /\ state.seq < lastTxn /\ state.dataSeq < lastTxn
        /\ bound[txn] = (IF marker.data = None THEN state.data ELSE marker.data)
        /\ marker.data # None => dataDir[marker.data] = txn
    BY DEF SaveState, StoreInv, Work, Control, InWork, MarkedSteps, BuildSteps
  <2>2. /\ state' = CommittedState /\ WalkJournal(marker.token)
        /\ UNCHANGED <<marker, nodeDir, dataDir, stagedNode, stagedData, alias, journalVars, after,
                       bound, counters, lastTxn>>
    BY <2>1 DEF SaveState, journalVars, counters
  <2>3. txn \in Tokens /\ bound[txn] \in Maybe(Datas)
    BY <2>1, Fields DEF StoreInv, TypeOK
  <2>4. state.rev \in Nat /\ state.data \in Maybe(Datas)
    BY Fields DEF StoreInv
  <2>5. /\ marker.node \in Nodes
        /\ state.seq \in Nat /\ state.dataSeq \in Nat /\ lastTxn \in Nat
        /\ marker.data # None => marker.data \in Datas /\ marker.data = state.dataSeq + 1
    BY <2>1, MarkedWork DEF MarkedSteps
  <2> QED
    BY <2>1, <2>2, <2>3, <2>4, <2>5
<1>2. /\ state'.active = state.seq /\ state'.data = bound[txn] /\ state'.seq = state.seq + 1
      /\ state'.last = txn /\ state' \in States
      /\ marker.data = None => state'.dataSeq = state.dataSeq
      /\ marker.data # None => state'.dataSeq = state.dataSeq + 1
  BY <1>1 DEF CommittedState, States, Maybe
<1>3. WorkTypes' /\ Work'
  BY <1>1, <1>2, WalkWorks DEF StoreInv, Work
<1>4. CountTypes'
  BY <1>1, CountsKept DEF StoreInv
<1>5. DiskTypes' /\ JournalTypes'
  BY <1>1, <1>2 DEF StoreInv, TypeOK, DiskTypes, JournalTypes, journalVars
<1>6. Named'
  BY <1>1, <1>2 DEF StoreInv, Disk, Named, Committed
<1>7. Ordered'
  BY <1>1, <1>2 DEF StoreInv, Disk, Ordered
<1>8. DirectoriesMatchState'
  <2>1. \A n \in Nodes : IF n < state'.seq THEN nodeDir[n] # None ELSE nodeDir[n] = None
    BY <1>1, <1>2, Numbers DEF StoreInv, Disk, DirectoriesMatchState
  <2>2. \A d \in Datas : IF d <= state'.dataSeq THEN dataDir[d] # None ELSE dataDir[d] = None
    <3>1. CASE marker.data = None
      BY <1>1, <1>2, <3>1, Numbers DEF StoreInv, Disk, DirectoriesMatchState
    <3>2. CASE marker.data # None
      BY <1>1, <1>2, <3>2, Numbers DEF StoreInv, Disk, DirectoriesMatchState
    <3> QED
      BY <3>1, <3>2
  <2> QED
    BY <1>1, <2>1, <2>2 DEF DirectoriesMatchState
<1>9. bound[txn] # None => bound[txn] \in Datas /\ bound[txn] <= state'.dataSeq
  <2>1. CASE marker.data = None
    <3>1. state.data # None => state.data <= state.dataSeq
      BY DEF StoreInv, Disk, ActiveIsPublished
    <3> QED
      BY <1>1, <1>2, <2>1, <3>1 DEF Maybe
  <2>2. CASE marker.data # None
    BY <1>1, <1>2, <2>2, Numbers
  <2> QED
    BY <2>1, <2>2
<1>10. bound[txn] # None => dataDir[bound[txn]] # None
  BY <1>1, <1>8, <1>9 DEF DirectoriesMatchState
<1>11. \A n \in Nodes : n < state'.seq => n < state.seq \/ nodeDir[n] = txn
  BY <1>1, <1>2, Numbers
<1>12. PackagesConserved'
  BY <1>1, <1>10, <1>11 DEF StoreInv, Disk, PackagesConserved
<1>13. ActiveIsPublished'
  BY <1>1, <1>2, <1>9, Numbers DEF ActiveIsPublished
<1>14. BoundIsPublished'
  <2>1. \A n \in Nodes : n < state.seq => bound[nodeDir[n]] \in Maybe(Datas)
    BY Counted DEF StoreInv, Disk
  <2>2. \A d \in Datas : d <= state.dataSeq => d <= state'.dataSeq
    BY <1>1, <1>2, Numbers
  <2> QED
    BY <1>1, <1>9, <1>11, <2>1, <2>2 DEF StoreInv, Disk, BoundIsPublished, Maybe
<1> QED
  BY <1>3, <1>4, <1>5, <1>6, <1>7, <1>8, <1>12, <1>13, <1>14, TypePartsNext DEF StoreInv, Disk

(* The node a pointer goes to is published, and so is its data.            *)
LEMMA TargetPublished ==
  ASSUME StoreInv, pc \in {"point", "pointSave"}
  PROVE  /\ op.target \in Nodes /\ op.target # None /\ op.target < state.seq
         /\ nodeDir[op.target] \in Tokens
         /\ TargetData = bound[nodeDir[op.target]]
         /\ TargetData # None => TargetData \in Datas /\ TargetData <= state.dataSeq
<1>1. op.target \in Nodes /\ op.target # None /\ op.target < state.seq
  BY Numbers DEF StoreInv, Work, Control
<1>2. TargetData = bound[nodeDir[op.target]]
  BY <1>1 DEF TargetData
<1> QED
  BY <1>1, <1>2, Counted DEF StoreInv, Disk, BoundIsPublished, Maybe

LEMMA PointMarkKeeps == StoreInv /\ PointMark => StoreInv'
<1> SUFFICES ASSUME StoreInv, PointMark PROVE StoreInv'
  OBVIOUS
<1> DEFINE t == NewTxn
<1>1. /\ pc = "point" /\ marker = None /\ lastTxn < MaxTxn /\ lastTxn \in Nat
      /\ ctl = "work" /\ op.kind = "pointer"
      /\ UNCHANGED <<ctl, op, snap, todo, now, state, nodeDir, dataDir, stagedNode,
                     stagedData, alias, bound, exper, obs, faults, edits>>
      /\ marker' = [node |-> None, token |-> t, data |-> None]
      /\ lastTxn' = t /\ txn' = t /\ pc' = "pointSave" /\ Journal(t, WantedInputs)
  BY Numbers DEF PointMark, StoreInv, TypeOK, Work, Control, RecoverySteps
<1>2. t \in Tokens /\ t \in Nat /\ t = lastTxn + 1 /\ t <= MaxTxn
  BY <1>1, Numbers DEF NewTxn, Tokens
<1>3. WantedInputs \in [Names -> Contents]
  <2>1. CASE TargetData = None
    BY <2>1 DEF WantedInputs, StoreInv, TypeOK
  <2>2. CASE TargetData # None
    <3>1. TargetData \in Datas /\ nodeDir[op.target] \in Tokens
      BY <1>1, <2>2, TargetPublished
    <3>2. dataDir[TargetData] # None
      BY <2>2 DEF PointMark
    <3>3. exper[nodeDir[op.target]] \in Contents /\ op.restore \in BOOLEAN
      BY <3>1 DEF StoreInv, TypeOK, Ops
    <3> QED
      BY <2>2, <3>1, <3>2, <3>3, InputsTyped DEF WantedInputs, StoreInv
  <2> QED
    BY <2>1, <2>2
<1>4. before' \in [Tokens -> [Names -> Contents]] /\ after' \in [Tokens -> [Names -> Maybe(Contents)]]
  BY <1>1, <1>2, <1>3, JournalTyped DEF StoreInv
<1>5. Disk'
  BY <1>1, FreshDisk DEF StoreInv
<1> HIDE DEF t
<1>6. marker' \in Markers /\ marker' # None /\ marker'.token = t
  BY <1>1, <1>2, Numbers DEF Markers, Maybe
<1>7. DiskTypes' /\ JournalTypes' /\ CountTypes'
  BY <1>1, <1>2, <1>4, <1>6 DEF StoreInv, TypeOK, DiskTypes, JournalTypes, CountTypes, Maybe
<1>8. WorkTypes'
  BY <1>1, <1>2 DEF StoreInv, TypeOK, WorkTypes, Steps, Maybe
<1>9. t # None /\ state.last # t
  BY <1>2, Fields, Numbers DEF StoreInv, Disk, Ordered, Maybe
<1>10. Control'
  BY <1>1, <1>6, <1>9 DEF StoreInv, Work, Control, Committed, BuildSteps, MarkedSteps, RecoverySteps
<1>11. InWork' /\ Undone'
  BY <1>1, <1>2, <1>9 DEF InWork, Undone, BuildSteps
<1> QED
  BY <1>5, <1>7, <1>8, <1>10, <1>11, TypePartsNext DEF StoreInv, Work

LEMMA PointSaveKeeps == StoreInv /\ PointSave => StoreInv'
<1> SUFFICES ASSUME StoreInv, PointSave PROVE StoreInv'
  OBVIOUS
<1>1. /\ pc = "pointSave" /\ marker # None /\ ~Committed /\ marker.token = txn /\ txn \in Tokens
      /\ txn <= lastTxn /\ txn # None
      /\ state' = PointedState /\ WalkJournal(marker.token)
      /\ UNCHANGED <<marker, nodeDir, dataDir, stagedNode, stagedData, alias, journalVars, after,
                     bound, counters, lastTxn>>
  BY MarkedWork DEF PointSave, MarkedSteps, journalVars, counters
<1>2. /\ op.target \in Nodes /\ op.target # None /\ op.target < state.seq
      /\ nodeDir[op.target] \in Tokens
      /\ TargetData = bound[nodeDir[op.target]]
      /\ TargetData # None => TargetData \in Datas /\ TargetData <= state.dataSeq
  BY <1>1, TargetPublished
<1>3. /\ state'.active = op.target /\ state'.data = TargetData /\ state'.seq = state.seq
      /\ state'.dataSeq = state.dataSeq /\ state'.last = txn /\ state' \in States
  <2>1. op.target \in Maybe(Nodes) /\ TargetData \in Maybe(Datas) /\ txn \in Maybe(Tokens)
    BY <1>1, <1>2, Counted DEF StoreInv, Disk, Maybe
  <2>2. state \in States
    BY DEF StoreInv, TypeOK
  <2>3. state = [active |-> state.active, data |-> state.data, seq |-> state.seq,
                 dataSeq |-> state.dataSeq, rev |-> state.rev, last |-> state.last]
    BY <2>2 DEF States
  <2>4. state' = [active |-> op.target, data |-> TargetData, seq |-> state.seq,
                  dataSeq |-> state.dataSeq, rev |-> state.rev + 1, last |-> txn]
    BY <1>1, <2>3 DEF PointedState
  <2>5. state.seq \in Nat /\ state.dataSeq \in Nat /\ state.rev + 1 \in Nat
    BY <2>2 DEF States
  <2> QED
    BY <2>1, <2>4, <2>5 DEF States
<1>4. WorkTypes' /\ Work'
  BY <1>1, <1>3, WalkWorks DEF StoreInv, Work
<1>5. DiskTypes' /\ JournalTypes' /\ CountTypes'
  BY <1>1, <1>3, CountsKept DEF StoreInv, TypeOK, DiskTypes, JournalTypes, journalVars
<1>6. Named' /\ Ordered'
  BY <1>1, <1>3 DEF StoreInv, Disk, Named, Ordered, Committed
<1>7. DirectoriesMatchState'
  <2>1. /\ \A n \in Nodes : IF n < state.seq THEN nodeDir[n] # None
                            ELSE nodeDir[n] # None => marker.node = n /\ marker.token = nodeDir[n]
        /\ \A d \in Datas : IF d <= state.dataSeq THEN dataDir[d] # None
                            ELSE dataDir[d] # None => marker.data = d /\ marker.token = dataDir[d]
    BY DEF StoreInv, Disk, DirectoriesMatchState
  <2>2. marker.node = None /\ marker.data = None
    BY <1>1 DEF StoreInv, Work, InWork
  <2> QED
    BY <1>1, <1>3, <2>1, <2>2, Numbers DEF DirectoriesMatchState
<1>8. PackagesConserved' /\ BoundIsPublished'
  BY <1>1, <1>3 DEF StoreInv, Disk, PackagesConserved, BoundIsPublished
<1>9. ActiveIsPublished'
  BY <1>1, <1>2, <1>3 DEF ActiveIsPublished
<1> QED
  BY <1>4, <1>5, <1>6, <1>7, <1>8, <1>9, TypePartsNext DEF StoreInv, Disk
-----------------------------------------------------------------------------
(* The invariant.                                                          *)

LEMMA StoreStep == StoreInv /\ [Next]_vars => StoreInv'
<1> SUFFICES ASSUME StoreInv, [Next]_vars PROVE StoreInv'
  OBVIOUS
<1>1. CASE WorkerStep
  BY <1>1, NothingPendingKeeps, RecoverNodeKeeps, RecoverDataKeeps, RecoverCommittedKeeps,
     CheckAliasKeeps, ReplaceAliasKeeps, AliasesDoneKeeps, UnlinkKeeps, StageInputKeeps,
     StageModelKeeps, CancelsKeep, WriteMarkerKeeps, PublishDataKeeps, PublishNodeKeeps,
     SaveStateKeeps, PointMarkKeeps, PointSaveKeeps, TouchKeeps
  DEF WorkerStep
<1>2. CASE \E o \in Requests : Begin(o)
  BY <1>2, BeginKeeps
<1>3. CASE Crash \/ IOError
  BY <1>3, FaultsKeep
<1>4. CASE \E a \in Names, c \in Edits : UserEdit(a, c)
  BY <1>4, UserEditKeeps
<1>5. CASE \E a \in Names : UserRestore(a)
  BY <1>5, UserRestoreKeeps
<1>6. CASE UNCHANGED vars
  <2>1. UNCHANGED <<diskVars, workVars, counters, lastTxn>>
    BY <1>6 DEF vars, counters
  <2>2. alias' \in [Names -> Contents] /\ CountTypes'
    BY <2>1, CountsKept DEF StoreInv, TypeOK, diskVars
  <2> QED
    BY <2>1, <2>2, UserKeeps DEF diskVars
<1> QED
  BY <1>1, <1>2, <1>3, <1>4, <1>5, <1>6 DEF Next

LEMMA StoreAlways == Spec => []StoreInv
BY StoreInit, StoreStep, PTL DEF Spec

(* Every file, number and step of the version store keeps its type, for    *)
(* any aliases, transactions, faults and user edits (NodeStore).           *)
THEOREM StoreTyped == Spec => []TypeOK
<1>1. StoreInv => TypeOK
  BY DEF StoreInv
<1> QED
  BY <1>1, StoreAlways, PTL

(* What is on disk is what state.json counts plus what an uncommitted      *)
(* marker names, each package in one place, wherever the publication or    *)
(* its recovery was cut short (_recover_publication, publish_node).        *)
THEOREM StoreMatchesState == Spec => []DiskMatchesState
<1>1. StoreInv => DiskMatchesState
  BY DEF StoreInv, Disk, DiskMatchesState
<1> QED
  BY <1>1, StoreAlways, PTL

(* The active node is published, and the active data is what it was bound  *)
(* to (_publish_refs, publish_node).                                       *)
THEOREM ActiveStaysPublished == Spec => []ActiveIsPublished
<1>1. StoreInv => ActiveIsPublished
  BY DEF StoreInv, Disk
<1> QED
  BY <1>1, StoreAlways, PTL

-----------------------------------------------------------------------------
(* Properties of steps.                                                    *)

\* A worker's step that writes a working file has a committed marker.
LEMMA WorkersWriteCommitted ==
  StoreInv /\ [Next]_vars =>
    (alias' # alias /\ pc # "idle" /\ edits' = edits => marker # None /\ Committed)
<1> SUFFICES ASSUME StoreInv, [Next]_vars, alias' # alias, pc # "idle", edits' = edits
             PROVE  marker # None /\ Committed
  OBVIOUS
<1>1. CASE ReplaceAlias
  BY <1>1 DEF ReplaceAlias, StoreInv, Work, Control
<1>2. ASSUME NEW a \in Names, NEW c \in Edits, UserEdit(a, c) PROVE FALSE
  <2>1. edits \in Nat /\ edits' = edits + 1
    BY <1>2, Numbers DEF UserEdit, StoreInv, TypeOK
  <2> QED
    BY <2>1
<1>3. CASE WorkerStep /\ ~ReplaceAlias
  BY <1>3 DEF WorkerStep, diskVars, NothingPending, RecoverNode, RecoverData, RecoverCommitted,
     CheckAlias, AliasesDone, Unlink, StageInput, StageModel, CancelBeforeMark, WriteMarker,
     PublishData, PublishNode, CancelBeforeSave, SaveState, PointNowhere, PointRefused,
     PointMark, PointSave, Touch
<1>4. CASE \E o \in Requests : Begin(o)
  BY <1>4 DEF Begin
<1>5. CASE Crash \/ IOError
  BY <1>5 DEF Crash, IOError, diskVars
<1>6. CASE \E a \in Names : UserRestore(a)
  BY <1>6 DEF UserRestore
<1>7. CASE UNCHANGED vars
  BY <1>7 DEF vars, diskVars
<1> QED
  BY <1>1, <1>2, <1>3, <1>4, <1>5, <1>6, <1>7 DEF Next

(* The worker writes working files only for a committed transaction        *)
(* (finish_aliases).                                                       *)
THEOREM WorkingFilesFollowCommit == Spec => AliasesFollowCommit
<1>1. StoreInv /\ [Next]_vars =>
        [alias' # alias /\ pc # "idle" /\ edits' = edits => marker # None /\ Committed]_vars
  BY WorkersWriteCommitted
<1> QED
  BY <1>1, StoreAlways, PTL DEF Spec, AliasesFollowCommit
-----------------------------------------------------------------------------
(* The version history that whoever reads the project sees.                *)

ModelsSeen   == [n \in 0 .. state.seq - 1 |->
                  [package |-> nodeDir[n], data |-> bound[nodeDir[n]]]]
DatasetsSeen == [d \in 1 .. state.dataSeq |-> dataDir[d]]

\* The numbers counted are numbers of the store.
LEMMA CountedNumbers ==
  ASSUME TypeOK, Ordered
  PROVE  /\ \A n \in 0 .. state.seq - 1 : n \in Nodes /\ n \in Nat /\ n < state.seq
         /\ \A d \in 1 .. state.dataSeq : d \in Datas /\ d \in Nat /\ d <= state.dataSeq
         /\ state.seq \in Nat /\ state.dataSeq \in Nat
BY Fields, Numbers DEF Ordered, Nodes, Datas

(* No step moves or rebinds what is counted: a recovery takes back the     *)
(* next numbers only, and a new token is held by nobody.                   *)
LEMMA CountedKept ==
  ASSUME StoreInv, [Next]_vars
  PROVE  /\ \A n \in Nodes : n < state.seq =>
              nodeDir'[n] = nodeDir[n] /\ bound'[nodeDir[n]] = bound[nodeDir[n]]
         /\ \A d \in Datas : d <= state.dataSeq => dataDir'[d] = dataDir[d]
<1> DEFINE Kept == /\ \A n \in Nodes : n < state.seq =>
                        nodeDir'[n] = nodeDir[n] /\ bound'[nodeDir[n]] = bound[nodeDir[n]]
                   /\ \A d \in Datas : d <= state.dataSeq => dataDir'[d] = dataDir[d]
<1>0. UNCHANGED <<nodeDir, dataDir, bound>> => Kept
  OBVIOUS
<1>1. CASE RecoverNode
  <2>1. /\ marker # None /\ ~Committed
        /\ NodeToUndo => nodeDir' = [nodeDir EXCEPT ![marker.node] = None]
        /\ ~NodeToUndo => nodeDir' = nodeDir
        /\ dataDir' = dataDir /\ bound' = bound
    BY <1>1 DEF RecoverNode, journalVars
  <2>2. NodeToUndo => marker.node = state.seq
    BY <2>1 DEF NodeToUndo, StoreInv, Disk, Named
  <2>3. \A n \in Nodes : n < state.seq => nodeDir'[n] = nodeDir[n]
    BY <2>1, <2>2, Fields, Numbers DEF StoreInv, TypeOK
  <2> QED
    BY <2>1, <2>3
<1>2. CASE RecoverData
  <2>1. /\ marker # None /\ ~Committed
        /\ \/ dataDir' = dataDir
           \/ marker.data # None /\ dataDir' = [dataDir EXCEPT ![marker.data] = None]
        /\ nodeDir' = nodeDir /\ bound' = bound
    BY <1>2 DEF RecoverData, journalVars, StoreInv, Work, Control
  <2>2. marker.data # None => marker.data = state.dataSeq + 1
    BY <2>1 DEF StoreInv, Disk, Named
  <2>3. \A d \in Datas : d <= state.dataSeq => dataDir'[d] = dataDir[d]
    BY <2>1, <2>2, Fields, Numbers DEF StoreInv, TypeOK
  <2> QED
    BY <2>1, <2>3
<1>3. CASE StageInput \/ StageModel
  <2>1. /\ bound' = bound \/ \E b : bound' = [bound EXCEPT ![NewTxn] = b]
        /\ nodeDir' = nodeDir /\ dataDir' = dataDir
    BY <1>3 DEF StageInput, StageModel, journalVars
  <2>2. \A n \in Nodes : n < state.seq => nodeDir[n] \in Tokens /\ nodeDir[n] # NewTxn
    <3>1. \A n \in Nodes : n < state.seq => nodeDir[n] \in Tokens
      BY Counted DEF StoreInv, Disk
    <3>2. \A n \in Nodes : n < state.seq => nodeDir[n] <= lastTxn
      BY <3>1, Numbers DEF StoreInv, Disk, Ordered
    <3> QED
      BY <3>1, <3>2, Fields, Numbers DEF StoreInv, NewTxn
  <2> QED
    BY <2>1, <2>2 DEF StoreInv, TypeOK
<1>4. CASE PublishData
  <2>1. /\ pc \in MarkedSteps
        /\ \/ dataDir' = dataDir
           \/ marker.data # None /\ dataDir' = [dataDir EXCEPT ![marker.data] = txn]
        /\ nodeDir' = nodeDir /\ bound' = bound
    BY <1>4 DEF PublishData, journalVars, MarkedSteps
  <2>2. marker.data # None => marker.data = state.dataSeq + 1 /\ state.dataSeq \in Nat
    BY <2>1, MarkedWork
  <2>3. \A d \in Datas : d <= state.dataSeq => dataDir'[d] = dataDir[d]
    BY <2>1, <2>2, Numbers DEF StoreInv, TypeOK
  <2> QED
    BY <2>1, <2>3
<1>5. CASE PublishNode
  <2>1. /\ pc = "publishNode" /\ pc \in MarkedSteps
        /\ nodeDir' = [nodeDir EXCEPT ![marker.node] = txn]
        /\ dataDir' = dataDir /\ bound' = bound
    BY <1>5 DEF PublishNode, journalVars, MarkedSteps
  <2>2. marker.node = state.seq /\ state.seq \in Nat
    BY <2>1, MarkedWork
  <2>3. \A n \in Nodes : n < state.seq => nodeDir'[n] = nodeDir[n]
    BY <2>1, <2>2, Numbers DEF StoreInv, TypeOK
  <2> QED
    BY <2>1, <2>3
<1>6. CASE WorkerStep /\ ~(RecoverNode \/ RecoverData \/ StageInput \/ StageModel
                             \/ PublishData \/ PublishNode)
  <2>1. UNCHANGED <<nodeDir, dataDir, bound>>
    BY <1>6 DEF WorkerStep, diskVars, journalVars, NothingPending, RecoverCommitted, CheckAlias,
       ReplaceAlias, AliasesDone, Unlink, CancelBeforeMark, WriteMarker, CancelBeforeSave,
       SaveState, PointNowhere, PointRefused, PointMark, PointSave, Touch
  <2> QED
    BY <2>1
<1>7. CASE \/ \E o \in Requests : Begin(o)
           \/ Crash \/ IOError
           \/ \E a \in Names, c \in Edits : UserEdit(a, c)
           \/ \E a \in Names : UserRestore(a)
           \/ UNCHANGED vars
  <2>1. UNCHANGED <<nodeDir, dataDir, bound>>
    BY <1>7 DEF Begin, Crash, IOError, UserEdit, UserRestore, vars, diskVars, journalVars
  <2> QED
    BY <2>1
<1> QED
  BY <1>1, <1>2, <1>3, <1>4, <1>5, <1>6, <1>7 DEF Next

(* Who changes state.json.                                                 *)
LEMMA StateChanges ==
  [Next]_vars => SaveState \/ PointSave \/ Touch \/ UNCHANGED state
BY DEF Next, WorkerStep, vars, diskVars, journalVars, NothingPending, RecoverNode, RecoverData,
   RecoverCommitted, CheckAlias, ReplaceAlias, AliasesDone, Unlink, StageInput, StageModel,
   CancelBeforeMark, WriteMarker, PublishData, PublishNode, CancelBeforeSave, PointNowhere,
   PointRefused, PointMark, Begin, Crash, IOError, UserEdit, UserRestore

(* As long as the counters stand, readers see the same versions.           *)
LEMMA SeenKept ==
  ASSUME StoreInv, [Next]_vars
  PROVE  /\ state'.seq = state.seq => ModelsSeen' = ModelsSeen
         /\ state'.dataSeq = state.dataSeq => DatasetsSeen' = DatasetsSeen
BY CountedKept, CountedNumbers DEF StoreInv, Disk, ModelsSeen, DatasetsSeen

LEMMA HistoryBegins == Init => History!Init
<1> SUFFICES ASSUME Init PROVE History!Init
  OBVIOUS
<1>1. 0 .. state.seq - 1 = {} /\ 1 .. state.dataSeq = {} /\ state.active = None /\ state.rev = 0
  BY DEF Init
<1> QED
  BY <1>1 DEF History!Init, History!Nothing

(* The commit of a model publishes it, with its data if that is new.       *)
LEMMA CommitIsMapped == StoreInv /\ SaveState => History!Next
<1> SUFFICES ASSUME StoreInv, SaveState PROVE History!Next
  OBVIOUS
<1>1. /\ txn \in Tokens /\ state.seq \in Nodes /\ state.seq \in Nat /\ state.dataSeq \in Nat
      /\ nodeDir[state.seq] = txn
      /\ bound[txn] = (IF marker.data = None THEN state.data ELSE marker.data)
      /\ marker.data # None => /\ marker.data \in Datas /\ marker.data = state.dataSeq + 1
                               /\ dataDir[marker.data] = txn
  <2>1. pc = "save" /\ pc \in MarkedSteps
    BY DEF SaveState, MarkedSteps
  <2>2. /\ nodeDir[marker.node] = txn
        /\ bound[txn] = (IF marker.data = None THEN state.data ELSE marker.data)
        /\ marker.data # None => dataDir[marker.data] = txn
    BY <2>1 DEF StoreInv, Work, InWork
  <2> QED
    BY <2>1, <2>2, MarkedWork
<1>2. /\ state'.active = state.seq /\ state'.seq = state.seq + 1 /\ state'.rev = state.rev + 1
      /\ marker.data = None => state'.dataSeq = state.dataSeq
      /\ marker.data # None => state'.dataSeq = state.dataSeq + 1
      /\ UNCHANGED <<nodeDir, dataDir, bound>>
  <2>1. marker.node = state.seq
    BY MarkedWork DEF SaveState, MarkedSteps
  <2> QED
    BY <1>1, <2>1 DEF SaveState, CommittedState, journalVars
<1>3. /\ DOMAIN ModelsSeen = 0 .. state.seq - 1 /\ state.seq \notin DOMAIN ModelsSeen
      /\ DOMAIN DatasetsSeen = 1 .. state.dataSeq /\ state.dataSeq + 1 \notin DOMAIN DatasetsSeen
  BY <1>1 DEF ModelsSeen, DatasetsSeen
<1>4. ModelsSeen' = History!Published(ModelsSeen, state.seq, [package |-> txn, data |-> bound[txn]])
  <2>1. 0 .. state'.seq - 1 = (0 .. state.seq - 1) \cup {state.seq}
    BY <1>1, <1>2
  <2> QED
    BY <1>1, <1>2, <2>1 DEF ModelsSeen, History!Published
<1>5. PICK n \in Nodes, p \in Tokens, d \in Datas \cup {None} :
             n = state.seq /\ p = txn /\ d = bound[txn]
  BY <1>1 DEF StoreInv, TypeOK, Maybe
<1>6. CASE marker.data = None
  <2>1. bound[txn] = None \/ bound[txn] \in 1 .. state.dataSeq
    <3>1. state.data \in Maybe(Datas)
      BY Fields DEF StoreInv
    <3>2. state.data # None => state.data <= state.dataSeq
      BY DEF StoreInv, Disk, ActiveIsPublished
    <3> QED
      BY <1>1, <1>6, <3>1, <3>2 DEF Maybe, Datas
  <2>2. DatasetsSeen' = DatasetsSeen
    BY <1>2, <1>6 DEF DatasetsSeen
  <2>3. History!CommitModel(n, p, d)
    BY <1>2, <1>3, <1>4, <1>5, <2>1, <2>2 DEF History!CommitModel, ModelsSeen, DatasetsSeen
  <2> QED
    BY <2>3, Zenon DEF History!Next
<1>7. CASE marker.data # None
  <2>1. bound[txn] = state.dataSeq + 1 /\ bound[txn] \in Datas /\ dataDir[bound[txn]] = txn
    BY <1>1, <1>7
  <2>2. DatasetsSeen' = History!Published(DatasetsSeen, bound[txn], txn)
    <3>1. 1 .. state'.dataSeq = (1 .. state.dataSeq) \cup {bound[txn]}
      BY <1>1, <1>2, <1>7, <2>1
    <3> QED
      BY <1>2, <2>1, <3>1 DEF DatasetsSeen, History!Published
  <2>3. History!CommitData(n, p, d)
    BY <1>2, <1>3, <1>4, <1>5, <2>1, <2>2 DEF History!CommitData, ModelsSeen, DatasetsSeen
  <2>4. d \in Datas
    BY <1>5, <2>1
  <2> QED
    BY <2>3, <2>4, Zenon DEF History!Next
<1> QED
  BY <1>6, <1>7

(* A pointer operation points to a published node.                         *)
LEMMA PointIsMapped == StoreInv /\ [Next]_vars /\ PointSave => History!Next
<1> SUFFICES ASSUME StoreInv, [Next]_vars, PointSave PROVE History!Next
  OBVIOUS
<1>1. /\ state'.active = op.target /\ state'.rev = state.rev + 1
      /\ state'.seq = state.seq /\ state'.dataSeq = state.dataSeq
  BY DEF PointSave, PointedState, StoreInv, TypeOK, States
<1>2. op.target \in Nodes /\ op.target \in 0 .. state.seq - 1
  <2>1. op.target \in Nodes /\ op.target < state.seq
    BY TargetPublished DEF PointSave
  <2> QED
    BY <2>1, Fields DEF StoreInv, Nodes
<1>3. ModelsSeen' = ModelsSeen /\ DatasetsSeen' = DatasetsSeen
  BY <1>1, SeenKept
<1>4. History!PointTo(op.target)
  BY <1>1, <1>2, <1>3 DEF History!PointTo, ModelsSeen, DatasetsSeen
<1> QED
  BY <1>2, <1>4 DEF History!Next

LEMMA TouchIsMapped == StoreInv /\ [Next]_vars /\ Touch => History!Next
<1> SUFFICES ASSUME StoreInv, [Next]_vars, Touch PROVE History!Next
  OBVIOUS
<1>1. /\ state'.active = state.active /\ state'.rev = state.rev + 1
      /\ state'.seq = state.seq /\ state'.dataSeq = state.dataSeq
  BY DEF Touch, StoreInv, TypeOK, States
<1>2. ModelsSeen' = ModelsSeen /\ DatasetsSeen' = DatasetsSeen
  BY <1>1, SeenKept
<1> QED
  BY <1>1, <1>2 DEF History!Next, History!Touch, ModelsSeen, DatasetsSeen

(* The store implements the append-only history: through crashes, failed   *)
(* renames and recoveries, a reader of state.json sees versions appear     *)
(* whole, once, and stay (publish_node, _publish_refs, touch).             *)
THEOREM StoreImplementsHistory == Spec => ImplementsHistory
<1>1. Init => History!Init
  BY HistoryBegins
<1>2. StoreInv /\ [Next]_vars => [History!Next]_(History!vars)
  <2> SUFFICES ASSUME StoreInv, [Next]_vars PROVE [History!Next]_(History!vars)
    OBVIOUS
  <2>1. CASE UNCHANGED state
    <3>1. ModelsSeen' = ModelsSeen /\ DatasetsSeen' = DatasetsSeen
      BY <2>1, SeenKept
    <3> QED
      BY <2>1, <3>1 DEF History!vars, ModelsSeen, DatasetsSeen
  <2> QED
    BY <2>1, StateChanges, CommitIsMapped, PointIsMapped, TouchIsMapped
<1> QED
  BY <1>1, <1>2, StoreAlways, PTL DEF Spec, History!Spec, ImplementsHistory
(* Nothing counted is moved, replaced or removed by any step, recovery     *)
(* included, and no number is given out twice (publish_node,               *)
(* _recover_publication, recover_data).                                    *)
THEOREM HistoryIsKept == Spec => HistoryKept
<1>1. StoreInv /\ [Next]_vars =>
        [/\ state.seq <= state'.seq /\ state.dataSeq <= state'.dataSeq
         /\ \A n \in Nodes : n < state.seq => nodeDir'[n] = nodeDir[n]
         /\ \A d \in Datas : d <= state.dataSeq => dataDir'[d] = dataDir[d]]_vars
  <2> SUFFICES ASSUME StoreInv, [Next]_vars
               PROVE  /\ state.seq <= state'.seq /\ state.dataSeq <= state'.dataSeq
                      /\ \A n \in Nodes : n < state.seq => nodeDir'[n] = nodeDir[n]
                      /\ \A d \in Datas : d <= state.dataSeq => dataDir'[d] = dataDir[d]
    OBVIOUS
  <2>1. state.seq \in Nat /\ state.dataSeq \in Nat /\ state \in States
    BY Fields DEF StoreInv, TypeOK
  <2>2. CASE SaveState
    <3>1. /\ state'.seq = state.seq + 1
          /\ marker.data = None => state'.dataSeq = state.dataSeq
          /\ marker.data # None => state'.dataSeq = marker.data
      BY <2>2 DEF SaveState, CommittedState
    <3>2. marker.data # None => marker.data = state.dataSeq + 1
      BY <2>2, MarkedWork DEF SaveState, MarkedSteps
    <3> QED
      BY <2>1, <3>1, <3>2, CountedKept
  <2>3. CASE PointSave \/ Touch \/ UNCHANGED state
    <3>1. state'.seq = state.seq /\ state'.dataSeq = state.dataSeq
      BY <2>1, <2>3 DEF PointSave, PointedState, Touch, States
    <3> QED
      BY <2>1, <3>1, CountedKept
  <2> QED
    BY <2>2, <2>3, StateChanges
<1> QED
  BY <1>1, StoreAlways, PTL DEF Spec, HistoryKept

-----------------------------------------------------------------------------
(* The working reflections.                                                *)

\* crystal.hkl is that of the data revision in state.json, or the user's.
InPlace == state.data # None => alias[Hkl] \in Edits \cup {obs[dataDir[state.data]]}

\* The journal of t makes crystal.hkl c, unless the user changed it.
Leads(t, c) ==
  /\ after[t][Hkl] \in {None, c}
  /\ after[t][Hkl] = None => alias[Hkl] \in Edits \cup {c}

\* Before the commit point the reflections are those of the state; after it
\* the journal leads to them, until it has been walked.
Reflections ==
  /\ marker = None \/ ~Committed => InPlace
  /\ marker # None /\ Committed /\ state.data # None =>
       Leads(marker.token, obs[dataDir[state.data]])
  /\ pc \in {"alias", "replace"} /\ Hkl \notin todo => InPlace
  /\ pc = "unlink" => InPlace

\* The journal of the transaction under way leads to the reflections of the
\* data revision it is about to put into state.json.
Preparing ==
  /\ pc = "mark" /\ op.kind = "input" => Leads(txn, obs[txn])
  /\ pc \in {"publishData", "publishNode", "save"} =>
       /\ marker.data # None => Leads(txn, obs[txn])
       /\ marker.data = None /\ bound[txn] # None => Leads(txn, obs[dataDir[bound[txn]]])
  /\ pc = "pointSave" /\ TargetData # None => Leads(txn, obs[dataDir[TargetData]])

DataInv == Reflections /\ Preparing

\* What the reflections depend on.
surface == <<state, marker, dataDir, alias, after, obs>>

(* The data revision in state.json is there, and its number is none to be  *)
(* given out.                                                              *)
LEMMA ActiveData ==
  ASSUME StoreInv, state.data # None
  PROVE  /\ state.data \in Datas /\ state.data \in Nat /\ state.data <= state.dataSeq
         /\ state.data # state.dataSeq + 1 /\ state.dataSeq \in Nat
         /\ dataDir[state.data] \in Tokens /\ dataDir[state.data] <= lastTxn
<1>1. state.data \in Datas /\ state.data \in Nat /\ state.dataSeq \in Nat
  BY Fields, Numbers DEF StoreInv, Maybe
<1>2. state.data <= state.dataSeq
  BY DEF StoreInv, Disk, ActiveIsPublished
<1>3. dataDir[state.data] \in Tokens
  BY <1>1, <1>2, Counted DEF StoreInv, Disk
<1>4. dataDir[state.data] <= lastTxn
  BY <1>1, <1>3, Numbers DEF StoreInv, Disk, Ordered
<1> QED
  BY <1>1, <1>2, <1>3, <1>4

(* No journal is walked and none prepared: nothing changes.                *)
LEMMA QuietStep ==
  ASSUME DataInv, UNCHANGED surface,
         pc' \in {"idle", "recover", "recoverData", "stage", "point", "touch"}
  PROVE  DataInv'
<1>1. Reflections'
  BY DEF DataInv, Reflections, surface, InPlace, Leads, Committed
<1>2. Preparing'
  BY DEF Preparing
<1> QED
  BY <1>1, <1>2 DEF DataInv

LEMMA QuietReturn == ASSUME DataInv, UNCHANGED surface, Return PROVE DataInv'
BY QuietStep DEF Return

LEMMA QuietRaise == ASSUME DataInv, UNCHANGED surface, Raise PROVE DataInv'
BY QuietStep, QuietReturn DEF Raise

(* Where an operation goes on once nothing is pending.                     *)
LEMMA RecoveredTo == ASSUME Recovered PROVE pc' \in {"idle", "stage", "point", "touch"}
<1>1. FirstStep \in {"stage", "point", "touch"}
  BY DEF FirstStep
<1> QED
  BY <1>1 DEF Recovered, Return

(* Actions that neither walk a journal nor prepare one.                    *)
LEMMA QuietActions ==
  ASSUME DataInv,
         \/ NothingPending \/ RecoverNode \/ CancelBeforeMark \/ CancelBeforeSave
         \/ PointNowhere \/ PointRefused \/ Crash \/ IOError
         \/ \E o \in Requests : Begin(o)
  PROVE  DataInv'
<1>1. CASE NothingPending
  BY <1>1, RecoveredTo, QuietStep DEF NothingPending, surface, diskVars, journalVars
<1>2. CASE RecoverNode
  BY <1>2, QuietStep DEF RecoverNode, Step, surface, journalVars
<1>3. CASE CancelBeforeMark \/ CancelBeforeSave
  BY <1>3, QuietRaise DEF CancelBeforeMark, CancelBeforeSave, surface, diskVars, journalVars
<1>4. CASE PointNowhere \/ PointRefused
  BY <1>4, QuietReturn DEF PointNowhere, PointRefused, surface, diskVars, journalVars
<1>5. CASE Crash
  BY <1>5, QuietReturn DEF Crash, surface, diskVars, journalVars
<1>6. CASE IOError
  BY <1>6, QuietRaise DEF IOError, surface, diskVars, journalVars
<1>7. CASE \E o \in Requests : Begin(o)
  BY <1>7, QuietStep DEF Begin, surface, diskVars, journalVars
<1> QED
  BY <1>1, <1>2, <1>3, <1>4, <1>5, <1>6, <1>7

(* The data package is taken back before the marker goes (recover_data).   *)
LEMMA RecoverDataLeads == StoreInv /\ DataInv /\ RecoverData => DataInv'
<1> SUFFICES ASSUME StoreInv, DataInv, RecoverData PROVE DataInv'
  OBVIOUS
<1>1. /\ pc = "recoverData" /\ marker # None /\ ~Committed /\ dataDir \in [Datas -> Maybe(Tokens)]
      /\ UNCHANGED <<state, marker, alias, after, obs>>
  BY DEF RecoverData, StoreInv, Work, Control, TypeOK, journalVars
<1>2. InPlace
  BY <1>1 DEF DataInv, Reflections
<1>3. CASE Raise /\ UNCHANGED dataDir
  BY <1>1, <1>3, QuietRaise DEF surface
<1>4. CASE /\ pc' = "unlink"
           /\ dataDir' = dataDir \/ (marker.data # None /\ dataDir' = [dataDir EXCEPT ![marker.data] = None])
  <2>1. marker.data # None => marker.data = state.dataSeq + 1
    BY <1>1 DEF StoreInv, Disk, Named
  <2>2. state.data # None => state.data \in Datas /\ state.data # state.dataSeq + 1
    BY ActiveData
  <2>3. state.data # None => dataDir'[state.data] = dataDir[state.data]
    BY <1>1, <1>4, <2>1, <2>2
  <2>4. InPlace'
    BY <1>1, <1>2, <2>3 DEF InPlace
  <2>5. Reflections'
    BY <1>1, <1>4, <2>4 DEF Reflections, Committed
  <2>6. Preparing'
    BY <1>4 DEF Preparing
  <2> QED
    BY <2>5, <2>6 DEF DataInv
<1> QED
  BY <1>3, <1>4 DEF RecoverData, Step

(* A journal that leads to the reflections of state.json is walked.        *)
LEMMA WalkLeads ==
  ASSUME NEW t, WalkJournal(t), UNCHANGED <<marker, dataDir, alias, after, obs>>,
         marker # None, marker.token = t, state'.last = t,
         state'.data # None => Leads(t, obs[dataDir[state'.data]])
  PROVE  DataInv'
<1>1. pc' = "alias" /\ todo' = {a \in Names : after[t][a] # None} /\ Committed' /\ marker' # None
  BY DEF WalkJournal, Committed
<1>2. Hkl \notin todo' => after[t][Hkl] = None
  BY <1>1, AliasAssumption
<1>3. Hkl \notin todo' => InPlace'
  BY <1>2 DEF InPlace, Leads
<1>4. Reflections'
  BY <1>1, <1>3 DEF Reflections, Leads
<1>5. Preparing'
  BY <1>1 DEF Preparing
<1> QED
  BY <1>4, <1>5 DEF DataInv

LEMMA RecoverCommittedLeads == StoreInv /\ DataInv /\ RecoverCommitted => DataInv'
<1> SUFFICES ASSUME StoreInv, DataInv, RecoverCommitted PROVE DataInv'
  OBVIOUS
<1>1. /\ marker # None /\ Committed
      /\ UNCHANGED <<state, marker, dataDir, alias, after, obs>>
  BY DEF RecoverCommitted, diskVars, journalVars
<1>2. CASE Raise
  BY <1>1, <1>2, QuietRaise DEF surface
<1>3. CASE WalkJournal(marker.token)
  <2>1. state.data # None => Leads(marker.token, obs[dataDir[state.data]])
    BY <1>1 DEF DataInv, Reflections
  <2> QED
    BY <1>1, <1>3, <2>1, WalkLeads DEF Committed
<1> QED
  BY <1>2, <1>3 DEF RecoverCommitted

(* An alias of the walk is found done, or left to be replaced.             *)
LEMMA CheckAliasLeads ==
  ASSUME NEW a \in Names PROVE StoreInv /\ DataInv /\ CheckAlias(a) => DataInv'
<1> SUFFICES ASSUME StoreInv, DataInv, CheckAlias(a) PROVE DataInv'
  OBVIOUS
<1>1. /\ pc = "alias" /\ a \in todo /\ marker # None /\ Committed
      /\ after[marker.token][a] # None
      /\ UNCHANGED <<state, marker, dataDir, alias, after, obs>>
  BY DEF CheckAlias, StoreInv, Work, Control, diskVars, journalVars
<1>2. Reflections
  BY DEF DataInv
<1>3. CASE Raise
  BY <1>1, <1>3, QuietRaise DEF surface
<1>4. CASE Verdict(a) = "done" /\ todo' = todo \ {a} /\ UNCHANGED pc
  <2>1. alias[a] = after[marker.token][a]
    BY <1>4 DEF Verdict
  <2>2. a = Hkl => InPlace
    BY <1>1, <1>2, <2>1 DEF Reflections, InPlace, Leads
  <2>3. Hkl \notin todo' => InPlace
    BY <1>1, <1>2, <1>4, <2>2 DEF Reflections
  <2>4. Reflections'
    BY <1>1, <1>2, <1>4, <2>3 DEF Reflections, InPlace, Leads, Committed
  <2>5. Preparing'
    BY <1>1, <1>4 DEF Preparing
  <2> QED
    BY <2>4, <2>5 DEF DataInv
<1>5. CASE pc' = "replace" /\ UNCHANGED todo
  <2>1. Reflections'
    BY <1>1, <1>2, <1>5 DEF Reflections, InPlace, Leads, Committed
  <2>2. Preparing'
    BY <1>5 DEF Preparing
  <2> QED
    BY <2>1, <2>2 DEF DataInv
<1> QED
  BY <1>3, <1>4, <1>5 DEF CheckAlias

LEMMA ReplaceAliasLeads == StoreInv /\ DataInv /\ ReplaceAlias => DataInv'
<1> SUFFICES ASSUME StoreInv, DataInv, ReplaceAlias PROVE DataInv'
  OBVIOUS
<1>1. /\ pc = "replace" /\ marker # None /\ Committed /\ pc' = "alias" /\ todo' = todo \ {now}
      /\ now \in Names /\ after[marker.token][now] # None /\ alias \in [Names -> Contents]
      /\ alias' = [alias EXCEPT ![now] = after[marker.token][now]]
      /\ UNCHANGED <<state, marker, dataDir, after, obs>>
  BY DEF ReplaceAlias, StoreInv, Work, Control, TypeOK, journalVars
<1>2. Reflections
  BY DEF DataInv
<1>3. /\ now = Hkl => alias'[Hkl] = after[marker.token][Hkl]
      /\ now # Hkl => alias'[Hkl] = alias[Hkl]
  BY <1>1, AliasAssumption
<1>4. state.data # None => Leads(marker.token, obs[dataDir[state.data]])
  BY <1>1, <1>2 DEF Reflections
<1>5. state.data # None => Leads(marker.token, obs[dataDir[state.data]])'
  BY <1>1, <1>3, <1>4 DEF Leads
<1>6. now = Hkl => InPlace'
  BY <1>1, <1>3, <1>4 DEF InPlace, Leads
<1>7. now # Hkl /\ Hkl \notin todo => InPlace'
  BY <1>1, <1>2, <1>3 DEF InPlace, Reflections
<1>8. Reflections'
  BY <1>1, <1>5, <1>6, <1>7 DEF Reflections, Committed
<1>9. Preparing'
  BY <1>1 DEF Preparing
<1> QED
  BY <1>8, <1>9 DEF DataInv

LEMMA AliasesDoneLead == StoreInv /\ DataInv /\ AliasesDone => DataInv'
<1> SUFFICES ASSUME StoreInv, DataInv, AliasesDone PROVE DataInv'
  OBVIOUS
<1>1. /\ pc = "alias" /\ todo = {} /\ pc' = "unlink"
      /\ UNCHANGED <<state, marker, dataDir, alias, after, obs>>
  BY DEF AliasesDone, Step, diskVars, journalVars
<1>2. Reflections'
  BY <1>1 DEF DataInv, Reflections, InPlace, Leads, Committed
<1>3. Preparing'
  BY <1>1 DEF Preparing
<1> QED
  BY <1>2, <1>3 DEF DataInv

LEMMA UnlinkLeads == StoreInv /\ DataInv /\ Unlink => DataInv'
<1> SUFFICES ASSUME StoreInv, DataInv, Unlink PROVE DataInv'
  OBVIOUS
<1>1. pc = "unlink" /\ marker' = None /\ UNCHANGED <<state, dataDir, alias, after, obs>>
  BY DEF Unlink, journalVars
<1>2. pc' \in {"idle", "stage", "point", "touch"}
  BY RecoveredTo DEF Unlink
<1>3. InPlace'
  BY <1>1 DEF DataInv, Reflections, InPlace
<1>4. Reflections'
  BY <1>1, <1>2, <1>3 DEF Reflections
<1>5. Preparing'
  BY <1>2 DEF Preparing
<1> QED
  BY <1>4, <1>5 DEF DataInv

LEMMA TouchLeads == StoreInv /\ DataInv /\ Touch => DataInv'
<1> SUFFICES ASSUME StoreInv, DataInv, Touch PROVE DataInv'
  OBVIOUS
<1>1. /\ pc' = "idle" /\ marker = None
      /\ state'.data = state.data
      /\ UNCHANGED <<marker, dataDir, alias, after, obs>>
  BY DEF Touch, Return, StoreInv, Work, Control, TypeOK, States, journalVars
<1>2. Reflections'
  BY <1>1 DEF DataInv, Reflections, InPlace
<1>3. Preparing'
  BY <1>1 DEF Preparing
<1> QED
  BY <1>2, <1>3 DEF DataInv

-----------------------------------------------------------------------------
(* What prepares a journal.                                                *)

(* A journal written from the working files leads to what it is to restore.*)
LEMMA JournalLeads ==
  ASSUME TypeOK, NEW t \in Tokens, NEW wanted \in [Names -> Contents], Journal(t, wanted),
         UNCHANGED alias
  PROVE  /\ after'[t][Hkl] \in {None, wanted[Hkl]}
         /\ after'[t][Hkl] = None => alias'[Hkl] = wanted[Hkl]
         /\ \A u \in Tokens : u # t => after'[u] = after[u]
<1>1. after \in [Tokens -> [Names -> Maybe(Contents)]] /\ Hkl \in Names
  BY Numbers DEF TypeOK
<1>2. after'[t] = [a \in Names |-> IF wanted[a] = alias[a] THEN None ELSE wanted[a]]
  BY <1>1 DEF Journal
<1>3. after'[t][Hkl] = IF wanted[Hkl] = alias[Hkl] THEN None ELSE wanted[Hkl]
  BY <1>1, <1>2
<1>4. wanted[Hkl] # None
  BY <1>1, Numbers
<1>5. \A u \in Tokens : u # t => after'[u] = after[u]
  BY <1>1 DEF Journal
<1> QED
  BY <1>3, <1>4, <1>5

(* While nothing is committed the reflections are in place.                *)
LEMMA StaysInPlace ==
  ASSUME DataInv, marker = None \/ ~Committed, marker' = None \/ ~Committed',
         state'.data = state.data,
         state.data # None => obs'[dataDir'[state.data]] = obs[dataDir[state.data]],
         UNCHANGED alias, pc' \notin {"alias", "replace", "unlink"}
  PROVE  Reflections'
<1>1. InPlace
  BY DEF DataInv, Reflections
<1>2. InPlace'
  BY <1>1 DEF InPlace
<1> QED
  BY <1>2 DEF Reflections

(* The journal of an input operation leads to the reflections it stages.   *)
LEMMA StageInputLeads == StoreInv /\ DataInv /\ StageInput => DataInv'
<1> SUFFICES ASSUME StoreInv, DataInv, StageInput PROVE DataInv'
  OBVIOUS
<1> DEFINE t == NewTxn
<1>1. /\ op.kind = "input" /\ marker = None /\ lastTxn < MaxTxn /\ lastTxn \in Nat
      /\ UNCHANGED <<state, marker, dataDir, alias>>
  BY Numbers DEF StageInput, StoreInv, TypeOK, Work, Control
<1>2. CASE Raise /\ UNCHANGED journalVars
  BY <1>1, <1>2, QuietRaise DEF surface, journalVars
<1>3. CASE /\ Journal(t, StagedInputs(t))
           /\ obs' = [obs EXCEPT ![t] = StagedInputs(t)[Hkl]]
           /\ txn' = t /\ pc' = "mark" /\ UNCHANGED op
  <2>1. t \in Tokens /\ t = lastTxn + 1 /\ obs \in [Tokens -> Contents]
    BY <1>1, Numbers DEF NewTxn, Tokens, StoreInv, TypeOK
  <2>2. StagedInputs(t) \in [Names -> Contents]
    BY <2>1, Numbers DEF StagedInputs, StoreInv, TypeOK
  <2>3. /\ after'[t][Hkl] \in {None, StagedInputs(t)[Hkl]}
        /\ after'[t][Hkl] = None => alias'[Hkl] = StagedInputs(t)[Hkl]
    BY <1>1, <1>3, <2>1, <2>2, JournalLeads DEF StoreInv
  <2> HIDE DEF t
  <2>4. obs'[t] = StagedInputs(t)[Hkl] /\ (\A u \in Tokens : u # t => obs'[u] = obs[u])
    BY <1>3, <2>1
  <2>5. state.data # None => dataDir[state.data] \in Tokens /\ dataDir[state.data] # t
    BY <1>1, <2>1, ActiveData, Numbers
  <2>6. Reflections'
    BY <1>1, <1>3, <2>4, <2>5, StaysInPlace
  <2>7. Preparing'
    BY <1>3, <2>3, <2>4 DEF Preparing, Leads
  <2> QED
    BY <2>6, <2>7 DEF DataInv
<1> QED
  BY <1>2, <1>3 DEF StageInput

LEMMA StageModelLeads == StoreInv /\ DataInv /\ StageModel => DataInv'
<1> SUFFICES ASSUME StoreInv, DataInv, StageModel PROVE DataInv'
  OBVIOUS
<1>1. /\ op.kind = "model" /\ marker = None /\ UNCHANGED <<state, marker, dataDir, alias>>
  BY DEF StageModel, StoreInv, Work, Control
<1>2. CASE Raise /\ UNCHANGED journalVars
  BY <1>1, <1>2, QuietRaise DEF surface, journalVars
<1>3. CASE pc' = "mark" /\ UNCHANGED <<op, after, obs>>
  <2>1. Reflections'
    BY <1>1, <1>3, StaysInPlace
  <2>2. Preparing'
    BY <1>1, <1>3 DEF Preparing
  <2> QED
    BY <2>1, <2>2 DEF DataInv
<1> QED
  BY <1>2, <1>3 DEF StageModel

(* A model on published data takes their reflections into its journal.     *)
LEMMA WriteMarkerLeads == StoreInv /\ DataInv /\ WriteMarker => DataInv'
<1> SUFFICES ASSUME StoreInv, DataInv, WriteMarker PROVE DataInv'
  OBVIOUS
<1>1. /\ pc = "mark" /\ marker = None /\ op.kind \in {"input", "model"} /\ txn \in Tokens
      /\ UNCHANGED <<state, dataDir, alias, bound, exper, obs>>
  BY DEF WriteMarker, StoreInv, TypeOK, Work, Control, InWork, BuildSteps, Maybe
<1>2. /\ op.kind = "input" => bound[txn] = state.dataSeq + 1
      /\ op.kind = "model" => bound[txn] = state.data
  BY <1>1 DEF StoreInv, Work, InWork
<1>3. StoreInv'
  BY WriteMarkerKeeps
<1>4. CASE Raise /\ UNCHANGED <<marker, before, after>>
  BY <1>1, <1>4, QuietRaise DEF surface
<1>5. ASSUME pc' = "publishData", UNCHANGED txn PROVE Reflections'
  <2>1. marker' # None /\ ~Committed'
    BY <1>3, <1>5 DEF StoreInv, Work, Control, MarkedSteps
  <2> QED
    BY <1>1, <1>5, <2>1, StaysInPlace
<1>6. CASE op.kind = "model" /\ state.data # None /\ dataDir[state.data] # None
  <2> DEFINE wanted == NodeInputs(state.data, exper[txn], TRUE)
  <2>1. /\ Journal(txn, wanted) /\ pc' = "publishData" /\ UNCHANGED txn
        /\ marker' = [node |-> state.seq, token |-> txn, data |-> None]
    BY <1>6 DEF WriteMarker, Step
  <2>2. state.data \in Datas /\ exper[txn] \in Contents
    BY <1>1, <1>6, ActiveData DEF StoreInv, TypeOK
  <2>3. wanted \in [Names -> Contents]
    BY <1>6, <2>2, InputsTyped DEF StoreInv
  <2>4. wanted[Hkl] = obs[dataDir[state.data]]
    BY Numbers DEF NodeInputs
  <2>5. /\ after'[txn][Hkl] \in {None, wanted[Hkl]}
        /\ after'[txn][Hkl] = None => alias'[Hkl] = wanted[Hkl]
    BY <1>1, <2>1, <2>3, JournalLeads DEF StoreInv
  <2> HIDE DEF wanted
  <2>6. marker'.data = None
    BY <2>1
  <2>7. Preparing'
    BY <1>1, <1>2, <1>6, <2>1, <2>4, <2>5, <2>6 DEF Preparing, Leads
  <2> QED
    BY <1>5, <2>1, <2>7 DEF DataInv
<1>7. CASE ~(op.kind = "model" /\ state.data # None)
  <2>1. /\ marker' = [node |-> state.seq, token |-> txn,
                      data |-> IF op.kind = "input" THEN bound[txn] ELSE None]
        /\ pc' = "publishData" /\ UNCHANGED <<txn, before, after>>
    BY <1>7 DEF WriteMarker, Step
  <2>2. marker'.data = IF op.kind = "input" THEN bound[txn] ELSE None
    BY <2>1
  <2>3. op.kind = "input" => Leads(txn, obs[txn])
    BY <1>1 DEF DataInv, Preparing
  <2>4. op.kind = "input" => marker'.data # None
    BY <1>2, <2>2, Fields, ValuesAssumption DEF StoreInv
  <2>5. op.kind = "model" => bound[txn] = None
    BY <1>2, <1>7
  <2>6. Preparing'
    BY <1>1, <2>1, <2>2, <2>3, <2>4, <2>5 DEF Preparing, Leads
  <2> QED
    BY <1>5, <2>1, <2>6 DEF DataInv
<1>8. CASE op.kind = "model" /\ state.data # None /\ dataDir[state.data] = None
  BY <1>4, <1>8 DEF WriteMarker
<1> QED
  BY <1>6, <1>7, <1>8

(* The new data revision is not the one in state.json.                     *)
LEMMA PublishDataLeads == StoreInv /\ DataInv /\ PublishData => DataInv'
<1> SUFFICES ASSUME StoreInv, DataInv, PublishData PROVE DataInv'
  OBVIOUS
<1>1. /\ pc = "publishData" /\ marker # None /\ ~Committed
      /\ dataDir \in [Datas -> Maybe(Tokens)]
      /\ marker.data # None => marker.data = state.dataSeq + 1
      /\ UNCHANGED <<state, marker, alias, after, obs, bound>>
  BY MarkedWork DEF PublishData, StoreInv, TypeOK, MarkedSteps, journalVars
<1>2. CASE Raise /\ UNCHANGED dataDir
  BY <1>1, <1>2, QuietRaise DEF surface
<1>3. CASE /\ pc' = "publishNode" /\ UNCHANGED txn
           /\ \/ marker.data = None /\ UNCHANGED dataDir
              \/ marker.data # None /\ dataDir' = [dataDir EXCEPT ![marker.data] = txn]
  <2>1. state.data # None => dataDir'[state.data] = dataDir[state.data]
    BY <1>1, <1>3, ActiveData
  <2>2. Reflections'
    BY <1>1, <1>3, <2>1, StaysInPlace DEF Committed
  <2>3. /\ marker.data # None => Leads(txn, obs[txn])
        /\ marker.data = None /\ bound[txn] # None => Leads(txn, obs[dataDir[bound[txn]]])
    BY <1>1 DEF DataInv, Preparing
  <2>4. Preparing'
    BY <1>1, <1>3, <2>3 DEF Preparing, Leads
  <2> QED
    BY <2>2, <2>4 DEF DataInv
<1> QED
  BY <1>2, <1>3 DEF PublishData, Step

LEMMA PublishNodeLeads == StoreInv /\ DataInv /\ PublishNode => DataInv'
<1> SUFFICES ASSUME StoreInv, DataInv, PublishNode PROVE DataInv'
  OBVIOUS
<1>1. /\ pc = "publishNode" /\ marker # None /\ ~Committed /\ pc' = "save"
      /\ UNCHANGED <<state, marker, dataDir, alias, after, obs, bound, txn>>
  BY MarkedWork DEF PublishNode, Step, MarkedSteps, journalVars
<1>2. Reflections'
  BY <1>1, StaysInPlace DEF Committed
<1>3. Preparing'
  BY <1>1 DEF DataInv, Preparing, Leads
<1> QED
  BY <1>2, <1>3 DEF DataInv

(* The commit point: the journal leads to the data of the new node.        *)
LEMMA SaveStateLeads == StoreInv /\ DataInv /\ SaveState => DataInv'
<1> SUFFICES ASSUME StoreInv, DataInv, SaveState PROVE DataInv'
  OBVIOUS
<1>1. /\ pc = "save" /\ marker # None /\ marker.token = txn /\ WalkJournal(txn)
      /\ state' = CommittedState
      /\ UNCHANGED <<marker, dataDir, alias, after, obs>>
  BY MarkedWork DEF SaveState, MarkedSteps, journalVars
<1>2. /\ bound[txn] = IF marker.data = None THEN state.data ELSE marker.data
      /\ marker.data # None => dataDir[marker.data] = txn
  BY <1>1 DEF StoreInv, Work, InWork
<1>3. /\ marker.data # None => Leads(txn, obs[txn])
      /\ marker.data = None /\ bound[txn] # None => Leads(txn, obs[dataDir[bound[txn]]])
  BY <1>1 DEF DataInv, Preparing
<1>4. state'.last = txn /\ state'.data = bound[txn]
  BY <1>1 DEF CommittedState
<1>5. state'.data # None => Leads(txn, obs[dataDir[state'.data]])
  BY <1>2, <1>3, <1>4
<1> QED
  BY <1>1, <1>4, <1>5, WalkLeads

(* A pointer takes the reflections of the node it goes to.                 *)
LEMMA PointMarkLeads == StoreInv /\ DataInv /\ PointMark => DataInv'
<1> SUFFICES ASSUME StoreInv, DataInv, PointMark PROVE DataInv'
  OBVIOUS
<1> DEFINE t == NewTxn
<1>1. /\ pc = "point" /\ marker = None /\ t \in Tokens
      /\ UNCHANGED <<op, state, nodeDir, dataDir, alias, bound, obs>>
      /\ txn' = t /\ pc' = "pointSave" /\ Journal(t, WantedInputs)
  BY Numbers DEF PointMark, StoreInv, TypeOK, Work, Control, NewTxn, Tokens
<1>2. marker' # None /\ ~Committed'
  <2>1. StoreInv'
    BY PointMarkKeeps
  <2> QED
    BY <1>1, <2>1 DEF StoreInv, Work, Control, MarkedSteps
<1>3. Reflections'
  BY <1>1, <1>2, StaysInPlace
<1>4. TargetData' = TargetData
  BY <1>1 DEF TargetData
<1>5. CASE TargetData = None
  BY <1>1, <1>4, <1>5, <1>3 DEF Preparing, DataInv
<1>6. CASE TargetData # None
  <2>1. /\ TargetData \in Datas /\ nodeDir[op.target] \in Tokens /\ dataDir[TargetData] # None
        /\ op.restore \in BOOLEAN
    BY <1>1, <1>6, TargetPublished DEF PointMark, StoreInv, TypeOK, Ops
  <2>2. exper[nodeDir[op.target]] \in Contents
    BY <2>1 DEF StoreInv, TypeOK
  <2>3. WantedInputs = NodeInputs(TargetData, exper[nodeDir[op.target]], op.restore)
    BY <1>6 DEF WantedInputs
  <2>4. WantedInputs \in [Names -> Contents]
    BY <2>1, <2>2, <2>3, InputsTyped DEF StoreInv
  <2>5. WantedInputs[Hkl] = obs[dataDir[TargetData]]
    BY <2>3, Numbers DEF NodeInputs
  <2>6. /\ after'[t][Hkl] \in {None, WantedInputs[Hkl]}
        /\ after'[t][Hkl] = None => alias'[Hkl] = WantedInputs[Hkl]
    BY <1>1, <2>4, JournalLeads DEF StoreInv
  <2> HIDE DEF t
  <2>7. Preparing'
    BY <1>1, <1>4, <2>5, <2>6 DEF Preparing, Leads
  <2> QED
    BY <1>3, <2>7 DEF DataInv
<1> QED
  BY <1>5, <1>6

LEMMA PointSaveLeads == StoreInv /\ DataInv /\ PointSave => DataInv'
<1> SUFFICES ASSUME StoreInv, DataInv, PointSave PROVE DataInv'
  OBVIOUS
<1>1. /\ pc = "pointSave" /\ marker # None /\ marker.token = txn /\ WalkJournal(txn)
      /\ state' = PointedState
      /\ UNCHANGED <<marker, dataDir, alias, after, obs>>
  BY MarkedWork DEF PointSave, MarkedSteps, journalVars
<1>2. state'.last = txn /\ state'.data = TargetData
  BY <1>1 DEF PointedState, StoreInv, TypeOK, States
<1>3. state'.data # None => Leads(txn, obs[dataDir[state'.data]])
  BY <1>1, <1>2 DEF DataInv, Preparing
<1> QED
  BY <1>1, <1>2, <1>3, WalkLeads

-----------------------------------------------------------------------------
(* The user.                                                               *)

LEMMA UserEditLeads ==
  ASSUME NEW a \in Names, NEW c \in Edits PROVE StoreInv /\ DataInv /\ UserEdit(a, c) => DataInv'
<1> SUFFICES ASSUME StoreInv, DataInv, UserEdit(a, c) PROVE DataInv'
  OBVIOUS
<1>1. /\ UNCHANGED <<state, marker, nodeDir, dataDir, after, obs, bound, pc, op, txn, todo>>
      /\ alias' = [alias EXCEPT ![a] = c] /\ alias \in [Names -> Contents]
  BY DEF UserEdit, journalVars, workVars, StoreInv, TypeOK
<1>2. alias'[Hkl] \in Edits \cup {alias[Hkl]}
  BY <1>1, Numbers
<1>3. InPlace => InPlace'
  BY <1>1, <1>2 DEF InPlace
<1>4. ASSUME NEW t, NEW d, Leads(t, d) PROVE Leads(t, d)'
  BY <1>1, <1>2, <1>4 DEF Leads
<1>5. TargetData' = TargetData /\ Committed' = Committed
  BY <1>1 DEF TargetData, Committed
<1>6. Reflections'
  BY <1>1, <1>3, <1>4, <1>5 DEF DataInv, Reflections
<1>7. Preparing'
  BY <1>1, <1>4, <1>5 DEF DataInv, Preparing
<1> QED
  BY <1>6, <1>7 DEF DataInv

(* Manual recovery touches only what the journal is about.                 *)
LEMMA UserRestoreLeads ==
  ASSUME NEW a \in Names PROVE StoreInv /\ DataInv /\ UserRestore(a) => DataInv'
<1> SUFFICES ASSUME StoreInv, DataInv, UserRestore(a) PROVE DataInv'
  OBVIOUS
<1>1. /\ pc' = "idle" /\ marker # None /\ Committed
      /\ UNCHANGED <<state, marker, dataDir, after, obs>>
      /\ after[marker.token][a] # None
      /\ alias' = [alias EXCEPT ![a] = before[marker.token][a]] /\ alias \in [Names -> Contents]
  BY DEF UserRestore, journalVars, workVars, StoreInv, TypeOK
<1>2. after[marker.token][Hkl] = None => alias'[Hkl] = alias[Hkl]
  BY <1>1, Numbers
<1>3. state.data # None => Leads(marker.token, obs[dataDir[state.data]])
  BY <1>1 DEF DataInv, Reflections
<1>4. Reflections'
  BY <1>1, <1>2, <1>3 DEF Reflections, Leads, Committed
<1>5. Preparing'
  BY <1>1 DEF Preparing
<1> QED
  BY <1>4, <1>5 DEF DataInv

-----------------------------------------------------------------------------
LEMMA DataInit == Init => DataInv
BY DEF Init, DataInv, Reflections, Preparing, InPlace

LEMMA DataStep == StoreInv /\ DataInv /\ [Next]_vars => DataInv'
<1> SUFFICES ASSUME StoreInv, DataInv, [Next]_vars PROVE DataInv'
  OBVIOUS
<1>1. CASE WorkerStep
  BY <1>1, QuietActions, RecoverDataLeads, RecoverCommittedLeads, CheckAliasLeads,
     ReplaceAliasLeads, AliasesDoneLead, UnlinkLeads, StageInputLeads, StageModelLeads,
     WriteMarkerLeads, PublishDataLeads, PublishNodeLeads, SaveStateLeads, PointMarkLeads,
     PointSaveLeads, TouchLeads
  DEF WorkerStep
<1>2. CASE (\E o \in Requests : Begin(o)) \/ Crash \/ IOError
  BY <1>2, QuietActions
<1>3. CASE \E a \in Names, c \in Edits : UserEdit(a, c)
  BY <1>3, UserEditLeads
<1>4. CASE \E a \in Names : UserRestore(a)
  BY <1>4, UserRestoreLeads
<1>5. CASE UNCHANGED vars
  BY <1>5 DEF vars, diskVars, journalVars, workVars, DataInv, Reflections, Preparing,
              InPlace, Leads, Committed, TargetData
<1> QED
  BY <1>1, <1>2, <1>3, <1>4, <1>5 DEF Next

LEMMA DataHolds == StoreInv /\ DataInv => WorkingDataIsActive
BY DEF StoreInv, Disk, DataInv, Reflections, InPlace, WorkingDataIsActive

(* When nothing is pending the working crystal.hkl holds the reflections   *)
(* of the data revision in state.json, or what the user put there: no      *)
(* crash, failed file operation, undone publication or change of the       *)
(* active node leaves reflections of another revision in its place         *)
(* (finish_aliases, pointer_aliases, InputStage.prepare).                  *)
THEOREM WorkingDataStaysActive == Spec => []WorkingDataIsActive
<1> QED
  BY DataHolds, StoreAlways, DataInit, DataStep, PTL DEF Spec
=============================================================================
