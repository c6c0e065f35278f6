------------------------ MODULE ToolInvocation_proofs ------------------------
(***************************************************************************)
(* Theorems about one tool call on a project.                              *)
(***************************************************************************)
EXTENDS ToolInvocation, SequenceTheorems, TLAPS

(* What is known of a compound tool's frame f while the project is st with *)
(* inputs ins and ex are the inputs recorded with the nodes: from the      *)
(* baseline's checkout on, the working inputs are those of the baseline,   *)
(* and so are those of every node it commits and of its undo.              *)
Diagnosing(f, st, ins, ex) ==
  /\ f.phase \notin {"start", "failed"} => f.baseline # None
  /\ f.phase = "start" \/ f.baseline = None => st.seq = f.before.seq
  /\ f.baseline # None =>
       /\ f.baseline < st.seq
       /\ ins = ex[f.baseline]
       /\ ex[st.active] = ex[f.baseline]
       /\ st.seq > f.before.seq /\ f.valid => f.undo = ins

(* What is known of any frame: the project was before it what the frame    *)
(* says, a revision that did not move is a project that did not, and each  *)
(* kind of tool changed no more than its kind can.                         *)
Framed(f, st, ins, ex) ==
  /\ f.before.active # None
  /\ f.before.active < f.before.seq
  /\ f.before.seq <= st.seq
  /\ f.before.rev <= st.rev
  /\ st.rev = f.before.rev => st = f.before
  /\ f.undo = None <=> f.kind = "derived"
  /\ f.kind \in {"derived", "metadata"} => st = f.before
  /\ f.kind = "reference" => st.seq = f.before.seq
  /\ f.kind = "model" =>
       /\ f.undo = ins
       /\ st.seq = f.before.seq => st = f.before
       /\ st.seq > f.before.seq => ins = ex[st.active]
  /\ f.kind = "compound" => Diagnosing(f, st, ins, ex)

(* The outermost frame holds what the call found, as long as nothing is    *)
(* committed.                                                              *)
Bottom(f, st, ins, ent) ==
  /\ f.before = ent.store
  /\ f.kind = "derived" => ins = ent.inputs
  /\ st.seq = f.before.seq /\ f.kind # "derived" => f.undo = ent.inputs

(* Which session the innermost frame f works with while node act is active.*)
Fresh(ses, n) == ses # None /\ ses.base = n /\ ~ses.edited

Worked(f, ses, act) ==
  /\ f.kind = "model" => ses # None
  /\ f.kind \in {"derived", "metadata"} => Fresh(ses, act)
  /\ f.kind \in {"reference", "compound"} /\ f.phase = "done" => Fresh(ses, act)
  /\ f.kind = "compound" /\ f.phase = "restoring" => Fresh(ses, f.baseline)
  /\ f.step = "commit" => f.kind = "model"
  /\ f.step = "finish" /\ f.ok => Fresh(ses, act)

(* The lock is held while a call is in progress; only a compound tool      *)
(* calls another, from its body, and only a model tool.                    *)
Seated ==
  /\ holder = None <=> Depth = 0
  /\ Depth > 0 => store.active # None
  /\ Depth = 2 => /\ stack[1].kind = "model"
                  /\ stack[2].kind = "compound"
                  /\ stack[2].step = "body" /\ stack[2].phase = "cut"

Stacked ==
  /\ \A i \in 1 .. Depth : Framed(stack[i], store, inputs, exper)
  /\ Depth > 0 => Bottom(stack[Depth], store, inputs, entry)
  /\ Depth > 0 => Worked(stack[1], session[holder], store.active)

Remembers(p) ==
  session[p] # None =>
    /\ session[p].base = session[p].src.node
    /\ p # holder => loaded[p] = session[p].src /\ ~session[p].edited

ProjectOK ==
  /\ store \in Stores
  /\ store.active # None => store.active < store.seq
  /\ store.seq <= MaxNode + 1
  /\ inputs \in Inputs
  /\ exper \in [Nodes -> Inputs]
  /\ parent \in [Nodes -> Maybe(Nodes)]
  /\ origin \in [Nodes -> Maybe(Nodes)]
  /\ ModelsComeFromParents

CallOK ==
  /\ holder \in Maybe(Procs)
  /\ cancel \in BOOLEAN
  /\ entry \in [store: Stores, inputs: Inputs]
  /\ outcome \in Outcomes
  /\ edits \in 0 .. MaxInputs
  /\ faults \in 0 .. MaxFaults

MemoryOK ==
  /\ session \in [Procs -> Maybe(Sessions)]
  /\ loaded \in [Procs -> Maybe(Versions)]
  /\ \A p \in Procs : Remembers(p)

StackOK ==
  /\ stack \in Seq(Frames) /\ Len(stack) <= 2
  /\ Seated
  /\ Stacked

Inv ==
  /\ ProjectOK
  /\ MemoryOK
  /\ StackOK
  /\ CallOK
  /\ RevisionIdentifies
  /\ FailedLeavesNoTrace
  /\ InputsFollowCommits
-----------------------------------------------------------------------------
(* Data: constants, frames, sessions and the stack.                        *)

(* None is no node and no input.                                           *)
LEMMA Numbers ==
  /\ Nodes \subseteq Nat /\ Inputs \subseteq Nat
  /\ None \notin Nodes /\ None \notin Inputs /\ None \notin Procs
  /\ MaxNode \in Nat /\ MaxRev \in Nat /\ MaxInputs \in Nat /\ MaxFaults \in Nat
BY BoundsAssumption, NoneAssumption DEF Nodes, Inputs

(* The fields of a state of the project.                                   *)
LEMMA StoreFields ==
  ASSUME NEW st \in Stores
  PROVE  /\ st.active \in Maybe(Nodes) /\ st.branch \in Branches
         /\ st.seq \in Nat /\ st.rev \in Nat
         /\ VersionOf(st) \in Versions
         /\ VersionOf(st).node = st.active
BY DEF Stores, VersionOf, Versions

(* None is neither a session nor a version.                                *)
LEMMA CleanSession ==
  ASSUME NEW st \in Stores, NEW n \in Nodes
  PROVE  /\ Clean(n, st) \in Sessions
         /\ Clean(n, st).base = n
         /\ Clean(n, st).src = VersionOf(st)
         /\ ~Clean(n, st).edited
BY StoreFields DEF Clean, Sessions

LEMMA RememberedSession ==
  ASSUME NEW st \in Stores, NEW ses \in Sessions, ses # None
  PROVE  /\ Remembered(ses, st) \in Sessions
         /\ Remembered(ses, st).base = ses.base
         /\ Remembered(ses, st).src = VersionOf(st)
         /\ Remembered(ses, st).edited = ses.edited
<1>1. ses = [src |-> ses.src, base |-> ses.base, edited |-> ses.edited]
  BY DEF Sessions
<1>2. Remembered(ses, st) = [ses EXCEPT !.src = VersionOf(st)]
  BY DEF Remembered
<1>3. Remembered(ses, st)
        = [src |-> VersionOf(st), base |-> ses.base, edited |-> ses.edited]
  BY <1>1, <1>2
<1>. QED  BY <1>1, <1>3, StoreFields DEF Sessions

(* The fields of a frame, and frames that differ in one of them.           *)
LEMMA FrameFields ==
  ASSUME NEW f \in Frames
  PROVE  /\ f.kind \in Kinds /\ f.step \in {"body", "commit", "finish"}
         /\ f.ok \in BOOLEAN /\ f.valid \in BOOLEAN
         /\ f.before \in Stores
         /\ f.before.seq \in Nat /\ f.before.rev \in Nat
         /\ f.before.active \in Maybe(Nodes)
         /\ f.undo \in Maybe(Inputs)
         /\ f.baseline \in Maybe(Nodes)
         /\ f = [kind |-> f.kind, step |-> f.step, phase |-> f.phase,
                 ok |-> f.ok, before |-> f.before, undo |-> f.undo,
                 valid |-> f.valid, baseline |-> f.baseline]
BY DEF Frames, Stores

Phases == {"start", "begun", "pointed", "cut", "ready", "restoring", "done",
           "failed"}

LEMMA PhasedFrame ==
  ASSUME NEW f \in Frames, NEW ph \in Phases, NEW g,
         g = [f EXCEPT !.phase = ph]
  PROVE  /\ g \in Frames
         /\ g.phase = ph /\ g.kind = f.kind /\ g.step = f.step /\ g.ok = f.ok
         /\ g.before = f.before /\ g.undo = f.undo /\ g.valid = f.valid
         /\ g.baseline = f.baseline
BY DEF Frames, Phases

(* The stack has at most two frames.                                       *)
LEMMA StackShape ==
  ASSUME StackOK
  PROVE  /\ Depth \in {0, 1, 2}
         /\ \A i \in 1 .. Depth : stack[i] \in Frames
         /\ Depth > 0 => Top \in Frames
         /\ stack = <<>> <=> Depth = 0
<1>1. stack \in Seq(Frames) /\ Len(stack) \in Nat /\ Len(stack) <= 2
  BY LenProperties DEF StackOK
<1>2. \A i \in 1 .. Len(stack) : stack[i] \in Frames
  BY <1>1, ElementOfSeq
<1>3. stack = <<>> <=> Len(stack) = 0
  BY <1>1, EmptySeq
<1>4. Len(stack) > 0 => stack[1] \in Frames
  BY <1>1, <1>2
<1>5. Len(stack) = 0 \/ Len(stack) = 1 \/ Len(stack) = 2
  BY <1>1, \A n \in Nat : n <= 2 => n = 0 \/ n = 1 \/ n = 2
<1>. QED  BY <1>2, <1>3, <1>4, <1>5 DEF Depth, Top

(* Replacing the innermost frame.                                          *)
LEMMA NewTop ==
  ASSUME StackOK, Depth > 0, NEW f \in Frames,
         stack' = [stack EXCEPT ![1] = f]
  PROVE  /\ stack' \in Seq(Frames)
         /\ Len(stack') = Depth
         /\ stack'[1] = f
         /\ Depth = 2 => stack'[2] = stack[2]
<1>1. stack \in Seq(Frames) /\ 1 \in 1 .. Len(stack)
  BY StackShape DEF StackOK, Depth
<1>. QED  BY <1>1, ExceptSeq, StackShape DEF Depth
(* What is left of two frames when the inner one is dropped.               *)
LEMMA TailOfTwo ==
  ASSUME NEW S, NEW s \in Seq(S), Len(s) = 2
  PROVE  Tail(s) = <<s[2]>>
<1>1. s # <<>>
  BY EmptySeq
<1>2. /\ Tail(s) \in Seq(S) /\ Len(Tail(s)) = Len(s) - 1
      /\ \A i \in 1 .. Len(Tail(s)) : Tail(s)[i] = s[i + 1]
  BY <1>1, HeadTailProperties
<1>3. PICK t \in Seq(S) : t = Tail(s)
  BY <1>2
<1>4. Len(t) = 1
  <2>1. Len(t) = Len(s) - 1
    BY <1>2, <1>3
  <2>2. 2 - 1 = 1
    OBVIOUS
  <2>. QED  BY <2>1, <2>2
<1>5. t[1] = s[2]
  <2>1. 1 \in 1 .. 1 /\ 1 + 1 = 2
    OBVIOUS
  <2>2. \A i \in 1 .. 1 : t[i] = s[i + 1]
    BY <1>2, <1>3, <1>4
  <2>. QED  BY <2>1, <2>2
<1>6. t = <<t[1]>>
  BY <1>4
<1>. QED  BY <1>3, <1>5, <1>6

-----------------------------------------------------------------------------
(* Steps.                                                                  *)

(* What the memory of p is replaced by leaves the other processes alone.   *)
LEMMA MemoryStep ==
  ASSUME MemoryOK, NEW p \in Procs, holder \in {None, p}, holder' \in {None, p},
         NEW ses \in Maybe(Sessions), NEW ld \in Maybe(Versions),
         session' = [session EXCEPT ![p] = ses],
         loaded' = [loaded EXCEPT ![p] = ld],
         ses # None =>
           /\ ses.base = ses.src.node
           /\ holder' = None => ld = ses.src /\ ~ses.edited
  PROVE  MemoryOK' /\ session'[p] = ses /\ loaded'[p] = ld
<1>1. session \in [Procs -> Maybe(Sessions)] /\ loaded \in [Procs -> Maybe(Versions)]
  BY DEF MemoryOK
<1>2. session' \in [Procs -> Maybe(Sessions)] /\ loaded' \in [Procs -> Maybe(Versions)]
  BY <1>1
<1>3. session'[p] = ses /\ loaded'[p] = ld
  BY <1>1
<1>4. ASSUME NEW q \in Procs  PROVE Remembers(q)'
  <2>1. CASE q = p
    <3>. SUFFICES ASSUME session'[p] # None
                  PROVE  /\ session'[p].base = session'[p].src.node
                         /\ p # holder' => /\ loaded'[p] = session'[p].src
                                           /\ ~session'[p].edited
      BY <2>1 DEF Remembers
    <3>. QED  BY <1>3
  <2>2. CASE q # p
    <3>1. session'[q] = session[q] /\ loaded'[q] = loaded[q]
      BY <1>1, <2>2
    <3>2. q # holder
      BY <2>2, Numbers
    <3>. QED  BY <3>1, <3>2 DEF Remembers, MemoryOK
  <2>. QED  BY <2>1, <2>2
<1>. QED  BY <1>2, <1>3, <1>4 DEF MemoryOK

(* While a call goes on nothing is claimed of its result.                  *)
LEMMA Working ==
  ASSUME Inv, NEW p \in Procs, holder \in {None, p}, holder' = p,
         ProjectOK', CallOK', store'.active # None,
         NEW ses \in Maybe(Sessions), NEW ld \in Maybe(Versions),
         session' = [session EXCEPT ![p] = ses],
         loaded' = [loaded EXCEPT ![p] = ld],
         ses # None => ses.base = ses.src.node,
         stack' \in Seq(Frames), Len(stack') \in {1, 2},
         Len(stack') = 2 =>
           /\ stack'[1].kind = "model" /\ stack'[2].kind = "compound"
           /\ stack'[2].step = "body" /\ stack'[2].phase = "cut",
         Framed(stack'[1], store', inputs', exper'),
         Len(stack') = 2 => Framed(stack'[2], store', inputs', exper'),
         Len(stack') = 1 => Bottom(stack'[1], store', inputs', entry'),
         Len(stack') = 2 => Bottom(stack'[2], store', inputs', entry'),
         Worked(stack'[1], ses, store'.active)
  PROVE  Inv'
<1>1. holder' # None
  BY Numbers
<1>2. MemoryOK' /\ session'[p] = ses
  BY <1>1, MemoryStep DEF Inv
<1>3. Seated'
  BY <1>1 DEF Seated, Depth
<1>4. ASSUME NEW i \in 1 .. Len(stack')
      PROVE  Framed(stack'[i], store', inputs', exper')
  <2>1. CASE Len(stack') = 1
    <3>1. i = 1
      BY <2>1
    <3>. QED  BY <3>1
  <2>2. CASE Len(stack') = 2
    <3>1. i = 1 \/ i = 2
      BY <2>2
    <3>. QED  BY <2>2, <3>1
  <2>. QED  BY <2>1, <2>2
<1>5. Bottom(stack'[Len(stack')], store', inputs', entry')
  <2>1. CASE Len(stack') = 1
    BY <2>1, Zenon
  <2>2. CASE Len(stack') = 2
    BY <2>2, Zenon
  <2>. QED  BY <2>1, <2>2
<1>6. Worked(stack'[1], session'[holder'], store'.active)
  BY <1>2
<1>7. Stacked'
  BY <1>4, <1>5, <1>6 DEF Stacked, Depth
<1>8. StackOK'
  <2>1. Len(stack') <= 2
    BY \A n \in {1, 2} : n <= 2
  <2>. QED  BY <1>3, <1>7, <2>1 DEF StackOK
<1>9. RevisionIdentifies' /\ FailedLeavesNoTrace' /\ InputsFollowCommits'
  BY <1>1 DEF RevisionIdentifies, FailedLeavesNoTrace, InputsFollowCommits,
              Clear, Idle
<1>. QED  BY <1>2, <1>8, <1>9 DEF Inv

(* A call that ends leaves a clean session or none.                        *)
LEMMA Ending ==
  ASSUME Inv, NEW p \in Procs, holder \in {None, p}, holder' = None,
         ProjectOK', CallOK',
         NEW ses \in Maybe(Sessions), NEW ld \in Maybe(Versions),
         session' = [session EXCEPT ![p] = ses],
         loaded' = [loaded EXCEPT ![p] = ld],
         ses # None =>
           ses.base = ses.src.node /\ ld = ses.src /\ ~ses.edited,
         stack' = <<>>,
         RevisionIdentifies', FailedLeavesNoTrace', InputsFollowCommits'
  PROVE  Inv'
<1>1. MemoryOK'
  BY MemoryStep DEF Inv
<1>2. stack' \in Seq(Frames) /\ Len(stack') = 0
  BY EmptySeq
<1>3. Seated'
  BY <1>2 DEF Seated, Depth
<1>4. Stacked'
  <2>1. 1 .. Len(stack') = {}
    BY <1>2
  <2>. QED  BY <1>2, <2>1 DEF Stacked, Depth
<1>5. StackOK'
  BY <1>2, <1>3, <1>4 DEF StackOK
<1>. QED  BY <1>1, <1>5 DEF Inv

(* The inductive invariant gives the run's.                                *)
LEMMA InvTypes ==
  ASSUME Inv
  PROVE  TypeOK
BY DEF Inv, ProjectOK, MemoryOK, StackOK, CallOK, TypeOK

LEMMA InvSessions ==
  ASSUME Inv
  PROVE  SessionsFollowTheStore
<1>1. IdleSessionsAreClean
  <2>. SUFFICES ASSUME holder = None, NEW p \in Procs, session[p] # None,
                       loaded[p] = VersionOf(store)
                PROVE  session[p].base = store.active /\ ~session[p].edited
    BY DEF IdleSessionsAreClean, Idle
  <2>1. p # holder
    BY Numbers
  <2>2. /\ session[p].base = session[p].src.node
        /\ loaded[p] = session[p].src /\ ~session[p].edited
    BY <2>1 DEF Inv, MemoryOK, Remembers
  <2>. QED  BY <2>2, StoreFields DEF Inv, ProjectOK
<1>. QED  BY <1>1 DEF Inv, ProjectOK, SessionsFollowTheStore

LEMMA InitInv ==
  ASSUME Init
  PROVE  Inv
<1>1. ProjectOK
  BY Numbers DEF Init, ProjectOK, Stores, Maybe, Branches, Nodes, Inputs,
                 ModelsComeFromParents
<1>2. MemoryOK
  BY DEF Init, MemoryOK, Maybe, Remembers
<1>3. StackOK
  <2>1. stack = <<>> /\ stack \in Seq(Frames) /\ Len(stack) = 0
    BY EmptySeq DEF Init
  <2>2. 1 .. Len(stack) = {}
    BY <2>1
  <2>. QED  BY <2>1, <2>2 DEF Init, StackOK, Seated, Stacked, Depth
<1>4. CallOK
  <2>1. entry = [store |-> store, inputs |-> inputs]
    BY DEF Init
  <2>2. store \in Stores /\ inputs \in Inputs
    BY <1>1 DEF ProjectOK
  <2>3. entry \in [store: Stores, inputs: Inputs]
    BY <2>1, <2>2
  <2>4. outcome \in Outcomes
    BY DEF Init, Outcomes, Maybe
  <2>5. 0 \in 0 .. MaxInputs /\ 0 \in 0 .. MaxFaults
    BY Numbers
  <2>. QED  BY <2>3, <2>4, <2>5 DEF Init, CallOK, Maybe
<1>5. RevisionIdentifies /\ FailedLeavesNoTrace /\ InputsFollowCommits
  BY DEF Init, RevisionIdentifies, FailedLeavesNoTrace, InputsFollowCommits
<1>. QED  BY <1>1, <1>2, <1>3, <1>4, <1>5 DEF Inv
-----------------------------------------------------------------------------
(* Frames.                                                                 *)

(* The frame a call begins with.                                           *)
LEMMA FrameBegins ==
  ASSUME NEW k \in Kinds, NEW st \in Stores, NEW ins \in Inputs, NEW ex,
         st.active # None, st.active < st.seq,
         NEW f, f = NewFrame(k, st, ins)
  PROVE  /\ f \in Frames
         /\ f.kind = k /\ f.step = "body" /\ f.phase = "start"
         /\ Framed(f, st, ins, ex)
         /\ Bottom(f, st, ins, [store |-> st, inputs |-> ins])
<1>1. f = [kind |-> k, step |-> "body", phase |-> "start", ok |-> FALSE,
           before |-> st, undo |-> IF k # "derived" THEN ins ELSE None,
           valid |-> k # "derived", baseline |-> None]
  BY DEF NewFrame, Writes
<1>2. f \in Frames
  BY <1>1 DEF Frames, Maybe
<1>3. /\ f.kind = k /\ f.step = "body" /\ f.phase = "start"
      /\ f.before = st /\ f.undo = (IF k # "derived" THEN ins ELSE None)
      /\ f.baseline = None
  BY <1>1
<1>4. st.active \in Nat /\ st.seq \in Nat /\ st.rev \in Nat
  BY Numbers DEF Stores, Maybe
<1>5. ins # None
  BY Numbers
<1>6. Framed(f, st, ins, ex)
  BY <1>3, <1>4, <1>5 DEF Framed, Diagnosing
<1>7. Bottom(f, st, ins, [store |-> st, inputs |-> ins])
  BY <1>3 DEF Bottom
<1>. QED  BY <1>2, <1>3, <1>6, <1>7

(* A frame that goes on to another step or phase in the same project.      *)
SameCall(f, g) ==
  /\ g.kind = f.kind /\ g.before = f.before /\ g.undo = f.undo
  /\ g.valid = f.valid /\ g.baseline = f.baseline

LEMMA FrameGoesOn ==
  ASSUME NEW f \in Frames, NEW g \in Frames, NEW st, NEW ins, NEW ex,
         SameCall(f, g), Framed(f, st, ins, ex),
         g.kind = "compound" => /\ g.phase = "start" => f.phase = "start"
                                /\ g.phase \notin {"start", "failed"}
                                     => f.baseline # None
  PROVE  Framed(g, st, ins, ex)
<1>1. g.kind = "compound" => Diagnosing(g, st, ins, ex)
  BY DEF SameCall, Framed, Diagnosing
<1>. QED  BY <1>1 DEF SameCall, Framed

LEMMA BottomGoesOn ==
  ASSUME NEW f, NEW g, NEW st, NEW ins, NEW ent,
         SameCall(f, g), Bottom(f, st, ins, ent)
  PROVE  Bottom(g, st, ins, ent)
BY DEF SameCall, Bottom

(* What is known of the frames on the stack.                               *)
LEMMA StackFrames ==
  ASSUME StackOK, Depth > 0
  PROVE  /\ Top \in Frames
         /\ Framed(Top, store, inputs, exper)
         /\ Worked(Top, session[holder], store.active)
         /\ Depth = 1 => Bottom(Top, store, inputs, entry)
         /\ Depth = 2 => /\ stack[2] \in Frames
                         /\ Framed(stack[2], store, inputs, exper)
                         /\ Bottom(stack[2], store, inputs, entry)
                         /\ Top.kind = "model"
                         /\ stack[2].kind = "compound"
                         /\ stack[2].step = "body" /\ stack[2].phase = "cut"
         /\ store.active # None
<1>1. Depth = 1 \/ Depth = 2
  BY StackShape
<1>2. \A i \in 1 .. Depth : stack[i] \in Frames /\ Framed(stack[i], store, inputs, exper)
  BY StackShape DEF StackOK, Stacked
<1>3. 1 \in 1 .. Depth /\ (Depth = 2 => 2 \in 1 .. Depth)
  BY <1>1
<1>4. Bottom(stack[Depth], store, inputs, entry)
  BY DEF StackOK, Stacked
<1>5. CASE Depth = 1
  <2>1. Bottom(stack[1], store, inputs, entry)
    BY <1>4, <1>5, Zenon
  <2>. QED  BY <1>2, <1>3, <1>5, <2>1 DEF StackOK, Stacked, Seated, Top
<1>6. CASE Depth = 2
  <2>1. Bottom(stack[2], store, inputs, entry)
    BY <1>4, <1>6, Zenon
  <2>. QED  BY <1>2, <1>3, <1>6, <2>1 DEF StackOK, Stacked, Seated, Top
<1>. QED  BY <1>1, <1>5, <1>6

(* A step of the innermost call that leaves the project as it is.          *)
LEMMA StillWorking ==
  ASSUME Inv, NEW p \in Procs, holder = p, holder' = p, Depth > 0,
         UNCHANGED projectVars, entry' = entry, CallOK',
         NEW ses \in Maybe(Sessions), NEW ld \in Maybe(Versions),
         session' = [session EXCEPT ![p] = ses],
         loaded' = [loaded EXCEPT ![p] = ld],
         ses # None => ses.base = ses.src.node,
         NEW g \in Frames, stack' = [stack EXCEPT ![1] = g],
         SameCall(Top, g),
         g.kind = "compound" => /\ g.phase = "start" => Top.phase = "start"
                                /\ g.phase \notin {"start", "failed"}
                                     => Top.baseline # None,
         Worked(g, ses, store.active)
  PROVE  Inv'
<1>1. StackOK /\ ProjectOK
  BY DEF Inv
<1>2. ProjectOK'
  BY <1>1 DEF ProjectOK, projectVars, ModelsComeFromParents
<1>3. /\ stack' \in Seq(Frames) /\ Len(stack') = Depth /\ stack'[1] = g
      /\ Depth = 2 => stack'[2] = stack[2]
  BY <1>1, NewTop
<1>4. Depth = 1 \/ Depth = 2
  BY <1>1, StackShape
<1>5. Framed(g, store, inputs, exper)
  BY <1>1, StackFrames, FrameGoesOn
<1>6. Depth = 1 => Bottom(g, store, inputs, entry)
  BY <1>1, StackFrames, BottomGoesOn
<1>7. /\ store' = store /\ inputs' = inputs /\ exper' = exper
  BY DEF projectVars
<1>8. store.active # None
  BY <1>1, StackFrames
<1>9. Depth = 2 => g.kind = "model"
  BY <1>1, StackFrames DEF SameCall
<1>10. Framed(stack'[1], store', inputs', exper')
  BY <1>3, <1>5, <1>7, Zenon
<1>11. Depth = 1 => Bottom(stack'[1], store', inputs', entry')
  BY <1>3, <1>6, <1>7, Zenon
<1>12. Depth = 2 => /\ Framed(stack'[2], store', inputs', exper')
                    /\ Bottom(stack'[2], store', inputs', entry')
                    /\ stack'[2].kind = "compound"
                    /\ stack'[2].step = "body" /\ stack'[2].phase = "cut"
  BY <1>1, <1>3, <1>7, StackFrames, Zenon
<1>13. Worked(stack'[1], ses, store'.active)
  BY <1>3, <1>7, Zenon
<1>. QED  BY <1>2, <1>3, <1>4, <1>7, <1>8, <1>9, <1>10, <1>11, <1>12, <1>13, Working
-----------------------------------------------------------------------------
(* Actions of the body that leave the project as it is.                    *)

LEMMA MemoryFields ==
  ASSUME Inv, NEW p \in Procs
  PROVE  /\ session[p] \in Maybe(Sessions) /\ loaded[p] \in Maybe(Versions)
         /\ session = [session EXCEPT ![p] = session[p]]
         /\ loaded = [loaded EXCEPT ![p] = loaded[p]]
         /\ session[p] # None => /\ session[p] \in Sessions
                                 /\ session[p].base = session[p].src.node
         /\ None \in Maybe(Sessions) /\ None \in Maybe(Versions)
BY DEF Inv, MemoryOK, Maybe, Remembers

LEMMA SameTop ==
  ASSUME StackOK, Depth > 0
  PROVE  stack = [stack EXCEPT ![1] = Top]
<1>1. stack \in Seq(Frames) /\ 1 \in 1 .. Len(stack)
  BY StackShape DEF StackOK, Depth
<1>2. stack \in [1 .. Len(stack) -> Frames]
  BY <1>1
<1>. QED  BY <1>1, <1>2 DEF Top

LEMMA CallGoesOn ==
  ASSUME Inv, UNCHANGED <<holder, entry, outcome, edits>>,
         cancel' \in BOOLEAN, faults' = faults \/ MayFail
  PROVE  CallOK'
<1>1. faults' \in 0 .. MaxFaults
  BY Numbers DEF MayFail, Inv, CallOK
<1>. QED  BY <1>1 DEF Inv, CallOK

LEMMA EditModelKeeps ==
  ASSUME Inv, NEW p \in Procs, EditModel(p)
  PROVE  Inv'
<1>. DEFINE ses == [session[p] EXCEPT !.edited = TRUE]
<1>1. holder = p /\ Depth > 0 /\ StackOK
  BY DEF EditModel, Running, Inv
<1>2. session' = [session EXCEPT ![p] = ses]
  BY DEF EditModel
<1>3. ses \in Sessions /\ ses.base = ses.src.node
  <2>1. session[p] \in Sessions /\ session[p].base = session[p].src.node
    BY MemoryFields DEF EditModel
  <2>. QED  BY <2>1 DEF Sessions
<1>4. ses # None
  BY <1>3, NoSessionAssumption
<1>5. CallOK'
  BY CallGoesOn, <1>1 DEF EditModel, callVars, Inv, CallOK
<1>6. /\ Top \in Frames /\ Worked(Top, session[holder], store.active)
      /\ Framed(Top, store, inputs, exper)
  BY <1>1, StackFrames
<1>7. stack' = [stack EXCEPT ![1] = Top]
  BY <1>1, SameTop DEF EditModel
<1>8. Worked(Top, ses, store.active)
  BY <1>4, <1>6 DEF Worked, EditModel, Running
<1>9. Top.kind = "compound" /\ Top.phase \notin {"start", "failed"}
        => Top.baseline # None
  BY <1>6 DEF Framed, Diagnosing
<1>10. ses \in Maybe(Sessions) /\ ses.base = ses.src.node
  BY <1>3 DEF Maybe
<1>11. /\ loaded[p] \in Maybe(Versions)
       /\ loaded' = [loaded EXCEPT ![p] = loaded[p]]
       /\ UNCHANGED projectVars /\ entry' = entry /\ holder' = p
  BY <1>1, MemoryFields DEF EditModel, callVars
<1>12. SameCall(Top, Top)
  BY DEF SameCall
<1>. HIDE DEF ses
<1>. QED  BY <1>1, <1>2, <1>5, <1>6, <1>7, <1>8, <1>9, <1>10, <1>11, <1>12, StillWorking
LEMMA SteppedTop ==
  ASSUME StackOK, Depth > 0, NEW ok, NEW step,
         stack' = [stack EXCEPT ![1].ok = ok, ![1].step = step]
  PROVE  stack' = [stack EXCEPT ![1] = [Top EXCEPT !.ok = ok, !.step = step]]
<1>1. stack \in Seq(Frames) /\ 1 \in 1 .. Len(stack)
  BY StackShape DEF StackOK, Depth
<1>2. stack \in [1 .. Len(stack) -> Frames]
  BY <1>1
<1>. QED  BY <1>1, <1>2 DEF Top

LEMMA PhasedTop ==
  ASSUME StackOK, Depth > 0, NEW ph, Phase(ph)
  PROVE  stack' = [stack EXCEPT ![1] = [Top EXCEPT !.phase = ph]]
<1>1. stack \in Seq(Frames) /\ 1 \in 1 .. Len(stack)
  BY StackShape DEF StackOK, Depth
<1>2. stack \in [1 .. Len(stack) -> Frames]
  BY <1>1
<1>. QED  BY <1>1, <1>2 DEF Top, Phase

(* A frame that is at its commit or its end.                               *)
LEMMA TopSteps ==
  ASSUME Inv, NEW p \in Procs, holder = p, holder' = p, Depth > 0,
         UNCHANGED projectVars, UNCHANGED <<session, loaded>>, entry' = entry,
         CallOK', NEW ok \in BOOLEAN, NEW step \in {"body", "commit", "finish"},
         stack' = [stack EXCEPT ![1].ok = ok, ![1].step = step],
         step = "commit" => Top.kind = "model",
         step = "finish" /\ ok => Fresh(session[p], store.active)
  PROVE  Inv'
<1>. DEFINE g == [Top EXCEPT !.ok = ok, !.step = step]
<1>1. StackOK
  BY DEF Inv
<1>2. stack' = [stack EXCEPT ![1] = g]
  BY <1>1, SteppedTop
<1>3. /\ Top \in Frames /\ Worked(Top, session[holder], store.active)
      /\ Framed(Top, store, inputs, exper)
  BY <1>1, StackFrames
<1>4. /\ g \in Frames /\ g.phase = Top.phase /\ g.kind = Top.kind
      /\ g.step = step /\ g.ok = ok /\ g.baseline = Top.baseline
      /\ g.before = Top.before /\ g.undo = Top.undo /\ g.valid = Top.valid
  <2>1. PICK f \in Frames : f = Top
    BY <1>3
  <2>2. g = [f EXCEPT !.ok = ok, !.step = step]
    BY <2>1
  <2>. HIDE DEF g
  <2>3. /\ g \in Frames
        /\ g.phase = f.phase /\ g.kind = f.kind /\ g.step = step /\ g.ok = ok
        /\ g.before = f.before /\ g.undo = f.undo /\ g.valid = f.valid
        /\ g.baseline = f.baseline
    BY <2>2 DEF Frames
  <2>. QED  BY <2>1, <2>3
<1>. HIDE DEF g
<1>5. SameCall(Top, g)
  BY <1>4 DEF SameCall
<1>6. Worked(g, session[p], store.active)
  BY <1>3, <1>4 DEF Worked
<1>7. Top.kind = "compound" /\ Top.phase \notin {"start", "failed"}
        => Top.baseline # None
  BY <1>3 DEF Framed, Diagnosing
<1>8. /\ session[p] \in Maybe(Sessions) /\ loaded[p] \in Maybe(Versions)
      /\ session' = [session EXCEPT ![p] = session[p]]
      /\ loaded' = [loaded EXCEPT ![p] = loaded[p]]
      /\ session[p] # None => session[p].base = session[p].src.node
  BY MemoryFields
<1>. QED  BY <1>2, <1>4, <1>5, <1>6, <1>7, <1>8, StillWorking

LEMMA BodyReturnsKeeps ==
  ASSUME Inv, NEW p \in Procs, BodyReturns(p)
  PROVE  Inv'
<1>1. PICK ok \in BOOLEAN :
        /\ MayReturn(ok)
        /\ stack' = [stack EXCEPT
             ![1].ok = ok,
             ![1].step = IF ok /\ Top.kind = "model" THEN "commit" ELSE "finish"]
  BY DEF BodyReturns
<1>. DEFINE step == IF ok /\ Top.kind = "model" THEN "commit" ELSE "finish"
<1>2. step \in {"body", "commit", "finish"}
  OBVIOUS
<1>3. holder = p /\ Depth > 0 /\ StackOK
  BY DEF BodyReturns, Running, Inv
<1>4. CallOK'
  BY CallGoesOn DEF BodyReturns, callVars, Inv, CallOK
<1>5. /\ Top \in Frames /\ Worked(Top, session[p], store.active)
  BY <1>3, StackFrames
<1>6. Top.kind \in {"derived", "model", "reference", "metadata", "compound"}
  BY <1>5, FrameFields, KindsAssumption
<1>7. ASSUME step = "finish", ok  PROVE Fresh(session[p], store.active)
  <2>1. Top.kind # "model"
    BY <1>7
  <2>. QED  BY <1>1, <1>5, <1>6, <1>7, <2>1 DEF MayReturn, Worked
<1>8. stack' = [stack EXCEPT ![1].ok = ok, ![1].step = step]
  BY <1>1
<1>9. /\ UNCHANGED projectVars /\ UNCHANGED <<session, loaded>>
      /\ entry' = entry /\ holder' = p
  BY <1>3 DEF BodyReturns, callVars
<1>10. step = "commit" => Top.kind = "model"
  OBVIOUS
<1>. HIDE DEF step
<1>. QED  BY <1>2, <1>3, <1>4, <1>7, <1>8, <1>9, <1>10, TopSteps

LEMMA CommitFailsKeeps ==
  ASSUME Inv, NEW p \in Procs, CommitFails(p)
  PROVE  Inv'
<1>1. holder = p /\ Depth > 0
  BY DEF CommitFails, Running
<1>2. CallOK'
  BY CallGoesOn DEF CommitFails, callVars, Inv, CallOK
<1>3. /\ UNCHANGED projectVars /\ UNCHANGED <<session, loaded>>
      /\ entry' = entry /\ holder' = p
  BY <1>1 DEF CommitFails, callVars
<1>4. stack' = [stack EXCEPT ![1].ok = FALSE, ![1].step = "finish"]
  BY DEF CommitFails
<1>5. FALSE \in BOOLEAN /\ "finish" \in {"body", "commit", "finish"}
  OBVIOUS
<1>. QED  BY <1>1, <1>2, <1>3, <1>4, <1>5, TopSteps

LEMMA CancelArrivesKeeps ==
  ASSUME Inv, NEW p \in Procs, CancelArrives(p)
  PROVE  Inv'
<1>1. holder = p /\ Depth > 0 /\ StackOK
  BY DEF CancelArrives, Inv
<1>2. CallOK'
  BY CallGoesOn DEF CancelArrives, Inv, CallOK
<1>3. /\ Top \in Frames /\ Worked(Top, session[p], store.active)
      /\ Framed(Top, store, inputs, exper)
  BY <1>1, StackFrames
<1>4. Top.kind = "compound" /\ Top.phase \notin {"start", "failed"}
        => Top.baseline # None
  BY <1>3 DEF Framed, Diagnosing
<1>5. /\ session[p] \in Maybe(Sessions) /\ loaded[p] \in Maybe(Versions)
      /\ session' = [session EXCEPT ![p] = session[p]]
      /\ loaded' = [loaded EXCEPT ![p] = loaded[p]]
      /\ session[p] # None => session[p].base = session[p].src.node
  BY MemoryFields DEF CancelArrives
<1>6. stack' = [stack EXCEPT ![1] = Top]
  BY <1>1, SameTop DEF CancelArrives
<1>7. SameCall(Top, Top)
  BY DEF SameCall
<1>8. UNCHANGED projectVars /\ entry' = entry /\ holder' = p
  BY <1>1 DEF CancelArrives
<1>. QED  BY <1>1, <1>2, <1>3, <1>4, <1>5, <1>6, <1>7, <1>8, StillWorking

(* A checkout that fails leaves the project as it is, and no session.      *)
LEMMA CheckoutFailsKeeps ==
  ASSUME Inv, NEW p \in Procs, NEW n, NEW ph \in Phases,
         holder = p, Depth > 0, CheckoutFails(p, n, ph),
         Top.kind \in {"reference", "compound"}, Top.step = "body",
         ph \notin {"start", "done", "restoring"},
         Top.kind = "compound" /\ ph # "failed" => Top.baseline # None
  PROVE  Inv'
<1>. DEFINE g == [Top EXCEPT !.phase = ph]
<1>1. StackOK
  BY DEF Inv
<1>2. Top \in Frames
  BY <1>1, StackFrames
<1>3. stack' = [stack EXCEPT ![1] = g]
  BY <1>1, PhasedTop DEF CheckoutFails
<1>4. /\ g \in Frames /\ g.phase = ph /\ g.kind = Top.kind /\ g.step = Top.step
      /\ g.before = Top.before /\ g.undo = Top.undo /\ g.valid = Top.valid
      /\ g.baseline = Top.baseline
  BY <1>2, PhasedFrame
<1>. HIDE DEF g
<1>5. SameCall(Top, g)
  BY <1>4 DEF SameCall
<1>6. Worked(g, None, store.active)
  BY <1>4 DEF Worked
<1>7. CallOK'
  BY CallGoesOn DEF CheckoutFails, callVars, Inv, CallOK
<1>8. /\ session' = [session EXCEPT ![p] = None]
      /\ loaded' = [loaded EXCEPT ![p] = None]
      /\ UNCHANGED projectVars /\ entry' = entry /\ holder' = p
  BY DEF CheckoutFails, callVars
<1>9. None \in Maybe(Sessions) /\ None \in Maybe(Versions)
  BY DEF Maybe
<1>10. g.kind = "compound" /\ g.phase \notin {"start", "failed"}
        => Top.baseline # None
  BY <1>4
<1>11. g.phase # "start"
  BY <1>4
<1>. QED  BY <1>3, <1>4, <1>5, <1>6, <1>7, <1>8, <1>9, <1>10, <1>11, StillWorking
-----------------------------------------------------------------------------
(* Actions of the body that move the pointer.                              *)

(* Moving the pointer to node n brings its inputs back and commits nothing;*)
(* a revision that stays says that nothing changed.                        *)
LEMMA PointerMoves ==
  ASSUME ProjectOK, NEW n \in Nodes, NEW b \in Branches, MovePointer(n, b)
  PROVE  /\ ProjectOK'
         /\ store'.active = n /\ store'.branch = b
         /\ store'.seq = store.seq
         /\ store.rev <= store'.rev
         /\ store'.rev = store.rev => store' = store
         /\ inputs' = exper[n]
         /\ exper' = exper
         /\ n < store.seq
<1>1. /\ store \in Stores /\ exper \in [Nodes -> Inputs]
      /\ store.rev \in Nat /\ store.seq \in Nat /\ inputs \in Inputs
  BY StoreFields DEF ProjectOK
<1>2. store = [active |-> store.active, branch |-> store.branch,
               seq |-> store.seq, rev |-> store.rev]
  BY <1>1 DEF Stores
<1>3. UNCHANGED <<exper, parent, origin>> /\ n < store.seq
  BY DEF MovePointer
<1>4. CASE Moves(n, b)
  <2>1. store' = [store EXCEPT !.active = n, !.branch = b, !.rev = @ + 1]
        /\ inputs' = exper[n]
    BY <1>4 DEF MovePointer, Pointed
  <2>2. store' = [active |-> n, branch |-> b, seq |-> store.seq,
                  rev |-> store.rev + 1]
    BY <1>2, <2>1
  <2>3. store' \in Stores
    BY <1>1, <2>2, StoreFields DEF Stores, Maybe
  <2>4. /\ store'.active = n /\ store'.branch = b /\ store'.seq = store.seq
        /\ store'.rev = store.rev + 1
    BY <2>2
  <2>5. store.rev + 1 # store.rev /\ store.rev <= store.rev + 1
    BY <1>1
  <2>6. ProjectOK'
    BY <1>1, <1>3, <2>1, <2>3, <2>4 DEF ProjectOK, ModelsComeFromParents
  <2>. QED  BY <1>3, <2>1, <2>4, <2>5, <2>6
<1>5. CASE ~Moves(n, b)
  <2>1. store' = store /\ inputs' = inputs
    BY <1>5 DEF MovePointer
  <2>2. store.active = n /\ store.branch = b /\ inputs = exper[n]
    BY <1>5 DEF Moves
  <2>3. ProjectOK'
    BY <1>3, <2>1 DEF ProjectOK, ModelsComeFromParents
  <2>. QED  BY <1>1, <1>3, <2>1, <2>2, <2>3
<1>. QED  BY <1>4, <1>5

(* A reference or compound tool's frame g after its step from f.           *)
LEMMA FrameMoves ==
  ASSUME NEW f \in Frames, NEW g \in Frames, NEW n \in Nodes,
         NEW st \in Stores, NEW st2 \in Stores, NEW ins, NEW ex,
         Framed(f, st, ins, ex),
         f.kind \in {"reference", "compound"},
         g.kind = f.kind, g.before = f.before, g.undo = f.undo,
         g.valid = f.valid,
         st2.active = n, st2.seq = st.seq, st.rev <= st2.rev,
         st2.rev = st.rev => st2 = st,
         f.kind = "compound" =>
           /\ g.phase # "start" /\ g.baseline # None
           /\ g.baseline < st.seq /\ ex[n] = ex[g.baseline]
           /\ st.seq > f.before.seq /\ f.valid => f.undo = ex[n]
  PROVE  Framed(g, st2, ex[n], ex)
<1>1. /\ f.before.seq \in Nat /\ f.before.rev \in Nat
  BY FrameFields
<1>2. st.seq \in Nat /\ st.rev \in Nat /\ st2.seq \in Nat /\ st2.rev \in Nat
  BY StoreFields
<1>3. f.before.rev <= st2.rev /\ (st2.rev = f.before.rev => st2 = f.before)
  <2>1. f.before.rev <= st.rev /\ (st.rev = f.before.rev => st = f.before)
    BY DEF Framed
  <2>2. f.before.rev <= st2.rev
    BY <1>1, <1>2, <2>1
  <2>3. st2.rev = f.before.rev => st2.rev = st.rev
    BY <1>1, <1>2, <2>1
  <2>. QED  BY <2>1, <2>2, <2>3
<1>4. g.kind = "compound" => Diagnosing(g, st2, ex[n], ex)
  BY DEF Framed, Diagnosing
<1>. QED  BY <1>3, <1>4 DEF Framed

LEMMA MovingKeeps ==
  ASSUME Inv, NEW p \in Procs, holder = p, Depth > 0,
         Top.kind \in {"reference", "compound"}, Top.step = "body",
         NEW n \in Nodes, NEW b \in Branches, MovePointer(n, b),
         UNCHANGED <<callVars, edits, faults>>,
         NEW ses \in Maybe(Sessions), NEW ld \in Maybe(Versions),
         session' = [session EXCEPT ![p] = ses],
         loaded' = [loaded EXCEPT ![p] = ld],
         ses # None => ses.base = ses.src.node,
         NEW g \in Frames, stack' = [stack EXCEPT ![1] = g],
         g.kind = Top.kind, g.before = Top.before, g.undo = Top.undo,
         g.valid = Top.valid, g.step = Top.step,
         Top.kind = "compound" =>
           /\ g.phase # "start" /\ g.baseline # None
           /\ g.baseline < store.seq /\ exper[n] = exper[g.baseline]
           /\ store.seq > Top.before.seq /\ Top.valid => Top.undo = exper[n],
         g.phase = "done" => Fresh(ses, n),
         g.kind = "compound" /\ g.phase = "restoring" => Fresh(ses, g.baseline)
  PROVE  Inv'
<1>1. StackOK /\ ProjectOK
  BY DEF Inv
<1>2. /\ Top \in Frames
      /\ Framed(Top, store, inputs, exper)
      /\ Depth = 1 => Bottom(Top, store, inputs, entry)
      /\ Depth = 2 => Top.kind = "model"
  BY <1>1, StackFrames
<1>3. Depth = 1
  BY <1>1, <1>2, StackShape
<1>4. /\ ProjectOK'
      /\ store'.active = n
      /\ store'.seq = store.seq
      /\ store.rev <= store'.rev
      /\ store'.rev = store.rev => store' = store
      /\ inputs' = exper[n]
      /\ exper' = exper
  BY <1>1, PointerMoves
<1>5. store \in Stores /\ store' \in Stores
  BY <1>1, <1>4 DEF ProjectOK
<1>6. Framed(g, store', exper[n], exper)
  BY <1>2, <1>4, <1>5, FrameMoves
<1>7. Bottom(g, store', exper[n], entry)
  BY <1>2, <1>3, <1>4 DEF Bottom
<1>8. Worked(g, ses, store'.active)
  BY <1>4 DEF Worked
<1>9. /\ stack' \in Seq(Frames) /\ Len(stack') = 1 /\ stack'[1] = g
  BY <1>1, <1>3, NewTop
<1>10. CallOK' /\ entry' = entry /\ holder' = p
  BY DEF Inv, CallOK, callVars
<1>11. /\ Framed(stack'[1], store', inputs', exper')
       /\ Bottom(stack'[1], store', inputs', entry')
       /\ Worked(stack'[1], ses, store'.active)
  BY <1>4, <1>6, <1>7, <1>8, <1>9, <1>10, Zenon
<1>12. store'.active # None
  BY <1>4, Numbers
<1>13. Len(stack') \in {1, 2} /\ ~(Len(stack') = 2)
  BY <1>9
<1>. QED  BY <1>4, <1>9, <1>10, <1>11, <1>12, <1>13, Working
(* Checking a node out rebuilds the session from it.                       *)
LEMMA CheckoutKeeps ==
  ASSUME Inv, NEW p \in Procs, holder = p, Depth > 0,
         Top.kind \in {"reference", "compound"}, Top.step = "body",
         NEW n \in Nodes, NEW b \in Branches,
         NEW ph \in Phases \ {"start"}, Checkout(p, n, b, ph),
         Top.kind = "compound" =>
           /\ Top.baseline # None /\ exper[n] = exper[Top.baseline]
           /\ ph = "restoring" => n = Top.baseline
  PROVE  Inv'
<1>. DEFINE g == [Top EXCEPT !.phase = ph]
            ses == Clean(n, store')
<1>1. StackOK /\ ProjectOK /\ MovePointer(n, b)
  BY DEF Inv, Checkout
<1>2. Top \in Frames /\ Framed(Top, store, inputs, exper) /\ Depth \in {1, 2}
  BY <1>1, StackFrames, StackShape
<1>3. store' \in Stores
  BY <1>1, PointerMoves DEF ProjectOK
<1>4. /\ ses \in Sessions /\ ses.base = n /\ ses.src = VersionOf(store')
      /\ ~ses.edited
  BY <1>3, CleanSession
<1>5. ses.src.node = n /\ VersionOf(store') \in Versions
  BY <1>1, <1>3, <1>4, StoreFields, PointerMoves
<1>6. stack' = [stack EXCEPT ![1] = g]
  BY <1>1, <1>2, PhasedTop DEF Checkout
<1>7. /\ g \in Frames /\ g.phase = ph /\ g.kind = Top.kind /\ g.step = Top.step
      /\ g.before = Top.before /\ g.undo = Top.undo /\ g.valid = Top.valid
      /\ g.baseline = Top.baseline
  BY <1>2, PhasedFrame
<1>8. /\ session' = [session EXCEPT ![p] = ses]
      /\ loaded' = [loaded EXCEPT ![p] = VersionOf(store')]
      /\ UNCHANGED <<callVars, edits, faults>>
  BY DEF Checkout
<1>9. ses # None /\ ses \in Maybe(Sessions)
      /\ VersionOf(store') \in Maybe(Versions)
  BY <1>4, <1>5, NoSessionAssumption DEF Maybe
<1>. HIDE DEF g, ses
<1>10. Top.kind = "compound" =>
         /\ g.phase # "start" /\ g.baseline # None
         /\ g.baseline < store.seq /\ exper[n] = exper[g.baseline]
         /\ store.seq > Top.before.seq /\ Top.valid => Top.undo = exper[n]
  BY <1>2, <1>7 DEF Framed, Diagnosing
<1>11. Fresh(ses, n)
  BY <1>4, <1>9 DEF Fresh
<1>12. g.kind = "compound" /\ g.phase = "restoring" => Fresh(ses, g.baseline)
  BY <1>7, <1>11
<1>. QED  BY <1>1, <1>4, <1>5, <1>6, <1>7, <1>8, <1>9, <1>10, <1>11, <1>12, MovingKeeps

(* Moving the pointer leaves the session as it is.                         *)
LEMMA MoveKeeps ==
  ASSUME Inv, NEW p \in Procs, holder = p, Depth > 0,
         Top.kind \in {"reference", "compound"}, Top.step = "body",
         NEW n \in Nodes, NEW b \in Branches, MovePointer(n, b),
         NEW ph \in Phases \ {"start", "restoring"}, Phase(ph),
         UNCHANGED <<session, loaded, callVars, edits, faults>>,
         Top.kind = "compound" =>
           Top.baseline # None /\ exper[n] = exper[Top.baseline],
         ph = "done" => Fresh(session[p], n)
  PROVE  Inv'
<1>. DEFINE g == [Top EXCEPT !.phase = ph]
<1>1. StackOK /\ ProjectOK
  BY DEF Inv
<1>2. Top \in Frames /\ Framed(Top, store, inputs, exper)
  BY <1>1, StackFrames
<1>3. stack' = [stack EXCEPT ![1] = g]
  BY <1>1, PhasedTop
<1>4. /\ g \in Frames /\ g.phase = ph /\ g.kind = Top.kind /\ g.step = Top.step
      /\ g.before = Top.before /\ g.undo = Top.undo /\ g.valid = Top.valid
      /\ g.baseline = Top.baseline
  BY <1>2, PhasedFrame
<1>. HIDE DEF g
<1>5. Top.kind = "compound" =>
         /\ g.phase # "start" /\ g.baseline # None
         /\ g.baseline < store.seq /\ exper[n] = exper[g.baseline]
         /\ store.seq > Top.before.seq /\ Top.valid => Top.undo = exper[n]
  BY <1>2, <1>4 DEF Framed, Diagnosing
<1>6. g.phase = "done" => Fresh(session[p], n)
  BY <1>4
<1>7. g.phase # "restoring"
  BY <1>4
<1>8. /\ session[p] \in Maybe(Sessions) /\ loaded[p] \in Maybe(Versions)
      /\ session' = [session EXCEPT ![p] = session[p]]
      /\ loaded' = [loaded EXCEPT ![p] = loaded[p]]
      /\ session[p] # None => session[p].base = session[p].src.node
  BY MemoryFields
<1>9. UNCHANGED <<callVars, edits, faults>>
  OBVIOUS
<1>. QED  BY <1>3, <1>4, <1>5, <1>6, <1>7, <1>8, <1>9, MovingKeeps

(* Which nodes and branches the tools name.                                *)
LEMMA BodyFrame ==
  ASSUME Inv, NEW p \in Procs, NEW k, NEW ph, InBody(p, k, ph)
  PROVE  /\ holder = p /\ Depth > 0 /\ Top.step = "body"
         /\ Top.kind = k /\ Top.phase = ph
         /\ Top \in Frames /\ Framed(Top, store, inputs, exper)
         /\ Worked(Top, session[p], store.active)
         /\ store.active \in Nodes /\ store.branch \in Branches
         /\ \A n : BranchFor(n) \subseteq Branches
         /\ k = "compound" /\ ph \notin {"start", "failed"} =>
              /\ Top.baseline \in Nodes /\ Top.baseline # None
              /\ inputs = exper[Top.baseline]
              /\ exper[store.active] = exper[Top.baseline]
<1>1. /\ holder = p /\ Depth > 0 /\ Top.step = "body"
      /\ Top.kind = k /\ Top.phase = ph
  BY DEF InBody, Running
<1>2. StackOK /\ store \in Stores
  BY DEF Inv, ProjectOK
<1>3. /\ Top \in Frames /\ Framed(Top, store, inputs, exper)
      /\ Worked(Top, session[p], store.active) /\ store.active # None
  BY <1>1, <1>2, StackFrames
<1>4. store.active \in Nodes /\ store.branch \in Branches
  BY <1>2, <1>3, StoreFields DEF Maybe
<1>5. \A n : BranchFor(n) \subseteq Branches
  BY <1>4 DEF BranchFor
<1>6. k = "compound" /\ ph \notin {"start", "failed"} =>
        /\ Top.baseline # None
        /\ inputs = exper[Top.baseline]
        /\ exper[store.active] = exper[Top.baseline]
  BY <1>1, <1>3 DEF Framed, Diagnosing
<1>7. Top.baseline \in Maybe(Nodes)
  BY <1>3, FrameFields
<1>. QED  BY <1>1, <1>3, <1>4, <1>5, <1>6, <1>7 DEF Maybe
LEMMA CheckoutBodyKeeps ==
  ASSUME Inv, NEW p \in Procs, CheckoutBody(p)
  PROVE  Inv'
<1>1. InBody(p, "reference", "start")
  BY DEF CheckoutBody
<1>2. PICK n \in Nodes : \/ \E b \in BranchFor(n) : Checkout(p, n, b, "done")
                         \/ CheckoutFails(p, n, "failed")
  BY DEF CheckoutBody
<1>3. /\ holder = p /\ Depth > 0 /\ Top.step = "body" /\ Top.kind = "reference"
      /\ \A m : BranchFor(m) \subseteq Branches
  BY <1>1, BodyFrame
<1>4. ASSUME NEW b \in BranchFor(n), Checkout(p, n, b, "done")  PROVE Inv'
  <2>1. b \in Branches /\ "done" \in Phases \ {"start"}
    BY <1>3 DEF Phases
  <2>. QED  BY <1>3, <1>4, <2>1, CheckoutKeeps
<1>5. ASSUME CheckoutFails(p, n, "failed")  PROVE Inv'
  <2>1. "failed" \in Phases
    BY DEF Phases
  <2>. QED  BY <1>3, <1>5, <2>1, CheckoutFailsKeeps
<1>. QED  BY <1>2, <1>4, <1>5

LEMMA BranchBodyKeeps ==
  ASSUME Inv, NEW p \in Procs, BranchBody(p)
  PROVE  Inv'
<1>1. InBody(p, "reference", "start")
  BY DEF BranchBody
<1>2. PICK n \in Nodes, b \in Branches : MovePointer(n, b)
  BY DEF BranchBody
<1>3. holder = p /\ Depth > 0 /\ Top.step = "body" /\ Top.kind = "reference"
  BY <1>1, BodyFrame
<1>4. /\ "pointed" \in Phases \ {"start", "restoring"} /\ Phase("pointed")
      /\ UNCHANGED <<session, loaded, callVars, edits, faults>>
  BY DEF BranchBody, Phases
<1>. QED  BY <1>2, <1>3, <1>4, MoveKeeps

LEMMA BranchReloadKeeps ==
  ASSUME Inv, NEW p \in Procs, BranchReload(p)
  PROVE  Inv'
<1>1. InBody(p, "reference", "pointed")
  BY DEF BranchReload
<1>2. /\ holder = p /\ Depth > 0 /\ Top.step = "body" /\ Top.kind = "reference"
      /\ store.active \in Nodes /\ store.branch \in Branches
  BY <1>1, BodyFrame
<1>3. PICK n \in Nodes : n = store.active
  BY <1>2
<1>4. PICK b \in Branches : b = store.branch
  BY <1>2
<1>5. Checkout(p, n, b, "done") \/ CheckoutFails(p, n, "failed")
  BY <1>3, <1>4, Zenon DEF BranchReload
<1>6. "done" \in Phases \ {"start"} /\ "failed" \in Phases
  BY DEF Phases
<1>7. ASSUME Checkout(p, n, b, "done")  PROVE Inv'
  BY <1>2, <1>6, <1>7, CheckoutKeeps
<1>8. ASSUME CheckoutFails(p, n, "failed")  PROVE Inv'
  BY <1>2, <1>6, <1>8, CheckoutFailsKeeps
<1>. QED  BY <1>5, <1>7, <1>8

LEMMA CompoundBeginKeeps ==
  ASSUME Inv, NEW p \in Procs, CompoundBegin(p)
  PROVE  Inv'
<1>1. InBody(p, "compound", "start")
  BY DEF CompoundBegin
<1>0. PICK n \in Nodes : \E b \in BranchFor(n) :
        /\ MovePointer(n, b)
        /\ session' = [session EXCEPT ![p] = Clean(n, store')]
        /\ loaded' = [loaded EXCEPT ![p] = VersionOf(store')]
        /\ stack' = [stack EXCEPT ![1].phase = "begun", ![1].baseline = n]
  BY DEF CompoundBegin
<1>2. PICK b \in BranchFor(n) :
        /\ MovePointer(n, b)
        /\ session' = [session EXCEPT ![p] = Clean(n, store')]
        /\ loaded' = [loaded EXCEPT ![p] = VersionOf(store')]
        /\ stack' = [stack EXCEPT ![1].phase = "begun", ![1].baseline = n]
  BY <1>0
<1>3. /\ holder = p /\ Depth > 0 /\ Top.step = "body" /\ Top.kind = "compound"
      /\ Top.phase = "start" /\ Top \in Frames
      /\ Framed(Top, store, inputs, exper)
      /\ b \in Branches
  BY <1>1, BodyFrame
<1>4. StackOK /\ ProjectOK
  BY DEF Inv
<1>. DEFINE g == [Top EXCEPT !.phase = "begun", !.baseline = n]
            ses == Clean(n, store')
<1>5. stack' = [stack EXCEPT ![1] = g]
  <2>1. stack \in Seq(Frames) /\ 1 \in 1 .. Len(stack)
    BY <1>3, <1>4, StackShape DEF StackOK, Depth
  <2>2. stack \in [1 .. Len(stack) -> Frames]
    BY <2>1
  <2>. QED  BY <1>2, <2>1, <2>2 DEF Top
<1>6. /\ g \in Frames /\ g.phase = "begun" /\ g.kind = Top.kind
      /\ g.step = Top.step /\ g.before = Top.before /\ g.undo = Top.undo
      /\ g.valid = Top.valid /\ g.baseline = n
  <2>1. PICK f \in Frames : f = Top
    BY <1>3
  <2>2. g = [f EXCEPT !.phase = "begun", !.baseline = n]
    BY <2>1
  <2>. HIDE DEF g
  <2>3. /\ g \in Frames /\ g.phase = "begun" /\ g.kind = f.kind
        /\ g.step = f.step /\ g.before = f.before /\ g.undo = f.undo
        /\ g.valid = f.valid /\ g.baseline = n
    BY <2>2 DEF Frames, Maybe
  <2>. QED  BY <2>1, <2>3
<1>7. /\ store' \in Stores /\ n < store.seq /\ store'.active = n
  BY <1>2, <1>3, <1>4, PointerMoves DEF ProjectOK
<1>8. /\ ses \in Sessions /\ ses.base = n /\ ses.src = VersionOf(store')
      /\ ~ses.edited
  BY <1>7, CleanSession
<1>9. ses.src.node = n /\ VersionOf(store') \in Versions
  BY <1>7, <1>8, StoreFields
<1>10. /\ session' = [session EXCEPT ![p] = ses]
       /\ loaded' = [loaded EXCEPT ![p] = VersionOf(store')]
       /\ UNCHANGED <<callVars, edits, faults>>
  BY <1>2 DEF CompoundBegin
<1>11. ses \in Maybe(Sessions) /\ VersionOf(store') \in Maybe(Versions)
  BY <1>8, <1>9 DEF Maybe
<1>. HIDE DEF g, ses
<1>12. Top.before.seq \in Nat /\ store.seq = Top.before.seq
  BY <1>3, FrameFields DEF Framed, Diagnosing
<1>13. Top.kind = "compound" =>
         /\ g.phase # "start" /\ g.baseline # None
         /\ g.baseline < store.seq /\ exper[n] = exper[g.baseline]
         /\ store.seq > Top.before.seq /\ Top.valid => Top.undo = exper[n]
  BY <1>6, <1>7, <1>12, Numbers
<1>14. /\ g.phase = "done" => Fresh(ses, n)
       /\ g.kind = "compound" /\ g.phase = "restoring" => Fresh(ses, g.baseline)
  BY <1>6
<1>15. ses # None => ses.base = ses.src.node
  BY <1>8, <1>9
<1>16. MovePointer(n, b) /\ b \in Branches
  BY <1>2, <1>3
<1>17. /\ holder = p /\ Depth > 0 /\ Top.step = "body"
       /\ Top.kind \in {"reference", "compound"}
  BY <1>3
<1>18. /\ g \in Frames /\ g.kind = Top.kind
       /\ g.step = Top.step /\ g.before = Top.before /\ g.undo = Top.undo
       /\ g.valid = Top.valid
  BY <1>6
<1>. QED  BY <1>5, <1>10, <1>11, <1>13, <1>14, <1>15, <1>16, <1>17, <1>18, MovingKeeps

LEMMA CompoundBeginFailsKeeps ==
  ASSUME Inv, NEW p \in Procs, CompoundBeginFails(p)
  PROVE  Inv'
<1>1. InBody(p, "compound", "start")
  BY DEF CompoundBeginFails
<1>2. PICK n \in Nodes : CheckoutFails(p, n, "failed")
  BY DEF CompoundBeginFails
<1>3. holder = p /\ Depth > 0 /\ Top.step = "body" /\ Top.kind = "compound"
  BY <1>1, BodyFrame
<1>4. "failed" \in Phases
  BY DEF Phases
<1>. QED  BY <1>2, <1>3, <1>4, CheckoutFailsKeeps

LEMMA CompoundCutKeeps ==
  ASSUME Inv, NEW p \in Procs, CompoundCut(p)
  PROVE  Inv'
<1>1. PICK ph \in {"begun", "cut", "ready"} :
        /\ InBody(p, "compound", ph)
        /\ Phase(IF ph = "begun" THEN "cut" ELSE "pointed")
  BY DEF CompoundCut
<1>2. ph \notin {"start", "failed"}
  OBVIOUS
<1>3. /\ holder = p /\ Depth > 0 /\ Top.step = "body" /\ Top.kind = "compound"
      /\ Top.baseline \in Nodes /\ Top.baseline # None
  BY <1>1, <1>2, BodyFrame
<1>4. PICK n \in Nodes : n = Top.baseline
  BY <1>3
<1>5. MovePointer(n, "diag") /\ "diag" \in Branches
  BY <1>4 DEF CompoundCut, Branches
<1>6. PICK ph2 \in Phases \ {"start", "restoring", "done"} : Phase(ph2)
  BY <1>1 DEF Phases
<1>7. UNCHANGED <<session, loaded, callVars, edits, faults>>
  BY DEF CompoundCut
<1>8. exper[n] = exper[Top.baseline]
  BY <1>4
<1>. QED  BY <1>3, <1>5, <1>6, <1>7, <1>8, MoveKeeps

LEMMA CompoundReloadKeeps ==
  ASSUME Inv, NEW p \in Procs, CompoundReload(p)
  PROVE  Inv'
<1>1. InBody(p, "compound", "pointed")
  BY DEF CompoundReload
<1>2. "pointed" \notin {"start", "failed"}
  OBVIOUS
<1>3. /\ holder = p /\ Depth > 0 /\ Top.step = "body" /\ Top.kind = "compound"
      /\ Top.baseline # None /\ exper[store.active] = exper[Top.baseline]
      /\ store.active \in Nodes /\ store.branch \in Branches
  BY <1>1, <1>2, BodyFrame
<1>4. PICK n \in Nodes : n = store.active
  BY <1>3
<1>5. PICK b \in Branches : b = store.branch
  BY <1>3
<1>6. Checkout(p, n, b, "cut") \/ CheckoutFails(p, n, "ready")
  BY <1>4, <1>5, Zenon DEF CompoundReload
<1>7. "cut" \in Phases \ {"start"} /\ "ready" \in Phases
  BY DEF Phases
<1>8. exper[n] = exper[Top.baseline]
  BY <1>3, <1>4
<1>9. ASSUME Checkout(p, n, b, "cut")  PROVE Inv'
  BY <1>3, <1>7, <1>8, <1>9, CheckoutKeeps
<1>10. ASSUME CheckoutFails(p, n, "ready")  PROVE Inv'
  BY <1>3, <1>7, <1>10, CheckoutFailsKeeps
<1>. QED  BY <1>6, <1>9, <1>10

LEMMA CompoundRestoreKeeps ==
  ASSUME Inv, NEW p \in Procs, CompoundRestore(p)
  PROVE  Inv'
<1>1. PICK ph \in {"begun", "cut", "ready"} : InBody(p, "compound", ph)
  BY DEF CompoundRestore
<1>2. ph \notin {"start", "failed"}
  OBVIOUS
<1>3. /\ holder = p /\ Depth > 0 /\ Top.step = "body" /\ Top.kind = "compound"
      /\ Top.baseline \in Nodes /\ Top.baseline # None
      /\ \A m : BranchFor(m) \subseteq Branches
  BY <1>1, <1>2, BodyFrame
<1>4. PICK n \in Nodes : n = Top.baseline
  BY <1>3
<1>5. \/ \E b \in BranchFor(n) : Checkout(p, n, b, "restoring")
      \/ CheckoutFails(p, n, "failed")
  BY <1>4, Zenon DEF CompoundRestore
<1>6. "restoring" \in Phases \ {"start"} /\ "failed" \in Phases
  BY DEF Phases
<1>7. exper[n] = exper[Top.baseline]
  BY <1>4
<1>8. ASSUME NEW b \in BranchFor(n), Checkout(p, n, b, "restoring")  PROVE Inv'
  <2>1. b \in Branches
    BY <1>3
  <2>. QED  BY <1>3, <1>4, <1>6, <1>7, <1>8, <2>1, CheckoutKeeps
<1>9. ASSUME CheckoutFails(p, n, "failed")  PROVE Inv'
  BY <1>3, <1>6, <1>9, CheckoutFailsKeeps
<1>. QED  BY <1>5, <1>8, <1>9
LEMMA CompoundRestoredKeeps ==
  ASSUME Inv, NEW p \in Procs, CompoundRestored(p)
  PROVE  Inv'
<1>1. InBody(p, "compound", "restoring")
  BY DEF CompoundRestored
<1>2. "restoring" \notin {"start", "failed"}
  OBVIOUS
<1>3. /\ holder = p /\ Depth > 0 /\ Top.step = "body" /\ Top.kind = "compound"
      /\ Top.phase = "restoring" /\ Top \in Frames
      /\ Top.baseline \in Nodes /\ Top.baseline # None
      /\ Worked(Top, session[p], store.active)
  BY <1>1, <1>2, BodyFrame
<1>4. Fresh(session[p], Top.baseline)
  BY <1>3 DEF Worked
<1>5. UNCHANGED <<session, loaded, callVars, edits, faults>>
  BY DEF CompoundRestored
<1>6. CASE (\E b \in RestoredBranches : MovePointer(Top.baseline, b)) /\ Phase("done")
  <2>1. PICK n \in Nodes : n = Top.baseline
    BY <1>3
  <2>2. \E b \in RestoredBranches : MovePointer(n, b)
    BY <1>6, <2>1, Zenon
  <2>3. PICK b \in RestoredBranches : MovePointer(n, b)
    BY <2>2
  <2>4. b \in Branches
    BY <1>3, FrameFields, StoreFields DEF RestoredBranches, Branches
  <2>5. "done" \in Phases \ {"start", "restoring"}
    BY DEF Phases
  <2>6. exper[n] = exper[Top.baseline] /\ Fresh(session[p], n)
    BY <1>4, <2>1, Zenon
  <2>. QED  BY <1>3, <1>5, <1>6, <2>3, <2>4, <2>5, <2>6, MoveKeeps
<1>7. CASE UNCHANGED projectVars /\ Phase("failed")
  <2>. DEFINE g == [Top EXCEPT !.phase = "failed"]
  <2>1. StackOK
    BY DEF Inv
  <2>2. stack' = [stack EXCEPT ![1] = g]
    BY <1>3, <1>7, <2>1, PhasedTop
  <2>3. "failed" \in Phases
    BY DEF Phases
  <2>4. /\ g \in Frames /\ g.phase = "failed" /\ g.kind = Top.kind
        /\ g.step = Top.step
        /\ g.before = Top.before /\ g.undo = Top.undo /\ g.valid = Top.valid
        /\ g.baseline = Top.baseline
    BY <1>3, <2>3, PhasedFrame
  <2>. HIDE DEF g
  <2>5. SameCall(Top, g)
    BY <2>4 DEF SameCall
  <2>6. Worked(g, session[p], store.active)
    BY <1>3, <2>4 DEF Worked
  <2>7. CallOK' /\ entry' = entry /\ holder' = p
    BY <1>3, <1>5 DEF Inv, CallOK, callVars
  <2>8. /\ session[p] \in Maybe(Sessions) /\ loaded[p] \in Maybe(Versions)
        /\ session' = [session EXCEPT ![p] = session[p]]
        /\ loaded' = [loaded EXCEPT ![p] = loaded[p]]
        /\ session[p] # None => session[p].base = session[p].src.node
    BY <1>5, MemoryFields
  <2>9. g.phase # "start" /\ (g.phase \notin {"start", "failed"} => Top.baseline # None)
    BY <2>4
  <2>. QED  BY <1>3, <1>7, <2>2, <2>4, <2>5, <2>6, <2>7, <2>8, <2>9, StillWorking
<1>. QED  BY <1>6, <1>7 DEF CompoundRestored

LEMMA EditInputsKeeps ==
  ASSUME Inv, NEW p \in Procs, EditInputs(p)
  PROVE  Inv'
<1>1. holder = p /\ Depth > 0 /\ Top.kind = "metadata" /\ StackOK /\ ProjectOK
  BY DEF EditInputs, Running, Inv
<1>2. /\ Top \in Frames /\ Framed(Top, store, inputs, exper)
      /\ Worked(Top, session[p], store.active)
      /\ Depth = 1 => Bottom(Top, store, inputs, entry)
      /\ store.active # None
  BY <1>1, StackFrames
<1>3. Depth = 1
  BY <1>1, StackFrames, StackShape
<1>4. /\ inputs' = edits + 1 /\ edits' = edits + 1 /\ edits < MaxInputs
      /\ UNCHANGED <<store, exper, parent, origin, session, loaded, stack,
                     callVars, faults>>
  BY DEF EditInputs
<1>5. edits + 1 \in Inputs /\ edits + 1 \in 0 .. MaxInputs
  BY <1>4, Numbers DEF Inputs, Inv, CallOK
<1>6. ProjectOK'
  BY <1>1, <1>4, <1>5 DEF ProjectOK, ModelsComeFromParents
<1>7. CallOK' /\ entry' = entry /\ holder' = p /\ store' = store /\ exper' = exper
  BY <1>1, <1>4, <1>5 DEF Inv, CallOK, callVars
<1>8. Framed(Top, store, inputs', exper)
  BY <1>1, <1>2 DEF Framed
<1>9. Bottom(Top, store, inputs', entry)
  BY <1>1, <1>2, <1>3 DEF Bottom
<1>10. /\ stack' \in Seq(Frames) /\ Len(stack') = 1 /\ stack'[1] = Top
  BY <1>1, <1>3, <1>4 DEF StackOK, Depth, Top
<1>11. Len(stack') \in {1, 2} /\ ~(Len(stack') = 2)
  BY <1>10
<1>12. /\ Framed(stack'[1], store', inputs', exper')
       /\ Bottom(stack'[1], store', inputs', entry')
       /\ Worked(stack'[1], session[p], store'.active)
       /\ store'.active # None
  BY <1>2, <1>7, <1>8, <1>9, <1>10, Zenon
<1>13. /\ session[p] \in Maybe(Sessions) /\ loaded[p] \in Maybe(Versions)
       /\ session' = [session EXCEPT ![p] = session[p]]
       /\ loaded' = [loaded EXCEPT ![p] = loaded[p]]
       /\ session[p] # None => session[p].base = session[p].src.node
  BY <1>4, MemoryFields
<1>. QED  BY <1>1, <1>6, <1>7, <1>10, <1>11, <1>12, <1>13, Working

-----------------------------------------------------------------------------
(* Entering a call.                                                        *)

(* The session a call works with when it was loaded for it.                *)
LEMMA CleanIsFresh ==
  ASSUME NEW st \in Stores, st.active # None, NEW ses,
         ses = Clean(st.active, st)
  PROVE  /\ ses \in Sessions /\ Fresh(ses, st.active)
         /\ ses.base = ses.src.node /\ ses.src = VersionOf(st)
         /\ VersionOf(st) \in Versions
<1>1. st.active \in Nodes
  BY StoreFields DEF Maybe
<1>2. /\ ses \in Sessions /\ ses.base = st.active /\ ses.src = VersionOf(st)
      /\ ~ses.edited
  BY <1>1, CleanSession
<1>. QED  BY <1>2, StoreFields, NoSessionAssumption DEF Fresh

LEMMA ResumedIsFresh ==
  ASSUME Inv, NEW p \in Procs, holder = None, store.active # None
  PROVE  /\ Resumed(p) \in Sessions
         /\ Fresh(Resumed(p), store.active)
         /\ Resumed(p).base = Resumed(p).src.node
<1>1. store \in Stores
  BY DEF Inv, ProjectOK
<1>2. CASE session[p] = None \/ loaded[p] # VersionOf(store)
  <2>1. Resumed(p) = Clean(store.active, store)
    BY <1>2 DEF Resumed
  <2>. QED  BY <1>1, <2>1, CleanIsFresh
<1>3. CASE ~(session[p] = None \/ loaded[p] # VersionOf(store))
  <2>1. Resumed(p) = session[p]
    BY <1>3 DEF Resumed
  <2>2. p # holder
    BY Numbers
  <2>3. /\ session[p].base = session[p].src.node
        /\ loaded[p] = session[p].src /\ ~session[p].edited
    BY <1>3, <2>2 DEF Inv, MemoryOK, Remembers
  <2>4. session[p].base = store.active
    BY <1>1, <1>3, <2>3, StoreFields
  <2>5. session[p] \in Sessions
    BY <1>3, MemoryFields
  <2>. QED  BY <1>3, <2>1, <2>3, <2>4, <2>5 DEF Fresh
<1>. QED  BY <1>2, <1>3

(* A call that begins with a clean session of the active node.             *)
LEMMA BeginKeeps ==
  ASSUME Inv, NEW p \in Procs, NEW k \in Kinds, holder = None,
         holder' = p, cancel' = FALSE,
         entry' = [store |-> store', inputs |-> inputs'],
         ProjectOK', store'.active # None,
         NEW ses \in Sessions, Fresh(ses, store'.active),
         ses.base = ses.src.node,
         NEW ld \in Maybe(Versions),
         session' = [session EXCEPT ![p] = ses],
         loaded' = [loaded EXCEPT ![p] = ld],
         stack' = <<NewFrame(k, store', inputs')>>,
         UNCHANGED <<outcome, edits, faults>>
  PROVE  Inv'
<1>. DEFINE f == NewFrame(k, store', inputs')
<1>1. /\ store' \in Stores /\ inputs' \in Inputs
      /\ store'.active < store'.seq
  BY DEF ProjectOK
<1>2. /\ f \in Frames
      /\ f.kind = k /\ f.step = "body" /\ f.phase = "start"
      /\ Framed(f, store', inputs', exper')
      /\ Bottom(f, store', inputs', [store |-> store', inputs |-> inputs'])
  BY <1>1, FrameBegins
<1>. HIDE DEF f
<1>3. Worked(f, ses, store'.active)
  BY <1>2 DEF Worked, Fresh
<1>4. stack' = <<f>>
  BY DEF f
<1>5. stack' \in Seq(Frames) /\ Len(stack') = 1 /\ stack'[1] = f
  BY <1>2, <1>4
<1>6. Len(stack') \in {1, 2} /\ ~(Len(stack') = 2)
  BY <1>5
<1>7. entry' \in [store: Stores, inputs: Inputs]
  BY <1>1
<1>8. CallOK'
  BY <1>7 DEF Inv, CallOK, Maybe
<1>9. /\ Framed(stack'[1], store', inputs', exper')
      /\ Bottom(stack'[1], store', inputs', entry')
      /\ Worked(stack'[1], ses, store'.active)
  BY <1>2, <1>3, <1>5, Zenon
<1>10. ses \in Maybe(Sessions) /\ (ses # None => ses.base = ses.src.node)
  BY DEF Maybe
<1>. QED  BY <1>5, <1>6, <1>8, <1>9, <1>10, Working
LEMMA InvokeKeeps ==
  ASSUME Inv, NEW p \in Procs, NEW k \in Kinds, Invoke(p, k)
  PROVE  Inv'
<1>. DEFINE ses == Resumed(p)
            ld == IF Resumed(p) = session[p] THEN loaded[p] ELSE VersionOf(store)
<1>1. holder = None /\ store.active # None
  BY DEF Invoke
<1>2. store' = store /\ inputs' = inputs /\ UNCHANGED projectVars
  BY DEF Invoke, projectVars
<1>3. store \in Stores
  BY DEF Inv, ProjectOK
<1>4. ProjectOK' /\ store'.active # None
  BY <1>1, <1>2 DEF Inv, ProjectOK, ModelsComeFromParents, projectVars
<1>5. /\ ses \in Sessions /\ Fresh(ses, store.active)
      /\ ses.base = ses.src.node
  BY <1>1, ResumedIsFresh
<1>6. ld \in Maybe(Versions)
  BY <1>3, MemoryFields, StoreFields DEF Maybe
<1>7. /\ session' = [session EXCEPT ![p] = ses]
      /\ loaded' = [loaded EXCEPT ![p] = ld]
  BY DEF Invoke
<1>. HIDE DEF ses, ld
<1>8. /\ holder' = p /\ cancel' = FALSE
      /\ entry' = [store |-> store', inputs |-> inputs']
      /\ stack' = <<NewFrame(k, store', inputs')>>
      /\ UNCHANGED <<outcome, edits, faults>>
  BY <1>2, Zenon DEF Invoke
<1>9. Fresh(ses, store'.active)
  BY <1>2, <1>5, Zenon
<1>. QED  BY <1>1, <1>4, <1>5, <1>6, <1>7, <1>8, <1>9, BeginKeeps

LEMMA InvokeImportsKeeps ==
  ASSUME Inv, NEW p \in Procs, NEW k \in Kinds, InvokeImports(p, k)
  PROVE  Inv'
<1>. DEFINE ses == Clean(0, Imported)
<1>1. /\ store \in Stores /\ exper \in [Nodes -> Inputs] /\ inputs \in Inputs
      /\ store.rev \in Nat
  BY StoreFields DEF Inv, ProjectOK
<1>2. Imported = [active |-> 0, branch |-> store.branch, seq |-> 1,
                  rev |-> store.rev + 1]
  <2>1. store = [active |-> store.active, branch |-> store.branch,
                 seq |-> store.seq, rev |-> store.rev]
    BY <1>1 DEF Stores
  <2>2. Imported = [store EXCEPT !.active = 0, !.seq = 1, !.rev = store.rev + 1]
    BY <1>1, <2>1 DEF Imported
  <2>. QED  BY <2>1, <2>2
<1>3. 0 \in Nodes /\ 1 <= MaxNode + 1
  BY Numbers DEF Nodes
<1>4. Imported \in Stores /\ Imported.active = 0 /\ Imported.seq = 1
  BY <1>1, <1>2, <1>3 DEF Stores, Maybe
<1>5. /\ store' = Imported /\ inputs' = inputs
      /\ exper' = [exper EXCEPT ![0] = inputs]
      /\ UNCHANGED <<parent, origin>> /\ holder = None
      /\ UNCHANGED <<outcome, edits, faults>>
  BY DEF InvokeImports
<1>6. exper' \in [Nodes -> Inputs]
  BY <1>1, <1>5
<1>7. ProjectOK'
  <2>1. store' \in Stores /\ store'.active = 0 /\ store'.seq = 1
    BY <1>4, <1>5
  <2>2. store'.active < store'.seq /\ store'.seq <= MaxNode + 1
    BY <1>3, <2>1
  <2>. QED  BY <1>5, <1>6, <2>1, <2>2 DEF Inv, ProjectOK, ModelsComeFromParents
<1>8. store'.active # None /\ Imported.active # None
  BY <1>3, <1>4, <1>5, Numbers
<1>9. ses = Clean(Imported.active, Imported)
  BY <1>4, Zenon
<1>. HIDE DEF ses
<1>10. /\ ses \in Sessions /\ Fresh(ses, Imported.active)
       /\ ses.base = ses.src.node /\ VersionOf(Imported) \in Versions
  BY <1>4, <1>8, <1>9, CleanIsFresh
<1>11. Fresh(ses, store'.active)
  BY <1>5, <1>10, Zenon
<1>12. /\ session' = [session EXCEPT ![p] = ses]
       /\ loaded' = [loaded EXCEPT ![p] = VersionOf(Imported)]
       /\ VersionOf(Imported) \in Maybe(Versions)
  BY <1>10 DEF InvokeImports, Maybe, ses
<1>13. /\ holder' = p /\ cancel' = FALSE
       /\ entry' = [store |-> store', inputs |-> inputs']
       /\ stack' = <<NewFrame(k, store', inputs')>>
  BY <1>5, Zenon DEF InvokeImports
<1>. QED  BY <1>5, <1>7, <1>8, <1>10, <1>11, <1>12, <1>13, BeginKeeps

LEMMA InvokeFailsKeeps ==
  ASSUME Inv, NEW p \in Procs, InvokeFails(p)
  PROVE  Inv'
<1>1. /\ holder = None /\ stack = <<>>
      /\ session' = [session EXCEPT ![p] = None]
      /\ loaded' = [loaded EXCEPT ![p] = None]
      /\ UNCHANGED <<projectVars, stack, callVars, edits>>
  BY DEF InvokeFails
<1>2. ProjectOK'
  BY <1>1 DEF Inv, ProjectOK, projectVars, ModelsComeFromParents
<1>3. CallOK'
  BY <1>1, CallGoesOn DEF InvokeFails, callVars, Inv, CallOK
<1>4. RevisionIdentifies' /\ FailedLeavesNoTrace' /\ InputsFollowCommits'
  BY <1>1 DEF Inv, RevisionIdentifies, FailedLeavesNoTrace, InputsFollowCommits,
              Clear, Idle, callVars, projectVars
<1>5. None \in Maybe(Sessions) /\ None \in Maybe(Versions)
  BY DEF Maybe
<1>6. holder' = None /\ stack' = <<>>
  BY <1>1 DEF callVars
<1>. QED  BY <1>1, <1>2, <1>3, <1>4, <1>5, <1>6, Ending

LEMMA InvokeNestedKeeps ==
  ASSUME Inv, NEW p \in Procs, InvokeNested(p)
  PROVE  Inv'
<1>. DEFINE f == NewFrame("model", store, inputs)
            ses == NestedSession(p)
<1>1. /\ holder = p /\ Depth = 1 /\ Top.kind = "compound" /\ Top.step = "body"
      /\ Top.phase = "cut" /\ StackOK /\ ProjectOK
  BY DEF InvokeNested, Running, Inv
<1>2. /\ Top \in Frames /\ Framed(Top, store, inputs, exper)
      /\ Bottom(Top, store, inputs, entry)
      /\ store.active # None
  BY <1>1, StackFrames
<1>3. store \in Stores /\ inputs \in Inputs /\ store.active < store.seq
  BY <1>1, <1>2 DEF ProjectOK
<1>4. "model" \in Kinds
  BY <1>1, <1>2, FrameFields, KindsAssumption
<1>5. /\ f \in Frames
      /\ f.kind = "model" /\ f.step = "body" /\ f.phase = "start"
      /\ Framed(f, store, inputs, exper)
  <2>1. PICK k \in Kinds : k = "model"
    BY <1>4
  <2>2. /\ NewFrame(k, store, inputs) \in Frames
        /\ NewFrame(k, store, inputs).kind = k
        /\ NewFrame(k, store, inputs).step = "body"
        /\ NewFrame(k, store, inputs).phase = "start"
        /\ Framed(NewFrame(k, store, inputs), store, inputs, exper)
    <3>1. store.active # None /\ store.active < store.seq
      BY <1>2, <1>3
    <3>2. store \in Stores /\ inputs \in Inputs
      BY <1>3
    <3>. HIDE DEF f
    <3>3. /\ NewFrame(k, store, inputs) \in Frames
          /\ NewFrame(k, store, inputs).kind = k
          /\ NewFrame(k, store, inputs).step = "body"
          /\ NewFrame(k, store, inputs).phase = "start"
          /\ Framed(NewFrame(k, store, inputs), store, inputs, exper)
          /\ Bottom(NewFrame(k, store, inputs), store, inputs,
                    [store |-> store, inputs |-> inputs])
      BY <3>1, <3>2, FrameBegins
    <3>. QED  BY <3>3
  <2>3. f = NewFrame(k, store, inputs)
    BY <2>1
  <2>. HIDE DEF f
  <2>. QED  BY <2>1, <2>2, <2>3
<1>6. ses \in Sessions /\ ses.base = ses.src.node
  <2>1. CASE session[p] = None \/ session[p].src.node # store.active
    <3>1. ses = Clean(store.active, store)
      BY <2>1 DEF NestedSession
    <3>. QED  BY <1>2, <1>3, <3>1, CleanIsFresh
  <2>2. CASE ~(session[p] = None \/ session[p].src.node # store.active)
    <3>1. ses = Remembered(session[p], store)
      BY <2>2 DEF NestedSession
    <3>2. session[p] \in Sessions /\ session[p].base = store.active
      BY <2>2, MemoryFields
    <3>. QED  BY <1>3, <2>2, <3>1, <3>2, RememberedSession, StoreFields
  <2>. QED  BY <2>1, <2>2
<1>7. /\ session' = [session EXCEPT ![p] = ses]
      /\ loaded' = [loaded EXCEPT ![p] = VersionOf(store)]
      /\ stack' = <<f>> \o stack
      /\ UNCHANGED <<projectVars, callVars, edits, faults>>
  BY DEF InvokeNested
<1>. HIDE DEF f, ses
<1>8. /\ stack' \in Seq(Frames) /\ Len(stack') = 2
      /\ stack'[1] = f /\ stack'[2] = Top
  <2>1. stack \in Seq(Frames) /\ Len(stack) = 1
    BY <1>1 DEF StackOK, Depth
  <2>2. <<f>> \in Seq(Frames) /\ Len(<<f>>) = 1 /\ <<f>>[1] = f
    BY <1>5
  <2>3. PICK t \in Seq(Frames) : t = <<f>>
    BY <2>2
  <2>4. /\ t \o stack \in Seq(Frames) /\ Len(t \o stack) = 2
        /\ (t \o stack)[1] = t[1] /\ (t \o stack)[2] = stack[1]
    <3>1. Len(t) = 1
      BY <2>2, <2>3
    <3>2. 1 \in 1 .. 2 /\ 2 \in 1 .. 2 /\ ~(2 <= 1) /\ 1 <= 1 /\ 1 + 1 = 2 /\ 2 - 1 = 1
      OBVIOUS
    <3>3. /\ t \o stack \in Seq(Frames) /\ Len(t \o stack) = 1 + 1
          /\ \A i \in 1 .. 1 + 1 :
               (t \o stack)[i] = IF i <= 1 THEN t[i] ELSE stack[i - 1]
      BY <2>1, <3>1, ConcatProperties
    <3>. QED  BY <3>2, <3>3
  <2>. QED  BY <1>7, <2>2, <2>3, <2>4 DEF Top
<1>9. ProjectOK' /\ CallOK' /\ entry' = entry /\ holder' = p
      /\ store' = store /\ inputs' = inputs /\ exper' = exper
  BY <1>1, <1>7 DEF Inv, ProjectOK, CallOK, projectVars, callVars,
                    ModelsComeFromParents
<1>10. Worked(f, ses, store.active)
  BY <1>5, <1>6, NoSessionAssumption DEF Worked
<1>11. /\ stack'[1].kind = "model" /\ stack'[2].kind = "compound"
       /\ stack'[2].step = "body" /\ stack'[2].phase = "cut"
       /\ Framed(stack'[1], store', inputs', exper')
       /\ Framed(stack'[2], store', inputs', exper')
       /\ Bottom(stack'[2], store', inputs', entry')
       /\ Worked(stack'[1], ses, store'.active)
       /\ store'.active # None
  BY <1>1, <1>2, <1>5, <1>8, <1>9, <1>10, Zenon
<1>12. ses \in Maybe(Sessions) /\ VersionOf(store) \in Maybe(Versions)
  BY <1>3, <1>6, StoreFields DEF Maybe
<1>13. Len(stack') \in {1, 2} /\ ~(Len(stack') = 1)
  BY <1>8
<1>. QED  BY <1>1, <1>6, <1>7, <1>8, <1>9, <1>11, <1>12, <1>13, Working
-----------------------------------------------------------------------------
(* The commit.                                                             *)

(* The commit leaves every frame on the stack where it is and gives it a   *)
(* checkpoint, unless that fails.                                          *)
LEMMA CommitStack ==
  ASSUME StackOK, ProjectOK, Depth > 0, NEW bad,
         \A i \in 1 .. Depth : stack[i].undo # None,
         stack' = [Checkpointed(bad) EXCEPT ![1].ok = bad = {},
                                            ![1].step = "finish"]
  PROVE  /\ stack' \in Seq(Frames) /\ Len(stack') = Depth
         /\ \A i \in 1 .. Depth :
              /\ stack'[i].kind = stack[i].kind
              /\ stack'[i].before = stack[i].before
              /\ stack'[i].baseline = stack[i].baseline
              /\ stack'[i].phase = stack[i].phase
              /\ stack'[i].undo \in {stack[i].undo, inputs}
              /\ stack'[i].undo # None
              /\ stack'[i].valid => stack'[i].undo = inputs
              /\ i # 1 => stack'[i].step = stack[i].step
         /\ stack'[1].step = "finish"
<1>. DEFINE C(i) == [stack[i] EXCEPT !.undo = IF i \in bad THEN stack[i].undo
                                              ELSE inputs,
                                     !.valid = i \notin bad]
<1>1. Depth \in Nat /\ inputs \in Inputs /\ 1 \in 1 .. Depth
  BY StackShape DEF ProjectOK
<1>2. Checkpointed(bad) = [i \in 1 .. Depth |-> C(i)]
  BY DEF Checkpointed
<1>3. ASSUME NEW i \in 1 .. Depth
      PROVE  /\ C(i) \in Frames
             /\ C(i).phase = stack[i].phase /\ C(i).kind = stack[i].kind
             /\ C(i).step = stack[i].step
             /\ C(i).before = stack[i].before
             /\ C(i).baseline = stack[i].baseline
             /\ C(i).undo \in {stack[i].undo, inputs} /\ C(i).undo # None
             /\ C(i).valid => C(i).undo = inputs
  <2>1. PICK f \in Frames : f = stack[i]
    BY StackShape
  <2>2. PICK b \in BOOLEAN : b <=> i \in bad
    OBVIOUS
  <2>3. PICK ins \in Inputs : ins = inputs
    BY <1>1
  <2>4. PICK g : g = C(i)
    OBVIOUS
  <2>5. g = [f EXCEPT !.undo = IF b THEN f.undo ELSE ins, !.valid = ~b]
    BY <2>1, <2>2, <2>3, <2>4
  <2>6. f.undo # None /\ ins # None /\ ins \in Maybe(Inputs)
    BY <2>1, Numbers DEF Maybe
  <2>. HIDE DEF C
  <2>7. /\ g \in Frames
        /\ g.phase = f.phase /\ g.kind = f.kind /\ g.step = f.step
        /\ g.before = f.before /\ g.baseline = f.baseline
        /\ g.undo \in {f.undo, ins} /\ g.undo # None
    BY <2>5, <2>6 DEF Frames
  <2>8. g.valid => g.undo = ins
    BY <2>5 DEF Frames
  <2>. QED  BY <2>1, <2>3, <2>4, <2>7, <2>8
<1>. DEFINE g == [C(1) EXCEPT !.ok = bad = {}, !.step = "finish"]
<1>4. /\ g \in Frames
      /\ g.phase = C(1).phase /\ g.kind = C(1).kind /\ g.step = "finish"
      /\ g.before = C(1).before /\ g.baseline = C(1).baseline
      /\ g.undo = C(1).undo /\ g.valid = C(1).valid
  <2>1. PICK f \in Frames : f = C(1)
    BY <1>1, <1>3
  <2>2. g = [f EXCEPT !.ok = bad = {}, !.step = "finish"]
    BY <2>1
  <2>. HIDE DEF g, C
  <2>. QED  BY <2>1, <2>2 DEF Frames
<1>5. stack' = [i \in 1 .. Depth |-> IF i = 1 THEN g ELSE C(i)]
  BY <1>1, <1>2
<1>. HIDE DEF g, C
<1>6. PICK n \in Nat : n = Depth
  BY <1>1
<1>7. stack' \in Seq(Frames) /\ Len(stack') = Depth
  <2>1. \A i \in 1 .. n : (IF i = 1 THEN g ELSE C(i)) \in Frames
    BY <1>3, <1>4, <1>6
  <2>2. PICK t : t = stack'
    OBVIOUS
  <2>3. t = [i \in 1 .. n |-> IF i = 1 THEN g ELSE C(i)]
    BY <1>5, <1>6, <2>2
  <2>4. t \in [1 .. n -> Frames]
    BY <2>1, <2>3
  <2>5. t \in Seq(Frames) /\ Len(t) = n
    BY <2>4
  <2>. QED  BY <1>6, <2>2, <2>5
<1>8. ASSUME NEW i \in 1 .. Depth
      PROVE  stack'[i] = IF i = 1 THEN g ELSE C(i)
  BY <1>5
<1>9. ASSUME NEW i \in 1 .. Depth
      PROVE  /\ stack'[i].kind = stack[i].kind
             /\ stack'[i].before = stack[i].before
             /\ stack'[i].baseline = stack[i].baseline
             /\ stack'[i].phase = stack[i].phase
             /\ stack'[i].undo \in {stack[i].undo, inputs}
             /\ stack'[i].undo # None
             /\ stack'[i].valid => stack'[i].undo = inputs
             /\ i # 1 => stack'[i].step = stack[i].step
  <2>1. CASE i = 1
    <3>1. stack'[1] = g
      BY <1>8, <2>1
    <3>2. /\ C(1).phase = stack[1].phase /\ C(1).kind = stack[1].kind
          /\ C(1).before = stack[1].before
          /\ C(1).baseline = stack[1].baseline
          /\ C(1).undo \in {stack[1].undo, inputs} /\ C(1).undo # None
          /\ C(1).valid => C(1).undo = inputs
      BY <1>1, <1>3
    <3>3. g.valid => g.undo = inputs
      BY <1>4, <3>2
    <3>. QED  BY <1>4, <2>1, <3>1, <3>2, <3>3
  <2>2. CASE i # 1
    <3>1. stack'[i] = C(i)
      BY <1>8, <2>2
    <3>. QED  BY <1>3, <2>2, <3>1
  <2>. QED  BY <2>1, <2>2
<1>10. stack'[1].step = "finish"
  BY <1>1, <1>4, <1>8
<1>. QED  BY <1>7, <1>9, <1>10
(* The frames after a commit: the new node has the inputs as they are, the *)
(* baseline of a compound tool the same.                                   *)
LEMMA FrameCommits ==
  ASSUME NEW f \in Frames, NEW g \in Frames,
         NEW st \in Stores, NEW st2 \in Stores, NEW ins, NEW ex, NEW ex2,
         Framed(f, st, ins, ex), f.kind \in {"model", "compound"},
         f.kind = "compound" => f.phase = "cut",
         g.kind = f.kind, g.before = f.before, g.baseline = f.baseline,
         g.phase = f.phase, g.undo \in {f.undo, ins}, g.undo # None,
         g.valid => g.undo = ins,
         st2.active = st.seq, st2.seq = st.seq + 1, st2.rev = st.rev + 1,
         ex2[st.seq] = ins,
         \A n \in Nodes : n # st.seq => ex2[n] = ex[n]
  PROVE  Framed(g, st2, ins, ex2)
<1>1. /\ f.before.seq \in Nat /\ f.before.rev \in Nat
      /\ st.seq \in Nat /\ st.rev \in Nat
      /\ f.baseline \in Maybe(Nodes)
  BY FrameFields, StoreFields
<1>2. /\ f.before.seq <= st.seq /\ f.before.rev <= st.rev
      /\ f.before.active # None /\ f.before.active < f.before.seq
  BY DEF Framed
<1>3. /\ f.before.seq <= st2.seq /\ f.before.rev <= st2.rev
      /\ st2.rev # f.before.rev /\ st2.seq # f.before.seq
  BY <1>1, <1>2
<1>4. CASE f.kind = "model"
  <2>1. g.undo = ins
    BY <1>4 DEF Framed
  <2>. QED  BY <1>2, <1>3, <1>4, <2>1 DEF Framed
<1>5. CASE f.kind = "compound"
  <2>1. /\ f.baseline # None /\ f.baseline < st.seq /\ ins = ex[f.baseline]
    BY <1>5 DEF Framed, Diagnosing
  <2>0. f.baseline \in Nodes /\ f.baseline \in Nat
    BY <1>1, <2>1, Numbers DEF Maybe
  <2>2. f.baseline \in Nodes /\ f.baseline # st.seq /\ f.baseline < st2.seq
    BY <1>1, <2>1, <2>0
  <2>3. ex2[f.baseline] = ins
    BY <2>1, <2>2
  <2>4. Diagnosing(g, st2, ins, ex2)
    BY <1>5, <2>1, <2>2, <2>3 DEF Diagnosing
  <2>. QED  BY <1>2, <1>3, <1>5, <2>4 DEF Framed
<1>. QED  BY <1>4, <1>5

LEMMA CommitKeeps ==
  ASSUME Inv, NEW p \in Procs, Commit(p)
  PROVE  Inv'
<1>. DEFINE seq == store.seq
            ses == Clean(seq, store')
<1>1. /\ holder = p /\ Depth > 0 /\ Top.step = "commit"
      /\ StackOK /\ ProjectOK
  BY DEF Commit, Running, Inv
<1>2. /\ Top \in Frames /\ Framed(Top, store, inputs, exper)
      /\ Worked(Top, session[p], store.active)
      /\ Depth = 1 => Bottom(Top, store, inputs, entry)
      /\ Depth = 2 => /\ stack[2] \in Frames
                      /\ Framed(stack[2], store, inputs, exper)
                      /\ Bottom(stack[2], store, inputs, entry)
                      /\ stack[2].kind = "compound"
                      /\ stack[2].step = "body" /\ stack[2].phase = "cut"
      /\ store.active # None
  BY <1>1, StackFrames
<1>3. Top.kind = "model" /\ session[p] # None
  BY <1>1, <1>2 DEF Worked
<1>4. Depth = 1 \/ Depth = 2
  BY <1>1, StackShape
<1>5. /\ store \in Stores /\ exper \in [Nodes -> Inputs] /\ inputs \in Inputs
      /\ seq \in Nodes /\ store.rev \in Nat
      /\ parent \in [Nodes -> Maybe(Nodes)] /\ origin \in [Nodes -> Maybe(Nodes)]
      /\ store.active \in Nodes
  BY <1>1, <1>2, StoreFields, Numbers DEF ProjectOK, Commit, Nodes, Maybe
<1>6. /\ store' = CommittedStore
      /\ exper' = [exper EXCEPT ![seq] = inputs]
      /\ parent' = [parent EXCEPT ![seq] = store.active]
      /\ origin' = [origin EXCEPT ![seq] = session[p].base]
      /\ session' = [session EXCEPT ![p] = ses]
      /\ session[p].src = VersionOf(store)
      /\ UNCHANGED <<inputs, loaded, callVars, edits>>
  BY DEF Commit
<1>7. store' = [active |-> seq, branch |-> store.branch, seq |-> seq + 1,
                rev |-> store.rev + 1]
  <2>1. store = [active |-> store.active, branch |-> store.branch,
                 seq |-> store.seq, rev |-> store.rev]
    BY <1>5 DEF Stores
  <2>2. store' = [store EXCEPT !.active = seq, !.seq = seq + 1,
                               !.rev = store.rev + 1]
    BY <1>5, <1>6, <2>1 DEF CommittedStore
  <2>. QED  BY <2>1, <2>2
<1>8. /\ store' \in Stores /\ store'.active = seq /\ store'.seq = seq + 1
      /\ store'.rev = store.rev + 1
  BY <1>5, <1>7, Numbers, StoreFields DEF Stores, Maybe
<1>9. session[p].base = store.active /\ session[p].base \in Nodes
  BY <1>3, <1>5, <1>6, MemoryFields, StoreFields
<1>10. ProjectOK'
  <2>1. seq < seq + 1 /\ seq + 1 <= MaxNode + 1
    BY <1>5, Numbers DEF Nodes
  <2>2. /\ exper' \in [Nodes -> Inputs]
        /\ parent' \in [Nodes -> Maybe(Nodes)]
        /\ origin' \in [Nodes -> Maybe(Nodes)]
    BY <1>5, <1>6, <1>9 DEF Maybe
  <2>3. ModelsComeFromParents'
    <3>. SUFFICES ASSUME NEW n \in Nodes, parent'[n] # None
                  PROVE  origin'[n] = parent'[n]
      BY DEF ModelsComeFromParents
    <3>1. CASE n = seq
      BY <1>5, <1>6, <1>9, <3>1
    <3>2. CASE n # seq
      BY <1>1, <1>5, <1>6, <3>2 DEF ProjectOK, ModelsComeFromParents
    <3>. QED  BY <3>1, <3>2
  <2>. QED  BY <1>5, <1>6, <1>8, <2>1, <2>2, <2>3 DEF ProjectOK
<1>11. PICK bad \in SUBSET Undoable :
         /\ IF bad = {} THEN UNCHANGED faults ELSE MayFail
         /\ stack' = [Checkpointed(bad) EXCEPT ![1].ok = bad = {},
                                               ![1].step = "finish"]
  BY DEF Commit
<1>12. CallOK'
  <2>1. faults' = faults \/ MayFail
    BY <1>11
  <2>. QED  BY <1>6, <2>1, CallGoesOn DEF callVars, Inv, CallOK
<1>13. \A i \in 1 .. Depth : stack[i].undo # None
  <2>1. Top.undo # None
    BY <1>2, <1>3 DEF Framed
  <2>2. Depth = 2 => stack[2].undo # None
    BY <1>2 DEF Framed
  <2>3. \A i \in 1 .. Depth : i = 1 \/ (i = 2 /\ Depth = 2)
    BY <1>4
  <2>. QED  BY <2>1, <2>2, <2>3 DEF Top
<1>14. /\ stack' \in Seq(Frames) /\ Len(stack') = Depth
       /\ \A i \in 1 .. Depth :
            /\ stack'[i].kind = stack[i].kind
            /\ stack'[i].before = stack[i].before
            /\ stack'[i].baseline = stack[i].baseline
            /\ stack'[i].phase = stack[i].phase
            /\ stack'[i].undo \in {stack[i].undo, inputs}
            /\ stack'[i].undo # None
            /\ stack'[i].valid => stack'[i].undo = inputs
            /\ i # 1 => stack'[i].step = stack[i].step
       /\ stack'[1].step = "finish"
  BY <1>1, <1>11, <1>13, CommitStack
<1>15. /\ exper'[seq] = inputs
       /\ \A n \in Nodes : n # seq => exper'[n] = exper[n]
  BY <1>5, <1>6
<1>16. ASSUME NEW i \in 1 .. Depth,
              stack[i] \in Frames, Framed(stack[i], store, inputs, exper),
              stack[i].kind \in {"model", "compound"},
              stack[i].kind = "compound" => stack[i].phase = "cut"
       PROVE  Framed(stack'[i], store', inputs, exper')
  <2>1. stack'[i] \in Frames
    BY <1>4, <1>14
  <2>2. PICK f \in Frames : f = stack[i]
    BY <1>16
  <2>3. PICK g \in Frames : g = stack'[i]
    BY <2>1
  <2>4. PICK ex2 : ex2 = exper'
    OBVIOUS
  <2>5. /\ Framed(f, store, inputs, exper)
        /\ f.kind \in {"model", "compound"}
        /\ f.kind = "compound" => f.phase = "cut"
    BY <1>16, <2>2, Zenon
  <2>6. /\ g.kind = f.kind /\ g.before = f.before /\ g.baseline = f.baseline
        /\ g.phase = f.phase /\ g.undo \in {f.undo, inputs} /\ g.undo # None
        /\ g.valid => g.undo = inputs
    BY <1>14, <2>2, <2>3
  <2>7. ex2[store.seq] = inputs /\ \A n \in Nodes : n # store.seq => ex2[n] = exper[n]
    BY <1>15, <2>4
  <2>8. Framed(g, store', inputs, ex2)
    BY <1>5, <1>8, <2>5, <2>6, <2>7, FrameCommits
  <2>. QED  BY <2>3, <2>4, <2>8, Zenon
<1>17. Framed(stack'[1], store', inputs, exper')
  BY <1>2, <1>3, <1>4, <1>16 DEF Top
<1>18. Depth = 2 => Framed(stack'[2], store', inputs, exper')
  BY <1>2, <1>16
<1>19. ASSUME NEW i \in 1 .. Depth, stack[i] \in Frames,
              stack[i].kind # "derived",
              Framed(stack[i], store, inputs, exper),
              Bottom(stack[i], store, inputs, entry)
       PROVE  Bottom(stack'[i], store', inputs, entry)
  <2>1. /\ stack'[i].before = stack[i].before /\ stack'[i].kind = stack[i].kind
    BY <1>14
  <2>2. stack[i].before.seq \in Nat /\ stack[i].before.seq <= store.seq
    BY <1>19, FrameFields DEF Framed
  <2>3. store'.seq # stack'[i].before.seq
    <3>1. \A a, b \in Nat : a <= b => b + 1 # a
      OBVIOUS
    <3>2. store.seq \in Nat /\ store'.seq = store.seq + 1
      BY <1>5, <1>8, Numbers
    <3>3. store.seq + 1 # stack[i].before.seq
      BY <2>2, <3>1, <3>2
    <3>. QED  BY <2>1, <3>2, <3>3
  <2>4. stack[i].before = entry.store
    BY <1>19 DEF Bottom
  <2>. QED  BY <1>19, <2>1, <2>3, <2>4 DEF Bottom
<1>20. Depth = 1 => Bottom(stack'[1], store', inputs, entry)
  <2>. SUFFICES ASSUME Depth = 1  PROVE Bottom(stack'[1], store', inputs, entry)
    OBVIOUS
  <2>1. 1 \in 1 .. Depth
    OBVIOUS
  <2>2. /\ stack[1] \in Frames /\ stack[1].kind # "derived"
        /\ Framed(stack[1], store, inputs, exper)
        /\ Bottom(stack[1], store, inputs, entry)
    BY <1>2, <1>3 DEF Top
  <2>. QED  BY <1>19, <2>1, <2>2
<1>21. Depth = 2 => Bottom(stack'[2], store', inputs, entry)
  <2>. SUFFICES ASSUME Depth = 2  PROVE Bottom(stack'[2], store', inputs, entry)
    OBVIOUS
  <2>1. 2 \in 1 .. Depth
    OBVIOUS
  <2>. QED  BY <1>2, <1>19, <2>1
<1>22. /\ ses \in Sessions /\ Fresh(ses, seq) /\ ses.base = ses.src.node
  <2>1. /\ ses \in Sessions /\ ses.base = seq /\ ses.src = VersionOf(store')
        /\ ~ses.edited
    BY <1>5, <1>8, CleanSession
  <2>. HIDE DEF ses, seq
  <2>2. VersionOf(store').node = seq
    BY <1>8, StoreFields
  <2>3. ses.src.node = seq /\ ses # None
    BY <2>1, <2>2, NoSessionAssumption
  <2>. QED  BY <2>1, <2>3 DEF Fresh
<1>23. stack'[1].kind = "model" /\ stack'[1].step = "finish"
  BY <1>3, <1>4, <1>14 DEF Top
<1>24. Worked(stack'[1], ses, seq)
  BY <1>22, <1>23 DEF Worked, Fresh
<1>25. store'.active # None
  BY <1>5, <1>8, Numbers
<1>26. Depth = 2 => /\ stack'[2].kind = "compound" /\ stack'[2].step = "body"
                    /\ stack'[2].phase = "cut"
  BY <1>2, <1>14
<1>27. /\ inputs' = inputs /\ entry' = entry /\ holder' = p
       /\ loaded' = [loaded EXCEPT ![p] = loaded[p]]
       /\ loaded[p] \in Maybe(Versions)
  BY <1>1, <1>6, MemoryFields DEF callVars
<1>28. ses \in Maybe(Sessions) /\ (ses # None => ses.base = ses.src.node)
  BY <1>22 DEF Maybe
<1>29. Worked(stack'[1], ses, store'.active)
  BY <1>8, <1>24, Zenon
<1>30. /\ Framed(stack'[1], store', inputs', exper')
       /\ Depth = 2 => Framed(stack'[2], store', inputs', exper')
       /\ Depth = 1 => Bottom(stack'[1], store', inputs', entry')
       /\ Depth = 2 => Bottom(stack'[2], store', inputs', entry')
  BY <1>17, <1>18, <1>20, <1>21, <1>27, Zenon
<1>31. session' = [session EXCEPT ![p] = ses]
  BY <1>6
<1>32. stack' \in Seq(Frames) /\ Len(stack') = Depth /\ Len(stack') \in {1, 2}
  BY <1>4, <1>14
<1>. HIDE DEF ses, seq
<1>. QED
  BY <1>1, <1>10, <1>12, <1>23, <1>25, <1>26, <1>27, <1>28, <1>29, <1>30,
     <1>31, <1>32, Working
-----------------------------------------------------------------------------
(* Leaving a call.                                                         *)

(* A node committed during the call has the inputs as they are, and so has *)
(* an undo that did not lose its baseline.                                 *)
LEMMA CommittedFrame ==
  ASSUME NEW f \in Frames, NEW st \in Stores, NEW ins, NEW ex,
         Framed(f, st, ins, ex), st.seq > f.before.seq
  PROVE  /\ ins = ex[st.active]
         /\ f.undo # None
         /\ f.valid => f.undo = ins
<1>1. f.before.seq \in Nat /\ st.seq \in Nat
  BY FrameFields, StoreFields
<1>2. st.seq # f.before.seq /\ st # f.before
  BY <1>1
<1>3. f.kind \in {"model", "compound"}
  BY <1>2, FrameFields, KindsAssumption DEF Framed
<1>. QED  BY <1>2, <1>3 DEF Framed, Diagnosing

LEMMA TouchedStore ==
  ASSUME ProjectOK
  PROVE  /\ Touched \in Stores
         /\ Touched.active = store.active /\ Touched.branch = store.branch
         /\ Touched.seq = store.seq
         /\ Touches => Touched.rev = store.rev + 1
         /\ ~Touches => Touched = store
<1>1. store \in Stores /\ store.rev \in Nat
  BY StoreFields DEF ProjectOK
<1>2. store = [active |-> store.active, branch |-> store.branch,
               seq |-> store.seq, rev |-> store.rev]
  BY <1>1 DEF Stores
<1>3. CASE Touches
  <2>1. Touched = [store EXCEPT !.rev = store.rev + 1]
    BY <1>3 DEF Touched
  <2>2. Touched = [active |-> store.active, branch |-> store.branch,
                   seq |-> store.seq, rev |-> store.rev + 1]
    BY <1>2, <2>1
  <2>. QED  BY <1>1, <1>3, <2>2, StoreFields DEF Stores
<1>4. CASE ~Touches
  BY <1>1, <1>4 DEF Touched
<1>. QED  BY <1>3, <1>4

LEMMA UndoneProject ==
  ASSUME ProjectOK, StackOK, Depth > 0
  PROVE  /\ UndoneStore \in Stores
         /\ UndoneStore.seq = store.seq
         /\ UndoneStore.active # None /\ UndoneStore.active < store.seq
         /\ PointerMoved => /\ UndoneStore.active = Top.before.active
                            /\ UndoneStore.branch = Top.before.branch
                            /\ UndoneStore.rev = store.rev + 1
         /\ ~PointerMoved => UndoneStore = store
         /\ UndoneInputs \in Inputs
<1>1. store \in Stores /\ store.rev \in Nat /\ store.seq \in Nat
  BY StoreFields DEF ProjectOK
<1>2. store = [active |-> store.active, branch |-> store.branch,
               seq |-> store.seq, rev |-> store.rev]
  BY <1>1 DEF Stores
<1>3. /\ Top \in Frames /\ Framed(Top, store, inputs, exper)
      /\ store.active # None
  BY StackFrames
<1>4. /\ Top.before \in Stores /\ Top.before.seq \in Nat
      /\ Top.before.active # None
      /\ Top.before.active < Top.before.seq /\ Top.before.seq <= store.seq
      /\ Top.undo \in Maybe(Inputs)
  BY <1>3, FrameFields DEF Framed
<1>5. Top.before.active \in Nodes /\ Top.before.branch \in Branches
  BY <1>4, StoreFields DEF Maybe
<1>6. UndoneInputs \in Inputs
  BY <1>4 DEF UndoneInputs, Maybe, ProjectOK
<1>7. CASE PointerMoved
  <2>1. UndoneStore = [store EXCEPT !.active = Top.before.active,
                         !.branch = Top.before.branch, !.rev = store.rev + 1]
    BY <1>7 DEF UndoneStore
  <2>2. UndoneStore = [active |-> Top.before.active,
                       branch |-> Top.before.branch,
                       seq |-> store.seq, rev |-> store.rev + 1]
    BY <1>2, <2>1
  <2>3. Top.before.active < store.seq
    <3>1. \A a, b, c \in Nat : a < b /\ b <= c => a < c
      OBVIOUS
    <3>2. Top.before.active \in Nat
      BY <1>5, Numbers
    <3>. QED  BY <1>1, <1>4, <3>1, <3>2
  <2>4. UndoneStore \in Stores
    BY <1>1, <1>5, <2>2 DEF Stores, Maybe
  <2>. QED  BY <1>4, <1>6, <1>7, <2>2, <2>3, <2>4
<1>8. CASE ~PointerMoved
  <2>1. UndoneStore = store
    BY <1>8 DEF UndoneStore
  <2>2. store.active < store.seq
    BY <1>3 DEF ProjectOK
  <2>. QED  BY <1>1, <1>3, <1>6, <1>8, <2>1, <2>2
<1>. QED  BY <1>7, <1>8

(* A nested call never leaves anything to undo.                            *)
LEMMA NestedEnd ==
  ASSUME ProjectOK, StackOK, Depth = 2
  PROVE  UndoneInputs = inputs /\ UndoneStore = store /\ Touched = store
<1>1. /\ Top \in Frames /\ Framed(Top, store, inputs, exper)
      /\ Top.kind = "model"
  BY StackFrames
<1>2. /\ Top.undo = inputs /\ Top.before.seq <= store.seq
      /\ store.seq = Top.before.seq => store = Top.before
  BY <1>1 DEF Framed
<1>3. Top.before.seq \in Nat /\ store.seq \in Nat
  BY <1>1, FrameFields, StoreFields DEF ProjectOK
<1>4. ~PointerMoved
  BY <1>2, <1>3 DEF PointerMoved, Committed
<1>. QED  BY <1>2, <1>4 DEF UndoneInputs, UndoneStore, Touched, Touches

LEMMA SameProjectSeq ==
  ASSUME ProjectOK, UNCHANGED <<exper, parent, origin>>, inputs' \in Inputs,
         store' \in Stores, store'.seq = store.seq,
         store'.active # None => store'.active < store.seq
  PROVE  ProjectOK'
BY DEF ProjectOK, ModelsComeFromParents

(* The outermost call ends.                                                *)
LEMMA CallEnds ==
  ASSUME Inv, NEW p \in Procs, holder = p, Depth = 1,
         NEW ok \in BOOLEAN, NEW rec \in BOOLEAN, Pop(ok, rec),
         ProjectOK', exper' = exper, edits' = edits,
         faults' = faults \/ MayFail,
         NEW ses \in Maybe(Sessions), NEW ld \in Maybe(Versions),
         session' = [session EXCEPT ![p] = ses],
         loaded' = [loaded EXCEPT ![p] = ld],
         ses # None =>
           ses.base = ses.src.node /\ ld = ses.src /\ ~ses.edited,
         ~rec /\ store'.rev = entry.store.rev =>
           store' = entry.store /\ inputs' = entry.inputs,
         ~rec /\ ~ok /\ ~Committed =>
           /\ store'.active = entry.store.active
           /\ store'.branch = entry.store.branch
           /\ inputs' = entry.inputs,
         ~rec /\ Committed => inputs' = exper[store'.active]
  PROVE  Inv'
<1>1. /\ stack' = <<>> /\ holder' = None /\ cancel' = FALSE /\ entry' = entry
      /\ outcome' = [ok |-> ok, cancelled |-> cancel, recovery |-> rec,
                     kind |-> Top.kind, committed |-> Committed,
                     baseline |-> Top.baseline]
  BY DEF Pop
<1>2. StackOK
  BY DEF Inv
<1>3. Top \in Frames
  BY <1>2, StackFrames
<1>4. /\ outcome'.ok = ok /\ outcome'.recovery = rec
      /\ outcome'.committed = Committed
  BY <1>1
<1>5. CallOK'
  <2>1. Committed \in BOOLEAN
    BY DEF Committed
  <2>2. cancel \in BOOLEAN
    BY DEF Inv, CallOK
  <2>3. outcome' \in Outcomes
    BY <1>1, <1>3, <2>1, <2>2, FrameFields DEF Outcomes, Maybe
  <2>4. faults' \in 0 .. MaxFaults
    BY Numbers DEF MayFail, Inv, CallOK
  <2>. QED  BY <1>1, <2>3, <2>4 DEF Inv, CallOK, Maybe
<1>6. RevisionIdentifies'
  BY <1>1, <1>4 DEF RevisionIdentifies, Clear
<1>7. FailedLeavesNoTrace'
  BY <1>1, <1>4 DEF FailedLeavesNoTrace, Clear
<1>8. InputsFollowCommits'
  BY <1>1, <1>4 DEF InputsFollowCommits, Clear
<1>9. holder \in {None, p}
  OBVIOUS
<1>. QED  BY <1>1, <1>5, <1>6, <1>7, <1>8, <1>9, Ending
(* A nested call ends; the compound tool goes on.                          *)
LEMMA NestedEnds ==
  ASSUME Inv, NEW p \in Procs, holder = p, Depth = 2,
         NEW ok \in BOOLEAN, NEW rec \in BOOLEAN, Pop(ok, rec),
         UNCHANGED projectVars, edits' = edits, faults' = faults \/ MayFail,
         NEW ses \in Maybe(Sessions), NEW ld \in Maybe(Versions),
         session' = [session EXCEPT ![p] = ses],
         loaded' = [loaded EXCEPT ![p] = ld],
         ses # None => ses.base = ses.src.node
  PROVE  Inv'
<1>1. /\ stack' = [Tail(stack) EXCEPT ![1].phase = IF ok THEN @ ELSE "ready"]
      /\ UNCHANGED callVars
  BY DEF Pop
<1>2. StackOK /\ ProjectOK
  BY DEF Inv
<1>3. /\ stack[2] \in Frames
      /\ Framed(stack[2], store, inputs, exper)
      /\ Bottom(stack[2], store, inputs, entry)
      /\ stack[2].kind = "compound"
      /\ stack[2].step = "body" /\ stack[2].phase = "cut"
      /\ store.active # None
  BY <1>2, StackFrames
<1>4. PICK f \in Frames : f = stack[2]
  BY <1>3
<1>5. PICK t : t = Tail(stack) /\ t = <<f>>
  <2>1. stack \in Seq(Frames) /\ Len(stack) = 2
    BY <1>2 DEF StackOK, Depth
  <2>2. Tail(stack) = <<stack[2]>>
    BY <2>1, TailOfTwo
  <2>. QED  BY <1>4, <2>2
<1>6. PICK ph \in Phases \ {"start", "failed", "done", "restoring"} :
        ph = IF ok THEN f.phase ELSE "ready"
  BY <1>3, <1>4 DEF Phases
<1>. DEFINE g == [f EXCEPT !.phase = ph]
<1>7. /\ g \in Frames /\ g.phase = ph /\ g.kind = f.kind /\ g.step = f.step
      /\ g.before = f.before /\ g.undo = f.undo /\ g.valid = f.valid
      /\ g.baseline = f.baseline
  BY PhasedFrame
<1>8. stack' = <<g>>
  <2>1. stack' = [t EXCEPT ![1].phase = IF ok THEN t[1].phase ELSE "ready"]
    BY <1>1, <1>5
  <2>2. stack' = <<[f EXCEPT !.phase = IF ok THEN f.phase ELSE "ready"]>>
    BY <1>5, <2>1
  <2>. QED  BY <1>6, <2>2
<1>. HIDE DEF g
<1>9. stack' \in Seq(Frames) /\ Len(stack') = 1 /\ stack'[1] = g
  BY <1>7, <1>8
<1>10. SameCall(f, g)
  BY <1>7 DEF SameCall
<1>11. f.baseline # None
  BY <1>3, <1>4 DEF Framed, Diagnosing
<1>12. Framed(g, store, inputs, exper)
  <2>1. Framed(f, store, inputs, exper)
    BY <1>3, <1>4, Zenon
  <2>2. g.phase # "start"
    BY <1>7
  <2>. QED  BY <1>7, <1>10, <1>11, <2>1, <2>2, FrameGoesOn
<1>13. Bottom(g, store, inputs, entry)
  <2>1. Bottom(f, store, inputs, entry)
    BY <1>3, <1>4, Zenon
  <2>. QED  BY <1>10, <2>1, BottomGoesOn
<1>14. Worked(g, ses, store.active)
  BY <1>3, <1>4, <1>7 DEF Worked
<1>15. /\ store' = store /\ inputs' = inputs /\ exper' = exper
       /\ entry' = entry /\ holder' = p
  BY <1>1 DEF projectVars, callVars
<1>16. ProjectOK'
  BY <1>2 DEF ProjectOK, projectVars, ModelsComeFromParents
<1>17. CallOK'
  <2>1. faults' \in 0 .. MaxFaults
    BY Numbers DEF MayFail, Inv, CallOK
  <2>. QED  BY <1>1, <2>1 DEF Inv, CallOK, callVars
<1>18. /\ Framed(stack'[1], store', inputs', exper')
       /\ Bottom(stack'[1], store', inputs', entry')
       /\ Worked(stack'[1], ses, store'.active)
       /\ store'.active # None
  BY <1>3, <1>9, <1>12, <1>13, <1>14, <1>15, Zenon
<1>19. Len(stack') \in {1, 2} /\ ~(Len(stack') = 2)
  BY <1>9
<1>. QED  BY <1>9, <1>15, <1>16, <1>17, <1>18, <1>19, Working
(* What an ending call knows.                                              *)
LEMMA EndFacts ==
  ASSUME Inv, NEW p \in Procs, Running(p, "finish")
  PROVE  /\ holder = p /\ Depth \in {1, 2} /\ StackOK /\ ProjectOK
         /\ Top \in Frames /\ Framed(Top, store, inputs, exper)
         /\ Worked(Top, session[p], store.active)
         /\ Depth = 1 => Bottom(Top, store, inputs, entry)
         /\ store.active \in Nodes /\ store.active < store.seq
         /\ store.seq \in Nat /\ store.rev \in Nat
         /\ Top.before.seq \in Nat /\ Top.before.rev \in Nat
         /\ Top.before.seq <= store.seq
         /\ Top.before.rev <= store.rev
<1>1. holder = p /\ Depth > 0 /\ StackOK /\ ProjectOK
  BY DEF Running, Inv
<1>2. /\ Top \in Frames /\ Framed(Top, store, inputs, exper)
      /\ Worked(Top, session[p], store.active)
      /\ Depth = 1 => Bottom(Top, store, inputs, entry)
      /\ store.active # None
  BY <1>1, StackFrames
<1>3. Depth \in {1, 2}
  BY <1>1, StackShape
<1>4. /\ store \in Stores /\ store.active < store.seq
  BY <1>1, <1>2 DEF ProjectOK
<1>5. /\ store.active \in Nodes /\ store.seq \in Nat /\ store.rev \in Nat
  BY <1>2, <1>4, StoreFields DEF Maybe
<1>6. /\ Top.before.seq \in Nat /\ Top.before.rev \in Nat
      /\ Top.before.seq <= store.seq
      /\ Top.before.rev <= store.rev
  BY <1>2, FrameFields DEF Framed
<1>. QED  BY <1>1, <1>2, <1>3, <1>4, <1>5, <1>6

LEMMA FinishKeeps ==
  ASSUME Inv, NEW p \in Procs, Finish(p)
  PROVE  Inv'
<1>. DEFINE ses == Remembered(session[p], store')
<1>1. /\ Running(p, "finish") /\ ~Failed /\ store' = Touched
      /\ loaded' = [loaded EXCEPT ![p] = VersionOf(store')]
      /\ Pop(TRUE, FALSE)
      /\ UNCHANGED <<inputs, exper, parent, origin, edits, faults>>
  BY DEF Finish
<1>2. /\ holder = p /\ Depth \in {1, 2} /\ StackOK /\ ProjectOK
      /\ Top \in Frames /\ Framed(Top, store, inputs, exper)
      /\ Worked(Top, session[p], store.active)
      /\ Depth = 1 => Bottom(Top, store, inputs, entry)
      /\ store.active \in Nodes /\ store.active < store.seq
      /\ store.seq \in Nat /\ store.rev \in Nat
      /\ Top.before.seq \in Nat /\ Top.before.rev \in Nat
      /\ Top.before.seq <= store.seq
      /\ Top.before.rev <= store.rev
  BY <1>1, EndFacts
<1>3. /\ store' \in Stores /\ store'.active = store.active
      /\ store'.seq = store.seq
      /\ Touches => store'.rev = store.rev + 1
      /\ ~Touches => store' = store
  BY <1>1, <1>2, TouchedStore
<1>4. Fresh(session[p], store.active)
  BY <1>1, <1>2 DEF Worked, Failed, Running
<1>5. session' = [session EXCEPT ![p] = ses]
  <2>1. session' = [session EXCEPT ![p] = Remembered(@, store')]
    BY DEF Finish
  <2>. QED  BY <2>1, MemoryFields
<1>6. /\ ses \in Sessions /\ ses.base = store.active
      /\ ses.src = VersionOf(store') /\ ~ses.edited
  <2>1. session[p] \in Sessions /\ session[p] # None
    BY <1>4, MemoryFields DEF Fresh
  <2>. QED  BY <1>3, <1>4, <2>1, RememberedSession DEF Fresh
<1>7. VersionOf(store').node = store.active /\ VersionOf(store') \in Versions
  BY <1>3, StoreFields
<1>. HIDE DEF ses
<1>8. /\ ses \in Maybe(Sessions) /\ VersionOf(store') \in Maybe(Versions)
      /\ ses # None => /\ ses.base = ses.src.node
                       /\ VersionOf(store') = ses.src /\ ~ses.edited
  BY <1>6, <1>7 DEF Maybe
<1>9. ProjectOK'
  <2>1. inputs' \in Inputs /\ store'.active < store.seq
    BY <1>1, <1>2, <1>3 DEF ProjectOK
  <2>. QED  BY <1>1, <1>2, <1>3, <2>1, SameProjectSeq
<1>10. CASE Depth = 2
  <2>1. UNCHANGED projectVars
    BY <1>1, <1>2, <1>10, NestedEnd DEF projectVars
  <2>2. TRUE \in BOOLEAN /\ FALSE \in BOOLEAN
    OBVIOUS
  <2>. QED  BY <1>1, <1>2, <1>5, <1>8, <1>10, <2>1, <2>2, NestedEnds
<1>11. CASE Depth = 1
  <2>1. Bottom(Top, store, inputs, entry)
    BY <1>2, <1>11
  <2>2. ASSUME store'.rev = entry.store.rev
        PROVE  store' = entry.store /\ inputs' = entry.inputs
    <3>1. Top.before = entry.store
      BY <2>1 DEF Bottom
    <3>2. ~Touches
      <4>. SUFFICES ASSUME Touches  PROVE FALSE
        OBVIOUS
      <4>1. store'.rev = store.rev + 1 /\ store'.rev = Top.before.rev
        BY <1>3, <2>2, <3>1
      <4>. QED  BY <1>2, <4>1
    <3>3. store' = store /\ store = Top.before
      <4>1. store' = store
        BY <1>3, <3>2
      <4>2. store.rev = Top.before.rev
        BY <2>2, <3>1, <4>1
      <4>. QED  BY <1>2, <4>1, <4>2 DEF Framed
    <3>4. Top.undo = None \/ inputs = Top.undo
      BY <3>2, <3>3 DEF Touches
    <3>5. store.seq = Top.before.seq
      BY <3>3
    <3>6. inputs = entry.inputs
      BY <1>2, <2>1, <3>4, <3>5 DEF Bottom, Framed
    <3>. QED  BY <1>1, <3>1, <3>3, <3>6
  <2>3. ASSUME Committed  PROVE inputs' = exper[store'.active]
    <3>1. store \in Stores /\ store.seq > Top.before.seq
      BY <1>2, <2>3 DEF Committed, ProjectOK
    <3>2. inputs = exper[store.active]
      BY <1>2, <3>1, CommittedFrame
    <3>. QED  BY <1>1, <1>3, <3>2
  <2>4. TRUE \in BOOLEAN /\ FALSE \in BOOLEAN
    OBVIOUS
  <2>5. exper' = exper /\ edits' = edits /\ faults' = faults
    BY <1>1
  <2>. QED  BY <1>1, <1>2, <1>5, <1>8, <1>9, <1>11, <2>2, <2>3, <2>4, <2>5, CallEnds
<1>. QED  BY <1>2, <1>10, <1>11
LEMMA FinishFailedKeeps ==
  ASSUME Inv, NEW p \in Procs, FinishFailed(p)
  PROVE  Inv'
<1>1. /\ Running(p, "finish") /\ Failed
      /\ Top.undo # None => Top.valid
      /\ inputs' = UndoneInputs /\ store' = UndoneStore
      /\ loaded' = [loaded EXCEPT ![p] = VersionOf(store')]
      /\ Pop(FALSE, FALSE)
      /\ UNCHANGED <<exper, parent, origin, edits, faults>>
  BY DEF FinishFailed
<1>2. /\ holder = p /\ Depth \in {1, 2} /\ StackOK /\ ProjectOK
      /\ Top \in Frames /\ Framed(Top, store, inputs, exper)
      /\ Worked(Top, session[p], store.active)
      /\ Depth = 1 => Bottom(Top, store, inputs, entry)
      /\ store.active \in Nodes /\ store.active < store.seq
      /\ store.seq \in Nat /\ store.rev \in Nat
      /\ Top.before.seq \in Nat /\ Top.before.rev \in Nat
      /\ Top.before.seq <= store.seq
      /\ Top.before.rev <= store.rev
  BY <1>1, EndFacts
<1>3. /\ store' \in Stores /\ store'.seq = store.seq
      /\ store'.active # None /\ store'.active < store.seq
      /\ PointerMoved => /\ store'.active = Top.before.active
                         /\ store'.branch = Top.before.branch
                         /\ store'.rev = store.rev + 1
      /\ ~PointerMoved => store' = store
      /\ inputs' \in Inputs
  <2>1. Depth > 0
    BY <1>2
  <2>. QED  BY <1>1, <1>2, <2>1, UndoneProject
<1>4. ProjectOK'
  BY <1>1, <1>2, <1>3, SameProjectSeq
<1>5. VersionOf(store') \in Versions /\ VersionOf(store').node = store'.active
  BY <1>3, StoreFields
<1>6. PICK ses \in RebuiltSessions(p) : session' = [session EXCEPT ![p] = ses]
  BY DEF FinishFailed
<1>7. Top.kind = "derived" => ~PointerMoved
  BY <1>2 DEF Framed, PointerMoved
<1>8. /\ ses \in Maybe(Sessions)
      /\ ses # None => /\ ses.base = ses.src.node
                       /\ VersionOf(store') = ses.src /\ ~ses.edited
  <2>1. CASE ses = None
    BY <2>1 DEF Maybe
  <2>2. CASE ses = Clean(store'.active, store')
    <3>1. /\ ses \in Sessions /\ ~ses.edited
          /\ ses.base = ses.src.node /\ ses.src = VersionOf(store')
      BY <1>3, <2>2, CleanIsFresh DEF Fresh
    <3>. QED  BY <3>1 DEF Maybe
  <2>3. CASE Top.kind = "derived" /\ ses = Remembered(session[p], store)
    <3>1. Fresh(session[p], store.active) /\ store' = store
      BY <1>2, <1>3, <1>7, <2>3 DEF Worked
    <3>2. session[p] \in Sessions /\ session[p] # None
      BY <3>1, MemoryFields DEF Fresh
    <3>3. store \in Stores
      BY <1>2 DEF ProjectOK
    <3>4. /\ ses \in Sessions /\ ses.base = store.active
          /\ ses.src = VersionOf(store) /\ ~ses.edited
      BY <2>3, <3>1, <3>2, <3>3, RememberedSession DEF Fresh
    <3>. QED  BY <1>5, <3>1, <3>4 DEF Maybe
  <2>4. CASE Top.kind = "derived"
    <3>1. store' = store
      BY <1>3, <1>7, <2>4
    <3>. QED  BY <1>6, <2>1, <2>2, <2>3, <2>4, <3>1 DEF RebuiltSessions
  <2>5. CASE Top.kind # "derived"
    BY <1>1, <1>6, <2>1, <2>2, <2>5 DEF RebuiltSessions
  <2>. QED  BY <2>4, <2>5
<1>9. VersionOf(store') \in Maybe(Versions)
  BY <1>5 DEF Maybe
<1>10. FALSE \in BOOLEAN /\ exper' = exper /\ edits' = edits /\ faults' = faults
  BY <1>1
<1>11. CASE Depth = 2
  <2>1. UNCHANGED projectVars
    BY <1>1, <1>2, <1>11, NestedEnd DEF projectVars
  <2>. QED  BY <1>1, <1>2, <1>6, <1>8, <1>9, <1>10, <1>11, <2>1, NestedEnds
<1>12. CASE Depth = 1
  <2>1. Bottom(Top, store, inputs, entry) /\ Top.before = entry.store
    BY <1>2, <1>12 DEF Bottom
  <2>2. ASSUME store.seq = Top.before.seq
        PROVE  inputs' = entry.inputs
    <3>1. CASE Top.kind = "derived"
      BY <1>1, <1>2, <2>1, <3>1 DEF Bottom, Framed, UndoneInputs
    <3>2. CASE Top.kind # "derived"
      BY <1>1, <1>2, <2>1, <2>2, <3>2 DEF Bottom, Framed, UndoneInputs
    <3>. QED  BY <3>1, <3>2
  <2>3. ASSUME store'.rev = entry.store.rev
        PROVE  store' = entry.store /\ inputs' = entry.inputs
    <3>1. ~PointerMoved
      <4>. SUFFICES ASSUME PointerMoved  PROVE FALSE
        OBVIOUS
      <4>1. store'.rev = store.rev + 1 /\ store'.rev = Top.before.rev
        BY <1>3, <2>1, <2>3
      <4>. QED  BY <1>2, <4>1
    <3>2. store' = store
      BY <1>3, <3>1
    <3>3. store = Top.before
      BY <1>2, <2>1, <2>3, <3>2 DEF Framed
    <3>4. inputs' = entry.inputs
      BY <2>2, <3>3
    <3>. QED  BY <2>1, <3>2, <3>3, <3>4
  <2>4. ASSUME ~Committed
        PROVE  /\ store'.active = entry.store.active
               /\ store'.branch = entry.store.branch
               /\ inputs' = entry.inputs
    <3>1. store.seq = Top.before.seq
      BY <1>2, <2>4 DEF Committed
    <3>2. /\ store'.active = Top.before.active
          /\ store'.branch = Top.before.branch
      BY <1>3, <2>4 DEF PointerMoved
    <3>. QED  BY <2>1, <2>2, <3>1, <3>2
  <2>5. ASSUME Committed
        PROVE  inputs' = exper[store'.active]
    <3>1. store \in Stores /\ store.seq > Top.before.seq
      BY <1>2, <2>5 DEF Committed, ProjectOK
    <3>2. /\ inputs = exper[store.active] /\ Top.undo # None
          /\ Top.valid => Top.undo = inputs
      BY <1>2, <3>1, CommittedFrame
    <3>3. store' = store
      BY <1>3, <2>5 DEF PointerMoved
    <3>. QED  BY <1>1, <3>2, <3>3 DEF UndoneInputs
  <2>. QED
    BY <1>1, <1>2, <1>4, <1>6, <1>8, <1>9, <1>10, <1>12, <2>3, <2>4, <2>5, CallEnds
<1>. QED  BY <1>2, <1>11, <1>12

LEMMA FinishRaisesKeeps ==
  ASSUME Inv, NEW p \in Procs, FinishRaises(p)
  PROVE  Inv'
<1>1. /\ Running(p, "finish")
      /\ session' = [session EXCEPT ![p] = None]
      /\ loaded' = [loaded EXCEPT ![p] = None]
      /\ Pop(FALSE, TRUE)
      /\ UNCHANGED <<exper, parent, origin, edits>>
  BY DEF FinishRaises
<1>2. /\ inputs' \in {inputs, UndoneInputs}
      /\ store' \in {store, UndoneStore, Touched}
      /\ faults' = faults \/ MayFail
  BY DEF FinishRaises
<1>3. /\ holder = p /\ Depth \in {1, 2} /\ StackOK /\ ProjectOK
      /\ store.active < store.seq
  BY <1>1, EndFacts
<1>4. /\ UndoneStore \in Stores /\ UndoneStore.seq = store.seq
      /\ UndoneStore.active < store.seq
      /\ UndoneInputs \in Inputs
  <2>1. Depth > 0
    BY <1>3
  <2>. QED  BY <1>3, <2>1, UndoneProject
<1>5. /\ Touched \in Stores /\ Touched.seq = store.seq
      /\ Touched.active < store.seq
  BY <1>3, TouchedStore
<1>6. /\ inputs' \in Inputs /\ store' \in Stores /\ store'.seq = store.seq
      /\ store'.active < store.seq
  BY <1>2, <1>3, <1>4, <1>5 DEF ProjectOK
<1>7. ProjectOK'
  BY <1>1, <1>3, <1>6, SameProjectSeq
<1>8. /\ None \in Maybe(Sessions) /\ None \in Maybe(Versions)
      /\ TRUE \in BOOLEAN /\ FALSE \in BOOLEAN
      /\ exper' = exper /\ edits' = edits
  BY <1>1 DEF Maybe
<1>9. CASE Depth = 2
  <2>1. UNCHANGED projectVars
    BY <1>1, <1>2, <1>3, <1>9, NestedEnd DEF projectVars
  <2>. QED  BY <1>1, <1>2, <1>3, <1>8, <1>9, <2>1, NestedEnds
<1>10. CASE Depth = 1
  BY <1>1, <1>2, <1>3, <1>7, <1>8, <1>10, CallEnds
<1>. QED  BY <1>3, <1>9, <1>10

LEMMA CrashKeeps ==
  ASSUME Inv, NEW p \in Procs, Crash(p)
  PROVE  Inv'
<1>1. /\ holder = p
      /\ session' = [session EXCEPT ![p] = None]
      /\ loaded' = [loaded EXCEPT ![p] = None]
      /\ stack' = <<>> /\ holder' = None /\ cancel' = FALSE
      /\ outcome' = [outcome EXCEPT !.ok = FALSE, !.cancelled = FALSE,
                                    !.recovery = TRUE, !.kind = None,
                                    !.committed = FALSE, !.baseline = None]
      /\ UNCHANGED <<projectVars, entry, edits>>
      /\ MayFail
  BY DEF Crash
<1>2. outcome \in Outcomes
  BY DEF Inv, CallOK
<1>3. outcome' \in Outcomes /\ outcome'.recovery = TRUE
  BY <1>1, <1>2 DEF Outcomes, Maybe
<1>4. CallOK'
  <2>1. faults' \in 0 .. MaxFaults
    BY <1>1, Numbers DEF MayFail, Inv, CallOK
  <2>. QED  BY <1>1, <1>3, <2>1 DEF Inv, CallOK, Maybe
<1>5. ProjectOK'
  BY <1>1 DEF Inv, ProjectOK, projectVars, ModelsComeFromParents
<1>6. RevisionIdentifies' /\ FailedLeavesNoTrace' /\ InputsFollowCommits'
  BY <1>3 DEF RevisionIdentifies, FailedLeavesNoTrace, InputsFollowCommits,
              Clear
<1>7. None \in Maybe(Sessions) /\ None \in Maybe(Versions) /\ holder \in {None, p}
  BY <1>1 DEF Maybe
<1>. QED  BY <1>1, <1>4, <1>5, <1>6, <1>7, Ending

-----------------------------------------------------------------------------
(* The theorems.                                                           *)

LEMMA NextInv ==
  ASSUME Inv, [Next]_vars
  PROVE  Inv'
<1>1. CASE UNCHANGED vars
  BY <1>1 DEF vars, projectVars, callVars, Inv, ProjectOK, MemoryOK, StackOK,
              CallOK, Seated, Stacked, Remembers, ModelsComeFromParents,
              RevisionIdentifies, FailedLeavesNoTrace, InputsFollowCommits,
              Clear, Idle, Depth
<1>2. ASSUME NEW p \in Procs, NEW k \in Kinds, Invoke(p, k)  PROVE Inv'
  BY <1>2, InvokeKeeps
<1>3. ASSUME NEW p \in Procs, NEW k \in Kinds, InvokeImports(p, k)  PROVE Inv'
  BY <1>3, InvokeImportsKeeps
<1>4. ASSUME NEW p \in Procs, Body(p)  PROVE Inv'
  BY <1>4, EditModelKeeps, EditInputsKeeps, CheckoutBodyKeeps, BranchBodyKeeps,
     BranchReloadKeeps, CompoundBeginKeeps, CompoundBeginFailsKeeps,
     CompoundCutKeeps, CompoundReloadKeeps, CompoundRestoreKeeps,
     CompoundRestoredKeeps, InvokeNestedKeeps, BodyReturnsKeeps DEF Body
<1>5. ASSUME NEW p \in Procs,
             \/ InvokeFails(p) \/ CommitFails(p) \/ Commit(p)
             \/ Finish(p) \/ FinishFailed(p) \/ FinishRaises(p)
             \/ CancelArrives(p) \/ Crash(p)
      PROVE  Inv'
  BY <1>5, InvokeFailsKeeps, CommitFailsKeeps, CommitKeeps, FinishKeeps,
     FinishFailedKeeps, FinishRaisesKeeps, CancelArrivesKeeps, CrashKeeps
<1>. QED  BY <1>1, <1>2, <1>3, <1>4, <1>5 DEF Next

LEMMA SpecInv == Spec => []Inv
<1>1. Init => Inv
  BY InitInv
<1>2. Inv /\ [Next]_vars => Inv'
  BY NextInv
<1>. QED  BY <1>1, <1>2, PTL DEF Spec

(* invoke_tool and the tools it runs keep the project, the sessions and    *)
(* the frames of nested calls well formed, at most two calls deep.         *)
THEOREM TypesHold == Spec => []TypeOK
BY SpecInv, InvTypes, PTL

(* Whatever other processes and crashes do between two calls, a node is    *)
(* recorded under the node its model came from, and a session that would   *)
(* be used again is the active node's and clean.                           *)
THEOREM SessionsFollow == Spec => []SessionsFollowTheStore
BY SpecInv, InvSessions, PTL

(* A call that leaves project_revision where it was leaves the pointer and *)
(* the working inputs where they were.                                     *)
THEOREM RevisionsIdentify == Spec => []RevisionIdentifies
<1>1. Inv => RevisionIdentifies
  BY DEF Inv
<1>. QED  BY <1>1, SpecInv, PTL

(* The undo is complete: a call that fails without a commit, and without   *)
(* asking for recovery, leaves no trace in the pointer or the inputs.      *)
THEOREM FailuresLeaveNoTrace == Spec => []FailedLeavesNoTrace
<1>1. Inv => FailedLeavesNoTrace
  BY DEF Inv
<1>. QED  BY <1>1, SpecInv, PTL

(* The undo goes no further than the last commit: once a node is           *)
(* committed, the inputs in force are those recorded with the active node. *)
THEOREM InputsFollow == Spec => []InputsFollowCommits
<1>1. Inv => InputsFollowCommits
  BY DEF Inv
<1>. QED  BY <1>1, SpecInv, PTL
=============================================================================
