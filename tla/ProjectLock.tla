----------------------------- MODULE ProjectLock -----------------------------
(***************************************************************************)
(* The project lock of crystalpilot/refine/transactions.py.                *)
(*                                                                         *)
(* Every reader and writer of a project runs inside project_transaction,   *)
(* which first takes a re-entrant mutex shared by the threads of one       *)
(* process and then, at the outermost level only, an exclusive OS lock     *)
(* (flock) on a permanent file shared by all processes.  Both waits poll:  *)
(* each poll looks at the caller's cancel event and at its deadline.       *)
(*                                                                         *)
(* The OS facts the code relies on are part of the model: flock belongs to *)
(* the open file description, so it is dropped by an explicit unlock or    *)
(* when the last descriptor of that description goes away, and a forked    *)
(* child inherits a descriptor.                                            *)
(***************************************************************************)
EXTENDS Naturals

CONSTANTS Procs,      \* operating-system processes
          Threads,    \* threads that open transactions
          ProcOf,     \* the process a thread belongs to
          Events,     \* cancellation events callers pass in
          None,       \* no event, no thread, no process
          MaxDepth    \* how deeply one thread nests transactions

ASSUME ProcOfAssumption   == ProcOf \in [Threads -> Procs]
ASSUME NoneAssumption     == None \notin Procs \cup Threads \cup Events
ASSUME MaxDepthAssumption == MaxDepth \in Nat \ {0}

Levels   == 1 .. MaxDepth
MayEvent == Events \cup {None}
NoEvents == [i \in Levels |-> None]

VARIABLES
  life,         \* life[p]: has the process been started, is it dead
  inherited,    \* inherited[p]: the process whose open lock file p inherited
  flock,        \* the process whose open file description is locked
  mutexOwner,   \* _Ownership.mutex: the thread inside the RLock
  mutexCount,   \* and how many times it entered it
  depth,        \* _Ownership.depth
  fd,           \* is _Ownership.fd open
  cancelEvent,  \* _Ownership.cancel_event
  pc,           \* where the thread is inside project_transaction
  level,        \* number of transactions whose body the thread is in
  arg,          \* cancel_event argument of the call being made
  own,          \* own[t][i]: cancel_event argument of t's transaction i
  saved,        \* saved[t][i]: previous_cancel of t's transaction i
  late,         \* has the deadline of the call being made passed
  cancelled     \* the events that are set

procVars   == <<life, inherited, flock>>
entryVars  == <<mutexOwner, mutexCount, depth, fd, cancelEvent>>
threadVars == <<pc, level, arg, own, saved, late>>
vars       == <<procVars, entryVars, threadVars, cancelled>>

Positions == {"out", "mutex", "mutexWait", "flock", "flockWait", "locked",
              "body", "unlock", "release"}

TypeOK ==
  /\ life \in [Procs -> {"unborn", "alive", "dead"}]
  /\ inherited \in [Procs -> Procs \cup {None}]
  /\ flock \in Procs \cup {None}
  /\ mutexOwner \in [Procs -> Threads \cup {None}]
  /\ mutexCount \in [Procs -> Nat]
  /\ depth \in [Procs -> Nat]
  /\ fd \in [Procs -> BOOLEAN]
  /\ cancelEvent \in [Procs -> MayEvent]
  /\ pc \in [Threads -> Positions]
  /\ level \in [Threads -> 0 .. MaxDepth]
  /\ arg \in [Threads -> MayEvent]
  /\ own \in [Threads -> [Levels -> MayEvent]]
  /\ saved \in [Threads -> [Levels -> MayEvent]]
  /\ late \in [Threads -> BOOLEAN]
  /\ cancelled \subseteq Events

Init ==
  /\ life \in [Procs -> {"unborn", "alive"}]
  /\ \E p \in Procs : life[p] = "alive"
  /\ inherited = [p \in Procs |-> None]
  /\ flock = None
  /\ mutexOwner = [p \in Procs |-> None]
  /\ mutexCount = [p \in Procs |-> 0]
  /\ depth = [p \in Procs |-> 0]
  /\ fd = [p \in Procs |-> FALSE]
  /\ cancelEvent = [p \in Procs |-> None]
  /\ pc = [t \in Threads |-> "out"]
  /\ level = [t \in Threads |-> 0]
  /\ arg = [t \in Threads |-> None]
  /\ own = [t \in Threads |-> NoEvents]
  /\ saved = [t \in Threads |-> NoEvents]
  /\ late = [t \in Threads |-> FALSE]
  /\ cancelled = {}

-----------------------------------------------------------------------------
(* Moving a thread, and the point its caller sees when a call ends.        *)
Goto(t, q)  == pc' = [pc EXCEPT ![t] = q]
CallerOf(t) == IF level[t] = 0 THEN "out" ELSE "body"
EndCall(t)  == /\ arg' = [arg EXCEPT ![t] = None]
               /\ late' = [late EXCEPT ![t] = FALSE]
InBody(t)   == level[t] > 0
Waiting(t)  == pc[t] \in {"mutex", "mutexWait", "flock", "flockWait"}

(* The live processes other than p that still hold a descriptor of q's     *)
(* open file description.                                                  *)
OtherCopies(q, p) ==
  {r \in Procs \ {p} : life[r] = "alive" /\ (r = q \/ inherited[r] = q)}

(* The lock after process p closes its descriptor of q's description       *)
(* without unlocking it.  (Bug variant: the child unlocks what it          *)
(* inherited instead of only closing it.)                                  *)
FlockAfterUnlock(q, p) == IF flock = q THEN None ELSE flock

FlockAfterClose(q, p) ==
  IF flock = q /\ OtherCopies(q, p) = {} THEN None ELSE flock

(* project_transaction up to the mutex: _entry first drops what a fork     *)
(* left behind (close, never unlock), then the first check_cancelled lets  *)
(* the call go on to the mutex or raises in the caller.                    *)
Call(t, e) ==
  LET p == ProcOf[t] IN
  /\ life[p] = "alive"
  /\ pc[t] \in {"out", "body"}
  /\ level[t] < MaxDepth
  /\ flock' = IF inherited[p] = None THEN flock
                                     ELSE FlockAfterClose(inherited[p], p)
  /\ inherited' = [inherited EXCEPT ![p] = None]
  /\ IF e \in cancelled THEN UNCHANGED <<pc, arg>>
     ELSE /\ arg' = [arg EXCEPT ![t] = e]
          /\ Goto(t, "mutex")
  /\ UNCHANGED <<life, entryVars, level, own, saved, late, cancelled>>

(* RLock.acquire by its owner or when free.  (Bug variant: a plain lock    *)
(* that does not count re-entries.)                                        *)
UncountedRLock(p, t) ==
  /\ mutexOwner' = [mutexOwner EXCEPT ![p] = t]
  /\ mutexCount' = [mutexCount EXCEPT ![p] = 1]

EnterRLock(p, t) ==
  /\ mutexOwner' = [mutexOwner EXCEPT ![p] = t]
  /\ mutexCount' = [mutexCount EXCEPT ![p] = @ + 1]

(* mutex.acquire succeeds.  previous_cancel is read only now.  At depth 0  *)
(* the lock file is opened and the wait for the OS lock starts; deeper,    *)
(* the body is entered at once.                                            *)
EnterBody(t, previous) ==
  LET p == ProcOf[t]  i == level[t] + 1 IN
  /\ depth' = [depth EXCEPT ![p] = @ + 1]
  /\ level' = [level EXCEPT ![t] = i]
  /\ own' = [own EXCEPT ![t][i] = arg[t]]
  /\ saved' = [saved EXCEPT ![t][i] = previous]
  /\ cancelEvent' = [cancelEvent EXCEPT ![p] = IF arg[t] = None THEN @ ELSE arg[t]]
  /\ EndCall(t)
  /\ Goto(t, "body")

AcquireMutex(t) ==
  LET p == ProcOf[t] IN
  /\ pc[t] = "mutex"
  /\ mutexOwner[p] \in {None, t}
  /\ EnterRLock(p, t)
  /\ \/ /\ depth[p] = 0
        /\ fd' = [fd EXCEPT ![p] = TRUE]
        /\ Goto(t, "flock")
        /\ UNCHANGED <<depth, cancelEvent, level, arg, own, saved, late>>
     \/ /\ depth[p] > 0
        /\ EnterBody(t, cancelEvent[p])
        /\ UNCHANGED fd
  /\ UNCHANGED <<procVars, cancelled>>

(* _try_lock succeeds: no open file description holds the lock.            *)
TryLock(t) ==
  /\ pc[t] = "flock"
  /\ flock = None
  /\ flock' = ProcOf[t]
  /\ Goto(t, "locked")
  /\ UNCHANGED <<life, inherited, entryVars, level, arg, own, saved, late, cancelled>>

(* The check after the OS lock was obtained, then the owner record and the *)
(* first statement of the body.                                            *)
EnterOutermost(t) ==
  /\ pc[t] = "locked"
  /\ arg[t] \notin cancelled
  /\ EnterBody(t, cancelEvent[ProcOf[t]])
  /\ UNCHANGED <<procVars, mutexOwner, mutexCount, fd, cancelled>>

(* Closing the lock file.  Descriptors of it that children inherited are   *)
(* harmless from now on: p does not hold the lock through it any more, and *)
(* opens the file anew next time.                                          *)
CloseLockFile(p) ==
  /\ fd' = [fd EXCEPT ![p] = FALSE]
  /\ inherited' = [r \in Procs |-> IF inherited[r] = p THEN None ELSE inherited[r]]

(* A non-blocking attempt fails: the thread enters waiting().              *)
AttemptFails(t) ==
  /\ \/ pc[t] = "mutex" /\ mutexOwner[ProcOf[t]] \notin {None, t} /\ Goto(t, "mutexWait")
     \/ pc[t] = "flock" /\ flock # None /\ Goto(t, "flockWait")
  /\ UNCHANGED <<procVars, entryVars, level, arg, own, saved, late, cancelled>>

(* When waiting() raises: the event is set or the deadline has passed.     *)
(* (Bug variant: a wait without a deadline.)                               *)
RaisesOnlyOnCancel(t) == arg[t] \in cancelled
WaitingRaises(t)      == arg[t] \in cancelled \/ late[t]

(* waiting() returns after its sleep, and the attempt is made again.       *)
PollAgain(t) ==
  /\ ~WaitingRaises(t)
  /\ \/ pc[t] = "mutexWait" /\ Goto(t, "mutex")
     \/ pc[t] = "flockWait" /\ Goto(t, "flock")
  /\ UNCHANGED <<procVars, entryVars, level, arg, own, saved, late, cancelled>>

(* waiting() raises.  From the OS-lock wait the descriptor is closed; the  *)
(* mutex is released last.                                                 *)
GiveUp(t) ==
  /\ WaitingRaises(t)
  /\ EndCall(t)
  /\ \/ /\ pc[t] = "mutexWait"
        /\ Goto(t, CallerOf(t))
        /\ UNCHANGED <<fd, inherited>>
     \/ /\ pc[t] = "flockWait"
        /\ CloseLockFile(ProcOf[t])
        /\ Goto(t, "release")
  /\ UNCHANGED <<life, flock, mutexOwner, mutexCount, depth, cancelEvent,
                 level, own, saved, cancelled>>

(* The except clause around the OS lock: unlock if acquired, then close.   *)
(* (Bug variant: the clause is missing.)                                   *)
NoCleanup(p)       == UNCHANGED <<flock, fd, inherited>>
UnlockAndClose(p)  == flock' = None /\ CloseLockFile(p)

(* Cancelled between the OS lock and the body: unlock, close, raise.       *)
AbandonLock(t) ==
  /\ pc[t] = "locked"
  /\ arg[t] \in cancelled
  /\ EndCall(t)
  /\ UnlockAndClose(ProcOf[t])
  /\ Goto(t, "release")
  /\ UNCHANGED <<life, mutexOwner, mutexCount, depth, cancelEvent,
                 level, own, saved, cancelled>>

(* What the inner finally puts back and where it goes on.  (Bug variants:  *)
(* the event is cleared instead of restored; the depth is not looked at.)  *)
ClearedEvent(t)    == None
RestoredEvent(t)   == saved[t][level[t]]
UnlockAtAnyDepth(p) == "unlock"
AfterBody(p)        == IF depth[p] = 1 THEN "unlock" ELSE "release"

(* The body of the innermost transaction ends, normally or by exception:   *)
(* the previous event comes back and the depth drops.                      *)
Leave(t) ==
  LET p == ProcOf[t] IN
  /\ pc[t] = "body"
  /\ cancelEvent' = [cancelEvent EXCEPT ![p] = RestoredEvent(t)]
  /\ depth' = [depth EXCEPT ![p] = @ - 1]
  /\ level' = [level EXCEPT ![t] = @ - 1]
  /\ Goto(t, AfterBody(p))
  /\ own' = [own EXCEPT ![t][level[t]] = None]
  /\ saved' = [saved EXCEPT ![t][level[t]] = None]
  /\ UNCHANGED <<procVars, mutexOwner, mutexCount, fd, arg, late, cancelled>>

(* Outermost exit: explicit unlock of the OS lock, then close.             *)
Unlock(t) ==
  /\ pc[t] = "unlock"
  /\ flock' = None
  /\ CloseLockFile(ProcOf[t])
  /\ Goto(t, "release")
  /\ UNCHANGED <<life, mutexOwner, mutexCount, depth, cancelEvent,
                 level, arg, own, saved, late, cancelled>>

(* mutex.release in the outer finally.                                     *)
ReleaseMutex(t) ==
  LET p == ProcOf[t] IN
  /\ pc[t] = "release"
  /\ mutexCount' = [mutexCount EXCEPT ![p] = @ - 1]
  /\ mutexOwner' = [mutexOwner EXCEPT ![p] = IF mutexCount[p] = 1 THEN None ELSE @]
  /\ Goto(t, CallerOf(t))
  /\ UNCHANGED <<procVars, depth, fd, cancelEvent, level, arg, own, saved, late, cancelled>>

-----------------------------------------------------------------------------
(* The world around the lock.                                              *)

(* time.monotonic() passes the deadline of a waiting call.                 *)
Expire(t) ==
  /\ Waiting(t) /\ ~late[t]
  /\ late' = [late EXCEPT ![t] = TRUE]
  /\ UNCHANGED <<procVars, entryVars, pc, level, arg, own, saved, cancelled>>

(* Somebody sets a cancel event; events are never cleared.                 *)
Cancel(e) ==
  /\ e \notin cancelled
  /\ cancelled' = cancelled \cup {e}
  /\ UNCHANGED <<procVars, entryVars, threadVars>>

(* A process forks a child that has opened no transaction yet: the child   *)
(* has its own registry from its first call on, and a copy of the open     *)
(* descriptor until then.                                                  *)
Fork(p, c) ==
  /\ life[p] = "alive" /\ life[c] = "unborn"
  /\ life' = [life EXCEPT ![c] = "alive"]
  /\ inherited' = [inherited EXCEPT ![c] = IF fd[p] THEN p ELSE inherited[p]]
  /\ UNCHANGED <<flock, entryVars, threadVars, cancelled>>

(* A process dies anywhere: its descriptors close, its threads are gone.   *)
Crash(p) ==
  LET mine == {t \in Threads : ProcOf[t] = p} IN
  /\ life[p] = "alive"
  /\ life' = [life EXCEPT ![p] = "dead"]
  /\ flock' = IF fd[p] THEN FlockAfterClose(p, p)
              ELSE IF inherited[p] = None THEN flock
              ELSE FlockAfterClose(inherited[p], p)
  /\ inherited' = [inherited EXCEPT ![p] = None]
  /\ mutexOwner' = [mutexOwner EXCEPT ![p] = None]
  /\ mutexCount' = [mutexCount EXCEPT ![p] = 0]
  /\ depth' = [depth EXCEPT ![p] = 0]
  /\ fd' = [fd EXCEPT ![p] = FALSE]
  /\ cancelEvent' = [cancelEvent EXCEPT ![p] = None]
  /\ pc' = [t \in Threads |-> IF t \in mine THEN "out" ELSE pc[t]]
  /\ level' = [t \in Threads |-> IF t \in mine THEN 0 ELSE level[t]]
  /\ late' = [t \in Threads |-> IF t \in mine THEN FALSE ELSE late[t]]
  /\ arg' = [t \in Threads |-> IF t \in mine THEN None ELSE arg[t]]
  /\ own' = [t \in Threads |-> IF t \in mine THEN NoEvents ELSE own[t]]
  /\ saved' = [t \in Threads |-> IF t \in mine THEN NoEvents ELSE saved[t]]
  /\ UNCHANGED cancelled

-----------------------------------------------------------------------------
(* The steps the lock code itself takes.                                   *)
LockStep(t) ==
  \/ AcquireMutex(t) \/ TryLock(t) \/ EnterOutermost(t)
  \/ AttemptFails(t) \/ PollAgain(t)
  \/ GiveUp(t) \/ AbandonLock(t) \/ Unlock(t) \/ ReleaseMutex(t)

Next ==
  \/ \E t \in Threads : LockStep(t) \/ Leave(t) \/ Expire(t)
  \/ \E t \in Threads, e \in MayEvent : Call(t, e)
  \/ \E e \in Events : Cancel(e)
  \/ \E p \in Procs, c \in Procs : Fork(p, c)
  \/ \E p \in Procs : Crash(p)

Spec == Init /\ [][Next]_vars

(* Threads inside the lock code are scheduled and time passes.  Nothing    *)
(* obliges a body to end, a caller to cancel or a process to live.         *)
FairSpec ==
  /\ Spec
  /\ \A t \in Threads : WF_vars(LockStep(t)) /\ WF_vars(Expire(t))

-----------------------------------------------------------------------------
(* Properties.                                                             *)

(* At most one thread of all processes is inside a transaction body: the   *)
(* claim of the module's first line, that cooperating processes share one  *)
(* lock, over threads, nesting, crashes and forks.                         *)
MutualExclusion ==
  \A s, t \in Threads : InBody(s) /\ InBody(t) => s = t

(* The innermost event a thread passed on its way in, None if it passed    *)
(* none.                                                                   *)
EffectiveEvent(t) ==
  LET given == {i \in 1 .. level[t] : own[t][i] # None} IN
  IF given = {} THEN None
  ELSE own[t][CHOOSE i \in given : \A j \in given : j <= i]

(* What owner.check_cancelled() consults inside a body is the innermost    *)
(* event of that very thread's calls, although the entry is shared by all  *)
(* threads of the process; outside every body nothing is left in it.       *)
CancelEventIsTheHolders ==
  /\ \A t \in Threads : InBody(t) => cancelEvent[ProcOf[t]] = EffectiveEvent(t)
  /\ \A p \in Procs : depth[p] = 0 => cancelEvent[p] = None

(* The OS lock is never stranded: while it is held, somebody alive is on   *)
(* the way to releasing it - a thread of the process that took it, or a    *)
(* child that still has the inherited descriptor.                          *)
Releasable(q) ==
  IF life[q] = "alive"
  THEN \E t \in Threads : ProcOf[t] = q /\ (InBody(t) \/ pc[t] \in {"locked", "unlock"})
  ELSE \E c \in Procs : life[c] = "alive" /\ inherited[c] = q

LockIsNotStranded == flock # None => Releasable(flock)

(* Nobody but the holder's own exit takes the lock away: a forked child    *)
(* closing what it inherited, a waiter giving up or another process's      *)
(* crash never unlocks a section somebody is in.                           *)
OnlyTheHolderUnlocks ==
  [][\A t \in Threads :
       InBody(t) /\ flock' # flock => ~InBody(t)' /\ life'[ProcOf[t]] = "dead"]_vars

(* A call that waits for the lock ends, by entering or by raising, even if *)
(* the current holder never leaves its body.                               *)
WaitEnds == \A t \in Threads : Waiting(t) ~> ~Waiting(t)

-----------------------------------------------------------------------------
(* The abstract section: the thread inside is the holder, its level the    *)
(* nesting.                                                                *)
Holder == IF \E t \in Threads : InBody(t)
          THEN CHOOSE t \in Threads : InBody(t) ELSE None

Section == INSTANCE ExclusiveSection
             WITH holder <- Holder,
                  nesting <- IF Holder = None THEN 0 ELSE level[Holder]

ImplementsSection == Section!Spec
=============================================================================
