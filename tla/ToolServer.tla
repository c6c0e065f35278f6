----------------------------- MODULE ToolServer -----------------------------
(* The tool server of one project (mcp/server.py): calls queue for one     *)
(* lock, each with a deadline it lowers whenever it learns what the        *)
(* running tool's budget leaves; a client that goes away cancels its calls *)
(* through the cancel bridge, and a watchdog ends the process when the     *)
(* tool does not notice.  Time passes in ticks, during which whatever      *)
(* polls has polled.                                                       *)
EXTENDS Integers

CONSTANTS Calls,
          Budgets,      \* the wall clocks declared_budget_s may tell
          QueueMax, QueueGrace, OrphanPoll, OrphanGrace,  \* in ticks
          None

VARIABLES
  call,      \* call -> where it is, how long it waited, when it gives up
  budget,    \* call -> its declared budget, or None
  owner,     \* who holds ProjectHandle._lock
  running,   \* _running
  age,       \* ticks since _operation_started_at; None before it
  cancelEv,  \* the calls whose cancel event is set
  client,    \* the other end of the pipe is there
  closed,    \* ticks since the watchdog found it gone; None before
  exited

vars == <<call, budget, owner, running, age, cancelEv, client, closed, exited>>

Ended == {"answered", "cancelled", "gave up"}
InFlight(c) == call[c].at \in {"wait", "got", "run", "leave"}
Waiting == {c \in Calls : call[c].at = "wait"}
Goto(c, place) == call' = [call EXCEPT ![c].at = place]
Lesser(a, b) == IF a < b THEN a ELSE b

Init ==
  /\ call = [c \in Calls |-> [at |-> "new", waited |-> 0, left |-> QueueMax]]
  /\ budget = [c \in Calls |-> None]
  /\ owner = None /\ running = None /\ age = None
  /\ cancelEv = {} /\ client = TRUE /\ closed = None /\ exited = FALSE

-----------------------------------------------------------------------------
(* call.                                                                    *)

\* A tool the read-only mode blocks is answered at once.
Arrive(c) ==
  /\ call[c].at = "new" /\ client /\ ~exited
  /\ \/ budget' = [budget EXCEPT ![c] = None] /\ Goto(c, "answered")
     \/ \E b \in Budgets \cup {None} : budget' = [budget EXCEPT ![c] = b] /\ Goto(c, "wait")
  /\ UNCHANGED <<owner, running, age, cancelEv, client, closed, exited>>

Acquire(c) ==
  /\ call[c].at = "wait" /\ owner = None /\ ~exited
  /\ owner' = c /\ Goto(c, "got")
  /\ UNCHANGED <<budget, running, age, cancelEv, client, closed, exited>>

WaitCancelled(c) ==
  /\ call[c].at = "wait" /\ owner # None /\ c \in cancelEv /\ ~exited
  /\ Goto(c, "cancelled")
  /\ UNCHANGED <<budget, owner, running, age, cancelEv, client, closed, exited>>

\* _queue_detail: what is left of the running tool's budget, if its clock runs.
Left ==
  IF running = None \/ age = None \/ budget[running] = None THEN None
  ELSE IF age < budget[running] THEN budget[running] - age ELSE 0

\* Bug variant: the deadline follows the budget, in either direction.
DeadlineFollows(c) == IF Left = None THEN call[c].left ELSE Left + QueueGrace
Deadline(c) == IF Left = None THEN call[c].left ELSE Lesser(call[c].left, Left + QueueGrace)

\* One poll of the queue: the deadline comes closer, never further away.
Poll(c) ==
  /\ call[c].at = "wait" /\ owner # None /\ c \notin cancelEv /\ ~exited
  /\ call' = [call EXCEPT ![c].left = Deadline(c),
                          ![c].at = IF Deadline(c) = 0 THEN "gave up" ELSE "wait"]
  /\ UNCHANGED <<budget, owner, running, age, cancelEv, client, closed, exited>>

\* The cancellation is looked at once more with the lock held.
Begin(c) ==
  /\ call[c].at = "got" /\ ~exited
  /\ IF c \in cancelEv THEN Goto(c, "leave") /\ UNCHANGED running
     ELSE Goto(c, "run") /\ running' = c
  /\ UNCHANGED <<budget, owner, age, cancelEv, client, closed, exited>>

\* The project is open and its own lock is held: the budget's clock starts.
Own(c) ==
  /\ call[c].at = "run" /\ age = None /\ ~exited
  /\ age' = 0
  /\ UNCHANGED <<call, budget, owner, running, cancelEv, client, closed, exited>>

\* The tool ends, by itself, at its budget or at the event; or it raises.
ToolEnds(c) ==
  /\ call[c].at = "run" /\ ~exited
  /\ running' = None /\ age' = None /\ Goto(c, "leave")
  /\ UNCHANGED <<budget, owner, cancelEv, client, closed, exited>>

Leave(c) ==
  /\ call[c].at = "leave" /\ ~exited
  /\ owner' = None /\ Goto(c, IF c \in cancelEv THEN "cancelled" ELSE "answered")
  /\ UNCHANGED <<budget, running, age, cancelEv, client, closed, exited>>

-----------------------------------------------------------------------------
(* The client, the bridge, the watchdog and the clock.                      *)

\* notifications/cancelled, or the close of the transport, for each request.
Cancel(c) ==
  /\ InFlight(c) /\ c \notin cancelEv /\ ~exited
  /\ cancelEv' = cancelEv \cup {c}
  /\ UNCHANGED <<call, budget, owner, running, age, client, closed, exited>>

Disconnect ==
  /\ client /\ ~exited /\ client' = FALSE
  /\ UNCHANGED <<call, budget, owner, running, age, cancelEv, closed, exited>>

\* _orphan_step: an idle server goes at once, a running tool has its grace.
\* Bug variant: it waits for the tool.
ExitDueWhenIdle == closed # None /\ running = None /\ closed >= OrphanPoll
ExitDue == closed # None /\ closed >= (IF running = None THEN OrphanPoll ELSE OrphanGrace)

Exit ==
  /\ ~exited /\ ExitDue /\ exited' = TRUE
  /\ UNCHANGED <<call, budget, owner, running, age, cancelEv, client, closed>>

\* Whoever polls has polled and no bookkeeping is under way.  A stage that cannot look at the clock may
\* outlast its tool's budget for any time.
MayPass ==
  /\ ~exited /\ ~ExitDue /\ \A c \in Calls : call[c].at \notin {"got", "leave"}
  /\ \A c \in Waiting : owner # None /\ call[c].left = Deadline(c) /\ call[c].left > 0

Older(ticks, cap) == IF ticks = None THEN None ELSE Lesser(ticks + 1, cap)
Tick ==
  /\ MayPass
  /\ call' = [c \in Calls |-> IF c \notin Waiting THEN call[c]
                ELSE [call[c] EXCEPT !.waited = Lesser(@ + 1, QueueMax), !.left = @ - 1]]
  /\ age' = Older(age, QueueMax)
  /\ closed' = IF client THEN None ELSE IF closed = None THEN 0 ELSE Older(closed, OrphanGrace)
  /\ UNCHANGED <<budget, owner, running, cancelEv, client, exited>>

Thread(c) == Acquire(c) \/ WaitCancelled(c) \/ Poll(c) \/ Begin(c) \/ Own(c) \/ Leave(c)

Next ==
  \/ \E c \in Calls : Arrive(c) \/ Thread(c) \/ ToolEnds(c) \/ Cancel(c)
  \/ Disconnect \/ Exit \/ Tick

Spec == Init /\ [][Next]_vars

\* Threads run and time passes; a tool need not end, nor a client stay.
FairSpec == Spec /\ (\A c \in Calls : WF_vars(Thread(c))) /\ WF_vars(Exit) /\ WF_vars(Tick)

-----------------------------------------------------------------------------
TypeOK ==
  /\ call \in [Calls -> [at : {"new", "wait", "got", "run", "leave"} \cup Ended,
                         waited : 0..QueueMax, left : 0..QueueMax]]
  /\ budget \in [Calls -> Budgets \cup {None}]
  /\ owner \in Calls \cup {None} /\ running \in {owner, None}
  /\ age \in 0..QueueMax \cup {None} /\ cancelEv \subseteq Calls
  /\ closed \in 0..OrphanGrace \cup {None}

Waits(c) == call[c].at = "wait"
Answered(c) == call[c].at # "wait" \/ exited

\* A queued call is answered, however long the running tool takes, the next
\* one in the queue takes after it, and whatever their budgets say.
QueuedCallEnds == \A c \in Calls : Waits(c) ~> Answered(c)

\* A server whose client is gone does not outlive it for ever, whatever it
\* is computing (the process found 9.6 h later, in the watchdog's comment).
OrphanEnds == ~client ~> exited

\* "The fail-fast only remains for a lock held longer than QUEUE_MAX_S", or
\* for a tool past its own budget; but a call keeps the deadline it took
\* from one tool while the next one holds the lock.
GivesUpOnlyLate ==
  [][\A c \in Calls : call[c].at = "wait" /\ call'[c].at = "gave up" /\ age # None =>
       \/ call[c].waited = QueueMax
       \/ budget[running] # None /\ age >= budget[running] + QueueGrace]_vars
=============================================================================
