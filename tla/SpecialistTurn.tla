--------------------------- MODULE SpecialistTurn ---------------------------
(* One consult_specialist (crystalpilot/refine/tools_specialist.py and     *)
(* specialist_snapshot.py): the call takes a snapshot of a node, starts a  *)
(* worker thread that runs an engine of its own on it, and supervises that *)
(* thread while it holds the project lock.  Every call of the engine's SDK *)
(* may block for ever; the supervisor must come back all the same.         *)
EXTENDS Naturals

CONSTANT None

VARIABLES
  sup,        \* the supervising call: where it is, what it has seen
  worker,     \* where the worker thread is
  engine,     \* the worker's app-server: none, built, running, closed
  runtime,    \* what the worker has registered: "none", "workbench", "task"
  interrupted,
  replies,    \* the queue of one
  closer,     \* the thread that closes the engine for the supervisor
  blocked,    \* the SDK calls that do not return: of the worker, of the closer
  cancelled, late,
  consultation \* the status in consultation.json

vars == <<sup, worker, engine, runtime, interrupted, replies, closer, blocked,
          cancelled, late, consultation>>
sdk == <<worker, engine, runtime, replies>>
outside == <<blocked, cancelled, late>>

Init ==
  /\ sup = [at |-> "snapshot", why |-> None, task |-> "none"]
  /\ worker = "none" /\ engine = "none" /\ runtime = "none"
  /\ interrupted = FALSE /\ replies = None /\ closer = "none"
  /\ blocked = {} /\ cancelled = FALSE /\ late = FALSE /\ consultation = None

Stop == cancelled \/ late
WhyStop == IF cancelled THEN "cancelled" ELSE "timeout"

-----------------------------------------------------------------------------
(* ConsultSpecialist.run and the supervisor.                                *)

\* create_snapshot looks at the cancel event and the deadline between files.
Snapshot ==
  /\ sup.at = "snapshot"
  /\ \/ Stop /\ sup' = [sup EXCEPT !.at = "record", !.why = WhyStop]
        /\ UNCHANGED <<worker, consultation>>
     \/ sup' = [sup EXCEPT !.at = "record", !.why = "failed"]  \* no eligible node
        /\ UNCHANGED <<worker, consultation>>
     \/ /\ ~Stop /\ sup' = [sup EXCEPT !.at = "wait"]
        /\ consultation' = "running" /\ worker' = "build"
  /\ UNCHANGED <<engine, runtime, interrupted, replies, closer, outside>>

Interrupt ==
  /\ sup.at = "wait" /\ Stop
  /\ interrupted' = TRUE
  /\ sup' = [sup EXCEPT !.at = "look", !.why = WhyStop]
  /\ UNCHANGED <<sdk, closer, outside, consultation>>

\* Under the guard: what there is to interrupt and to close.
LookAtRuntime ==
  /\ sup.at = "look"
  /\ sup' = [sup EXCEPT !.at = "grace", !.task = runtime]
  /\ closer' = IF runtime = "none" THEN "none" ELSE "closing"
  /\ UNCHANGED <<sdk, interrupted, outside, consultation>>

\* The joins are bounded by CLEANUP_GRACE_S: whether they ended or not.
GraceEnds ==
  /\ sup.at = "grace" /\ sup' = [sup EXCEPT !.at = "record"]
  /\ UNCHANGED <<sdk, interrupted, closer, outside, consultation>>

\* A reply is looked at before it is believed.
TakeReply ==
  /\ sup.at = "wait" /\ replies # None
  /\ replies' = None
  /\ sup' = [sup EXCEPT !.at = IF Stop \/ replies = "error" THEN "record" ELSE "verdict",
                        !.why = IF Stop THEN WhyStop
                                ELSE IF replies = "error" THEN "failed" ELSE None]
  /\ UNCHANGED <<worker, engine, runtime, interrupted, closer, outside, consultation>>

Publish ==
  /\ sup.at = "verdict"
  /\ IF Stop THEN sup' = [sup EXCEPT !.at = "record", !.why = WhyStop] /\ UNCHANGED consultation
     ELSE sup' = [sup EXCEPT !.at = "done"] /\ consultation' = "completed"
  /\ UNCHANGED <<sdk, interrupted, closer, outside>>

Record ==
  /\ sup.at = "record"
  /\ sup' = [sup EXCEPT !.at = "done"] /\ consultation' = sup.why
  /\ UNCHANGED <<sdk, interrupted, closer, outside>>

Supervisor == \/ Snapshot \/ Interrupt \/ LookAtRuntime \/ GraceEnds \/ TakeReply
              \/ Publish \/ Record

-----------------------------------------------------------------------------
(* The worker.  with wb: leaving it closes the engine.                      *)

Runs == "worker" \notin blocked
Goes(from, to) == Runs /\ worker = from /\ worker' = to
Replies(r) == replies' = IF interrupted THEN replies ELSE r

Build ==
  /\ Runs /\ worker = "build"
  /\ \/ worker' = "register" /\ engine' = "built" /\ UNCHANGED replies
     \/ worker' = "ended" /\ UNCHANGED engine /\ Replies("error")
  /\ UNCHANGED <<sup, runtime, interrupted, closer, outside, consultation>>

Register ==
  /\ Goes("register", "enter") /\ runtime' = "workbench"
  /\ UNCHANGED <<sup, engine, interrupted, replies, closer, outside, consultation>>

\* Interrupted: closed at once, or not even begun.
Enter ==
  /\ Goes("enter", IF interrupted THEN "leave" ELSE "start")
  /\ UNCHANGED <<sup, engine, runtime, interrupted, replies, closer, outside, consultation>>

\* The SDK starts an engine again that was closed; a start that fails is taken
\* to leave no process behind.
StartEngine ==
  /\ Goes("start", "task")
  /\ engine' = "running"
  /\ UNCHANGED <<sup, runtime, interrupted, replies, closer, outside, consultation>>

StartFails ==
  /\ Goes("start", "ended") /\ engine' = "closed" /\ Replies("error")
  /\ UNCHANGED <<sup, runtime, interrupted, closer, outside, consultation>>

\* Bug variant: nobody looks at the event once the engine runs.
NewTaskAnyway ==
  /\ Goes("task", "turn") /\ runtime' = "task"
  /\ UNCHANGED <<sup, engine, interrupted, replies, closer, outside, consultation>>

\* The event is looked at before and after the conversation is opened.
NewTask ==
  /\ Goes("task", IF interrupted THEN "leave" ELSE "turn")
  /\ runtime' \in IF interrupted THEN {runtime, "task"} ELSE {"task"}
  /\ UNCHANGED <<sup, engine, interrupted, replies, closer, outside, consultation>>

\* An event of the turn, its end, its failure; closing the engine ends it.
Turn ==
  /\ \E to \in {"turn", "leave"} :
       Goes("turn", IF interrupted \/ engine = "closed" THEN "leave" ELSE to)
  /\ UNCHANGED <<sup, engine, runtime, interrupted, replies, closer, outside, consultation>>

Leave ==
  /\ Goes("leave", "ended") /\ engine' = "closed"
  /\ \E r \in {"verdict", "error"} : Replies(r)
  /\ UNCHANGED <<sup, runtime, interrupted, closer, outside, consultation>>

Worker == \/ Build \/ Register \/ Enter \/ StartEngine \/ StartFails \/ NewTask
          \/ Turn \/ Leave

-----------------------------------------------------------------------------
Closer ==
  /\ closer = "closing" /\ "closer" \notin blocked
  /\ closer' = "closed" /\ engine' = "closed"
  /\ UNCHANGED <<sup, worker, runtime, interrupted, replies, outside, consultation>>

Block ==
  /\ \E who \in {"worker", "closer"} \ blocked : blocked' = blocked \cup {who}
  /\ UNCHANGED <<sup, sdk, interrupted, closer, cancelled, late, consultation>>

Cancel ==
  /\ ~cancelled /\ cancelled' = TRUE
  /\ UNCHANGED <<sup, sdk, interrupted, closer, blocked, late, consultation>>

DeadlinePasses ==
  /\ ~late /\ late' = TRUE
  /\ UNCHANGED <<sup, sdk, interrupted, closer, blocked, cancelled, consultation>>

Next == Supervisor \/ Worker \/ Closer \/ Block \/ Cancel \/ DeadlinePasses

Spec == Init /\ [][Next]_vars

\* Threads run and the deadline comes; a thread inside a blocked call does not,
\* and a turn may be silent as long as its engine is there.
Prompt == Worker /\ (worker # "turn" \/ engine = "closed")
FairSpec == Spec /\ WF_vars(Supervisor) /\ WF_vars(Prompt) /\ WF_vars(Closer)
                 /\ WF_vars(DeadlinePasses)

-----------------------------------------------------------------------------
TypeOK ==
  /\ sup.at \in {"snapshot", "wait", "look", "grace", "verdict", "record", "done"}
  /\ worker \in {"none", "build", "register", "enter", "start", "task", "turn", "leave", "ended"}
  /\ engine \in {"none", "built", "running", "closed"}
  /\ runtime \in {"none", "workbench", "task"} /\ replies \in {None, "verdict", "error"}
  /\ closer \in {"none", "closing", "closed"} /\ blocked \subseteq {"worker", "closer"}
  /\ consultation \in {None, "running", "completed", "failed", "cancelled", "timeout"}

\* The call comes back although its SDK blocks, with one answer on record, and
\* an advisor nobody waits for any more does not keep an engine: unless an SDK
\* call blocks for ever, it is closed.
SpecialistEnds ==
  /\ <>(sup.at = "done" /\ consultation \notin {None, "running"})
  /\ interrupted ~> (worker = "ended" /\ engine \in {"none", "closed"}) \/ blocked # {}
=============================================================================
