----------------------------- MODULE SolverJobs -----------------------------
(* A SHELXT run that outlives the call, the turn and the tool server that  *)
(* started it: the detached start, its watchdog thread, the re-attachment  *)
(* after a restart, the adoption of the solution and the registry they     *)
(* share (refine/tools_shelxl.py), and the workbench's watcher, which      *)
(* reads nothing but those files (workbench/background_jobs.py).  Jobs     *)
(* share no state but the registry file: one job shows them all.           *)
EXTENDS Naturals

CONSTANTS Servers,     \* the tool servers of a project: one per engine
          Home,        \* the one a run is started on
          MaxCrashes,  \* bound: servers that stop
          MaxReopens,  \* bound: times the workbench opens the project again
          None

ASSUME HomeAssumption == Home \in Servers

Over == {"finished", "killed", "failed", "died"}
Stages == Over \cup {"running"}
Progress == [stage : Stages, running : BOOLEAN]
Records == [stage : Stages \cup {None}, over : BOOLEAN, adopted : BOOLEAN]
Snapshots == [running : BOOLEAN, solved : BOOLEAN, adopted : BOOLEAN, stage : Stages]

ASSUME NoneAssumption == None \notin Progress \cup Records \cup Snapshots

VARIABLES
  shelxt,  \* the process: alive, how far it is
  late,    \* it is past its staged budget and what was granted on top
  prog,    \* progress.json
  reg,     \* the record of the job in _jobs.json
  dog,     \* server -> its watchdog thread of the job (_DETACHED)
  upd,     \* server -> _jobs_update between its read and its write
  call,    \* the call run_shelxt(detach=true)
  view,    \* the watcher: is the job tracked, its last snapshot
  story,   \* history: what its transitions have told so far
  crashes, reopens

files == <<prog, reg>>
vars == <<shelxt, late, prog, reg, dog, upd, call, view, story, crashes, reopens>>
workbench == <<view, story, reopens>>

NoDog == [at |-> "none", timedOut |-> FALSE]
Solved == shelxt.phase = "solved"  \* job_a.res exists

Init ==
  /\ shelxt = [alive |-> FALSE, phase |-> "none"] /\ late = FALSE
  /\ prog = None /\ reg = None
  /\ dog = [s \in Servers |-> NoDog] /\ upd = [s \in Servers |-> None]
  /\ call = [at |-> "none", on |-> None, pid |-> "unknown"]
  /\ view = [at |-> "new", snap |-> None, primed |-> FALSE] /\ story = "untold"
  /\ crashes = 0 /\ reopens = 0

-----------------------------------------------------------------------------
(* SHELXT.                                                                  *)

Compute ==
  /\ shelxt.alive
  /\ \/ ~Solved /\ shelxt' = [shelxt EXCEPT !.phase = "solved"]
     \/ shelxt' = [shelxt EXCEPT !.alive = FALSE]
  /\ UNCHANGED <<late, files, dog, upd, call, workbench, crashes>>

BudgetPasses ==
  /\ shelxt.alive /\ ~late /\ late' = TRUE
  /\ UNCHANGED <<shelxt, files, dog, upd, call, workbench, crashes>>

-----------------------------------------------------------------------------
(* The call that detaches, and its watchdog.                                *)

StartDetached(s) ==
  /\ s = Home /\ call.at = "none"
  /\ call' = [call EXCEPT !.at = "wait", !.on = s]
  /\ dog' = [dog EXCEPT ![s].at = "spawn"]
  /\ UNCHANGED <<shelxt, late, files, upd, workbench, crashes>>

\* Popen; it may raise, and then the outcome is written at once.
Spawn(s) ==
  /\ dog[s].at = "spawn"
  /\ \/ /\ shelxt' = [alive |-> TRUE, phase |-> "search"]
        /\ dog' = [dog EXCEPT ![s].at = "first"] /\ UNCHANGED <<prog, call>>
     \/ /\ prog' = [stage |-> "failed", running |-> FALSE]
        /\ call' = [call EXCEPT !.pid = "none"]
        /\ dog' = [dog EXCEPT ![s].at = "record"] /\ UNCHANGED shelxt
  /\ UNCHANGED <<late, reg, upd, workbench, crashes>>

FirstWrite(s) ==
  /\ dog[s].at = "first"
  /\ prog' = [stage |-> "running", running |-> TRUE]
  /\ dog' = [dog EXCEPT ![s].at = "signal"]
  /\ UNCHANGED <<shelxt, late, reg, upd, call, workbench, crashes>>

Signal(s) ==
  /\ dog[s].at = "signal"
  /\ call' = [call EXCEPT !.pid = "known"] /\ dog' = [dog EXCEPT ![s].at = "loop"]
  /\ UNCHANGED <<shelxt, late, files, upd, workbench, crashes>>

NewRecord == [stage |-> None, over |-> FALSE, adopted |-> FALSE]
Known == IF reg = None THEN NewRecord ELSE reg
\* _jobs_update reads the registry, then replaces it with the record as the
\* caller's fields change it; its lock is the process's own.
Update(s, record) ==
  /\ upd[s] = None
  /\ upd' = [upd EXCEPT ![s] = record]

WriteRegistry(s) ==
  /\ upd[s] # None
  /\ reg' = upd[s] /\ upd' = [upd EXCEPT ![s] = None]
  /\ UNCHANGED <<shelxt, late, prog, dog, call, workbench, crashes>>

\* The call waits 15 s for the process; then it gives up, whatever follows.
WaitStarted(s) ==
  /\ call.at = "wait" /\ call.on = s
  /\ \/ /\ call.pid = "known" /\ call' = [call EXCEPT !.at = "started"]
        /\ Update(s, [Known EXCEPT !.stage = "running"])
     \/ /\ call.pid # "known" /\ call' = [call EXCEPT !.at = "refused"] /\ UNCHANGED upd
  /\ UNCHANGED <<shelxt, late, files, dog, workbench, crashes>>

\* One round of _watch_loop looks at the process and the clock ...
Watch(s) ==
  /\ dog[s].at = "loop"
  /\ \/ ~shelxt.alive /\ dog' = [dog EXCEPT ![s].at = "final"]
     \/ shelxt.alive /\ late /\ dog' = [dog EXCEPT ![s] = [at |-> "kill", timedOut |-> TRUE]]
     \/ shelxt.alive /\ ~late /\ dog' = [dog EXCEPT ![s].at = "beat"]
  /\ UNCHANGED <<shelxt, late, files, upd, call, workbench, crashes>>

\* ... writes what it saw, ...
Beat(s) ==
  /\ dog[s].at = "beat"
  /\ prog' = [stage |-> "running", running |-> TRUE]
  /\ dog' = [dog EXCEPT ![s].at = "loop"]
  /\ UNCHANGED <<shelxt, late, reg, upd, call, workbench, crashes>>

Kill(s) ==
  /\ dog[s].at = "kill"
  /\ shelxt' = [shelxt EXCEPT !.alive = FALSE] /\ dog' = [dog EXCEPT ![s].at = "final"]
  /\ UNCHANGED <<late, files, upd, call, workbench, crashes>>

\* Bug variant: the stage of a killed job is its reason.
WhyItEnded(s) == IF dog[s].timedOut THEN "timeout" ELSE "finished"
\* ... and at the end what became of the job.
Outcome(s) == CASE dog[s].timedOut -> "killed" [] Solved -> "finished" [] OTHER -> "failed"
FinalWrite(s) ==
  /\ dog[s].at = "final"
  /\ prog' = [stage |-> Outcome(s), running |-> FALSE]
  /\ dog' = [dog EXCEPT ![s].at = "record"]
  /\ UNCHANGED <<shelxt, late, reg, upd, call, workbench, crashes>>

Record(s) ==
  /\ dog[s].at = "record"
  /\ Update(s, [Known EXCEPT !.stage = Outcome(s), !.over = TRUE])
  /\ dog' = [dog EXCEPT ![s] = NoDog]
  /\ UNCHANGED <<shelxt, late, files, call, workbench, crashes>>

\* Bug variant: a server looks only after the jobs it started itself.
JobStatusOfItsOwn(s) == FALSE /\ UNCHANGED vars
\* job_status: a running job nobody of this server watches gets a watchdog.
JobStatus(s) ==
  /\ dog[s].at = "none" /\ prog # None /\ prog.running /\ shelxt.alive
  /\ dog' = [dog EXCEPT ![s] = [at |-> "loop", timedOut |-> FALSE]]
  /\ UNCHANGED <<shelxt, late, files, upd, call, workbench, crashes>>

\* run_shelxt(from_job): the model is taken over and the registry told.
Adopt(s) ==
  /\ Solved /\ (reg # None => ~reg.adopted) /\ Update(s, [Known EXCEPT !.adopted = TRUE])
  /\ UNCHANGED <<shelxt, late, files, dog, call, workbench, crashes>>

\* A server stops: its threads go, SHELXT may go on.
Crash(s) ==
  /\ crashes < MaxCrashes /\ crashes' = crashes + 1
  /\ dog' = [dog EXCEPT ![s] = NoDog] /\ upd' = [upd EXCEPT ![s] = None]
  /\ call' = IF call.on = s /\ call.at = "wait" THEN [call EXCEPT !.at = "refused"] ELSE call
  /\ UNCHANGED <<shelxt, late, files, workbench>>

-----------------------------------------------------------------------------
(* The watcher.                                                             *)

\* Bug variant: progress.json is believed.
SnapshotOfTheFile ==
  [running |-> prog.running, solved |-> Solved, adopted |-> reg.adopted, stage |-> prog.stage]
\* job_snapshot: progress.json is believed while the process lives.
Snapshot ==
  LET running == prog.running /\ shelxt.alive
  IN  [running |-> running, solved |-> Solved, adopted |-> reg.adopted,
       stage |-> CASE running -> "running"
                   [] ~running /\ prog.running -> IF Solved THEN "finished" ELSE "died"
                   [] OTHER -> prog.stage]

\* Bug variant: an ending is told at every change.
StageOf(old, new) == IF old = None /\ new.running THEN "started" ELSE new.stage
Transition(old, new) ==
  CASE old = None -> IF new.running THEN "started" ELSE new.stage
    [] old # None /\ new.adopted /\ ~old.adopted -> "adopted"
    [] old # None /\ ~(new.adopted /\ ~old.adopted) /\ old.running /\ ~new.running -> new.stage
    [] OTHER -> "stage"

Interesting(snap) == snap.running \/ (snap.solved /\ ~snap.adopted)

\* A story begins once and ends once.
Tell(transition) ==
  CASE transition = "started" -> IF story = "untold" THEN "begun" ELSE "broken"
    [] transition \in Over -> IF story = "over" \/ (transition = "finished" /\ ~Solved) THEN "broken" ELSE "over"
    [] OTHER -> story

\* One pass over the registry.  What was over before the watcher started is
\* dropped, unless a solution waits for adoption.
Poll ==
  /\ IF reg = None \/ prog = None \/ view.at = "dropped"
     THEN view' = [view EXCEPT !.primed = TRUE] /\ UNCHANGED story
     ELSE LET new == Snapshot
              history == view.at = "new" /\ ~view.primed /\ ~new.running /\ ~Interesting(new)
              same == view.at = "tracked" /\ new = view.snap
          IN  /\ view' = [at |-> IF history \/ (new.adopted /\ ~new.running) THEN "dropped" ELSE "tracked",
                          snap |-> new, primed |-> TRUE]
              /\ story' = IF history \/ same THEN story
                          ELSE Tell(Transition(IF view.at = "new" THEN None ELSE view.snap, new))
  /\ UNCHANGED <<shelxt, late, files, dog, upd, call, crashes, reopens>>

\* A dead job is tracked for half a minute, a solution for a day.
Forget ==
  /\ view.at = "tracked" /\ ~view.snap.running /\ view' = [view EXCEPT !.at = "dropped"]
  /\ UNCHANGED <<shelxt, late, files, dog, upd, call, story, crashes, reopens>>

Reopen ==
  /\ reopens < MaxReopens /\ reopens' = reopens + 1
  /\ view' = [at |-> "new", snap |-> None, primed |-> FALSE] /\ story' = "untold"
  /\ UNCHANGED <<shelxt, late, files, dog, upd, call, crashes>>

-----------------------------------------------------------------------------
Watchdog(s) == \/ Spawn(s) \/ FirstWrite(s) \/ Signal(s) \/ Watch(s) \/ Beat(s) \/ Kill(s)
               \/ FinalWrite(s) \/ Record(s)
Server(s) == Watchdog(s) \/ WriteRegistry(s) \/ WaitStarted(s)

Next ==
  \/ Compute \/ BudgetPasses
  \/ \E s \in Servers : StartDetached(s) \/ Server(s) \/ JobStatus(s) \/ Adopt(s) \/ Crash(s)
  \/ Poll \/ Forget \/ Reopen

Spec == Init /\ [][Next]_vars

\* Threads and the watcher run, and an agent polls as the call tells it to.
FairSpec ==
  /\ Spec /\ WF_vars(Poll)
  /\ \A s \in Servers : /\ WF_vars(Watchdog(s)) /\ WF_vars(WriteRegistry(s))
                        /\ WF_vars(WaitStarted(s)) /\ WF_vars(JobStatus(s))

-----------------------------------------------------------------------------
Places == {"none", "spawn", "first", "signal", "loop", "beat", "kill", "final", "record"}

TypeOK ==
  /\ shelxt \in [alive : BOOLEAN, phase : {"none", "search", "solved"}]
  /\ late \in BOOLEAN
  /\ prog \in Progress \cup {None}
  /\ reg \in Records \cup {None}
  /\ dog \in [Servers -> [at : Places, timedOut : BOOLEAN]]
  /\ \A s \in Servers : dog[s].timedOut => dog[s].at \in {"kill", "final", "record"}
  /\ upd \in [Servers -> Records \cup {None}]
  /\ call \in [at : {"none", "wait", "started", "refused"}, on : Servers \cup {None},
               pid : {"unknown", "none", "known"}]
  /\ view \in [at : {"new", "tracked", "dropped"}, snap : Snapshots \cup {None}, primed : BOOLEAN]
  /\ story \in {"untold", "begun", "over", "broken"}
  /\ crashes \in Nat /\ reopens \in Nat

\* The story a conversation is told has one end, and "finished" only with a
\* solution, although two watchdogs may write progress.json one after the
\* other's last word and a restart may leave it saying "running" for ever.
OneEnding == story # "broken"

\* A job that was announced and whose process is gone is seen to be over,
\* whoever was to record it.
EndIsSeen ==
  (reg # None /\ prog # None /\ call.at # "none" /\ ~shelxt.alive)
    ~> (view.at = "dropped" \/ (view.snap # None /\ ~view.snap.running))

\* A job past its budget is killed, after a restart too, while somebody
\* polls its status.
BudgetHolds == (late /\ prog # None) ~> ~shelxt.alive

\* Whoever was to watch a job, its end is seen and its budget is kept.
JobsEnd == EndIsSeen /\ BudgetHolds

\* "Then record the outcome in the registry" (_detached_worker): the start
\* of a job does not outlive its end there.
RegistryKnowsTheEnd ==
  (reg # None /\ reg.over) => reg.stage # "running"
=============================================================================
