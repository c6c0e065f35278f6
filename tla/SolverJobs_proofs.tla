-------------------------- MODULE SolverJobs_proofs --------------------------
(***************************************************************************)
(* Proof that the story of a background job has one end, for any number of *)
(* tool servers that stop and start again, any number of watchdogs writing *)
(* the job's files, any number of times the project is opened.             *)
(*                                                                         *)
(* The argument: a process that ended never starts again, because only the *)
(* home server spawns it, once, before progress.json exists (Starts); a    *)
(* progress.json that says the job is over was written after the process   *)
(* ended (WrittenAtTheEnd); hence a snapshot that is over stays over, and  *)
(* what the watcher has told agrees with the process (Told).               *)
(***************************************************************************)
EXTENDS SolverJobs, TLAPS

(* Before progress.json exists the job is in the hands of the thread that  *)
(* starts it; only that thread starts a process.                           *)
Starts ==
  /\ call.at = "none" => prog = None /\ ~shelxt.alive /\ \A s \in Servers : dog[s].at = "none"
  /\ \A s \in Servers :
       /\ dog[s].at \in {"spawn", "first"} => s = Home
       /\ prog # None => dog[s].at \notin {"spawn", "first"}
       /\ prog = None => dog[s].at \in {"none", "spawn", "first"}
       /\ dog[s].at = "spawn" => ~shelxt.alive

(* Whoever is about to record an end, and the file that says one, come     *)
(* after the process; "finished" comes after its solution.                 *)
WrittenAtTheEnd ==
  /\ \A s \in Servers : dog[s].at \in {"final", "record"} => ~shelxt.alive
  /\ prog # None /\ ~prog.running => ~shelxt.alive
  /\ prog # None /\ prog.stage = "finished" => Solved

(* Nothing is told of a job that was not looked at; a story that is over   *)
(* is one of a process that ended; what is remembered as ended has ended.  *)
Told ==
  /\ view.at = "new" => story = "untold"
  /\ view.at = "tracked" => view.snap # None
  /\ story = "over" => prog # None /\ ~shelxt.alive
  /\ view.at = "tracked" /\ view.snap.running => story # "over"
  /\ story # "broken"

Inv == TypeOK /\ Starts /\ WrittenAtTheEnd /\ Told

-----------------------------------------------------------------------------
LEMMA NoneIsNoRecord ==
  /\ \A r \in Progress : r # None
  /\ \A r \in Snapshots : r # None
  /\ NewRecord \in Records
  BY NoneAssumption DEF NewRecord, Records

LEMMA InitInv == Init => Inv
  <1> SUFFICES ASSUME Init PROVE Inv
    OBVIOUS
  <1> USE HomeAssumption DEF Init, NoDog
  <1>1. TypeOK
    BY DEF TypeOK, Places
  <1>2. Starts /\ WrittenAtTheEnd /\ Told
    BY DEF Starts, WrittenAtTheEnd, Told
  <1> QED
    BY <1>1, <1>2 DEF Inv

(* What is written to progress.json.                                       *)
LEMMA WrittenIsProgress ==
  \A q \in Stages, b \in BOOLEAN :
    /\ [stage |-> q, running |-> b] \in Progress
    /\ [stage |-> q, running |-> b] # None
  <1> SUFFICES ASSUME NEW q \in Stages, NEW b \in BOOLEAN
               PROVE  /\ [stage |-> q, running |-> b] \in Progress
                      /\ [stage |-> q, running |-> b] # None
    OBVIOUS
  <1>1. [stage |-> q, running |-> b] \in Progress
    BY DEF Progress
  <1> QED
    BY <1>1, NoneIsNoRecord

LEMMA StagesAre == "running" \in Stages /\ "failed" \in Stages /\ Over \subseteq Stages
  BY DEF Stages, Over

(* A watchdog moves on, and remembers a timeout only on its way to say so. *)
LEMMA DogMoves ==
  ASSUME TypeOK, NEW s \in Servers, NEW q \in Places, dog' = [dog EXCEPT ![s].at = q],
         dog[s].timedOut => q \in {"kill", "final", "record"}
  PROVE  /\ dog' \in [Servers -> [at : Places, timedOut : BOOLEAN]]
         /\ \A x \in Servers : dog'[x].timedOut => dog'[x].at \in {"kill", "final", "record"}
  BY DEF TypeOK

(* The registry's next record is a record.                                 *)
LEMMA KnownIsRecord == TypeOK => Known \in Records
  BY NoneIsNoRecord DEF TypeOK, Known

LEMMA UpdateTyped ==
  ASSUME TypeOK, NEW s \in Servers, NEW r \in Records, Update(s, r)
  PROVE  upd' \in [Servers -> Records \cup {None}]
  BY DEF TypeOK, Update

LEMMA OutcomeIsOver == \A s \in Servers : Outcome(s) \in Over
  BY DEF Outcome, Over

-----------------------------------------------------------------------------
(* A server's step keeps the types: its thread moves to a place of the     *)
(* watchdog, and what it writes is a record.                               *)
LEMMA StepKeepsType ==
  ASSUME TypeOK, Starts, NEW s \in Servers,
         \/ StartDetached(s) \/ Server(s) \/ JobStatus(s) \/ Adopt(s) \/ Crash(s)
  PROVE  TypeOK'
  <1> USE NoneIsNoRecord
  <1>r. Known \in Records
    BY KnownIsRecord
  <1>o. Outcome(s) \in Stages
    BY OutcomeIsOver DEF Stages
  <1>p. /\ "spawn" \in Places /\ "first" \in Places /\ "record" \in Places
        /\ "final" \in Places /\ "beat" \in Places
    BY DEF Places
  <1>q. \A x \in Servers : dog[x].timedOut => dog[x].at \in {"kill", "final", "record"}
    BY DEF TypeOK
  <1>c. /\ shelxt \in [alive : BOOLEAN, phase : {"none", "search", "solved"}]
        /\ call \in [at : {"none", "wait", "started", "refused"}, on : Servers \cup {None},
                     pid : {"unknown", "none", "known"}]
    BY DEF TypeOK
  <1>w. /\ [stage |-> "running", running |-> TRUE] \in Progress
        /\ [stage |-> "failed", running |-> FALSE] \in Progress
    BY WrittenIsProgress, StagesAre
  <1> DEFINE DogTyped == /\ dog \in [Servers -> [at : Places, timedOut : BOOLEAN]]
                         /\ \A x \in Servers : dog[x].timedOut => dog[x].at \in {"kill", "final", "record"}
  <1>1. CASE StartDetached(s)
    <2>1. ~dog[s].timedOut
      BY <1>1, <1>q DEF StartDetached, Starts
    <2>2. DogTyped'
      BY <1>1, <1>p, <2>1, DogMoves DEF StartDetached
    <2>3. call' \in [at : {"none", "wait", "started", "refused"}, on : Servers \cup {None},
                    pid : {"unknown", "none", "known"}]
      <3>1. call' = [at |-> "wait", on |-> s, pid |-> call.pid]
        BY <1>1, <1>c DEF StartDetached
      <3> QED
        BY <1>c, <3>1
    <2> QED
      BY <1>1, <2>2, <2>3 DEF TypeOK, StartDetached, files, workbench
  <1>2. CASE Spawn(s)
    <2>1. DogTyped'
      BY <1>2, <1>p, <1>q, DogMoves DEF Spawn
    <2>2. prog' \in Progress \cup {None}
      <3>1. prog' = prog \/ prog' = [stage |-> "failed", running |-> FALSE]
        BY <1>2 DEF Spawn
      <3>2. prog \in Progress \cup {None}
        BY DEF TypeOK
      <3> QED
        BY <1>w, <3>1, <3>2
    <2>3. shelxt' \in [alive : BOOLEAN, phase : {"none", "search", "solved"}]
      <3>1. shelxt' = shelxt \/ shelxt' = [alive |-> TRUE, phase |-> "search"]
        BY <1>2 DEF Spawn
      <3>2. [alive |-> TRUE, phase |-> "search"]
              \in [alive : BOOLEAN, phase : {"none", "search", "solved"}]
        OBVIOUS
      <3>3. shelxt \in [alive : BOOLEAN, phase : {"none", "search", "solved"}]
        BY <1>c
      <3> QED
        BY <3>1, <3>2, <3>3
    <2> QED
      BY <1>2, <2>1, <2>2, <2>3 DEF TypeOK, Spawn, workbench
  <1>3. CASE FirstWrite(s)
    BY <1>3 DEF TypeOK, FirstWrite, workbench, Places, Progress, Stages
  <1>4. CASE Signal(s)
    BY <1>4 DEF TypeOK, Signal, files, workbench, Places
  <1>5. CASE Watch(s)
    <2>1. CASE dog' = [dog EXCEPT ![s] = [at |-> "kill", timedOut |-> TRUE]]
      <3>1. [at |-> "kill", timedOut |-> TRUE] \in [at : Places, timedOut : BOOLEAN]
        BY DEF Places
      <3>2. DogTyped'
        BY <2>1, <3>1 DEF TypeOK
      <3> QED
        BY <1>5, <3>2 DEF TypeOK, Watch, files, workbench
    <2>2. CASE dog' = [dog EXCEPT ![s].at = "final"] \/ dog' = [dog EXCEPT ![s].at = "beat"]
      <3>1. DogTyped'
        BY <1>5, <1>p, <1>q, <2>2, DogMoves DEF Watch
      <3> QED
        BY <1>5, <3>1 DEF TypeOK, Watch, files, workbench
    <2> QED
      BY <1>5, <2>1, <2>2 DEF Watch
  <1>6. CASE Beat(s)
    BY <1>6 DEF TypeOK, Beat, workbench, Places, Progress, Stages
  <1>7. CASE Kill(s)
    <2>1. DogTyped'
      BY <1>7, <1>p, DogMoves DEF Kill
    <2>2. shelxt' \in [alive : BOOLEAN, phase : {"none", "search", "solved"}]
      BY <1>7, <1>c DEF Kill
    <2> QED
      BY <1>7, <2>1, <2>2 DEF TypeOK, Kill, files, workbench
  <1>8. CASE FinalWrite(s)
    BY <1>o, <1>8 DEF TypeOK, FinalWrite, workbench, Places, Progress
  <1>9. CASE Record(s)
    <2>1. [Known EXCEPT !.stage = Outcome(s), !.over = TRUE] \in Records
      BY <1>r, <1>o DEF Records
    <2>2. upd' \in [Servers -> Records \cup {None}]
      BY <1>9, <2>1, UpdateTyped DEF Record
    <2>3. DogTyped'
      BY <1>9 DEF TypeOK, Record, NoDog, Places
    <2> QED
      BY <1>9, <2>2, <2>3 DEF TypeOK, Record, files, workbench
  <1>10. CASE WriteRegistry(s)
    BY <1>10 DEF TypeOK, WriteRegistry, workbench
  <1>11. CASE WaitStarted(s)
    <2>1. [Known EXCEPT !.stage = "running"] \in Records
      BY <1>r DEF Records, Stages
    <2>2. upd' \in [Servers -> Records \cup {None}]
      BY <1>11, <2>1, UpdateTyped DEF WaitStarted, TypeOK
    <2> QED
      BY <1>11, <2>2 DEF TypeOK, WaitStarted, files, workbench
  <1>12. CASE JobStatus(s)
    BY <1>12 DEF TypeOK, JobStatus, files, workbench, Places
  <1>13. CASE Adopt(s)
    <2>1. [Known EXCEPT !.adopted = TRUE] \in Records
      BY <1>r DEF Records
    <2>2. upd' \in [Servers -> Records \cup {None}]
      BY <1>13, <2>1, UpdateTyped DEF Adopt
    <2> QED
      BY <1>13, <2>2 DEF TypeOK, Adopt, files, workbench
  <1>14. CASE Crash(s)
    BY <1>14 DEF TypeOK, Crash, NoDog, files, workbench, Places
  <1> QED
    BY <1>1, <1>2, <1>3, <1>4, <1>5, <1>6, <1>7, <1>8, <1>9, <1>10, <1>11, <1>12, <1>13, <1>14
    DEF Server, Watchdog

(* What the watcher sees is a snapshot, and what it tells a story.         *)
LEMMA SnapshotTyped ==
  ASSUME TypeOK, reg # None, prog # None
  PROVE  Snapshot \in Snapshots
  <1>1. prog \in Progress /\ reg \in Records /\ shelxt.alive \in BOOLEAN
    BY DEF TypeOK
  <1> QED
    BY <1>1 DEF Snapshot, Snapshots, Progress, Records, Stages, Over, Solved

LEMMA WatcherKeepsType ==
  ASSUME TypeOK, Compute \/ BudgetPasses \/ Poll \/ Forget \/ Reopen \/ UNCHANGED vars
  PROVE  TypeOK'
  <1>1. CASE Compute \/ BudgetPasses
    BY <1>1 DEF TypeOK, Compute, BudgetPasses, files, workbench
  <1>2. CASE Poll
    <2>1. view' \in [at : {"new", "tracked", "dropped"}, snap : Snapshots \cup {None},
                     primed : BOOLEAN]
      <3>1. CASE view' = [view EXCEPT !.primed = TRUE]
        BY <3>1 DEF TypeOK
      <3>2. CASE view' # [view EXCEPT !.primed = TRUE]
        <4>1. Snapshot \in Snapshots
          BY <1>2, <3>2, SnapshotTyped DEF Poll
        <4>2. \E q \in {"new", "tracked", "dropped"} :
                view' = [at |-> q, snap |-> Snapshot, primed |-> TRUE]
          BY <1>2, <3>2 DEF Poll
        <4> QED
          BY <4>1, <4>2
      <3> QED
        BY <3>1, <3>2
    <2>2. story' \in {"untold", "begun", "over", "broken"}
      BY <1>2 DEF TypeOK, Poll, Tell
    <2> QED
      BY <1>2, <2>1, <2>2 DEF TypeOK, Poll, files
  <1>3. CASE Forget
    BY <1>3 DEF TypeOK, Forget, files
  <1>5. CASE Reopen
    BY <1>5 DEF TypeOK, Reopen, files
  <1>4. CASE UNCHANGED vars
    BY <1>4 DEF TypeOK, vars, files
  <1> QED
    BY <1>1, <1>2, <1>3, <1>4, <1>5

-----------------------------------------------------------------------------
(* The start.  A step that leaves the process and progress.json alone, and *)
(* moves threads only on from where they are, keeps it.                    *)
LEMMA StepKeepsStarts ==
  ASSUME Inv, NEW s \in Servers,
         \/ StartDetached(s) \/ Server(s) \/ JobStatus(s) \/ Adopt(s) \/ Crash(s)
  PROVE  Starts'
  <1> USE NoneIsNoRecord
  <1>0. TypeOK /\ Starts
    BY DEF Inv
  <1>w. /\ [stage |-> "running", running |-> TRUE] # None
        /\ [stage |-> "failed", running |-> FALSE] # None
    BY WrittenIsProgress, StagesAre
  <1>1. CASE StartDetached(s)
    BY <1>0, <1>1 DEF TypeOK, Starts, StartDetached, files
  <1>2. CASE Spawn(s)
    BY <1>0, <1>w, <1>2 DEF TypeOK, Starts, Spawn
  <1>3. CASE FirstWrite(s)
    BY <1>0, <1>w, <1>3 DEF TypeOK, Starts, FirstWrite
  <1>4. CASE Signal(s)
    BY <1>0, <1>4 DEF TypeOK, Starts, Signal, files
  <1>5. CASE Watch(s)
    BY <1>0, <1>5 DEF TypeOK, Starts, Watch, files
  <1>6. CASE Beat(s)
    BY <1>0, <1>w, <1>6 DEF TypeOK, Starts, Beat
  <1>7. CASE Kill(s)
    BY <1>0, <1>7 DEF TypeOK, Starts, Kill, files
  <1>8. CASE FinalWrite(s)
    <2>1. prog' # None
      BY <1>8, OutcomeIsOver, WrittenIsProgress, StagesAre DEF FinalWrite
    <2> QED
      BY <1>0, <1>8, <2>1 DEF TypeOK, Starts, FinalWrite
  <1>9. CASE Record(s)
    BY <1>0, <1>9 DEF TypeOK, Starts, Record, NoDog, files
  <1>10. CASE WriteRegistry(s) \/ WaitStarted(s) \/ Adopt(s)
    BY <1>0, <1>10 DEF TypeOK, Starts, WriteRegistry, WaitStarted, Adopt, files
  <1>12. CASE JobStatus(s)
    BY <1>0, <1>12 DEF TypeOK, Starts, JobStatus, files
  <1>14. CASE Crash(s)
    BY <1>0, <1>14 DEF TypeOK, Starts, Crash, NoDog, files
  <1> QED
    BY <1>1, <1>2, <1>3, <1>4, <1>5, <1>6, <1>7, <1>8, <1>9, <1>10, <1>12, <1>14
    DEF Server, Watchdog

(* A process, once it ended, stays ended when there is a progress.json.    *)
LEMMA EndedStaysEnded ==
  ASSUME Inv, [Next]_vars, prog # None
  PROVE  /\ ~shelxt.alive => ~shelxt'.alive
         /\ Solved => Solved'
         /\ prog' # None
  <1> USE NoneIsNoRecord
  <1>0. TypeOK /\ Starts
    BY DEF Inv
  <1>1. \A s \in Servers : ~Spawn(s)
    BY <1>0 DEF Starts, Spawn
  <1>2. CASE \E s \in Servers : \/ StartDetached(s) \/ Server(s) \/ JobStatus(s)
                               \/ Adopt(s) \/ Crash(s)
    <2>1. PICK s \in Servers : \/ StartDetached(s) \/ Server(s) \/ JobStatus(s)
                               \/ Adopt(s) \/ Crash(s)
      BY <1>2
    <2>2. shelxt' = shelxt \/ shelxt' = [shelxt EXCEPT !.alive = FALSE]
      BY <1>1, <2>1
      DEF StartDetached, Server, Watchdog, FirstWrite, Signal, Watch, Beat, Kill, FinalWrite,
          Record, WriteRegistry, WaitStarted, JobStatus, Adopt, Crash
    <2>3. prog' = prog \/ \E q \in Stages, r \in BOOLEAN : prog' = [stage |-> q, running |-> r]
      BY <1>1, <2>1, OutcomeIsOver
      DEF StartDetached, Server, Watchdog, FirstWrite, Signal, Watch, Beat, Kill, FinalWrite,
          Record, WriteRegistry, WaitStarted, JobStatus, Adopt, Crash, files, Stages
    <2> QED
      BY <1>0, <2>2, <2>3 DEF TypeOK, Solved, Progress
  <1>3. CASE Compute
    BY <1>0, <1>3 DEF TypeOK, Compute, Solved, files
  <1>4. CASE BudgetPasses \/ Poll \/ Forget \/ Reopen \/ UNCHANGED vars
    BY <1>4 DEF BudgetPasses, Poll, Forget, Reopen, vars, files, Solved
  <1> QED
    BY <1>2, <1>3, <1>4 DEF Next

-----------------------------------------------------------------------------
LEMMA StepKeepsWritten ==
  ASSUME Inv, NEW s \in Servers,
         \/ StartDetached(s) \/ Server(s) \/ JobStatus(s) \/ Adopt(s) \/ Crash(s)
  PROVE  WrittenAtTheEnd'
  <1> USE NoneIsNoRecord
  <1>0. TypeOK /\ Starts /\ WrittenAtTheEnd
    BY DEF Inv
  <1>1. CASE StartDetached(s)
    BY <1>0, <1>1 DEF TypeOK, WrittenAtTheEnd, StartDetached, files, Solved
  <1>2. CASE Spawn(s)
    BY <1>0, <1>2 DEF TypeOK, Starts, WrittenAtTheEnd, Spawn, Progress, Solved
  <1>3. CASE FirstWrite(s)
    BY <1>0, <1>3 DEF TypeOK, WrittenAtTheEnd, FirstWrite, Solved
  <1>4. CASE Signal(s)
    BY <1>0, <1>4 DEF TypeOK, WrittenAtTheEnd, Signal, files, Solved
  <1>5. CASE Watch(s)
    BY <1>0, <1>5 DEF TypeOK, WrittenAtTheEnd, Watch, files, Solved
  <1>6. CASE Beat(s)
    BY <1>0, <1>6 DEF TypeOK, WrittenAtTheEnd, Beat, Solved
  <1>7. CASE Kill(s)
    BY <1>0, <1>7 DEF TypeOK, WrittenAtTheEnd, Kill, files, Solved
  <1>8. CASE FinalWrite(s)
    BY <1>0, <1>8 DEF TypeOK, WrittenAtTheEnd, FinalWrite, Outcome, Solved
  <1>9. CASE Record(s)
    BY <1>0, <1>9 DEF TypeOK, WrittenAtTheEnd, Record, NoDog, files, Solved
  <1>10. CASE WriteRegistry(s) \/ WaitStarted(s) \/ Adopt(s)
    BY <1>0, <1>10 DEF TypeOK, WrittenAtTheEnd, WriteRegistry, WaitStarted, Adopt, files, Solved
  <1>12. CASE JobStatus(s)
    BY <1>0, <1>12 DEF TypeOK, WrittenAtTheEnd, JobStatus, files, Solved
  <1>14. CASE Crash(s)
    BY <1>0, <1>14 DEF TypeOK, WrittenAtTheEnd, Crash, NoDog, files, Solved
  <1> QED
    BY <1>1, <1>2, <1>3, <1>4, <1>5, <1>6, <1>7, <1>8, <1>9, <1>10, <1>12, <1>14
    DEF Server, Watchdog

LEMMA WatcherKeepsJob ==
  ASSUME Inv, Compute \/ BudgetPasses \/ Poll \/ Forget \/ Reopen \/ UNCHANGED vars
  PROVE  Starts' /\ WrittenAtTheEnd'
  <1>0. TypeOK /\ Starts /\ WrittenAtTheEnd
    BY DEF Inv
  <1>1. CASE Compute
    BY <1>0, <1>1 DEF TypeOK, Starts, WrittenAtTheEnd, Compute, files, Solved
  <1>2. CASE BudgetPasses \/ Poll \/ Forget \/ Reopen \/ UNCHANGED vars
    BY <1>0, <1>2
    DEF Starts, WrittenAtTheEnd, BudgetPasses, Poll, Forget, Reopen, vars, files, Solved
  <1> QED
    BY <1>1, <1>2

-----------------------------------------------------------------------------
(* The story.  Only the watcher tells; while it does not, what it told     *)
(* stays true because an ended process stays ended.                        *)
LEMMA SilenceKeepsTold ==
  ASSUME Inv, [Next]_vars, view' = view, story' = story
  PROVE  Told'
  BY EndedStaysEnded DEF Inv, Told

(* A snapshot that is not running is one of a process that ended, and its  *)
(* "finished" is true.                                                     *)
LEMMA SnapshotIsTrue ==
  ASSUME Inv, reg # None, prog # None
  PROVE  /\ Snapshot.running <=> prog.running /\ shelxt.alive
         /\ ~Snapshot.running => ~shelxt.alive
         /\ ~Snapshot.running /\ Snapshot.stage = "finished" => Solved
  BY DEF Inv, TypeOK, WrittenAtTheEnd, Snapshot, Progress

(* Telling a transition breaks a story only by beginning it twice, ending  *)
(* it twice, or a false "finished".                                        *)
LEMMA TellingIsSound ==
  ASSUME NEW q,
         q = "started" => story = "untold",
         q \in Over => story # "over" /\ (q = "finished" => Solved),
         story # "broken"
  PROVE  Tell(q) # "broken" /\ (Tell(q) = "over" <=> q \in Over \/ story = "over")
  BY DEF Tell, Over

LEMMA PollKeepsTold ==
  ASSUME Inv, Poll
  PROVE  Told'
  <1> USE NoneIsNoRecord
  <1>0. TypeOK /\ Told
    BY DEF Inv
  <1>1. UNCHANGED <<shelxt, prog, reg>>
    BY DEF Poll, files
  <1>2. CASE reg = None \/ prog = None \/ view.at = "dropped"
    <2>1. view' = [view EXCEPT !.primed = TRUE] /\ story' = story
      BY <1>2 DEF Poll
    <2>2. view'.at = view.at /\ view'.snap = view.snap
      BY <1>0, <2>1 DEF TypeOK
    <2> QED
      BY <1>0, <1>1, <2>1, <2>2 DEF Told
  <1>3. CASE reg # None /\ prog # None /\ view.at # "dropped"
    <2> DEFINE old == IF view.at = "new" THEN None ELSE view.snap
               history == /\ view.at = "new" /\ ~view.primed /\ ~Snapshot.running
                          /\ ~Interesting(Snapshot)
               same == view.at = "tracked" /\ Snapshot = view.snap
    <2>1. /\ view'.at = IF history \/ (Snapshot.adopted /\ ~Snapshot.running)
                        THEN "dropped" ELSE "tracked"
          /\ view'.snap = Snapshot
          /\ story' = IF history \/ same THEN story ELSE Tell(Transition(old, Snapshot))
      BY <1>3 DEF Poll
    <2>2. /\ Snapshot \in Snapshots
          /\ ~Snapshot.running => ~shelxt.alive
          /\ Snapshot.running => shelxt.alive
          /\ ~Snapshot.running /\ Snapshot.stage = "finished" => Solved
      BY <1>0, <1>3, SnapshotTyped, SnapshotIsTrue
    <2>3. view.at = "new" \/ (view.at = "tracked" /\ view.snap \in Snapshots)
      BY <1>0, <1>3 DEF TypeOK, Told
    <2> DEFINE q == Transition(old, Snapshot)
    <2>4. ASSUME ~history, ~same
          PROVE  /\ q = "started" => story = "untold"
                 /\ q \in Over => /\ story # "over" /\ (q = "finished" => Solved)
                                 /\ ~Snapshot.running
      <3>1. CASE view.at = "new"
        <4>1. q = IF Snapshot.running THEN "started" ELSE Snapshot.stage
          BY <3>1 DEF Transition
        <4> QED
          BY <1>0, <2>2, <3>1, <4>1 DEF Told, Over, Snapshots, Stages
      <3>2. CASE view.at = "tracked" /\ view.snap \in Snapshots
        <4>1. \/ q \in {"adopted", "stage"}
              \/ q = Snapshot.stage /\ view.snap.running /\ ~Snapshot.running
          BY <3>2 DEF Transition
        <4> QED
          BY <1>0, <2>2, <3>2, <4>1 DEF Told, Over, Snapshots, Stages
      <3> QED
        BY <2>3, <3>1, <3>2
    <2> HIDE DEF q
    <2>5. /\ story' # "broken"
          /\ story' = "over" => ~shelxt.alive
      <3>1. CASE history \/ same
        BY <1>0, <2>1, <3>1 DEF Told
      <3>2. CASE ~history /\ ~same
        <4>1. story' = Tell(q)
          BY <2>1, <3>2 DEF q
        <4>2. Tell(q) # "broken" /\ (Tell(q) = "over" <=> q \in Over \/ story = "over")
          BY <1>0, <2>4, <3>2, TellingIsSound DEF Told
        <4> QED
          BY <1>0, <2>2, <2>4, <3>2, <4>1, <4>2 DEF Told
      <3> QED
        BY <3>1, <3>2
    <2>6. view'.at # "new"
      BY <2>1
    <2> QED
      BY <1>1, <1>3, <2>1, <2>2, <2>5, <2>6 DEF Told
  <1> QED
    BY <1>2, <1>3

LEMMA StepKeepsTold == ASSUME Inv, [Next]_vars PROVE Told'
  <1>1. CASE Poll
    BY <1>1, PollKeepsTold
  <1>2. CASE Forget \/ Reopen
    BY <1>2 DEF Inv, TypeOK, Told, Forget, Reopen, files
  <1>3. CASE UNCHANGED workbench
    BY <1>3, SilenceKeepsTold DEF workbench
  <1>4. Poll \/ Forget \/ Reopen \/ UNCHANGED workbench
    BY DEF Next, Compute, BudgetPasses, StartDetached, Server, Watchdog, Spawn, FirstWrite,
           Signal, Watch, Beat, Kill, FinalWrite, Record, WriteRegistry, WaitStarted,
           JobStatus, Adopt, Crash, vars, workbench
  <1> QED
    BY <1>1, <1>2, <1>3, <1>4

-----------------------------------------------------------------------------
(* Inv is an inductive invariant of the solver jobs.                       *)
THEOREM InvHolds == Spec => []Inv
  <1>1. Inv /\ [Next]_vars => Inv'
    <2> SUFFICES ASSUME Inv, [Next]_vars PROVE Inv'
      OBVIOUS
    <2>1. TypeOK /\ Starts
      BY DEF Inv
    <2>2. TypeOK' /\ Starts' /\ WrittenAtTheEnd'
      BY <2>1, StepKeepsType, WatcherKeepsType, StepKeepsStarts, StepKeepsWritten,
         WatcherKeepsJob DEF Next
    <2> QED
      BY <2>2, StepKeepsTold DEF Inv
  <1> QED
    BY InitInv, <1>1, PTL DEF Spec

(* Every variable keeps its type: the stages a file, a record or a         *)
(* snapshot name are those of a job, and a watchdog that killed the        *)
(* process is on its way to say so.                                        *)
THEOREM TypesHold == Spec => []TypeOK
  <1>1. Inv => TypeOK
    BY DEF Inv
  <1> QED
    BY InvHolds, <1>1, PTL

(* A job's story begins once, ends once, and is "finished" only with a     *)
(* solution, although several watchdogs write the same progress.json,      *)
(* servers stop between its writes and projects are opened again.          *)
THEOREM StoriesEndOnce == Spec => []OneEnding
  <1>1. Inv => OneEnding
    BY DEF Inv, Told, OneEnding
  <1> QED
    BY InvHolds, <1>1, PTL
=============================================================================
