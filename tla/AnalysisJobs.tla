---------------------------- MODULE AnalysisJobs ----------------------------
(***************************************************************************)
(* Background analysis of published models: AnalysisJobManager in          *)
(* crystalpilot/workbench/analysis_jobs.py, with the stage generator and   *)
(* the product cache of crystalpilot/refine/analysis.py.                   *)
(*                                                                         *)
(* Browsers share jobs: one job per project and node, computed by one      *)
(* worker thread, stage by stage.  Every request of a browser runs under   *)
(* the manager's lock and is one step here; the worker takes the lock for  *)
(* each update and reads the cancellation event without it.                *)
(***************************************************************************)
EXTENDS Integers, Sequences, FiniteSets, Functions

CONSTANTS Keys,         \* (project, node)
          Observers,
          NStages,      \* len(ANALYSIS_STAGES)
          MaxFinished, MaxPending, MaxObservers,
          MaxJobs,      \* bound: jobs created
          None

ASSUME LimitsAssumption ==
  /\ {NStages, MaxFinished, MaxPending, MaxObservers} \subseteq Nat \ {0}
  /\ MaxJobs \in Nat

Ids    == 1 .. MaxJobs            \* uuid4, in order of creation
Stages == 1 .. NStages

StageStatus == {"waiting", "running", "ready", "unsupported", "error", "cancelled"}
Terminal    == {"ready", "partial", "error", "cancelled"}
JobStatus   == Terminal \cup {"queued", "running", "cancelling"}

Job == [key: Keys, status: JobStatus, stages: [Stages -> StageStatus],
        resultRevision: Nat, observers: SUBSET Observers,
        cancelled: BOOLEAN, finished: BOOLEAN]

ASSUME NoneAssumption == None \notin Nat /\ None \notin Job

VARIABLES
  jobs,         \* _jobs; None: not created yet, or evicted
  byNode,       \* _by_node
  finished,     \* _finished: ids in the order they finished
  pending,      \* _pending
  dispatching,  \* _dispatching
  closed,       \* _closed
  submitted,    \* a _drain is in the executor's queue
  worker,       \* the worker thread: where it is, its job, stage and update
  cache,        \* the complete product of a node on disk
  lastJob       \* jobs created so far

mgrVars == <<jobs, byNode, finished, pending, dispatching, closed, submitted>>
vars    == <<mgrVars, worker, cache, lastJob>>

Resting == [at |-> "rest", job |-> None, stage |-> 1, update |-> None]

TypeOK ==
  /\ jobs \in [Ids -> Job \cup {None}]
  /\ byNode \in [Keys -> Ids \cup {None}]
  /\ finished \in Seq(Ids)
  /\ pending \in Seq(Ids)
  /\ dispatching \in BOOLEAN /\ closed \in BOOLEAN /\ submitted \in BOOLEAN
  /\ worker \in [at: {"rest", "drain", "begin", "check", "apply", "engine",
                      "save", "finish"},
                 job: Ids \cup {None}, stage: 1 .. NStages + 1,
                 update: StageStatus \cup {None}]
  /\ cache \in [Keys -> [Stages -> StageStatus] \cup {None}]
  /\ lastJob \in 0 .. MaxJobs

Init ==
  /\ jobs = [i \in Ids |-> None]
  /\ byNode = [k \in Keys |-> None]
  /\ finished = << >> /\ pending = << >>
  /\ dispatching = FALSE /\ closed = FALSE /\ submitted = FALSE
  /\ worker = Resting
  /\ cache \in [Keys -> {None, [i \in Stages |-> "ready"]}]
  /\ lastJob = 0

-----------------------------------------------------------------------------
(* Helpers of the manager.                                                 *)

(* Jobs the manager knows whose finished_at is None.                       *)
Unfinished == {j \in Ids : jobs[j] # None /\ ~jobs[j].finished}

(* A product without failed or cancelled stages.                           *)
Cacheable(s) == \A i \in Stages : s[i] \in {"ready", "unsupported"}

(* Bug variant: the last stage speaks for the job.                         *)
LastStageStatus(s) == s[NStages]

ResultStatus(s) ==
  LET seen == {s[i] : i \in Stages} IN
  CASE "cancelled" \in seen                   -> "cancelled"
    [] seen = {"ready"}                       -> "ready"
    [] "error" \in seen /\ "ready" \notin seen -> "error"
    [] OTHER                                  -> "partial"

(* Bug variant: finished jobs are kept for ever.                           *)
Unbounded(order) == << >>

(* The jobs that go when these have finished, oldest first.                *)
Expired(order) ==
  SubSeq(order, 1, IF Len(order) > MaxFinished THEN Len(order) - MaxFinished ELSE 0)

(* Jobs of js, indexed by by, finish one after the other.                  *)
Finish(js, by, ended) ==
  LET order == finished \o ended
      gone  == Range(Expired(order))
  IN /\ finished' = SubSeq(order, Len(Expired(order)) + 1, Len(order))
     /\ jobs' = [i \in Ids |->
                   IF i \in gone THEN None
                   ELSE IF i \in Range(ended) THEN [js[i] EXCEPT !.finished = TRUE]
                   ELSE js[i]]
     /\ byNode' = [k \in Keys |-> IF by[k] \in gone THEN None ELSE by[k]]

(* Bug variant: only the event is set.                                     *)
EventOnly(r) == [r EXCEPT !.cancelled = TRUE, !.status = "cancelling"]

(* Bug variant: the product changes and keeps its revision.                *)
SilentCancel(r) ==
  [r EXCEPT !.cancelled = TRUE, !.status = "cancelling",
            !.stages = [i \in Stages |-> IF @[i] = "waiting" THEN "cancelled" ELSE @[i]]]

(* _request_cancel: stages that have not begun are cancelled at once.      *)
CancelRequested(r) ==
  LET waiting == {i \in Stages : r.stages[i] = "waiting"} IN
  [r EXCEPT !.cancelled = TRUE, !.status = "cancelling",
            !.stages = [i \in Stages |-> IF i \in waiting THEN "cancelled" ELSE @[i]],
            !.resultRevision = @ + Cardinality(waiting)]

-----------------------------------------------------------------------------
(* Requests.                                                               *)

(* start finds a job to share: one in progress or a complete one.          *)
Shareable(r) ==
  /\ r.status # "cancelling"
  /\ r.status \in Terminal => Cacheable(r.stages)

Attach(k, o) ==
  LET j == byNode[k] IN
  /\ ~closed /\ j # None /\ Shareable(jobs[j])
  /\ o \in jobs[j].observers \/ Cardinality(jobs[j].observers) < MaxObservers
  /\ jobs' = [jobs EXCEPT ![j].observers = @ \cup {o}]
  /\ UNCHANGED <<byNode, finished, pending, dispatching, closed, submitted,
                 worker, cache, lastJob>>

(* Bug variant: a job that is being cancelled does not count.              *)
NotShareable(r) == ~Shareable(r)

(* ... or the earlier job of this node failed or was cancelled.            *)
Replaceable(r) == r.status \in Terminal /\ ~Cacheable(r.stages)

NeedsNew(k) ==
  /\ ~closed /\ lastJob < MaxJobs
  /\ byNode[k] # None => Replaceable(jobs[byNode[k]])

NewJob(k, o, stages) ==
  [key |-> k, status |-> "queued", stages |-> stages, resultRevision |-> 1,
   observers |-> {o}, cancelled |-> FALSE, finished |-> FALSE]

(* A complete product is on disk: the job is born finished.                *)
StartCached(k, o) ==
  LET j    == lastJob + 1
      born == [NewJob(k, o, cache[k]) EXCEPT !.status = ResultStatus(cache[k])] IN
  /\ NeedsNew(k) /\ cache[k] # None
  /\ lastJob' = j
  /\ Finish([jobs EXCEPT ![j] = born], [byNode EXCEPT ![k] = j], <<j>>)
  /\ UNCHANGED <<pending, dispatching, closed, submitted, worker, cache>>

(* Bug variant: a dispatcher is taken for granted.                         *)
NoDispatch == UNCHANGED <<dispatching, submitted>>

(* One dispatcher at a time is handed to the executor.                     *)
Dispatch == dispatching' = TRUE /\ submitted' = (submitted \/ ~dispatching)

StartQueued(k, o) ==
  LET j == lastJob + 1 IN
  /\ NeedsNew(k) /\ cache[k] = None
  /\ Cardinality(Unfinished) < MaxPending
  /\ lastJob' = j
  /\ jobs' = [jobs EXCEPT ![j] = NewJob(k, o, [i \in Stages |-> "waiting"])]
  /\ byNode' = [byNode EXCEPT ![k] = j]
  /\ pending' = Append(pending, j)
  /\ Dispatch
  /\ UNCHANGED <<finished, closed, worker, cache>>

(* The executor refuses the dispatcher: the new job is taken back.         *)
SubmitFails(k) ==
  /\ NeedsNew(k) /\ cache[k] = None
  /\ Cardinality(Unfinished) < MaxPending /\ ~dispatching
  /\ byNode' = [byNode EXCEPT ![k] = None]
  /\ UNCHANGED <<jobs, finished, pending, dispatching, closed, submitted,
                 worker, cache, lastJob>>

(* The jobs of which are told; those of ended had not been taken by the    *)
(* worker and finish at once, the one it is computing is left to it.       *)
CancelJobs(js, which, ended) ==
  Finish([i \in Ids |->
            IF i \in Range(ended) THEN [CancelRequested(js[i]) EXCEPT !.status = "cancelled"]
            ELSE IF i \in which THEN CancelRequested(js[i])
            ELSE js[i]],
         byNode, ended)

(* Bug variant: the browser's cancel is obeyed at once.                    *)
WhoeverAsks(j, o) == ~jobs[j].finished

(* The observer was the last one and the job is not finished.              *)
LastObserver(j, o) == jobs[j].observers = {o} /\ ~jobs[j].finished

(* Job j without observer o.                                               *)
Left(j, o) == [jobs EXCEPT ![j].observers = @ \ {o}]

(* cancel: others still observe, or there is nothing left to cancel.       *)
Detach(j, o) ==
  /\ jobs[j] # None /\ o \in jobs[j].observers
  /\ ~LastObserver(j, o)
  /\ jobs' = Left(j, o)
  /\ UNCHANGED <<byNode, finished, pending, dispatching, closed, submitted,
                 worker, cache, lastJob>>

(* cancel by the last observer: the worker has the job ...                 *)
CancelRunning(j, o) ==
  /\ jobs[j] # None /\ o \in jobs[j].observers
  /\ LastObserver(j, o) /\ j \notin Range(pending)
  /\ jobs' = [Left(j, o) EXCEPT ![j] = CancelRequested(@)]
  /\ UNCHANGED <<byNode, finished, pending, dispatching, closed, submitted,
                 worker, cache, lastJob>>

(* The sequence s without its n-th element.                                *)
Without(s, n) == SubSeq(s, 1, n - 1) \o SubSeq(s, n + 1, Len(s))

(* ... or it is in the queue.                                              *)
CancelQueued(j, o) ==
  /\ jobs[j] # None /\ o \in jobs[j].observers
  /\ LastObserver(j, o)
  /\ \E n \in DOMAIN pending : pending[n] = j /\ pending' = Without(pending, n)
  /\ CancelJobs(Left(j, o), {j}, <<j>>)
  /\ UNCHANGED <<dispatching, closed, submitted, worker, cache, lastJob>>

(* Stop observing without cancelling.                                      *)
Release(j, o) ==
  /\ jobs[j] # None /\ o \in jobs[j].observers
  /\ jobs' = [jobs EXCEPT ![j].observers = @ \ {o}]
  /\ UNCHANGED <<byNode, finished, pending, dispatching, closed, submitted,
                 worker, cache, lastJob>>

(* Bug variant: only the queue is cancelled.                               *)
QueuedJobs == Range(pending)

JobsToCancel == Unfinished

Shutdown ==
  /\ ~closed
  /\ closed' = TRUE
  /\ CancelJobs(jobs, JobsToCancel, pending)
  /\ pending' = << >> /\ submitted' = FALSE
  /\ UNCHANGED <<dispatching, worker, cache, lastJob>>

-----------------------------------------------------------------------------
(* The worker thread: _drain, _run and the generator of the stages.        *)

J == worker.job

TakeDispatcher ==
  /\ worker.at = "rest" /\ submitted
  /\ submitted' = FALSE
  /\ worker' = [worker EXCEPT !.at = "drain"]
  /\ UNCHANGED <<jobs, byNode, finished, pending, dispatching, closed, cache, lastJob>>

(* Bug variant: the dispatcher leaves without saying so.                   *)
LeaveSilently ==
  /\ worker.at = "drain" /\ pending = << >>
  /\ worker' = Resting
  /\ UNCHANGED <<mgrVars, cache, lastJob>>

Drained ==
  /\ worker.at = "drain" /\ pending = << >>
  /\ dispatching' = FALSE
  /\ worker' = Resting
  /\ UNCHANGED <<jobs, byNode, finished, pending, closed, submitted, cache, lastJob>>

TakeJob ==
  /\ worker.at = "drain" /\ pending # << >>
  /\ pending' = Tail(pending)
  /\ worker' = [Resting EXCEPT !.at = "begin", !.job = Head(pending)]
  /\ UNCHANGED <<jobs, byNode, finished, dispatching, closed, submitted, cache, lastJob>>

Begin ==
  /\ worker.at = "begin"
  /\ jobs' = IF jobs[J].cancelled THEN jobs ELSE [jobs EXCEPT ![J].status = "running"]
  /\ worker' = [worker EXCEPT !.at = "check"]
  /\ UNCHANGED <<byNode, finished, pending, dispatching, closed, submitted, cache, lastJob>>

(* The generator looks at the event and yields the start of a stage.       *)
CheckCancelled ==
  /\ worker.at = "check" /\ worker.stage <= NStages
  /\ worker' = [worker EXCEPT !.at = "apply",
                  !.update = IF jobs[J].cancelled THEN "cancelled" ELSE "running"]
  /\ UNCHANGED <<mgrVars, cache, lastJob>>

(* The manager applies it under the lock, unless it has been cancelled     *)
(* since.                                                                  *)
ApplyUpdate ==
  LET u == worker.update IN
  /\ worker.at = "apply"
  /\ jobs' = IF u = "running" /\ jobs[J].cancelled THEN jobs
             ELSE [jobs EXCEPT ![J].stages[worker.stage] = u,
                               ![J].resultRevision = @ + 1]
  /\ worker' = IF u = "running" THEN [worker EXCEPT !.at = "engine", !.update = None]
               ELSE [worker EXCEPT !.at = "check", !.stage = @ + 1, !.update = None]
  /\ UNCHANGED <<byNode, finished, pending, dispatching, closed, submitted, cache, lastJob>>

(* The event once more, then the engine, which nobody interrupts.          *)
RunEngine ==
  /\ worker.at = "engine"
  /\ \E u \in IF jobs[J].cancelled THEN {"cancelled"} ELSE {"ready", "unsupported", "error"} :
       worker' = [worker EXCEPT !.at = "apply", !.update = u]
  /\ UNCHANGED <<mgrVars, cache, lastJob>>

(* Something else raises: what has no outcome is an error.                 *)
RunFails ==
  LET open == {i \in Stages : jobs[J].stages[i] \in {"waiting", "running"}} IN
  /\ worker.at \in {"check", "engine"} /\ worker.stage <= NStages
  /\ jobs' = [jobs EXCEPT ![J].stages = [i \in Stages |-> IF i \in open THEN "error" ELSE @[i]],
                          ![J].resultRevision = @ + Cardinality(open)]
  /\ worker' = [worker EXCEPT !.at = "finish"]
  /\ UNCHANGED <<byNode, finished, pending, dispatching, closed, submitted, cache, lastJob>>

(* All stages have an outcome: a complete product is saved.                *)
TakeProduct ==
  /\ worker.at = "check" /\ worker.stage > NStages
  /\ worker' = [worker EXCEPT !.at =
        IF ~jobs[J].cancelled /\ Cacheable(jobs[J].stages) THEN "save" ELSE "finish"]
  /\ UNCHANGED <<mgrVars, cache, lastJob>>

(* The cache file is replaced, or cannot be written.                       *)
SaveProduct ==
  /\ worker.at = "save"
  /\ cache' \in {cache, [cache EXCEPT ![jobs[J].key] = jobs[J].stages]}
  /\ worker' = [worker EXCEPT !.at = "finish"]
  /\ UNCHANGED <<mgrVars, lastJob>>

FinishJob ==
  /\ worker.at = "finish"
  /\ Finish([jobs EXCEPT ![J].status =
                IF jobs[J].cancelled THEN "cancelled" ELSE ResultStatus(jobs[J].stages)],
            byNode, <<J>>)
  /\ worker' = [Resting EXCEPT !.at = "drain"]
  /\ UNCHANGED <<pending, dispatching, closed, submitted, cache, lastJob>>

-----------------------------------------------------------------------------
WorkerStep ==
  \/ TakeDispatcher \/ Drained \/ TakeJob \/ Begin \/ CheckCancelled
  \/ ApplyUpdate \/ RunEngine \/ RunFails \/ TakeProduct \/ SaveProduct \/ FinishJob

Next ==
  \/ \E k \in Keys, o \in Observers : Attach(k, o) \/ StartCached(k, o) \/ StartQueued(k, o)
  \/ \E k \in Keys : SubmitFails(k)
  \/ \E j \in Ids, o \in Observers :
       Detach(j, o) \/ CancelRunning(j, o) \/ CancelQueued(j, o) \/ Release(j, o)
  \/ Shutdown
  \/ WorkerStep

Spec == Init /\ [][Next]_vars

(* The executor's thread runs and engines return.                          *)
FairSpec == Spec /\ WF_vars(WorkerStep)

-----------------------------------------------------------------------------
(* Properties.                                                             *)

(* Single flight: at most one job per node is in progress, and it is the   *)
(* one a start finds.                                                      *)
SingleFlight ==
  \A i \in Unfinished :
    /\ byNode[jobs[i].key] = i
    /\ \A j \in Unfinished : jobs[i].key = jobs[j].key => i = j

(* No job is stranded: what is in progress is in the queue or with the     *)
(* worker, once, and a queue that is not empty has a dispatcher coming.    *)
NothingStranded ==
  /\ Unfinished = Range(pending) \cup ({J} \ {None})
  /\ J \notin Range(pending)
  /\ IsInjective(pending)
  /\ pending # << >> => dispatching /\ (submitted \/ worker.at # "rest")

(* What is kept is bounded, and every job kept is in progress or among the *)
(* last to finish; a start never finds an evicted job.                     *)
RetentionIsBounded ==
  /\ Cardinality(Unfinished) <= MaxPending
  /\ Len(finished) <= MaxFinished
  /\ {j \in Ids : jobs[j] # None} = Unfinished \cup Range(finished)
  /\ \A k \in Keys : byNode[k] # None => jobs[byNode[k]] # None /\ jobs[byNode[k]].key = k

(* A finished job has an outcome for every stage.                          *)
FinishedIsSettled ==
  \A j \in Ids : jobs[j] # None /\ jobs[j].finished =>
    /\ jobs[j].status \in Terminal
    /\ \A i \in Stages : jobs[j].stages[i] \notin {"waiting", "running"}

(* Work in progress is cancelled only when nobody observes it any more, or *)
(* by the shutdown.                                                        *)
ObserversKeepTheirWork ==
  \A j \in Unfinished : jobs[j].cancelled /\ ~closed => jobs[j].observers = {}

(* After the shutdown nothing waits, and what runs has been told.          *)
ClosedIsQuiet == closed => pending = << >> /\ \A j \in Unfinished : jobs[j].cancelled

(* A poll that names the product revision it has may omit the product: no  *)
(* two products of a job have the same revision.                           *)
RevisionNamesProduct ==
  [][\A j \in Ids : jobs[j] # None /\ jobs'[j] # None /\ jobs'[j].stages # jobs[j].stages
       => jobs'[j].resultRevision > jobs[j].resultRevision]_vars

(* Cancelled work is not handed to a new observer as if it were a result:  *)
(* whoever observes a job sees it cancelled only after the shutdown.       *)
CancelledWorkIsNotSticky ==
  \A j \in Ids : jobs[j] # None /\ jobs[j].status = "cancelled" /\ ~closed =>
    jobs[j].observers = {}

(* Every job in progress finishes.                                         *)
EveryJobEnds == \A j \in Ids : j \in Unfinished ~> j \notin Unfinished
=============================================================================
