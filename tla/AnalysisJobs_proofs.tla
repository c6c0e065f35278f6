------------------------ MODULE AnalysisJobs_proofs ------------------------
(***************************************************************************)
(* Proof that the analysis jobs of any nodes and browsers are shared, one  *)
(* per node, that none is stranded and that browsers keep their work.      *)
(*                                                                         *)
(* The argument: a job in progress is in the queue once or in the worker's *)
(* hands (Carried), is what the index has for its node (Indexed), and says *)
(* by its status whether it was cancelled (Told), so a start never shares  *)
(* cancelled work that still runs.  Eviction touches finished jobs only,   *)
(* whichever they are (FinishEffect).                                      *)
(***************************************************************************)
EXTENDS AnalysisJobs, FiniteSetTheorems, SequenceTheorems, TLAPS

InHand ==
  /\ worker.job # None <=> worker.at \notin {"rest", "drain"}
  /\ worker.at \in {"apply", "engine"} => worker.stage \in Stages
  /\ worker.at = "apply" => worker.update \in StageStatus

Typed == TypeOK /\ InHand

\* Unfinished of other jobs than the current ones, and their index.
Live(js) == {j \in Ids : js[j] # None /\ ~js[j].finished}

IndexedBy(js, by, last) ==
  /\ \A j \in Ids : js[j] # None => j <= last
  /\ \A k \in Keys : by[k] # None => js[by[k]] # None /\ js[by[k]].key = k
  /\ \A j \in Live(js) : by[js[j].key] = j

Indexed ==
  /\ IndexedBy(jobs, byNode, lastJob)
  /\ \A j \in Range(finished) : j <= lastJob /\ j \notin Unfinished

Carried ==
  /\ Unfinished = Range(pending) \cup ({J} \ {None})
  /\ J \notin Range(pending)
  /\ IsInjective(pending)

Dispatched ==
  /\ pending # << >> => dispatching /\ ~closed
  /\ dispatching /\ ~closed => submitted \/ worker.at # "rest"

Told ==
  \A j \in Unfinished :
    /\ jobs[j].status \notin Terminal
    /\ jobs[j].cancelled => jobs[j].status = "cancelling"
    /\ jobs[j].cancelled /\ ~closed => jobs[j].observers = {}
    /\ closed => jobs[j].cancelled

JobsInv == Typed /\ Indexed /\ Carried /\ Dispatched /\ Told

-----------------------------------------------------------------------------
(* Sequences and helpers.                                                  *)

LEMMA RangeOfSubSeq ==
  ASSUME NEW S, NEW s \in Seq(S), NEW m \in 1 .. Len(s) + 1, NEW n \in 0 .. Len(s)
  PROVE  SubSeq(s, m, n) \in Seq(S) /\ Range(SubSeq(s, m, n)) \subseteq Range(s)
  <1>1. /\ SubSeq(s, m, n) \in Seq(S)
        /\ Len(SubSeq(s, m, n)) = IF m <= n THEN n - m + 1 ELSE 0
        /\ \A i \in 1 .. Len(SubSeq(s, m, n)) : SubSeq(s, m, n)[i] = s[m + i - 1]
    OBVIOUS
  <1>2. ASSUME NEW i \in DOMAIN SubSeq(s, m, n) PROVE SubSeq(s, m, n)[i] \in Range(s)
    <2>1. i \in 1 .. Len(SubSeq(s, m, n))
      BY <1>1
    <2>2. m + i - 1 \in DOMAIN s
      BY <1>1, <2>1
    <2> QED
      BY <1>1, <2>1, <2>2 DEF Range
  <1> QED
    BY <1>1, <1>2 DEF Range

\* The element at one place of a sequence without repetitions goes, the rest stays.
LEMMA WithoutElement ==
  ASSUME NEW S, NEW s \in Seq(S), NEW n \in 1 .. Len(s), IsInjective(s)
  PROVE  /\ Without(s, n) \in Seq(S)
         /\ Range(Without(s, n)) = Range(s) \ {s[n]}
         /\ IsInjective(Without(s, n))
  <1> DEFINE a == SubSeq(s, 1, n - 1)
             b == SubSeq(s, n + 1, Len(s))
             w == a \o b
             at(i) == IF i < n THEN i ELSE i + 1
  <1>1. /\ a \in Seq(S) /\ Len(a) = n - 1
        /\ \A i \in 1 .. n - 1 : a[i] = s[i]
    BY SubSeqProperties
  <1>2. /\ b \in Seq(S) /\ Len(b) = Len(s) - n
        /\ \A i \in 1 .. Len(s) - n : b[i] = s[n + i]
    OBVIOUS
  <1>3. Len(s) \in Nat /\ n \in Nat /\ DOMAIN s = 1 .. Len(s)
    OBVIOUS
  <1> HIDE DEF a, b
  <1>4. /\ w \in Seq(S) /\ Len(w) = Len(a) + Len(b)
        /\ \A i \in 1 .. Len(a) + Len(b) : w[i] = IF i <= Len(a) THEN a[i] ELSE b[i - Len(a)]
    BY <1>1, <1>2, ConcatProperties
  <1>5. Len(w) = Len(s) - 1 /\ DOMAIN w = 1 .. Len(s) - 1
    BY <1>1, <1>2, <1>3, <1>4, LenProperties
  <1> HIDE DEF w
  <1>6. \A i \in DOMAIN w : w[i] = s[at(i)]
    <2> SUFFICES ASSUME NEW i \in 1 .. Len(s) - 1 PROVE w[i] = s[at(i)]
      BY <1>5
    <2>0. i \in 1 .. Len(a) + Len(b)
      BY <1>1, <1>2, <1>3
    <2>1. CASE i < n
      <3>0. i <= Len(a)
        BY <1>1, <1>3, <2>1
      <3>1. w[i] = a[i]
        BY <1>4, <2>0, <3>0
      <3>2. a[i] = s[i]
        BY <1>1, <1>3, <2>1
      <3> QED
        BY <2>1, <3>1, <3>2
    <2>2. CASE ~(i < n)
      <3>1. PICK k \in 1 .. Len(s) - n : i = k + Len(a)
        <4>1. i - Len(a) \in 1 .. Len(s) - n /\ i = (i - Len(a)) + Len(a)
          BY <1>1, <1>3, <2>2
        <4> QED
          BY <4>1
      <3>0. ~(i <= Len(a))
        BY <1>1, <1>3, <2>2
      <3>2. w[i] = b[i - Len(a)]
        BY <1>4, <2>0, <3>0
      <3>3. i - Len(a) = k /\ n + k = i + 1
        BY <1>1, <1>3, <3>1
      <3>4. w[i] = s[n + k]
        BY <1>2, <3>2, <3>3
      <3> QED
        BY <2>2, <3>3, <3>4
    <2> QED
      BY <2>1, <2>2
  <1>7. \A i, k \in DOMAIN w : at(i) = at(k) => i = k
    BY <1>3, <1>5
  <1>8. \A i \in DOMAIN w : at(i) \in DOMAIN s \ {n}
    BY <1>3, <1>5
  <1>9. \A l \in DOMAIN s \ {n} : \E i \in DOMAIN w : l = at(i)
    <2> SUFFICES ASSUME NEW l \in 1 .. Len(s), l # n PROVE \E i \in DOMAIN w : l = at(i)
      BY <1>3
    <2>1. CASE l < n
      <3>1. l \in DOMAIN w /\ at(l) = l
        BY <1>3, <1>5, <2>1
      <3> QED
        BY <3>1
    <2>2. CASE l > n
      <3>1. l - 1 \in DOMAIN w /\ at(l - 1) = l
        BY <1>3, <1>5, <2>2
      <3> QED
        BY <3>1
    <2> QED
      BY <1>3, <2>1, <2>2
  <1> HIDE DEF at
  <1>10. \A k, l \in DOMAIN s : s[k] = s[l] => k = l
    BY DEF IsInjective
  <1>11. IsInjective(w)
    BY <1>6, <1>7, <1>8, <1>10 DEF IsInjective
  <1>12. Range(w) = Range(s) \ {s[n]}
    <2>1. n \in DOMAIN s
      BY <1>3
    <2>2. \A x \in Range(w) : x \in Range(s) \ {s[n]}
      BY <1>6, <1>8, <1>10, <2>1 DEF Range
    <2>3. ASSUME NEW x \in Range(s) \ {s[n]} PROVE x \in Range(w)
      <3>1. PICK l \in DOMAIN s \ {n} : x = s[l]
        BY DEF Range
      <3>2. PICK i \in DOMAIN w : l = at(i)
        BY <1>9
      <3> QED
        BY <1>6, <3>1, <3>2 DEF Range
    <2> QED
      BY <2>2, <2>3
  <1> QED
    BY <1>4, <1>11, <1>12 DEF Without, w, a, b

LEMMA CancelKeepsType ==
  ASSUME NEW r \in Job
  PROVE  /\ CancelRequested(r) \in Job
         /\ CancelRequested(r).key = r.key
         /\ CancelRequested(r).observers = r.observers
         /\ CancelRequested(r).finished = r.finished
         /\ CancelRequested(r).status = "cancelling"
         /\ CancelRequested(r).cancelled
  <1> DEFINE waiting == {i \in Stages : r.stages[i] = "waiting"}
  <1>1. Cardinality(waiting) \in Nat
    <2>1. IsFiniteSet(Stages)
      BY LimitsAssumption, FS_Interval DEF Stages
    <2>2. IsFiniteSet(waiting)
      BY <2>1, FS_Subset
    <2> QED
      BY <2>2, FS_CardinalityType
  <1>2. r.resultRevision + Cardinality(waiting) \in Nat
    BY <1>1 DEF Job
  <1>3. [i \in Stages |-> IF i \in waiting THEN "cancelled" ELSE r.stages[i]]
          \in [Stages -> StageStatus]
    BY DEF Job, StageStatus
  <1> HIDE DEF waiting
  <1> QED
    BY <1>2, <1>3 DEF CancelRequested, Job, JobStatus, Terminal, waiting

\* Whatever Finish evicts, no job in progress goes, and the index stays right.
LEMMA FinishEffect ==
  ASSUME NEW js \in [Ids -> Job \cup {None}], NEW by \in [Keys -> Ids \cup {None}],
         NEW ended \in Seq(Ids), finished \in Seq(Ids),
         lastJob' \in 0 .. MaxJobs,
         IndexedBy(js, by, lastJob'),
         \A j \in Range(finished) : j <= lastJob' /\ j \notin Live(js),
         \A j \in Range(ended) : js[j] # None,
         Finish(js, by, ended)
  PROVE  /\ jobs' \in [Ids -> Job \cup {None}]
         /\ byNode' \in [Keys -> Ids \cup {None}]
         /\ finished' \in Seq(Ids)
         /\ Unfinished' = Live(js) \ Range(ended)
         /\ \A j \in Unfinished' : jobs'[j] = js[j]
         /\ Indexed'
  <1> DEFINE order == finished \o ended
             drop  == IF Len(order) > MaxFinished THEN Len(order) - MaxFinished ELSE 0
             gone  == Range(Expired(order))
  <1>1. order \in Seq(Ids) /\ Range(order) = Range(finished) \cup Range(ended)
    BY ConcatProperties, RangeConcatenation
  <1>2. Len(order) \in Nat /\ drop \in 0 .. Len(order)
    <2>1. MaxFinished \in Nat \ {0}
      BY LimitsAssumption
    <2> HIDE DEF order
    <2>2. Len(order) \in Nat
      BY <1>1
    <2> QED
      BY <2>1, <2>2
  <1>3. /\ Expired(order) = SubSeq(order, 1, drop)
        /\ Len(Expired(order)) = drop
    <2> HIDE DEF order
    <2>1. Expired(order) = SubSeq(order, 1, drop)
      BY DEF Expired
    <2> HIDE DEF drop
    <2>2. Len(SubSeq(order, 1, drop)) = drop
      BY <1>1, <1>2
    <2> QED
      BY <2>1, <2>2
  <1>4. gone \subseteq Range(order)
    <2> HIDE DEF order, drop
    <2> QED
      BY <1>1, <1>2, <1>3, RangeOfSubSeq
  <1>5. /\ finished' = SubSeq(order, drop + 1, Len(order))
        /\ jobs' = [i \in Ids |->
                      IF i \in gone THEN None
                      ELSE IF i \in Range(ended) THEN [js[i] EXCEPT !.finished = TRUE]
                      ELSE js[i]]
        /\ byNode' = [k \in Keys |-> IF by[k] \in gone THEN None ELSE by[k]]
    BY <1>3 DEF Finish
  <1>6. finished' \in Seq(Ids) /\ Range(finished') \subseteq Range(order)
    <2> HIDE DEF order, drop
    <2>1. drop + 1 \in 1 .. Len(order) + 1 /\ Len(order) \in 0 .. Len(order)
      BY <1>2
    <2> QED
      BY <1>1, <1>5, <2>1, RangeOfSubSeq
  <1> HIDE DEF order, drop, gone
  <1>7. \A j \in gone : j \in Range(ended) \/ j \notin Live(js)
    BY <1>1, <1>4
  <1>8. jobs' \in [Ids -> Job \cup {None}] /\ byNode' \in [Keys -> Ids \cup {None}]
    <2>1. \A i \in Range(ended) : i \in Ids /\ js[i] \in Job
      BY RangeOfSeq
    <2>2. \A i \in Range(ended) : [js[i] EXCEPT !.finished = TRUE] \in Job
      BY <2>1 DEF Job
    <2> QED
      BY <1>5, <2>2
  <1>9. \A i \in Range(ended) : i \in Ids /\ [js[i] EXCEPT !.finished = TRUE].finished
    BY RangeOfSeq DEF Job
  <1>10. Unfinished' = Live(js) \ Range(ended) /\ \A j \in Unfinished' : jobs'[j] = js[j]
    BY <1>5, <1>7, <1>9 DEF Unfinished, Live
  <1>11. Indexed'
    <2>1. \A j \in Ids : jobs'[j] # None => j <= lastJob'
      BY <1>5, NoneAssumption DEF IndexedBy
    <2>2. ASSUME NEW k \in Keys, byNode'[k] # None
          PROVE  jobs'[byNode'[k]] # None /\ jobs'[byNode'[k]].key = k
      <3>1. by[k] \notin gone /\ byNode'[k] = by[k] /\ by[k] \in Ids
        BY <1>5, <2>2
      <3>2. js[by[k]] \in Job /\ js[by[k]].key = k
        BY <2>2, <3>1 DEF IndexedBy
      <3>3. /\ [js[by[k]] EXCEPT !.finished = TRUE] \in Job
            /\ [js[by[k]] EXCEPT !.finished = TRUE].key = k
        BY <3>2 DEF Job
      <3> QED
        BY <1>5, <3>1, <3>2, <3>3, NoneAssumption
    <2>3. \A j \in Unfinished' : byNode'[jobs'[j].key] = j
      <3> SUFFICES ASSUME NEW j \in Unfinished' PROVE byNode'[jobs'[j].key] = j
        OBVIOUS
      <3>1. j \in Live(js) /\ j \notin Range(ended) /\ jobs'[j] = js[j] /\ j \in Ids
        BY <1>10 DEF Live
      <3>2. js[j] \in Job /\ by[js[j].key] = j
        BY <3>1 DEF IndexedBy, Live
      <3>3. js[j].key \in Keys /\ j \notin gone
        BY <1>7, <3>1, <3>2 DEF Job
      <3> QED
        BY <1>5, <3>1, <3>2, <3>3
    <2>4. \A j \in Range(finished') : j <= lastJob' /\ j \notin Unfinished'
      <3>1. \A j \in Range(ended) : j \in Ids /\ j <= lastJob'
        BY RangeOfSeq DEF IndexedBy
      <3> QED
        BY <1>1, <1>6, <1>10, <3>1
    <2> QED
      BY <2>1, <2>2, <2>3, <2>4 DEF Indexed, IndexedBy, Live, Unfinished
  <1> QED
    BY <1>6, <1>8, <1>10, <1>11

-----------------------------------------------------------------------------
LEMMA JobsInit == Init => JobsInv
  <1> SUFFICES ASSUME Init PROVE JobsInv
    OBVIOUS
  <1>1. Unfinished = {} /\ Range(pending) = {} /\ Range(finished) = {} /\ J = None
    BY DEF Init, Unfinished, Range, J, Resting
  <1>2. Typed
    <2>1. cache \in [Keys -> [Stages -> StageStatus] \cup {None}]
      BY DEF Init, StageStatus
    <2>2. 0 \in 0 .. MaxJobs /\ 1 \in 1 .. NStages + 1
      BY LimitsAssumption
    <2>3. /\ worker.at = "rest" /\ worker.job = None
          /\ worker \in [at: {"rest", "drain", "begin", "check", "apply", "engine", "save",
                             "finish"},
                         job: Ids \cup {None}, stage: 1 .. NStages + 1,
                         update: StageStatus \cup {None}]
      BY <2>2 DEF Init, Resting
    <2>4. << >> \in Seq(Ids)
      OBVIOUS
    <2>5. TypeOK
      BY <2>1, <2>2, <2>3, <2>4 DEF Init, TypeOK
    <2> QED
      BY <2>3, <2>5 DEF Typed, InHand
  <1>3. Indexed
    BY <1>1 DEF Init, Indexed, IndexedBy, Live, Unfinished
  <1>4. Carried
    BY <1>1 DEF Init, Carried, IsInjective
  <1>5. Dispatched
    BY DEF Init, Dispatched
  <1>6. Told
    BY <1>1 DEF Told
  <1> QED
    BY <1>2, <1>3, <1>4, <1>5, <1>6 DEF JobsInv

\* A job keeps what the index and the queue go by.
LEMMA JobEdited ==
  ASSUME JobsInv, NEW j \in Ids, NEW r \in Job,
         jobs[j] # None, jobs' = [jobs EXCEPT ![j] = r],
         r.key = jobs[j].key, r.finished = jobs[j].finished,
         UNCHANGED <<byNode, finished, pending, lastJob>>,
         worker'.job = worker.job
  PROVE  /\ jobs' \in [Ids -> Job \cup {None}]
         /\ Unfinished' = Unfinished
         /\ Indexed' /\ Carried'
  <1> USE NoneAssumption
  <1>1. jobs' \in [Ids -> Job \cup {None}]
    BY DEF JobsInv, Typed, TypeOK
  <1>2. \A i \in Ids : (jobs'[i] # None) = (jobs[i] # None)
                      /\ jobs'[i].key = jobs[i].key /\ jobs'[i].finished = jobs[i].finished
    BY DEF JobsInv, Typed, TypeOK
  <1>3. Unfinished' = Unfinished
    BY <1>2 DEF Unfinished
  <1>4. Indexed'
    <2>1. Indexed /\ byNode \in [Keys -> Ids \cup {None}]
      BY DEF JobsInv, Typed, TypeOK
    <2>2. Live(jobs') = Live(jobs)
      BY <1>2 DEF Live
    <2>3. IndexedBy(jobs', byNode', lastJob')
      BY <1>2, <2>1, <2>2 DEF Indexed, IndexedBy, Live
    <2> QED
      BY <1>3, <2>1, <2>3 DEF Indexed, IndexedBy, Live
  <1>5. Carried'
    BY <1>3 DEF JobsInv, Carried, J
  <1> QED
    BY <1>1, <1>3, <1>4, <1>5

LEMMA AttachStep ==
  ASSUME JobsInv, NEW k \in Keys, NEW o \in Observers, Attach(k, o)
  PROVE  JobsInv'
  <1> DEFINE j == byNode[k]
             r == [jobs[j] EXCEPT !.observers = @ \cup {o}]
  <1>1. j \in Ids /\ jobs[j] \in Job /\ r \in Job /\ jobs[j] # None
    BY NoneAssumption DEF Attach, JobsInv, Typed, TypeOK, Indexed, IndexedBy, Job
  <1>2. jobs' = [jobs EXCEPT ![j] = r] /\ r.key = jobs[j].key /\ r.finished = jobs[j].finished
    BY <1>1 DEF Attach, Job
  <1>3. UNCHANGED <<byNode, finished, pending, dispatching, closed, submitted, worker,
                    cache, lastJob>>
    BY DEF Attach
  <1> HIDE DEF r, j
  <1>4. jobs' \in [Ids -> Job \cup {None}] /\ Unfinished' = Unfinished /\ Indexed' /\ Carried'
    BY <1>1, <1>2, <1>3, JobEdited
  <1>5. Typed'
    BY <1>3, <1>4 DEF JobsInv, Typed, TypeOK, InHand
  <1>6. Dispatched'
    BY <1>3 DEF JobsInv, Dispatched
  <1>7. Told'
    <2>1. jobs[j].status # "cancelling" /\ ~closed
      BY DEF Attach, Shareable, j
    <2>2. /\ r.status = jobs[j].status /\ r.cancelled = jobs[j].cancelled
      BY <1>1 DEF r, Job
    <2>3. j \in Unfinished => ~r.cancelled
      BY <2>1, <2>2 DEF JobsInv, Told
    <2> QED
      BY <1>1, <1>2, <1>3, <1>4, <2>1, <2>2, <2>3
      DEF JobsInv, Told, Unfinished, Typed, TypeOK
  <1> QED
    BY <1>4, <1>5, <1>6, <1>7 DEF JobsInv

\* A node that needs a new job has none in progress, and the next number is free.
LEMMA NewIsAlone ==
  ASSUME JobsInv, NEW k \in Keys, NeedsNew(k)
  PROVE  /\ lastJob + 1 \in Ids /\ lastJob + 1 \in 0 .. MaxJobs
         /\ jobs[lastJob + 1] = None
         /\ lastJob + 1 \notin Range(pending) /\ lastJob + 1 \notin Range(finished)
         /\ worker.job # lastJob + 1
         /\ \A i \in Unfinished : jobs[i].key # k
  <1>1. lastJob \in 0 .. MaxJobs /\ lastJob < MaxJobs /\ MaxJobs \in Nat
    BY LimitsAssumption DEF NeedsNew, JobsInv, Typed, TypeOK
  <1>2. lastJob + 1 \in Ids /\ lastJob + 1 \in 0 .. MaxJobs
    BY <1>1 DEF Ids
  <1>3. jobs[lastJob + 1] = None
    BY <1>1, <1>2 DEF JobsInv, Indexed, IndexedBy
  <1>4. lastJob + 1 \notin Unfinished /\ lastJob + 1 # None
    BY <1>2, <1>3, NoneAssumption DEF Unfinished, Ids
  <1>5. lastJob + 1 \notin Range(finished)
    BY <1>1 DEF JobsInv, Indexed
  <1>6. ASSUME NEW i \in Unfinished, jobs[i].key = k PROVE FALSE
    <2>1. byNode[k] = i /\ i # None
      BY <1>6, NoneAssumption DEF JobsInv, Indexed, IndexedBy, Live, Unfinished, Ids
    <2> QED
      BY <1>6, <2>1 DEF NeedsNew, Replaceable, JobsInv, Told
  <1> QED
    BY <1>2, <1>3, <1>4, <1>5, <1>6 DEF JobsInv, Carried, J

LEMMA ResultStatusType == \A s : ResultStatus(s) \in Terminal
  BY DEF ResultStatus, Terminal

LEMMA StartCachedStep ==
  ASSUME JobsInv, NEW k \in Keys, NEW o \in Observers, StartCached(k, o)
  PROVE  JobsInv'
  <1> DEFINE j    == lastJob + 1
             born == [NewJob(k, o, cache[k]) EXCEPT !.status = ResultStatus(cache[k])]
             js   == [jobs EXCEPT ![j] = born]
             by   == [byNode EXCEPT ![k] = j]
  <1>1. /\ lastJob' = j /\ Finish(js, by, <<j>>) /\ NeedsNew(k)
        /\ UNCHANGED <<pending, dispatching, closed, submitted, worker, cache>>
    BY DEF StartCached
  <1>2. born \in Job /\ born.key = k /\ ~born.finished
    <2>1. cache[k] \in [Stages -> StageStatus] /\ ResultStatus(cache[k]) \in JobStatus
      BY ResultStatusType DEF StartCached, JobsInv, Typed, TypeOK, JobStatus
    <2> QED
      BY <2>1 DEF NewJob, Job
  <1>3. /\ j \in Ids /\ j \in 0 .. MaxJobs /\ jobs[j] = None
        /\ j \notin Range(pending) /\ j \notin Range(finished) /\ worker.job # j
        /\ \A i \in Unfinished : jobs[i].key # k
    BY <1>1, NewIsAlone
  <1> HIDE DEF born
  <1>4. js \in [Ids -> Job \cup {None}] /\ by \in [Keys -> Ids \cup {None}]
    BY <1>2, <1>3 DEF JobsInv, Typed, TypeOK
  <1>5. Live(js) = Unfinished \cup {j} /\ j \notin Unfinished
    BY <1>2, <1>3, <1>4, NoneAssumption DEF Live, Unfinished, JobsInv, Typed, TypeOK
  <1>6. IndexedBy(js, by, lastJob')
    <2>1. \A i \in Ids : js[i] # None => i <= lastJob'
      BY <1>1, <1>3, LimitsAssumption DEF JobsInv, Indexed, IndexedBy, Typed, TypeOK, Ids
    <2>2. \A l \in Keys : by[l] # None => js[by[l]] # None /\ js[by[l]].key = l
      BY <1>2, <1>3, NoneAssumption DEF JobsInv, Indexed, IndexedBy, Typed, TypeOK
    <2>3. \A i \in Live(js) : by[js[i].key] = i
      BY <1>2, <1>3, <1>5 DEF JobsInv, Indexed, IndexedBy, Typed, TypeOK, Live, Unfinished, Job
    <2> QED
      BY <2>1, <2>2, <2>3 DEF IndexedBy
  <1>7. <<j>> \in Seq(Ids) /\ Range(<<j>>) = {j}
    BY <1>3 DEF Range
  <1>8. \A i \in Range(finished) : i <= lastJob' /\ i \notin Live(js)
    <2>1. Range(finished) \subseteq Ids
      BY RangeOfSeq DEF JobsInv, Typed, TypeOK
    <2>2. \A i \in Range(finished) : i <= lastJob /\ i \notin Unfinished
      BY DEF JobsInv, Indexed
    <2>3. lastJob \in Int /\ Ids \subseteq Int
      BY DEF JobsInv, Typed, TypeOK, Ids
    <2>4. ASSUME NEW i \in Range(finished) PROVE i <= j
      <3>1. i \in Int /\ i <= lastJob
        BY <2>1, <2>2, <2>3
      <3> QED
        BY <2>3, <3>1
    <2> HIDE DEF js, by, j
    <2>5. \A i \in Range(finished) : i \notin Live(js)
      BY <1>3, <1>5, <2>2
    <2> QED
      BY <1>1, <2>4, <2>5
  <1>9. js[j] # None
    BY <1>2, <1>3, NoneAssumption DEF JobsInv, Typed, TypeOK
  <1>10. /\ jobs' \in [Ids -> Job \cup {None}] /\ byNode' \in [Keys -> Ids \cup {None}]
         /\ finished' \in Seq(Ids)
         /\ Unfinished' = Live(js) \ {j}
         /\ \A i \in Unfinished' : jobs'[i] = js[i]
         /\ Indexed'
    <2> HIDE DEF js, by, j
    <2>1. finished \in Seq(Ids) /\ lastJob' \in 0 .. MaxJobs
      BY <1>1, <1>3 DEF JobsInv, Typed, TypeOK
    <2> QED
      BY <1>1, <1>4, <1>6, <1>7, <1>8, <1>9, <2>1, FinishEffect
  <1>11. Unfinished' = Unfinished /\ \A i \in Unfinished : jobs'[i] = jobs[i]
    <2>1. Unfinished' = Unfinished /\ Unfinished \subseteq Ids
      BY <1>5, <1>10 DEF Unfinished
    <2>2. \A i \in Unfinished : js[i] = jobs[i]
      BY <1>5, <2>1 DEF JobsInv, Typed, TypeOK
    <2> QED
      BY <1>10, <2>1, <2>2
  <1>12. Typed'
    BY <1>1, <1>3, <1>10 DEF JobsInv, Typed, TypeOK, InHand
  <1>13. Carried'
    BY <1>1, <1>11 DEF JobsInv, Carried, J
  <1>14. Dispatched'
    BY <1>1 DEF JobsInv, Dispatched
  <1>15. Told'
    BY <1>1, <1>11 DEF JobsInv, Told
  <1> QED
    BY <1>10, <1>12, <1>13, <1>14, <1>15 DEF JobsInv

\* An element that is not there yet is put at the end.
LEMMA AppendedElement ==
  ASSUME NEW S, NEW s \in Seq(S), NEW e \in S, e \notin Range(s), IsInjective(s)
  PROVE  /\ Append(s, e) \in Seq(S)
         /\ Range(Append(s, e)) = Range(s) \cup {e}
         /\ IsInjective(Append(s, e))
         /\ Append(s, e) # << >>
  <1> DEFINE a == Append(s, e)
  <1>1. /\ a \in Seq(S) /\ Len(a) = Len(s) + 1 /\ a[Len(s) + 1] = e
        /\ \A i \in 1 .. Len(s) : a[i] = s[i]
    OBVIOUS
  <1>2. DOMAIN a = 1 .. Len(s) + 1 /\ DOMAIN s = 1 .. Len(s) /\ Len(s) \in Nat
    BY <1>1
  <1> HIDE DEF a
  <1>3. Range(a) = Range(s) \cup {e}
    <2>1. \A i \in DOMAIN a : i \in DOMAIN s \/ i = Len(s) + 1
      BY <1>2
    <2>2. DOMAIN s \subseteq DOMAIN a /\ Len(s) + 1 \in DOMAIN a
      BY <1>2
    <2> QED
      BY <1>1, <1>2, <2>1, <2>2 DEF Range
  <1>4. IsInjective(a)
    <2>1. \A i \in DOMAIN s : s[i] # e
      BY DEF Range
    <2>2. \A i, k \in DOMAIN s : s[i] = s[k] => i = k
      BY DEF IsInjective
    <2> QED
      BY <1>1, <1>2, <2>1, <2>2 DEF IsInjective
  <1>5. a # << >>
    BY <1>1, <1>2
  <1> QED
    BY <1>1, <1>3, <1>4, <1>5 DEF a

LEMMA StartQueuedStep ==
  ASSUME JobsInv, NEW k \in Keys, NEW o \in Observers, StartQueued(k, o)
  PROVE  JobsInv'
  <1> DEFINE j == lastJob + 1
             r == NewJob(k, o, [i \in Stages |-> "waiting"])
  <1>1. /\ lastJob' = j /\ jobs' = [jobs EXCEPT ![j] = r] /\ NeedsNew(k)
        /\ byNode' = [byNode EXCEPT ![k] = j]
        /\ pending' = Append(pending, j)
        /\ dispatching' = TRUE /\ submitted' = (submitted \/ ~dispatching)
        /\ ~closed
        /\ UNCHANGED <<finished, closed, worker, cache>>
    BY DEF StartQueued, Dispatch, NeedsNew
  <1>2. /\ r \in Job /\ r.key = k /\ ~r.finished /\ ~r.cancelled
        /\ r.status \notin Terminal
    <2>1. [i \in Stages |-> "waiting"] \in [Stages -> StageStatus]
      BY DEF StageStatus
    <2> QED
      BY <2>1 DEF NewJob, Job, JobStatus, Terminal
  <1>3. /\ j \in Ids /\ j \in 0 .. MaxJobs /\ jobs[j] = None
        /\ j \notin Range(pending) /\ j \notin Range(finished) /\ worker.job # j
        /\ \A i \in Unfinished : jobs[i].key # k
    BY <1>1, NewIsAlone
  <1> HIDE DEF r
  <1>4. /\ pending' \in Seq(Ids) /\ Range(pending') = Range(pending) \cup {j}
        /\ IsInjective(pending') /\ pending' # << >>
    <2> HIDE DEF j
    <2> QED
      BY <1>1, <1>3, AppendedElement DEF JobsInv, Carried, Typed, TypeOK
  <1>5. Typed'
    <2>1. /\ jobs' \in [Ids -> Job \cup {None}]
          /\ byNode' \in [Keys -> Ids \cup {None}]
      BY <1>1, <1>2, <1>3 DEF JobsInv, Typed, TypeOK
    <2>2. dispatching' \in BOOLEAN /\ submitted' \in BOOLEAN
      BY <1>1 DEF JobsInv, Typed, TypeOK
    <2> QED
      BY <1>1, <1>3, <1>4, <2>1, <2>2 DEF JobsInv, Typed, TypeOK, InHand
  <1>6. /\ Unfinished' = Unfinished \cup {j} /\ j \notin Unfinished
        /\ \A i \in Unfinished : jobs'[i] = jobs[i]
        /\ jobs'[j] = r
    BY <1>1, <1>2, <1>3, NoneAssumption DEF Unfinished, JobsInv, Typed, TypeOK
  <1>7. Indexed'
    <2>1. \A i \in Ids : jobs'[i] # None => i <= lastJob'
      BY <1>1, <1>3, LimitsAssumption DEF JobsInv, Indexed, IndexedBy, Typed, TypeOK, Ids
    <2>2. \A l \in Keys : byNode'[l] # None => jobs'[byNode'[l]] # None /\ jobs'[byNode'[l]].key = l
      BY <1>1, <1>2, <1>3, NoneAssumption DEF JobsInv, Indexed, IndexedBy, Typed, TypeOK
    <2>3. \A i \in Unfinished' : byNode'[jobs'[i].key] = i
      BY <1>1, <1>2, <1>3, <1>6
      DEF JobsInv, Indexed, IndexedBy, Typed, TypeOK, Live, Unfinished, Job
    <2>4. \A i \in Range(finished') : i <= lastJob' /\ i \notin Unfinished'
      <3>1. Range(finished) \subseteq Ids
        BY RangeOfSeq DEF JobsInv, Typed, TypeOK
      <3> QED
        BY <1>1, <1>3, <1>6, <3>1, LimitsAssumption DEF JobsInv, Indexed, Typed, TypeOK, Ids
    <2> QED
      BY <2>1, <2>2, <2>3, <2>4 DEF Indexed, IndexedBy, Live, Unfinished
  <1>8. Carried'
    BY <1>1, <1>3, <1>4, <1>6, NoneAssumption DEF JobsInv, Carried, J
  <1>9. Dispatched'
    BY <1>1 DEF JobsInv, Dispatched
  <1>10. Told'
    BY <1>1, <1>2, <1>6 DEF JobsInv, Told
  <1> QED
    BY <1>5, <1>7, <1>8, <1>9, <1>10 DEF JobsInv

\* Every node is left with at most what it had when a dispatcher is refused.
LEMMA SubmitFailsStep ==
  ASSUME JobsInv, NEW k \in Keys, SubmitFails(k)
  PROVE  JobsInv'
  <1>1. /\ byNode' = [byNode EXCEPT ![k] = None] /\ NeedsNew(k)
        /\ UNCHANGED <<jobs, finished, pending, dispatching, closed, submitted, worker,
                       cache, lastJob>>
    BY DEF SubmitFails
  <1>2. \A i \in Unfinished : jobs[i].key # k
    BY <1>1, NewIsAlone
  <1>3. Unfinished' = Unfinished
    BY <1>1 DEF Unfinished
  <1>4. Typed'
    BY <1>1 DEF JobsInv, Typed, TypeOK, InHand
  <1>5. Indexed'
    BY <1>1, <1>2, <1>3 DEF JobsInv, Typed, TypeOK, Indexed, IndexedBy, Live, Unfinished, Job
  <1> QED
    BY <1>1, <1>3, <1>4, <1>5 DEF JobsInv, Carried, Dispatched, Told, J

LEMMA LeftType ==
  ASSUME JobsInv, NEW j \in Ids, NEW o, jobs[j] # None
  PROVE  LET r == [jobs[j] EXCEPT !.observers = @ \ {o}] IN
         /\ jobs[j] \in Job /\ r \in Job
         /\ Left(j, o) = [jobs EXCEPT ![j] = r]
         /\ Left(j, o) \in [Ids -> Job \cup {None}]
         /\ r.key = jobs[j].key /\ r.finished = jobs[j].finished
         /\ r.status = jobs[j].status /\ r.cancelled = jobs[j].cancelled
         /\ r.observers = jobs[j].observers \ {o}
  BY NoneAssumption DEF JobsInv, Typed, TypeOK, Left, Job

\* A job loses an observer and keeps the rest.
LEMMA ObserverLeaves ==
  ASSUME JobsInv, NEW j \in Ids, NEW o, jobs[j] # None, jobs' = Left(j, o),
         UNCHANGED <<byNode, finished, pending, dispatching, closed, submitted, worker,
                     cache, lastJob>>
  PROVE  JobsInv'
  <1> DEFINE r == [jobs[j] EXCEPT !.observers = @ \ {o}]
  <1>1. /\ jobs[j] \in Job /\ r \in Job /\ jobs' = [jobs EXCEPT ![j] = r]
        /\ r.key = jobs[j].key /\ r.finished = jobs[j].finished
        /\ r.status = jobs[j].status /\ r.cancelled = jobs[j].cancelled
        /\ r.observers = jobs[j].observers \ {o}
    BY LeftType
  <1> HIDE DEF r
  <1>2. jobs' \in [Ids -> Job \cup {None}] /\ Unfinished' = Unfinished /\ Indexed' /\ Carried'
    BY <1>1, JobEdited
  <1>3. Typed'
    BY <1>2 DEF JobsInv, Typed, TypeOK, InHand
  <1>4. Dispatched'
    BY DEF JobsInv, Dispatched
  <1>5. Told'
    BY <1>1, <1>2 DEF JobsInv, Told, Typed, TypeOK, Unfinished
  <1> QED
    BY <1>2, <1>3, <1>4, <1>5 DEF JobsInv

LEMMA CancelRunningStep ==
  ASSUME JobsInv, NEW j \in Ids, NEW o \in Observers, CancelRunning(j, o)
  PROVE  JobsInv'
  <1> DEFINE l == [jobs[j] EXCEPT !.observers = @ \ {o}]
             r == CancelRequested(l)
  <1>1. /\ jobs[j] # None /\ jobs[j].observers = {o}
        /\ jobs' = [Left(j, o) EXCEPT ![j] = CancelRequested(@)]
        /\ UNCHANGED <<byNode, finished, pending, dispatching, closed, submitted, worker,
                       cache, lastJob>>
    BY DEF CancelRunning, LastObserver
  <1>2. /\ jobs[j] \in Job /\ l \in Job /\ Left(j, o) = [jobs EXCEPT ![j] = l]
        /\ l.key = jobs[j].key /\ l.finished = jobs[j].finished
        /\ l.observers = {}
    BY <1>1, LeftType
  <1> HIDE DEF l
  <1>3. /\ r \in Job /\ r.key = jobs[j].key /\ r.finished = jobs[j].finished
        /\ r.observers = {} /\ r.cancelled /\ r.status = "cancelling"
    BY <1>2, CancelKeepsType
  <1>4. jobs' = [jobs EXCEPT ![j] = r]
    BY <1>1, <1>2 DEF JobsInv, Typed, TypeOK
  <1> HIDE DEF r
  <1>5. jobs' \in [Ids -> Job \cup {None}] /\ Unfinished' = Unfinished /\ Indexed' /\ Carried'
    BY <1>1, <1>3, <1>4, JobEdited
  <1>6. Typed'
    BY <1>1, <1>5 DEF JobsInv, Typed, TypeOK, InHand
  <1>7. Dispatched'
    BY <1>1 DEF JobsInv, Dispatched
  <1>8. Told'
    BY <1>1, <1>3, <1>4, <1>5 DEF JobsInv, Told, Typed, TypeOK, Unfinished, Terminal
  <1> QED
    BY <1>5, <1>6, <1>7, <1>8 DEF JobsInv

\* What is cancelled in the queue is told and finished, what runs is told.
LEMMA CancelEffect ==
  ASSUME JobsInv, NEW js \in [Ids -> Job \cup {None}],
         Live(js) = Unfinished, IndexedBy(js, byNode, lastJob),
         NEW which \in SUBSET Unfinished, NEW ended \in Seq(Ids),
         Range(ended) \subseteq which, lastJob' = lastJob,
         CancelJobs(js, which, ended)
  PROVE  /\ jobs' \in [Ids -> Job \cup {None}]
         /\ byNode' \in [Keys -> Ids \cup {None}]
         /\ finished' \in Seq(Ids)
         /\ Unfinished' = Unfinished \ Range(ended)
         /\ \A j \in Unfinished' :
              jobs'[j] = IF j \in which THEN CancelRequested(js[j]) ELSE js[j]
         /\ Indexed'
  <1> DEFINE told == [i \in Ids |->
               IF i \in Range(ended) THEN [CancelRequested(js[i]) EXCEPT !.status = "cancelled"]
               ELSE IF i \in which THEN CancelRequested(js[i])
               ELSE js[i]]
  <1>1. Finish(told, byNode, ended)
    BY DEF CancelJobs
  <1>2. \A i \in which : i \in Ids /\ js[i] \in Job
    BY NoneAssumption DEF Live
  <1>3. \A i \in which :
          LET c == CancelRequested(js[i])
              f == [c EXCEPT !.status = "cancelled"] IN
          /\ c \in Job /\ c.key = js[i].key /\ c.finished = js[i].finished
          /\ f \in Job /\ f.key = js[i].key /\ f.finished = js[i].finished
    <2> SUFFICES ASSUME NEW i \in which
                 PROVE LET c == CancelRequested(js[i])
                           f == [c EXCEPT !.status = "cancelled"] IN
                       /\ c \in Job /\ c.key = js[i].key /\ c.finished = js[i].finished
                       /\ f \in Job /\ f.key = js[i].key /\ f.finished = js[i].finished
      OBVIOUS
    <2> DEFINE c == CancelRequested(js[i])
    <2>1. c \in Job /\ c.key = js[i].key /\ c.finished = js[i].finished
      BY <1>2, CancelKeepsType
    <2> HIDE DEF c
    <2>2. LET f == [c EXCEPT !.status = "cancelled"] IN
          f \in Job /\ f.key = c.key /\ f.finished = c.finished
      BY <2>1 DEF Job, JobStatus, Terminal
    <2> QED
      BY <2>1, <2>2 DEF c
  <1>4. told \in [Ids -> Job \cup {None}]
    BY <1>3
  <1>5. \A i \in Ids : /\ (told[i] # None) = (js[i] # None)
                       /\ told[i].key = js[i].key /\ told[i].finished = js[i].finished
    BY <1>2, <1>3, NoneAssumption
  <1>6. \A i \in Ids \ Range(ended) :
          told[i] = IF i \in which THEN CancelRequested(js[i]) ELSE js[i]
    OBVIOUS
  <1> HIDE DEF told
  <1>7. Live(told) = Unfinished
    BY <1>5 DEF Live
  <1>8. IndexedBy(told, byNode, lastJob')
    <2>1. byNode \in [Keys -> Ids \cup {None}]
      BY DEF JobsInv, Typed, TypeOK
    <2> QED
      BY <1>5, <1>7, <2>1 DEF IndexedBy, Live
  <1>9. \A j \in Range(finished) : j <= lastJob' /\ j \notin Live(told)
    BY <1>7 DEF JobsInv, Indexed
  <1>10. \A j \in Range(ended) : told[j] # None
    BY <1>7 DEF Live
  <1>11. /\ jobs' \in [Ids -> Job \cup {None}] /\ byNode' \in [Keys -> Ids \cup {None}]
         /\ finished' \in Seq(Ids)
         /\ Unfinished' = Live(told) \ Range(ended)
         /\ \A i \in Unfinished' : jobs'[i] = told[i]
         /\ Indexed'
    <2>1. /\ byNode \in [Keys -> Ids \cup {None}] /\ finished \in Seq(Ids)
          /\ lastJob' \in 0 .. MaxJobs
      BY DEF JobsInv, Typed, TypeOK
    <2> QED
      BY <1>1, <1>4, <1>8, <1>9, <1>10, <2>1, FinishEffect
  <1>12. Unfinished' \subseteq Ids \ Range(ended)
    BY <1>7, <1>11 DEF Unfinished
  <1> QED
    BY <1>6, <1>7, <1>11, <1>12

LEMMA CancelQueuedStep ==
  ASSUME JobsInv, NEW j \in Ids, NEW o \in Observers, CancelQueued(j, o)
  PROVE  JobsInv'
  <1> DEFINE l  == [jobs[j] EXCEPT !.observers = @ \ {o}]
             js == Left(j, o)
  <1>1. /\ jobs[j] # None /\ ~jobs[j].finished
        /\ CancelJobs(js, {j}, <<j>>)
        /\ UNCHANGED <<dispatching, closed, submitted, worker, cache, lastJob>>
    BY DEF CancelQueued, LastObserver
  <1>2. PICK n \in DOMAIN pending : pending[n] = j /\ pending' = Without(pending, n)
    BY DEF CancelQueued
  <1>3. /\ pending' \in Seq(Ids) /\ Range(pending') = Range(pending) \ {j}
        /\ IsInjective(pending') /\ j \in Range(pending) /\ pending # << >>
    <2>1. pending \in Seq(Ids) /\ IsInjective(pending) /\ n \in 1 .. Len(pending)
      BY DEF JobsInv, Typed, TypeOK, Carried
    <2>2. j \in Range(pending)
      BY <1>2 DEF Range
    <2> QED
      BY <1>2, <2>1, <2>2, WithoutElement
  <1>4. /\ js = [jobs EXCEPT ![j] = l] /\ js \in [Ids -> Job \cup {None}]
        /\ l \in Job /\ l.key = jobs[j].key /\ l.finished = jobs[j].finished
    BY <1>1, LeftType
  <1> HIDE DEF l
  <1>5. \A i \in Ids : /\ (js[i] # None) = (jobs[i] # None)
                       /\ js[i].key = jobs[i].key /\ js[i].finished = jobs[i].finished
                       /\ i # j => js[i] = jobs[i]
    BY <1>1, <1>4, NoneAssumption DEF JobsInv, Typed, TypeOK
  <1> HIDE DEF js
  <1>6. Live(js) = Unfinished
    BY <1>5 DEF Live, Unfinished
  <1>7. IndexedBy(js, byNode, lastJob)
    <2>1. byNode \in [Keys -> Ids \cup {None}] /\ IndexedBy(jobs, byNode, lastJob)
      BY DEF JobsInv, Typed, TypeOK, Indexed
    <2>2. Live(jobs) = Unfinished
      BY DEF Live, Unfinished
    <2> QED
      BY <1>5, <1>6, <2>1, <2>2 DEF IndexedBy, Unfinished
  <1>8. j \in Unfinished /\ <<j>> \in Seq(Ids) /\ Range(<<j>>) = {j}
    BY <1>1 DEF Unfinished, Range
  <1>9. /\ jobs' \in [Ids -> Job \cup {None}] /\ byNode' \in [Keys -> Ids \cup {None}]
        /\ finished' \in Seq(Ids)
        /\ Unfinished' = Unfinished \ {j}
        /\ \A i \in Unfinished' : jobs'[i] = IF i \in {j} THEN CancelRequested(js[i]) ELSE js[i]
        /\ Indexed'
    <2> DEFINE which == {j}
               ended == <<j>>
    <2>1. which \in SUBSET Unfinished /\ Range(ended) = which /\ lastJob' = lastJob
      BY <1>1, <1>8
    <2>2. ended \in Seq(Ids) /\ CancelJobs(js, which, ended)
      BY <1>1, <1>8
    <2> HIDE DEF which, ended
    <2>3. /\ jobs' \in [Ids -> Job \cup {None}] /\ byNode' \in [Keys -> Ids \cup {None}]
          /\ finished' \in Seq(Ids)
          /\ Unfinished' = Unfinished \ Range(ended)
          /\ \A i \in Unfinished' :
               jobs'[i] = IF i \in which THEN CancelRequested(js[i]) ELSE js[i]
          /\ Indexed'
      <3>1. Range(ended) \subseteq which /\ which \in SUBSET Unfinished /\ lastJob' = lastJob
        BY <2>1
      <3>2. js \in [Ids -> Job \cup {None}]
        BY <1>4
      <3> QED
        BY <1>6, <1>7, <2>2, <3>1, <3>2, CancelEffect
    <2> QED
      BY <2>1, <2>3 DEF which
  <1>10. \A i \in Unfinished' : i \in Unfinished /\ jobs'[i] = jobs[i]
    BY <1>5, <1>9 DEF Unfinished
  <1>11. Typed'
    BY <1>1, <1>3, <1>9 DEF JobsInv, Typed, TypeOK, InHand
  <1>12. Carried'
    BY <1>1, <1>3, <1>9 DEF JobsInv, Carried, J
  <1>13. Dispatched'
    BY <1>1, <1>3 DEF JobsInv, Dispatched
  <1>14. Told'
    BY <1>1, <1>10 DEF JobsInv, Told
  <1> QED
    BY <1>9, <1>11, <1>12, <1>13, <1>14 DEF JobsInv

LEMMA ShutdownStep == JobsInv /\ Shutdown => JobsInv'
  <1> SUFFICES ASSUME JobsInv, Shutdown PROVE JobsInv'
    OBVIOUS
  <1>1. /\ closed' = TRUE /\ CancelJobs(jobs, Unfinished, pending)
        /\ pending' = << >> /\ submitted' = FALSE
        /\ UNCHANGED <<dispatching, worker, cache, lastJob>>
    BY DEF Shutdown, JobsToCancel
  <1>2. Range(pending) \subseteq Unfinished /\ pending \in Seq(Ids)
    BY DEF JobsInv, Carried, Typed, TypeOK
  <1>3. /\ jobs' \in [Ids -> Job \cup {None}] /\ byNode' \in [Keys -> Ids \cup {None}]
        /\ finished' \in Seq(Ids)
        /\ Unfinished' = Unfinished \ Range(pending)
        /\ \A i \in Unfinished' :
             jobs'[i] = IF i \in Unfinished THEN CancelRequested(jobs[i]) ELSE jobs[i]
        /\ Indexed'
    <2>1. jobs \in [Ids -> Job \cup {None}] /\ IndexedBy(jobs, byNode, lastJob)
      BY DEF JobsInv, Typed, TypeOK, Indexed
    <2>2. Live(jobs) = Unfinished /\ Unfinished \in SUBSET Unfinished /\ lastJob' = lastJob
      BY <1>1 DEF Live, Unfinished
    <2> QED
      BY <1>1, <1>2, <2>1, <2>2, CancelEffect
  <1>4. pending' \in Seq(Ids) /\ Range(pending') = {} /\ IsInjective(pending')
    BY <1>1 DEF Range, IsInjective
  <1>5. \A i \in Unfinished' : /\ jobs'[i] = CancelRequested(jobs[i])
                               /\ jobs[i] \in Job
    BY <1>3 DEF Unfinished, JobsInv, Typed, TypeOK
  <1>6. Typed'
    BY <1>1, <1>3, <1>4 DEF JobsInv, Typed, TypeOK, InHand
  <1>7. Carried'
    BY <1>1, <1>3, <1>4 DEF JobsInv, Carried, J
  <1>8. Dispatched'
    BY <1>1 DEF Dispatched
  <1>9. Told'
    BY <1>1, <1>5, CancelKeepsType DEF Told, Terminal
  <1> QED
    BY <1>3, <1>6, <1>7, <1>8, <1>9 DEF JobsInv

-----------------------------------------------------------------------------
(* The worker.                                                             *)

\* The worker moves, and leaves jobs and queue as they are.
LEMMA WorkerMoves ==
  ASSUME JobsInv, worker'.job = worker.job,
         UNCHANGED <<jobs, byNode, finished, pending, closed, lastJob>>
  PROVE  Indexed' /\ Carried' /\ Told'
  <1>1. Unfinished' = Unfinished
    BY DEF Unfinished
  <1> QED
    BY <1>1 DEF JobsInv, Indexed, IndexedBy, Live, Unfinished, Carried, Told, J

\* The job in the worker's hands is in progress.
LEMMA WorkerHasJob ==
  ASSUME JobsInv, worker.at \notin {"rest", "drain"}
  PROVE  /\ J \in Ids /\ J \in Unfinished /\ jobs[J] \in Job /\ jobs[J] # None
         /\ worker.stage \in 1 .. NStages + 1
  BY NoneAssumption DEF JobsInv, Typed, TypeOK, InHand, Carried, J, Unfinished

LEMMA TakeDispatcherStep == JobsInv /\ TakeDispatcher => JobsInv'
  <1> SUFFICES ASSUME JobsInv, TakeDispatcher PROVE JobsInv'
    OBVIOUS
  <1>1. Typed'
    BY DEF TakeDispatcher, JobsInv, Typed, TypeOK, InHand
  <1>2. worker'.job = worker.job /\ worker'.at = "drain"
    BY DEF TakeDispatcher, JobsInv, Typed, TypeOK
  <1>3. Indexed' /\ Carried' /\ Told'
    BY <1>2, WorkerMoves DEF TakeDispatcher
  <1>4. Dispatched'
    BY <1>2 DEF TakeDispatcher, JobsInv, Dispatched
  <1> QED
    BY <1>1, <1>3, <1>4 DEF JobsInv

LEMMA DrainedStep == JobsInv /\ Drained => JobsInv'
  <1> SUFFICES ASSUME JobsInv, Drained PROVE JobsInv'
    OBVIOUS
  <1>1. worker'.job = worker.job
    BY DEF Drained, Resting, JobsInv, Typed, InHand
  <1>2. Typed'
    <2>1. 1 \in 1 .. NStages + 1
      BY LimitsAssumption
    <2> QED
      BY <2>1 DEF Drained, Resting, JobsInv, Typed, TypeOK, InHand
  <1>3. Indexed' /\ Carried' /\ Told'
    BY <1>1, WorkerMoves DEF Drained
  <1>4. Dispatched'
    BY DEF Drained, Dispatched
  <1> QED
    BY <1>2, <1>3, <1>4 DEF JobsInv

LEMMA HeadLeaves ==
  ASSUME NEW S, NEW s \in Seq(S), s # << >>, IsInjective(s)
  PROVE  /\ Head(s) \in S /\ Tail(s) \in Seq(S)
         /\ Range(Tail(s)) = Range(s) \ {Head(s)} /\ Head(s) \in Range(s)
         /\ IsInjective(Tail(s))
  <1>1. /\ Len(s) \in Nat \ {0} /\ DOMAIN s = 1 .. Len(s)
        /\ Head(s) = s[1] /\ Head(s) \in S /\ Tail(s) \in Seq(S)
    BY EmptySeq
  <1>2. /\ DOMAIN Tail(s) = 1 .. Len(s) - 1
        /\ \A i \in 1 .. Len(s) - 1 : Tail(s)[i] = s[i + 1]
    BY <1>1
  <1>3. \A k, l \in DOMAIN s : s[k] = s[l] => k = l
    BY DEF IsInjective
  <1>4. \A i \in DOMAIN Tail(s) : i \in Int /\ i + 1 \in DOMAIN s /\ i + 1 # 1
    BY <1>1, <1>2
  <1>5. \A i, k \in DOMAIN Tail(s) : i + 1 = k + 1 => i = k
    BY <1>4
  <1>6. \A l \in DOMAIN s : l # 1 => \E i \in DOMAIN Tail(s) : l = i + 1
    <2> SUFFICES ASSUME NEW l \in DOMAIN s, l # 1 PROVE \E i \in DOMAIN Tail(s) : l = i + 1
      OBVIOUS
    <2>1. l - 1 \in DOMAIN Tail(s) /\ l = (l - 1) + 1
      BY <1>1, <1>2
    <2> QED
      BY <2>1
  <1>7. 1 \in DOMAIN s
    BY <1>1
  <1> DEFINE t == Tail(s)
  <1>8. /\ \A i \in DOMAIN t : t[i] = s[i + 1]
        /\ \A i \in DOMAIN t : i + 1 \in DOMAIN s /\ i + 1 # 1
        /\ \A i, k \in DOMAIN t : i + 1 = k + 1 => i = k
        /\ \A l \in DOMAIN s : l # 1 => \E i \in DOMAIN t : l = i + 1
    BY <1>2, <1>4, <1>5, <1>6
  <1>9. t \in Seq(S)
    BY <1>1
  <1> HIDE DEF t
  <1>10. IsInjective(t)
    BY <1>3, <1>8 DEF IsInjective
  <1>11. Range(t) = Range(s) \ {s[1]}
    BY <1>3, <1>7, <1>8 DEF Range
  <1>12. s[1] \in Range(s)
    BY <1>7 DEF Range
  <1> QED
    BY <1>1, <1>9, <1>10, <1>11, <1>12 DEF t

LEMMA TakeJobStep == JobsInv /\ TakeJob => JobsInv'
  <1> SUFFICES ASSUME JobsInv, TakeJob PROVE JobsInv'
    OBVIOUS
  <1>1. /\ worker.at = "drain" /\ pending # << >> /\ pending' = Tail(pending)
        /\ worker' = [Resting EXCEPT !.at = "begin", !.job = Head(pending)]
        /\ UNCHANGED <<jobs, byNode, finished, dispatching, closed, submitted, cache, lastJob>>
    BY DEF TakeJob
  <1>2. /\ Head(pending) \in Ids /\ pending' \in Seq(Ids)
        /\ Range(pending') = Range(pending) \ {Head(pending)}
        /\ Head(pending) \in Range(pending) /\ IsInjective(pending')
    BY <1>1, HeadLeaves DEF JobsInv, Typed, TypeOK, Carried
  <1>3. worker'.job = Head(pending) /\ worker'.at = "begin" /\ worker.job = None
    BY <1>1 DEF Resting, JobsInv, Typed, InHand
  <1>4. Unfinished' = Unfinished
    BY <1>1 DEF Unfinished
  <1>5. Typed'
    <2>1. 1 \in 1 .. NStages + 1
      BY LimitsAssumption
    <2>2. worker' = [at |-> "begin", job |-> Head(pending), stage |-> 1, update |-> None]
      BY <1>1 DEF Resting
    <2>3. worker' \in [at: {"rest", "drain", "begin", "check", "apply", "engine", "save",
                           "finish"},
                       job: Ids \cup {None}, stage: 1 .. NStages + 1,
                       update: StageStatus \cup {None}]
      BY <1>2, <2>1, <2>2
    <2>4. TypeOK'
      BY <1>1, <1>2, <2>3 DEF JobsInv, Typed, TypeOK
    <2> QED
      BY <1>2, <2>2, <2>4, NoneAssumption DEF Typed, InHand, Ids
  <1>6. Indexed'
    BY <1>1, <1>4 DEF JobsInv, Indexed, IndexedBy, Live
  <1>7. Carried'
    <2>1. Head(pending) # None
      BY <1>2, NoneAssumption DEF Ids
    <2> QED
      BY <1>2, <1>3, <1>4, <2>1 DEF JobsInv, Carried, J
  <1>8. Dispatched'
    BY <1>1, <1>3 DEF JobsInv, Dispatched
  <1>9. Told'
    BY <1>1, <1>4 DEF JobsInv, Told
  <1> QED
    BY <1>5, <1>6, <1>7, <1>8, <1>9 DEF JobsInv

LEMMA BeginStep == JobsInv /\ Begin => JobsInv'
  <1> SUFFICES ASSUME JobsInv, Begin PROVE JobsInv'
    OBVIOUS
  <1> DEFINE r == [jobs[J] EXCEPT !.status = "running"]
  <1>1. /\ worker.at = "begin" /\ worker' = [worker EXCEPT !.at = "check"]
        /\ jobs' = IF jobs[J].cancelled THEN jobs ELSE [jobs EXCEPT ![J] = r]
        /\ UNCHANGED <<byNode, finished, pending, dispatching, closed, submitted, cache, lastJob>>
    BY DEF Begin
  <1>2. J \in Ids /\ J \in Unfinished /\ jobs[J] \in Job /\ jobs[J] # None
    BY <1>1, WorkerHasJob
  <1>3. worker'.job = worker.job /\ worker'.at = "check" /\ worker.job # None
    BY <1>1 DEF JobsInv, Typed, TypeOK, InHand
  <1>4. Dispatched'
    BY <1>1, <1>3 DEF JobsInv, Dispatched
  <1>5. CASE jobs[J].cancelled
    <2>1. Indexed' /\ Carried' /\ Told'
      BY <1>1, <1>3, <1>5, WorkerMoves
    <2>2. Typed'
      BY <1>1, <1>3, <1>5 DEF JobsInv, Typed, TypeOK, InHand
    <2> QED
      BY <1>4, <2>1, <2>2 DEF JobsInv
  <1>6. CASE ~jobs[J].cancelled
    <2>1. /\ r \in Job /\ r.key = jobs[J].key /\ r.finished = jobs[J].finished
          /\ ~r.cancelled /\ r.status \notin Terminal
      BY <1>2, <1>6 DEF Job, JobStatus, Terminal
    <2>2. jobs' = [jobs EXCEPT ![J] = r]
      BY <1>1, <1>6
    <2> HIDE DEF r
    <2>3. /\ jobs' \in [Ids -> Job \cup {None}] /\ Unfinished' = Unfinished
          /\ Indexed' /\ Carried'
      BY <1>1, <1>2, <1>3, <2>1, <2>2, JobEdited
    <2>4. Typed'
      BY <1>1, <1>3, <2>3 DEF JobsInv, Typed, TypeOK, InHand
    <2>5. Told'
      <3>1. closed => jobs[J].cancelled
        BY <1>2 DEF JobsInv, Told
      <3> QED
        BY <1>1, <1>2, <1>6, <2>1, <2>2, <2>3, <3>1
        DEF JobsInv, Told, Typed, TypeOK, Unfinished
    <2> QED
      BY <1>4, <2>3, <2>4, <2>5 DEF JobsInv
  <1> QED
    BY <1>5, <1>6

LEMMA CheckCancelledStep == JobsInv /\ CheckCancelled => JobsInv'
  <1> SUFFICES ASSUME JobsInv, CheckCancelled PROVE JobsInv'
    OBVIOUS
  <1>1. worker'.job = worker.job /\ worker'.at = "apply"
    BY DEF CheckCancelled, JobsInv, Typed, TypeOK
  <1>2. Indexed' /\ Carried' /\ Told'
    BY <1>1, WorkerMoves DEF CheckCancelled, mgrVars
  <1>3. Typed'
    <2>1. PICK u \in StageStatus : worker' = [worker EXCEPT !.at = "apply", !.update = u]
      BY DEF CheckCancelled, StageStatus
    <2>2. worker.stage \in Stages
      BY DEF CheckCancelled, JobsInv, Typed, TypeOK, Stages
    <2>3. worker'.update = u /\ worker'.stage = worker.stage
      BY <2>1 DEF JobsInv, Typed, TypeOK
    <2> QED
      BY <1>1, <2>1, <2>2, <2>3 DEF CheckCancelled, mgrVars, JobsInv, Typed, TypeOK, InHand
  <1>4. Dispatched'
    BY <1>1 DEF CheckCancelled, mgrVars, JobsInv, Dispatched
  <1> QED
    BY <1>2, <1>3, <1>4 DEF JobsInv

\* A worker's edit of the stages of its job.
LEMMA StagesEdited ==
  ASSUME JobsInv, worker.at \notin {"rest", "drain"},
         NEW stages \in [Stages -> StageStatus], NEW revision \in Nat,
         jobs' = [jobs EXCEPT ![J].stages = stages, ![J].resultRevision = revision],
         worker'.job = worker.job,
         UNCHANGED <<byNode, finished, pending, closed, lastJob>>
  PROVE  jobs' \in [Ids -> Job \cup {None}] /\ Indexed' /\ Carried' /\ Told'
  <1> DEFINE r == [jobs[J] EXCEPT !.stages = stages, !.resultRevision = revision]
  <1>1. J \in Ids /\ J \in Unfinished /\ jobs[J] \in Job /\ jobs[J] # None
    BY WorkerHasJob
  <1>2. /\ r \in Job /\ r.key = jobs[J].key /\ r.finished = jobs[J].finished
        /\ r.status = jobs[J].status /\ r.cancelled = jobs[J].cancelled
        /\ r.observers = jobs[J].observers
    BY <1>1 DEF Job
  <1>3. jobs' = [jobs EXCEPT ![J] = r]
    BY <1>1, <1>2, NoneAssumption DEF JobsInv, Typed, TypeOK
  <1> HIDE DEF r
  <1>4. jobs' \in [Ids -> Job \cup {None}] /\ Unfinished' = Unfinished /\ Indexed' /\ Carried'
    BY <1>1, <1>2, <1>3, JobEdited
  <1>5. Told'
    BY <1>1, <1>2, <1>3, <1>4 DEF JobsInv, Told, Typed, TypeOK, Unfinished
  <1> QED
    BY <1>4, <1>5

LEMMA ApplyUpdateStep == JobsInv /\ ApplyUpdate => JobsInv'
  <1> SUFFICES ASSUME JobsInv, ApplyUpdate PROVE JobsInv'
    OBVIOUS
  <1> DEFINE u == worker.update
             stages == [jobs[J].stages EXCEPT ![worker.stage] = u]
  <1>1. /\ worker.at = "apply"
        /\ jobs' = IF u = "running" /\ jobs[J].cancelled THEN jobs
                   ELSE [jobs EXCEPT ![J].stages[worker.stage] = u, ![J].resultRevision = @ + 1]
        /\ worker' = IF u = "running" THEN [worker EXCEPT !.at = "engine", !.update = None]
                     ELSE [worker EXCEPT !.at = "check", !.stage = @ + 1, !.update = None]
        /\ UNCHANGED <<byNode, finished, pending, dispatching, closed, submitted, cache, lastJob>>
    BY DEF ApplyUpdate
  <1>2. /\ J \in Ids /\ jobs[J] \in Job /\ worker.stage \in Stages /\ u \in StageStatus
        /\ J = worker.job /\ J # None
    BY <1>1, WorkerHasJob, NoneAssumption DEF JobsInv, Typed, InHand, J, Ids
  <1>3. /\ worker' \in [at: {"rest", "drain", "begin", "check", "apply", "engine", "save",
                             "finish"},
                         job: Ids \cup {None}, stage: 1 .. NStages + 1,
                         update: StageStatus \cup {None}]
        /\ worker'.job = worker.job /\ worker'.at \in {"engine", "check"}
        /\ worker'.at = "engine" => worker'.stage = worker.stage
    <2>1. worker.stage + 1 \in 1 .. NStages + 1
      BY <1>2, LimitsAssumption DEF Stages
    <2> QED
      BY <1>1, <2>1 DEF JobsInv, Typed, TypeOK
  <1>4. jobs' \in [Ids -> Job \cup {None}] /\ Indexed' /\ Carried' /\ Told'
    <2>1. CASE u = "running" /\ jobs[J].cancelled
      BY <1>1, <1>3, <2>1, WorkerMoves DEF JobsInv, Typed, TypeOK
    <2>2. CASE ~(u = "running" /\ jobs[J].cancelled)
      <3>1. stages \in [Stages -> StageStatus] /\ jobs[J].resultRevision + 1 \in Nat
        BY <1>2 DEF Job
      <3>2. jobs' = [jobs EXCEPT ![J].stages = stages,
                                 ![J].resultRevision = jobs[J].resultRevision + 1]
        BY <1>1, <1>2, <2>2 DEF JobsInv, Typed, TypeOK, Job
      <3> HIDE DEF stages
      <3> QED
        BY <1>1, <1>3, <3>1, <3>2, StagesEdited
    <2> QED
      BY <2>1, <2>2
  <1>5. Typed'
    BY <1>1, <1>2, <1>3, <1>4 DEF JobsInv, Typed, TypeOK, InHand
  <1>6. Dispatched'
    BY <1>1, <1>3 DEF JobsInv, Dispatched
  <1> QED
    BY <1>4, <1>5, <1>6 DEF JobsInv

LEMMA RunEngineStep == JobsInv /\ RunEngine => JobsInv'
  <1> SUFFICES ASSUME JobsInv, RunEngine PROVE JobsInv'
    OBVIOUS
  <1>1. PICK u \in StageStatus : worker' = [worker EXCEPT !.at = "apply", !.update = u]
    BY DEF RunEngine, StageStatus
  <1>2. worker.at = "engine" /\ UNCHANGED <<jobs, byNode, finished, pending, dispatching,
                                            closed, submitted, cache, lastJob>>
    BY DEF RunEngine, mgrVars
  <1>3. worker'.job = worker.job /\ worker'.at = "apply" /\ worker'.update = u
        /\ worker'.stage = worker.stage
    BY <1>1 DEF JobsInv, Typed, TypeOK
  <1>4. Indexed' /\ Carried' /\ Told'
    BY <1>2, <1>3, WorkerMoves
  <1>5. Typed'
    BY <1>1, <1>2, <1>3 DEF JobsInv, Typed, TypeOK, InHand
  <1>6. Dispatched'
    BY <1>2, <1>3 DEF JobsInv, Dispatched
  <1> QED
    BY <1>4, <1>5, <1>6 DEF JobsInv

LEMMA RunFailsStep == JobsInv /\ RunFails => JobsInv'
  <1> SUFFICES ASSUME JobsInv, RunFails PROVE JobsInv'
    OBVIOUS
  <1> DEFINE open   == {i \in Stages : jobs[J].stages[i] \in {"waiting", "running"}}
             stages == [i \in Stages |-> IF i \in open THEN "error" ELSE jobs[J].stages[i]]
  <1>1. /\ worker.at \in {"check", "engine"} /\ worker' = [worker EXCEPT !.at = "finish"]
        /\ jobs' = [jobs EXCEPT ![J].stages = [i \in Stages |-> IF i \in open THEN "error" ELSE @[i]],
                                ![J].resultRevision = @ + Cardinality(open)]
        /\ UNCHANGED <<byNode, finished, pending, dispatching, closed, submitted, cache, lastJob>>
    BY DEF RunFails
  <1>2. J \in Ids /\ jobs[J] \in Job /\ jobs[J] # None
    BY <1>1, WorkerHasJob
  <1>3. worker'.job = worker.job /\ worker'.at = "finish"
    BY <1>1 DEF JobsInv, Typed, TypeOK
  <1>4. Cardinality(open) \in Nat
    <2>1. IsFiniteSet(Stages)
      BY LimitsAssumption, FS_Interval DEF Stages
    <2>2. IsFiniteSet(open)
      BY <2>1, FS_Subset
    <2> QED
      BY <2>2, FS_CardinalityType
  <1>5. stages \in [Stages -> StageStatus] /\ jobs[J].resultRevision + Cardinality(open) \in Nat
    <2> HIDE DEF open
    <2> QED
      BY <1>2, <1>4 DEF Job, StageStatus
  <1>6. jobs' = [jobs EXCEPT ![J].stages = stages,
                             ![J].resultRevision = jobs[J].resultRevision + Cardinality(open)]
    <2> HIDE DEF open
    <2> QED
      BY <1>1, <1>2 DEF JobsInv, Typed, TypeOK, Job
  <1> HIDE DEF stages, open
  <1>7. jobs' \in [Ids -> Job \cup {None}] /\ Indexed' /\ Carried' /\ Told'
    BY <1>1, <1>3, <1>5, <1>6, StagesEdited
  <1>8. Typed'
    BY <1>1, <1>3, <1>7 DEF JobsInv, Typed, TypeOK, InHand
  <1>9. Dispatched'
    BY <1>1, <1>3 DEF JobsInv, Dispatched
  <1> QED
    BY <1>7, <1>8, <1>9 DEF JobsInv

LEMMA TakeProductStep == JobsInv /\ TakeProduct => JobsInv'
  <1> SUFFICES ASSUME JobsInv, TakeProduct PROVE JobsInv'
    OBVIOUS
  <1>1. worker'.job = worker.job /\ worker'.at \in {"save", "finish"}
    BY DEF TakeProduct, JobsInv, Typed, TypeOK
  <1>2. Indexed' /\ Carried' /\ Told'
    BY <1>1, WorkerMoves DEF TakeProduct, mgrVars
  <1>3. Typed'
    BY DEF TakeProduct, mgrVars, JobsInv, Typed, TypeOK, InHand
  <1>4. Dispatched'
    BY <1>1 DEF TakeProduct, mgrVars, JobsInv, Dispatched
  <1> QED
    BY <1>2, <1>3, <1>4 DEF JobsInv

LEMMA SaveProductStep == JobsInv /\ SaveProduct => JobsInv'
  <1> SUFFICES ASSUME JobsInv, SaveProduct PROVE JobsInv'
    OBVIOUS
  <1>1. worker'.job = worker.job /\ worker'.at = "finish"
    BY DEF SaveProduct, JobsInv, Typed, TypeOK
  <1>2. Indexed' /\ Carried' /\ Told'
    BY <1>1, WorkerMoves DEF SaveProduct, mgrVars
  <1>3. Typed'
    <2>1. jobs[J] \in Job
      BY WorkerHasJob DEF SaveProduct
    <2>2. cache' \in [Keys -> [Stages -> StageStatus] \cup {None}]
      BY <2>1 DEF SaveProduct, JobsInv, Typed, TypeOK, Job
    <2> QED
      BY <2>2 DEF SaveProduct, mgrVars, JobsInv, Typed, TypeOK, InHand
  <1>4. Dispatched'
    BY <1>1 DEF SaveProduct, mgrVars, JobsInv, Dispatched
  <1> QED
    BY <1>2, <1>3, <1>4 DEF JobsInv

LEMMA FinishJobStep == JobsInv /\ FinishJob => JobsInv'
  <1> SUFFICES ASSUME JobsInv, FinishJob PROVE JobsInv'
    OBVIOUS
  <1> DEFINE st == IF jobs[J].cancelled THEN "cancelled" ELSE ResultStatus(jobs[J].stages)
             r  == [jobs[J] EXCEPT !.status = st]
             js == [jobs EXCEPT ![J].status = st]
             ended == <<J>>
  <1>1. /\ worker.at = "finish" /\ Finish(js, byNode, ended)
        /\ worker' = [Resting EXCEPT !.at = "drain"]
        /\ UNCHANGED <<pending, dispatching, closed, submitted, cache, lastJob>>
    BY DEF FinishJob
  <1>2. J \in Ids /\ J \in Unfinished /\ jobs[J] \in Job /\ jobs[J] # None
    BY <1>1, WorkerHasJob
  <1>3. r \in Job /\ r.key = jobs[J].key /\ r.finished = jobs[J].finished
    <2>1. st \in JobStatus
      BY ResultStatusType DEF JobStatus, Terminal
    <2> HIDE DEF st
    <2> QED
      BY <1>2, <2>1 DEF Job
  <1>4. js = [jobs EXCEPT ![J] = r]
    BY DEF JobsInv, Typed, TypeOK
  <1>5. ended \in Seq(Ids) /\ Range(ended) = {J}
    BY <1>2 DEF Range
  <1> HIDE DEF st, r, js, ended
  <1>6. /\ js \in [Ids -> Job \cup {None}]
        /\ \A i \in Ids : /\ (js[i] # None) = (jobs[i] # None)
                          /\ js[i].key = jobs[i].key /\ js[i].finished = jobs[i].finished
                          /\ i # J => js[i] = jobs[i]
    BY <1>2, <1>3, <1>4, NoneAssumption DEF JobsInv, Typed, TypeOK
  <1>7. Live(js) = Unfinished
    BY <1>6 DEF Live, Unfinished
  <1>8. IndexedBy(js, byNode, lastJob')
    <2>1. byNode \in [Keys -> Ids \cup {None}] /\ IndexedBy(jobs, byNode, lastJob)
      BY DEF JobsInv, Typed, TypeOK, Indexed
    <2>2. Live(jobs) = Unfinished
      BY DEF Live, Unfinished
    <2> QED
      BY <1>1, <1>6, <1>7, <2>1, <2>2 DEF IndexedBy, Unfinished
  <1>9. /\ jobs' \in [Ids -> Job \cup {None}] /\ byNode' \in [Keys -> Ids \cup {None}]
        /\ finished' \in Seq(Ids)
        /\ Unfinished' = Live(js) \ Range(ended)
        /\ \A i \in Unfinished' : jobs'[i] = js[i]
        /\ Indexed'
    <2>1. /\ byNode \in [Keys -> Ids \cup {None}] /\ finished \in Seq(Ids)
          /\ lastJob' \in 0 .. MaxJobs
      BY <1>1 DEF JobsInv, Typed, TypeOK
    <2>2. \A j \in Range(finished) : j <= lastJob' /\ j \notin Live(js)
      BY <1>1, <1>7 DEF JobsInv, Indexed
    <2>3. \A j \in Range(ended) : js[j] # None
      BY <1>2, <1>5, <1>6
    <2>4. js \in [Ids -> Job \cup {None}]
      BY <1>6
    <2> QED
      BY <1>1, <1>5, <1>8, <2>1, <2>2, <2>3, <2>4, FinishEffect
  <1>10. \A i \in Unfinished' : i \in Unfinished /\ jobs'[i] = jobs[i]
    BY <1>5, <1>6, <1>7, <1>9 DEF Unfinished
  <1>11. worker' = [at |-> "drain", job |-> None, stage |-> 1, update |-> None]
    BY <1>1 DEF Resting
  <1>12. Typed'
    <2>1. worker' \in [at: {"rest", "drain", "begin", "check", "apply", "engine", "save",
                            "finish"},
                       job: Ids \cup {None}, stage: 1 .. NStages + 1,
                       update: StageStatus \cup {None}]
      BY <1>11, LimitsAssumption
    <2>2. TypeOK'
      BY <1>1, <1>9, <2>1 DEF JobsInv, Typed, TypeOK
    <2> QED
      BY <1>11, <2>2 DEF Typed, InHand
  <1>13. Carried'
    <2>1. J' = None /\ Unfinished' = Unfinished \ {J} /\ pending' = pending
      BY <1>1, <1>5, <1>7, <1>9, <1>11 DEF J
    <2>2. Unfinished = Range(pending) \cup {J} /\ J \notin Range(pending)
      BY <1>2, NoneAssumption DEF JobsInv, Carried, Ids
    <2>3. None \notin Range(pending)
      <3>1. Range(pending) \subseteq Ids
        BY RangeOfSeq DEF JobsInv, Typed, TypeOK
      <3> QED
        BY <3>1, NoneAssumption DEF Ids
    <2>4. Unfinished' = Range(pending') \cup ({J'} \ {None}) /\ J' \notin Range(pending')
      BY <2>1, <2>2, <2>3
    <2> QED
      BY <2>1, <2>4 DEF JobsInv, Carried
  <1>14. Dispatched'
    BY <1>1, <1>11 DEF JobsInv, Dispatched
  <1>15. Told'
    BY <1>1, <1>10 DEF JobsInv, Told
  <1> QED
    BY <1>9, <1>12, <1>13, <1>14, <1>15 DEF JobsInv

LEMMA JobsStep == JobsInv /\ [Next]_vars => JobsInv'
  <1> SUFFICES ASSUME JobsInv, [Next]_vars PROVE JobsInv'
    OBVIOUS
  <1>1. CASE \E k \in Keys, o \in Observers :
               Attach(k, o) \/ StartCached(k, o) \/ StartQueued(k, o)
    BY <1>1, AttachStep, StartCachedStep, StartQueuedStep
  <1>2. CASE \E k \in Keys : SubmitFails(k)
    BY <1>2, SubmitFailsStep
  <1>3. CASE \E j \in Ids, o \in Observers :
               Detach(j, o) \/ CancelRunning(j, o) \/ CancelQueued(j, o) \/ Release(j, o)
    <2>1. PICK j \in Ids, o \in Observers :
               Detach(j, o) \/ CancelRunning(j, o) \/ CancelQueued(j, o) \/ Release(j, o)
      BY <1>3
    <2>2. CASE Detach(j, o)
      BY <2>2, ObserverLeaves DEF Detach
    <2>3. CASE Release(j, o)
      BY <2>3, ObserverLeaves DEF Release, Left
    <2> QED
      BY <2>1, <2>2, <2>3, CancelRunningStep, CancelQueuedStep
  <1>4. CASE Shutdown
    BY <1>4, ShutdownStep
  <1>5. CASE WorkerStep
    BY <1>5, TakeDispatcherStep, DrainedStep, TakeJobStep, BeginStep, CheckCancelledStep,
       ApplyUpdateStep, RunEngineStep, RunFailsStep, TakeProductStep, SaveProductStep,
       FinishJobStep DEF WorkerStep
  <1>6. CASE UNCHANGED vars
    <2>1. UNCHANGED <<jobs, byNode, finished, pending, dispatching, closed, submitted, worker,
                      cache, lastJob>>
      BY <1>6 DEF vars, mgrVars
    <2>2. Indexed' /\ Carried' /\ Told'
      BY <2>1, WorkerMoves
    <2> QED
      BY <2>1, <2>2 DEF JobsInv, Typed, TypeOK, InHand, Dispatched
  <1> QED
    BY <1>1, <1>2, <1>3, <1>4, <1>5, <1>6 DEF Next

-----------------------------------------------------------------------------
LEMMA JobsInvariant == Spec => []JobsInv
  BY JobsInit, JobsStep, PTL DEF Spec

(* Every variable of the manager and its worker keeps its type, for any    *)
(* nodes, browsers, stages and limits (AnalysisJobManager).                *)
THEOREM JobsTyped == Spec => []TypeOK
  <1>1. JobsInv => TypeOK
    BY DEF JobsInv, Typed
  <1> QED
    BY <1>1, JobsInvariant, PTL

(* For any nodes and browsers at most one job per node is in progress, and *)
(* a start of that node finds it (start: _by_node).                        *)
THEOREM JobsAreShared == Spec => []SingleFlight
  <1>1. JobsInv => SingleFlight
    BY DEF JobsInv, Indexed, IndexedBy, Live, Unfinished, SingleFlight
  <1> QED
    BY <1>1, JobsInvariant, PTL

(* No job is in progress outside the queue and the worker's hands, and a   *)
(* queue that is not empty has its dispatcher (_pending, _dispatching).    *)
THEOREM NoJobIsStranded == Spec => []NothingStranded
  <1>1. JobsInv => NothingStranded
    BY DEF JobsInv, Carried, Dispatched, NothingStranded
  <1> QED
    BY <1>1, JobsInvariant, PTL

(* Only the last observer's cancel, or the shutdown, stops a computation   *)
(* that others may share (cancel).                                         *)
THEOREM SharedWorkIsKept == Spec => []ObserversKeepTheirWork
  <1>1. JobsInv => ObserversKeepTheirWork
    BY DEF JobsInv, Told, ObserversKeepTheirWork
  <1> QED
    BY <1>1, JobsInvariant, PTL

(* After the shutdown nothing waits, and what runs has been told           *)
(* (shutdown).                                                             *)
THEOREM ShutdownIsQuiet == Spec => []ClosedIsQuiet
  <1>1. JobsInv => ClosedIsQuiet
    BY DEF JobsInv, Told, Dispatched, ClosedIsQuiet
  <1> QED
    BY <1>1, JobsInvariant, PTL
-----------------------------------------------------------------------------
(* Products and their revisions.                                           *)

\* What an update of one job does to its product.
Rises(r, q) == q.stages # r.stages => q.resultRevision > r.resultRevision

LEMMA FinishKeepsProducts ==
  ASSUME NEW js \in [Ids -> Job \cup {None}], NEW by, NEW ended \in Seq(Ids),
         \A j \in Range(ended) : js[j] # None,
         Finish(js, by, ended)
  PROVE  \A i \in Ids : jobs'[i] # None =>
           /\ js[i] # None
           /\ jobs'[i].stages = js[i].stages
           /\ jobs'[i].resultRevision = js[i].resultRevision
  <1> DEFINE gone == Range(Expired(finished \o ended))
  <1>1. jobs' = [i \in Ids |->
                   IF i \in gone THEN None
                   ELSE IF i \in Range(ended) THEN [js[i] EXCEPT !.finished = TRUE]
                   ELSE js[i]]
    BY DEF Finish
  <1> HIDE DEF gone
  <1>2. ASSUME NEW i \in Ids, js[i] \in Job
        PROVE  /\ [js[i] EXCEPT !.finished = TRUE].stages = js[i].stages
               /\ [js[i] EXCEPT !.finished = TRUE].resultRevision = js[i].resultRevision
    BY <1>2 DEF Job
  <1>3. \A i \in Ids : i \in Range(ended) => js[i] \in Job
    OBVIOUS
  <1> QED
    BY <1>1, <1>2, <1>3

LEMMA CancelRises ==
  ASSUME NEW r \in Job
  PROVE  Rises(r, CancelRequested(r))
  <1> DEFINE waiting == {i \in Stages : r.stages[i] = "waiting"}
             q == CancelRequested(r)
  <1>1. /\ q.stages = [i \in Stages |-> IF i \in waiting THEN "cancelled" ELSE r.stages[i]]
        /\ q.resultRevision = r.resultRevision + Cardinality(waiting)
    BY DEF CancelRequested, Job
  <1>2. r.stages = [i \in Stages |-> r.stages[i]]
    BY DEF Job
  <1>3. q.stages # r.stages => waiting # {}
    BY <1>1, <1>2
  <1>4. waiting # {} => Cardinality(waiting) \in Nat \ {0}
    <2>1. IsFiniteSet(Stages)
      BY LimitsAssumption, FS_Interval DEF Stages
    <2>2. IsFiniteSet(waiting)
      BY <2>1, FS_Subset
    <2> HIDE DEF waiting
    <2> QED
      BY <2>2, FS_CardinalityType, FS_EmptySet
  <1>5. r.resultRevision \in Nat
    BY DEF Job
  <1> HIDE DEF waiting, q
  <1>6. q.stages # r.stages => q.resultRevision > r.resultRevision
    BY <1>1, <1>3, <1>4, <1>5
  <1> QED
    BY <1>6 DEF Rises, q

LEMMA StepRises ==
  ASSUME JobsInv, Next, NEW j \in Ids, jobs[j] # None, jobs'[j] # None
  PROVE  Rises(jobs[j], jobs'[j])
  <1>1. jobs \in [Ids -> Job \cup {None}] /\ jobs[j] \in Job
    BY DEF JobsInv, Typed, TypeOK
  <1>2. CASE jobs' = jobs
    BY <1>2 DEF Rises
  <1>3. ASSUME NEW k \in Keys, NEW o \in Observers, Attach(k, o) PROVE Rises(jobs[j], jobs'[j])
    BY <1>1, <1>3 DEF Attach, Rises, Job, JobsInv, Typed, TypeOK
  <1>4. ASSUME NEW k \in Keys, NEW o \in Observers, StartCached(k, o)
        PROVE  Rises(jobs[j], jobs'[j])
    <2> DEFINE n     == lastJob + 1
               born  == [NewJob(k, o, cache[k]) EXCEPT !.status = ResultStatus(cache[k])]
               js    == [jobs EXCEPT ![n] = born]
               by    == [byNode EXCEPT ![k] = n]
               ended == <<n>>
    <2>1. Finish(js, by, ended) /\ NeedsNew(k)
      BY <1>4 DEF StartCached
    <2>2. n \in Ids /\ j # n
      BY <1>1, <2>1, NewIsAlone
    <2>3. born \in Job
      <3>1. cache[k] \in [Stages -> StageStatus] /\ ResultStatus(cache[k]) \in JobStatus
        BY <1>4, ResultStatusType DEF StartCached, JobsInv, Typed, TypeOK, JobStatus
      <3> QED
        BY <3>1 DEF NewJob, Job
    <2>4. ended \in Seq(Ids) /\ Range(ended) = {n}
      BY <2>2 DEF Range
    <2> HIDE DEF born, by, ended, n
    <2>5. js \in [Ids -> Job \cup {None}] /\ js[n] # None /\ js[j] = jobs[j]
      BY <1>1, <2>2, <2>3, NoneAssumption
    <2> HIDE DEF js
    <2>6. /\ jobs'[j].stages = js[j].stages
          /\ jobs'[j].resultRevision = js[j].resultRevision
      BY <2>1, <2>4, <2>5, FinishKeepsProducts
    <2> QED
      BY <2>5, <2>6 DEF Rises
  <1>5. ASSUME NEW k \in Keys, NEW o \in Observers, StartQueued(k, o)
        PROVE  Rises(jobs[j], jobs'[j])
    <2>1. j # lastJob + 1
      BY <1>1, <1>5, NewIsAlone DEF StartQueued
    <2> QED
      BY <1>1, <1>5, <2>1 DEF StartQueued, Rises
  <1>6. ASSUME NEW i \in Ids, NEW o \in Observers, jobs[i] # None, jobs' = Left(i, o)
        PROVE  Rises(jobs[j], jobs'[j])
    BY <1>1, <1>6 DEF Left, Rises, Job
  <1>7. ASSUME NEW i \in Ids, NEW o \in Observers, CancelRunning(i, o)
        PROVE  Rises(jobs[j], jobs'[j])
    <2> DEFINE l == [jobs[i] EXCEPT !.observers = @ \ {o}]
    <2>1. /\ jobs[i] # None /\ l \in Job /\ Left(i, o) = [jobs EXCEPT ![i] = l]
          /\ l.stages = jobs[i].stages /\ l.resultRevision = jobs[i].resultRevision
      <3>1. jobs[i] # None
        BY <1>7 DEF CancelRunning
      <3>2. l \in Job /\ Left(i, o) = [jobs EXCEPT ![i] = l] /\ jobs[i] \in Job
        BY <3>1, LeftType
      <3> QED
        BY <3>1, <3>2 DEF Job
    <2> HIDE DEF l
    <2>2. jobs' = [jobs EXCEPT ![i] = CancelRequested(l)]
      BY <1>1, <1>7, <2>1 DEF CancelRunning
    <2>3. Rises(l, CancelRequested(l))
      BY <2>1, CancelRises
    <2> QED
      BY <1>1, <2>1, <2>2, <2>3 DEF Rises
  <1>8. ASSUME NEW js \in [Ids -> Job \cup {None}], NEW which, NEW ended \in Seq(Ids),
               \A i \in Ids : (js[i] # None) = (jobs[i] # None),
               \A i \in Ids : jobs[i] # None => /\ js[i].stages = jobs[i].stages
                                               /\ js[i].resultRevision = jobs[i].resultRevision,
               \A i \in which : i \in Ids /\ jobs[i] # None,
               Range(ended) \subseteq which,
               CancelJobs(js, which, ended)
        PROVE  Rises(jobs[j], jobs'[j])
    <2> DEFINE told == [i \in Ids |->
                 IF i \in Range(ended) THEN [CancelRequested(js[i]) EXCEPT !.status = "cancelled"]
                 ELSE IF i \in which THEN CancelRequested(js[i])
                 ELSE js[i]]
    <2>1. Finish(told, byNode, ended)
      BY <1>8 DEF CancelJobs
    <2>2. ASSUME NEW i \in which
          PROVE  LET c == CancelRequested(js[i])
                     f == [c EXCEPT !.status = "cancelled"] IN
                 /\ c \in Job /\ Rises(js[i], c) /\ f \in Job /\ Rises(js[i], f)
      <3> DEFINE c == CancelRequested(js[i])
      <3>1. js[i] \in Job
        BY <1>8, <2>2
      <3>2. c \in Job /\ Rises(js[i], c)
        BY <3>1, CancelKeepsType, CancelRises
      <3> HIDE DEF c
      <3>3. LET f == [c EXCEPT !.status = "cancelled"] IN f \in Job /\ Rises(js[i], f)
        BY <3>2 DEF Job, JobStatus, Terminal, Rises
      <3> QED
        BY <3>2, <3>3 DEF c
    <2>3. told \in [Ids -> Job \cup {None}]
      BY <1>8, <2>2
    <2>4. \A i \in Range(ended) : told[i] # None
      BY <1>8, <2>2, NoneAssumption
    <2>5. Rises(js[j], told[j])
      BY <1>8, <2>2 DEF Rises
    <2> HIDE DEF told
    <2>6. /\ jobs'[j].stages = told[j].stages
          /\ jobs'[j].resultRevision = told[j].resultRevision
      BY <1>8, <2>1, <2>3, <2>4, FinishKeepsProducts
    <2> QED
      BY <1>8, <2>5, <2>6 DEF Rises
  <1>9. ASSUME NEW i \in Ids, NEW o \in Observers, CancelQueued(i, o)
        PROVE  Rises(jobs[j], jobs'[j])
    <2> DEFINE l  == [jobs[i] EXCEPT !.observers = @ \ {o}]
               js == Left(i, o)
               which == {i}
               ended == <<i>>
    <2>1. /\ jobs[i] # None /\ l \in Job /\ js = [jobs EXCEPT ![i] = l]
          /\ l.stages = jobs[i].stages /\ l.resultRevision = jobs[i].resultRevision
      <3>1. jobs[i] # None
        BY <1>9 DEF CancelQueued
      <3>2. l \in Job /\ js = [jobs EXCEPT ![i] = l] /\ jobs[i] \in Job
        BY <3>1, LeftType
      <3> QED
        BY <3>1, <3>2 DEF Job
    <2> HIDE DEF l
    <2>2. /\ js \in [Ids -> Job \cup {None}]
          /\ \A n \in Ids : (js[n] # None) = (jobs[n] # None)
          /\ \A n \in Ids : jobs[n] # None => /\ js[n].stages = jobs[n].stages
                                             /\ js[n].resultRevision = jobs[n].resultRevision
      BY <1>1, <2>1, NoneAssumption
    <2>3. CancelJobs(js, which, ended)
      BY <1>9 DEF CancelQueued
    <2>4. ended \in Seq(Ids) /\ Range(ended) \subseteq which /\ i \in which
      BY DEF Range
    <2>5. \A n \in which : n \in Ids /\ jobs[n] # None
      BY <2>1
    <2> HIDE DEF js, which, ended
    <2> QED
      BY <1>8, <2>2, <2>3, <2>4, <2>5
  <1>10. CASE Shutdown
    <2>1. CancelJobs(jobs, Unfinished, pending)
      BY <1>10 DEF Shutdown, JobsToCancel
    <2>2. Range(pending) \subseteq Unfinished /\ pending \in Seq(Ids)
      BY DEF JobsInv, Carried, Typed, TypeOK
    <2>3. \A i \in Unfinished : i \in Ids /\ jobs[i] # None
      BY DEF Unfinished
    <2> QED
      BY <1>1, <1>8, <2>1, <2>2, <2>3
  <1>11. CASE Begin
    BY <1>1, <1>11 DEF Begin, Rises, Job
  <1>12. CASE ApplyUpdate
    BY <1>1, <1>12 DEF ApplyUpdate, Rises, Job
  <1>13. CASE RunFails
    <2> DEFINE open == {i \in Stages : jobs[J].stages[i] \in {"waiting", "running"}}
    <2>1. /\ worker.at \in {"check", "engine"}
          /\ jobs' = [jobs EXCEPT ![J].stages = [i \in Stages |-> IF i \in open THEN "error" ELSE @[i]],
                                  ![J].resultRevision = @ + Cardinality(open)]
      BY <1>13 DEF RunFails
    <2>2. J \in Ids /\ jobs[J] \in Job
      BY <2>1, WorkerHasJob
    <2>3. open # {} => Cardinality(open) \in Nat \ {0}
      <3>1. IsFiniteSet(Stages)
        BY LimitsAssumption, FS_Interval DEF Stages
      <3>2. IsFiniteSet(open)
        BY <3>1, FS_Subset
      <3> HIDE DEF open
      <3> QED
        BY <3>2, FS_CardinalityType, FS_EmptySet
    <2>4. jobs[J].stages = [i \in Stages |-> jobs[J].stages[i]]
      BY <2>2 DEF Job
    <2> HIDE DEF open
    <2>5. j = J => /\ jobs'[j].stages = [i \in Stages |-> IF i \in open THEN "error"
                                                       ELSE jobs[j].stages[i]]
                   /\ jobs'[j].resultRevision = jobs[j].resultRevision + Cardinality(open)
      BY <1>1, <2>1, <2>2 DEF Job
    <2>6. j # J => jobs'[j] = jobs[j]
      BY <1>1, <2>1
    <2>7. j = J /\ jobs'[j].stages # jobs[j].stages => open # {}
      BY <2>4, <2>5
    <2>8. jobs[j].resultRevision \in Nat
      BY <1>1 DEF Job
    <2>9. j = J /\ jobs'[j].stages # jobs[j].stages => jobs'[j].resultRevision > jobs[j].resultRevision
      BY <2>3, <2>5, <2>7, <2>8
    <2> QED
      BY <2>6, <2>9 DEF Rises
  <1>14. CASE FinishJob
    <2> DEFINE st == IF jobs[J].cancelled THEN "cancelled" ELSE ResultStatus(jobs[J].stages)
               r  == [jobs[J] EXCEPT !.status = st]
               js == [jobs EXCEPT ![J].status = st]
               ended == <<J>>
    <2>1. worker.at = "finish" /\ Finish(js, byNode, ended)
      BY <1>14 DEF FinishJob
    <2>2. J \in Ids /\ jobs[J] \in Job /\ jobs[J] # None
      BY <2>1, WorkerHasJob
    <2>3. /\ r \in Job /\ r.stages = jobs[J].stages /\ r.resultRevision = jobs[J].resultRevision
      <3>1. st \in JobStatus
        BY ResultStatusType DEF JobStatus, Terminal
      <3> HIDE DEF st
      <3> QED
        BY <2>2, <3>1 DEF Job
    <2>4. js = [jobs EXCEPT ![J] = r]
      BY <1>1
    <2>5. ended \in Seq(Ids) /\ Range(ended) = {J}
      BY <2>2 DEF Range
    <2> HIDE DEF st, r, js, ended
    <2>6. /\ js \in [Ids -> Job \cup {None}] /\ js[J] # None
          /\ js[j].stages = jobs[j].stages /\ js[j].resultRevision = jobs[j].resultRevision
      BY <1>1, <2>2, <2>3, <2>4, NoneAssumption
    <2>7. /\ jobs'[j].stages = js[j].stages
          /\ jobs'[j].resultRevision = js[j].resultRevision
      BY <2>1, <2>5, <2>6, FinishKeepsProducts
    <2> QED
      BY <2>6, <2>7 DEF Rises
  <1>15. CASE WorkerStep
    <2>1. CASE TakeDispatcher \/ Drained \/ TakeJob \/ CheckCancelled \/ RunEngine
               \/ TakeProduct \/ SaveProduct
      BY <1>2, <2>1 DEF TakeDispatcher, Drained, TakeJob, CheckCancelled, RunEngine,
         TakeProduct, SaveProduct, mgrVars
    <2> QED
      BY <1>11, <1>12, <1>13, <1>14, <1>15, <2>1 DEF WorkerStep
  <1>16. CASE \E k \in Keys : SubmitFails(k)
    BY <1>2, <1>16 DEF SubmitFails
  <1>17. CASE \E i \in Ids, o \in Observers :
                Detach(i, o) \/ CancelRunning(i, o) \/ CancelQueued(i, o) \/ Release(i, o)
    <2>1. PICK i \in Ids, o \in Observers :
                Detach(i, o) \/ CancelRunning(i, o) \/ CancelQueued(i, o) \/ Release(i, o)
      BY <1>17
    <2>2. CASE Detach(i, o)
      BY <1>6, <2>2 DEF Detach
    <2>3. CASE Release(i, o)
      BY <1>6, <2>3 DEF Release, Left
    <2> QED
      BY <1>7, <1>9, <2>1, <2>2, <2>3
  <1> QED
    BY <1>3, <1>4, <1>5, <1>10, <1>15, <1>16, <1>17 DEF Next

(* No two products of a job have the same revision, so that a poll which   *)
(* names the one it has misses nothing (poll, _snapshot).                  *)
THEOREM RevisionsNameProducts == Spec => RevisionNamesProduct
  <1>1. JobsInv /\ [Next]_vars =>
          [\A j \in Ids : jobs[j] # None /\ jobs'[j] # None /\ jobs'[j].stages # jobs[j].stages
             => jobs'[j].resultRevision > jobs[j].resultRevision]_vars
    BY StepRises DEF Rises
  <1> QED
    BY JobsInvariant, <1>1, PTL DEF Spec, RevisionNamesProduct
=============================================================================
