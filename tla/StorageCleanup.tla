--------------------------- MODULE StorageCleanup ---------------------------
(* The reflection files of a project's SHELXL jobs and their cleanup       *)
(* (refine/storage.py; workbench/routes.py, project_cleanup).  A job's     *)
(* job.hkl is a hard link to a reflection revision when one has its bytes, *)
(* its job.cif gives up the reflection block that job.hkl repeats, and a   *)
(* cleanup plans first and acts afterwards, one file at a time, while a    *)
(* turn may have begun.  Links between files nobody writes (revisions,     *)
(* job.fab) change no bytes and are left out, as are PLATON's by-products, *)
(* finished staging directories and display caches.                        *)
EXTENDS Integers, Sequences

CONSTANTS Bytes,       \* what a reflection file may hold
          KeepRecent,  \* KEEP_RECENT_JOBS
          MaxJobs, MaxRevisions, MaxEdits,  \* bounds
          None

VARIABLES
  work,      \* the bytes of the project's crystal.hkl
  revisions, \* data/dNNNN/observations.hkl: their bytes
  jobs,      \* the job directories, oldest first
  wrote,     \* history: the reflection block SHELXL wrote into job.cif
  named,     \* the jobs a node or a delivery names
  turn,      \* a turn is running
  plan,      \* the actions left of a cleanup, or None
  kept,      \* history: jobs named, with their job.fcf, outside a cleanup
  edits

vars == <<work, revisions, jobs, wrote, named, turn, plan, kept, edits>>
Jobs == 1..Len(jobs)
Revisions == 1..Len(revisions)

\* job.hkl is a file of its own, a link to a revision or to crystal.hkl.
Own(bytes) == [is |-> "own", bytes |-> bytes]
LinkTo(r)  == [is |-> "revision", of |-> r]
HklBytes(j) == CASE jobs[j].hkl.is = "own" -> jobs[j].hkl.bytes
                 [] jobs[j].hkl.is = "revision" -> revisions[jobs[j].hkl.of]
                 [] jobs[j].hkl.is = "working" -> work

Init ==
  /\ work \in Bytes /\ revisions = <<work>> /\ jobs = <<>> /\ wrote = <<>>
  /\ named = {} /\ turn = FALSE /\ plan = None /\ kept = {} /\ edits = 0

-----------------------------------------------------------------------------
(* The user and the agent.                                                  *)

\* The user overwrites crystal.hkl where it is.
EditInPlace(bytes) ==
  /\ edits < MaxEdits /\ bytes # work
  /\ work' = bytes /\ edits' = edits + 1
  /\ UNCHANGED <<revisions, jobs, wrote, named, turn, plan, kept>>

NewRevision ==
  /\ turn /\ Len(revisions) < MaxRevisions
  /\ revisions' = Append(revisions, work)
  /\ UNCHANGED <<work, jobs, wrote, named, turn, plan, kept, edits>>

TurnBegins == ~turn /\ turn' = TRUE /\ UNCHANGED <<work, revisions, jobs, wrote, named, plan, kept, edits>>
TurnEnds   == turn /\ turn' = FALSE /\ UNCHANGED <<work, revisions, jobs, wrote, named, plan, kept, edits>>

\* link_or_copy: never a link to the source itself.  Bug variant: it is.
LinkToSource(src) == {[is |-> "working"]}
LinkOrCopy(src) == {Own(src)} \cup {LinkTo(r) : r \in {q \in Revisions : revisions[q] = src}}

\* strip_embedded_hkl: only a block that is the job.hkl next to it.
\* Bug variant: whatever job.hkl holds.
StripUnseen(hkl, block) == TRUE
CanStrip(hkl, block) == hkl = block

\* _stage_job_hkl and _execute_shelxl.  SHELXL may embed another text than
\* its input, and a block that cannot be replaced stays.
RunShelxl ==
  /\ turn /\ Len(jobs) < MaxJobs
  /\ \E hkl \in LinkOrCopy(work), block \in Bytes, stripped \in BOOLEAN :
       /\ stripped => CanStrip(work, block)
       /\ jobs' = Append(jobs, [hkl |-> hkl, stripped |-> stripped, fcf |-> TRUE])
       /\ wrote' = Append(wrote, block)
  /\ UNCHANGED <<work, revisions, named, turn, plan, kept, edits>>

\* A node adopts the newest job, or a delivery pairs with a matching one.
Name(j) ==
  /\ turn /\ j \in Jobs \ named
  /\ named' = named \cup {j}
  /\ kept' = IF plan = None /\ jobs[j].fcf THEN kept \cup {j} ELSE kept
  /\ UNCHANGED <<work, revisions, jobs, wrote, turn, plan, edits>>

-----------------------------------------------------------------------------
(* The cleanup.                                                             *)

Action(kind, j, r) == [kind |-> kind, job |-> j, target |-> r]

\* referenced_shelxl_jobs.  Bug variant: the files of nodes alone are read.
ReferencedByNobody(all) == {}
Referenced(all) == all

Plan ==
  (UNION {{Action("link", j, r) : r \in {q \in Revisions : revisions[q] = HklBytes(j)}} :
            j \in {i \in Jobs : jobs[i].hkl.is = "own"}})
  \cup {Action("strip", j, None) : j \in {i \in Jobs : ~jobs[i].stripped /\ CanStrip(HklBytes(i), wrote[i])}}
  \cup {Action("delete", j, None) :
          j \in {i \in Jobs : i <= Len(jobs) - KeepRecent /\ i \notin Referenced(named) /\ jobs[i].fcf}}

\* 409 while a turn runs: asked once, before the plan.
PlanCleanup ==
  /\ plan = None /\ ~turn
  /\ Plan # {} /\ plan' = Plan
  /\ UNCHANGED <<work, revisions, jobs, wrote, named, turn, kept, edits>>

\* What apply_cleanup looks at again; of a deletion that the file is there.
StillHolds(a) ==
  CASE a.kind = "link"   -> jobs[a.job].hkl.is = "own" /\ HklBytes(a.job) = revisions[a.target]
    [] a.kind = "strip"  -> ~jobs[a.job].stripped /\ CanStrip(HklBytes(a.job), wrote[a.job])
    [] a.kind = "delete" -> jobs[a.job].fcf

Done(a) ==
  CASE a.kind = "link"   -> [jobs[a.job] EXCEPT !.hkl = LinkTo(a.target)]
    [] a.kind = "strip"  -> [jobs[a.job] EXCEPT !.stripped = TRUE]
    [] a.kind = "delete" -> [jobs[a.job] EXCEPT !.fcf = FALSE]

Rank == [link |-> 1, strip |-> 2, delete |-> 3]
Apply ==
  /\ plan # None
  /\ \E a \in plan :
       /\ \A b \in plan : Rank[a.kind] <= Rank[b.kind]
       /\ plan' = IF plan = {a} THEN None ELSE plan \ {a}
       /\ jobs' = IF StillHolds(a) THEN [jobs EXCEPT ![a.job] = Done(a)] ELSE jobs
  /\ UNCHANGED <<work, revisions, wrote, named, turn, kept, edits>>

Next ==
  \/ \E bytes \in Bytes : EditInPlace(bytes)
  \/ NewRevision \/ TurnBegins \/ TurnEnds \/ RunShelxl
  \/ \E j \in 1..MaxJobs : Name(j)
  \/ PlanCleanup \/ Apply

Spec == Init /\ [][Next]_vars

-----------------------------------------------------------------------------
TypeOK ==
  /\ work \in Bytes /\ revisions \in Seq(Bytes) /\ wrote \in Seq(Bytes)
  /\ Len(wrote) = Len(jobs) /\ named \subseteq Jobs /\ turn \in BOOLEAN
  /\ \A j \in Jobs : HklBytes(j) \in Bytes /\ jobs[j].stripped \in BOOLEAN

\* A reflection list that was taken out of a CIF can be put back as SHELXL
\* wrote it, whatever happened to the project's own file and to job.hkl's
\* inode since: restore_embedded_hkl has nothing but job.hkl.
RestoredIsOriginal == \A j \in Jobs : jobs[j].stripped => HklBytes(j) = wrote[j]

\* The structure factors of a job that a node or a delivery names outlive
\* every cleanup planned after it was named.
NamedJobsAreKept == \A j \in kept : jobs[j].fcf

\* "Never touched: any job a node or a delivery references ... apply_cleanup
\* re-checks every precondition before acting": a job may be named between
\* the plan and the deletion, which looks again only whether the file exists.
NothingNamedIsDeleted ==
  [][\A j \in named : jobs[j].fcf => jobs'[j].fcf]_vars
=============================================================================
