--------------------------- MODULE ProjectSession ---------------------------
(***************************************************************************)
(* An open project: ProjectSession in crystalpilot/workbench/service.py    *)
(* with the Workbench it drives (crystalpilot/workbench/core.py).          *)
(*                                                                         *)
(* HTTP requests run in a thread pool and every turn of a conversation in  *)
(* a thread of its own.  The session's lock protects single reads and      *)
(* writes of _busy and _sessions and nothing longer: closing, building and *)
(* starting the engine, and the flags of a deferred restart, are outside   *)
(* it.  Each action is what one thread does between two points where       *)
(* another may run.                                                        *)
(***************************************************************************)
EXTENDS Integers

CONSTANTS Requests,         \* threads that serve HTTP requests
          Threads,          \* conversations
          Workers,          \* bound: threads of turns that exist at a time
          Flags,            \* process-level flags an engine can run with
          MaxEngines,       \* bound: engines ever built
          MaxTexts,         \* bound: versions of AGENTS.md
          MaxFaults,        \* bound: requests that raise while they start a turn
          AllowConcurrent,  \* what requests pass as allow_concurrent
          None

Actors  == Requests \cup Workers
Engines == 1 .. MaxEngines
Texts   == 1 .. MaxTexts

ASSUME ActorsAssumption == /\ Requests \cap Workers = {}
                           /\ None \notin Threads \cup Flags \cup Engines
ASSUME BoundsAssumption == /\ MaxEngines \in Nat \ {0} /\ MaxTexts \in Nat \ {0}
                           /\ MaxFaults \in Nat /\ AllowConcurrent \in BOOLEAN

\* The requests that may rebuild the engine.
Kinds == {"settings", "language", "restart"}

SendSteps    == {"resume", "store", "admit", "launch"}
RebuildSteps == {"check", "close", "clear", "load", "assign", "start"}
RequestSteps == {"idle", "sync", "defer", "mark", "dirty", "calm"}
                  \cup SendSteps \cup RebuildSteps
WorkerSteps  == {"none", "turn", "running", "finish", "quiet", "apply", "calm", "settled"}
                  \cup RebuildSteps

VARIABLES
  wb,        \* self.wb: the current engine
  built,     \* engines built so far
  running,   \* _running_flags() of every engine: what it was started with
  asked,     \* project.settings held in memory by the workbench of every engine
  md,        \* the AGENTS.md every engine was built on
  live,      \* engines whose app-server runs
  disk,      \* the settings in the project's state file
  text,      \* the AGENTS.md on disk
  sessions,  \* _sessions: the engine of the cached TaskSession of a conversation
  busy,      \* _busy
  pending,   \* _restart_pending
  dirty,     \* _agents_md_dirty
  pc,        \* where every request and worker is
  kind,      \* what a request was sent for
  conv,      \* the conversation a request sends to, or a worker has the turn of
  eng,       \* the engine of the TaskSession in the hands of an actor
  loaded,    \* the settings an actor read from the state file
  faults

engines == <<wb, built, running, asked, md, live>>
files   == <<disk, text>>
flags   == <<pending, dirty>>
locals  == <<kind, conv, eng, loaded>>
vars    == <<engines, files, flags, sessions, busy, pc, locals, faults>>

TypeOK ==
  /\ wb \in Engines /\ built \in Engines /\ live \subseteq Engines
  /\ running \in [Engines -> Flags] /\ asked \in [Engines -> Flags]
  /\ md \in [Engines -> Texts]
  /\ disk \in Flags /\ text \in Texts
  /\ sessions \in [Threads -> Engines \cup {None}]
  /\ busy \subseteq Threads
  /\ pending \in BOOLEAN /\ dirty \in BOOLEAN
  /\ pc \in [Actors -> RequestSteps \cup WorkerSteps]
  /\ \A r \in Requests : pc[r] \in RequestSteps
  /\ \A w \in Workers : pc[w] \in WorkerSteps
  /\ kind \in [Requests -> Kinds \cup {None}]
  /\ conv \in [Actors -> Threads \cup {None}]
  /\ eng \in [Actors -> Engines \cup {None}]
  /\ loaded \in [Actors -> Flags \cup {None}]
  /\ faults \in 0 .. MaxFaults

\* A project opened: one engine, started on the settings and AGENTS.md on disk.
Init ==
  /\ wb = 1 /\ built = 1 /\ live = {1}
  /\ disk \in Flags /\ text = 1
  /\ running = [e \in Engines |-> disk] /\ asked = [e \in Engines |-> disk]
  /\ md = [e \in Engines |-> 1]
  /\ sessions = [t \in Threads |-> None] /\ busy = {}
  /\ pending = FALSE /\ dirty = FALSE
  /\ pc = [a \in Actors |-> IF a \in Requests THEN "idle" ELSE "none"]
  /\ kind = [r \in Requests |-> None] /\ conv = [a \in Actors |-> None]
  /\ eng = [a \in Actors |-> None] /\ loaded = [a \in Actors |-> None]
  /\ faults = 0

Goto(a, step) == pc' = [pc EXCEPT ![a] = step]
From(a, step, next) == pc[a] = step /\ Goto(a, next)

\* A request is answered, a worker's thread ends.
Resting(a) == IF a \in Requests THEN "idle" ELSE "none"

\* _engine_flags() == _running_flags()
InSync == asked[wb] = running[wb]
-----------------------------------------------------------------------------
(* A message.  send, as the route calls it: the conversation's TaskSession *)
(* from the cache, or resumed on the current engine and cached.            *)

SendCached(r, t) ==
  /\ sessions[t] # None
  /\ From(r, "idle", "admit")
  /\ conv' = [conv EXCEPT ![r] = t]
  /\ eng' = [eng EXCEPT ![r] = sessions[t]]
  /\ UNCHANGED <<engines, files, flags, sessions, busy, kind, loaded, faults>>

SendUncached(r, t) ==
  /\ sessions[t] = None
  /\ From(r, "idle", "resume")
  /\ conv' = [conv EXCEPT ![r] = t]
  /\ UNCHANGED <<engines, files, flags, sessions, busy, kind, eng, loaded, faults>>

\* thread/resume on the engine of the moment; a closed one answers nothing.
Resume(r) ==
  /\ pc[r] = "resume"
  /\ IF wb \in live
       THEN /\ eng' = [eng EXCEPT ![r] = wb]
            /\ Goto(r, "store") /\ UNCHANGED conv
       ELSE /\ conv' = [conv EXCEPT ![r] = None]
            /\ Goto(r, "idle") /\ UNCHANGED eng
  /\ UNCHANGED <<engines, files, flags, sessions, busy, kind, loaded, faults>>

Store(r) ==
  /\ From(r, "store", "admit")
  /\ sessions' = [sessions EXCEPT ![conv[r]] = eng[r]]
  /\ UNCHANGED <<engines, files, flags, busy, locals, faults>>

\* Bug variant: only the conversation's own turn is looked at.
AdmissibleConversation(t) == t \notin busy

\* One turn per conversation, and one per project unless the caller insists.
Admissible(t) == t \notin busy /\ (AllowConcurrent \/ busy = {})

Admit(r) ==
  /\ Admissible(conv[r])
  /\ From(r, "admit", "launch")
  /\ busy' = busy \cup {conv[r]}
  /\ UNCHANGED <<engines, files, flags, sessions, locals, faults>>

Refuse(r) ==
  /\ ~Admissible(conv[r])
  /\ From(r, "admit", "idle")
  /\ conv' = [conv EXCEPT ![r] = None] /\ eng' = [eng EXCEPT ![r] = None]
  /\ UNCHANGED <<engines, files, flags, sessions, busy, kind, loaded, faults>>

\* The message is logged and pushed, a worker is started.
Launch(r) ==
  \E w \in Workers :
    /\ pc[r] = "launch" /\ pc[w] = "none"
    /\ pc' = [pc EXCEPT ![r] = "idle", ![w] = "turn"]
    /\ eng' = [eng EXCEPT ![r] = None, ![w] = eng[r]]
    /\ conv' = [conv EXCEPT ![r] = None, ![w] = conv[r]]
    /\ UNCHANGED <<engines, files, flags, sessions, busy, kind, loaded, faults>>

\* Logging the message, or reading an attachment, raises: the request fails.
LaunchFails(r) ==
  /\ faults < MaxFaults
  /\ From(r, "launch", "idle")
  /\ conv' = [conv EXCEPT ![r] = None] /\ eng' = [eng EXCEPT ![r] = None]
  /\ faults' = faults + 1
  /\ UNCHANGED <<engines, files, flags, sessions, busy, kind, loaded>>
-----------------------------------------------------------------------------
(* The worker of a turn: the closure run of send, and TaskSession.send.    *)

\* Bug variant: a turn that cannot start ends outside the try block.
TurnStartsUnguarded(w) ==
  /\ pc[w] = "turn"
  /\ Goto(w, IF eng[w] \in live THEN "running" ELSE "none")
  /\ UNCHANGED <<engines, files, flags, sessions, busy, locals, faults>>

TurnStarts(w) ==
  /\ pc[w] = "turn"
  /\ Goto(w, IF eng[w] \in live THEN "running" ELSE "finish")
  /\ UNCHANGED <<engines, files, flags, sessions, busy, locals, faults>>

\* The turn completes, fails, is interrupted or loses its engine; TaskSession
\* saves the project record of the workbench it was created on.
TurnEnds(w) ==
  /\ From(w, "running", "finish")
  /\ disk' = asked[eng[w]]
  /\ UNCHANGED <<engines, text, flags, sessions, busy, locals, faults>>

\* Bug variant: quiet is computed before the conversation leaves _busy.
FinishThenLook(w) ==
  /\ pc[w] = "finish"
  /\ busy' = busy \ {conv[w]}
  /\ Goto(w, IF busy = {} THEN "quiet" ELSE "none")
  /\ eng' = [eng EXCEPT ![w] = None] /\ conv' = [conv EXCEPT ![w] = None]
  /\ UNCHANGED <<engines, files, flags, sessions, kind, loaded, faults>>

Finish(w) ==
  /\ pc[w] = "finish"
  /\ busy' = busy \ {conv[w]}
  /\ Goto(w, IF busy' = {} THEN "quiet" ELSE "none")
  /\ eng' = [eng EXCEPT ![w] = None] /\ conv' = [conv EXCEPT ![w] = None]
  /\ UNCHANGED <<engines, files, flags, sessions, kind, loaded, faults>>

\* The last turn to end looks for a restart that waited for it.
AfterTurn(w) ==
  /\ pc[w] = "quiet"
  /\ Goto(w, IF pending THEN "apply" ELSE "none")
  /\ UNCHANGED <<engines, files, flags, sessions, busy, locals, faults>>

ApplyPending(w) ==
  /\ pc[w] = "apply"
  /\ Goto(w, CASE ~pending -> "none"
               [] pending /\ InSync /\ ~dirty -> "calm"
               [] OTHER -> "check")
  /\ UNCHANGED <<engines, files, flags, sessions, busy, locals, faults>>

\* After the restart the worker owes nothing more, whatever was asked meanwhile.
Settled(w) ==
  /\ From(w, "settled", "none")
  /\ pending' = FALSE /\ dirty' = FALSE
  /\ UNCHANGED <<engines, files, sessions, busy, locals, faults>>
-----------------------------------------------------------------------------
(* Requests that need another engine.                                      *)

\* update_project_settings: the values are stored, then _sync_engine.
ChangeSettings(r, f) ==
  /\ From(r, "idle", "sync")
  /\ asked' = [asked EXCEPT ![wb] = f] /\ disk' = f
  /\ kind' = [kind EXCEPT ![r] = "settings"]
  /\ UNCHANGED <<wb, built, running, md, live, text, flags, sessions, busy,
                 conv, eng, loaded, faults>>

Sync(r) ==
  /\ pc[r] = "sync"
  /\ Goto(r, IF InSync THEN "calm" ELSE "defer")
  /\ UNCHANGED <<engines, files, flags, sessions, busy, locals, faults>>

\* apply_language: AGENTS.md is written anew, then _rebuild_or_defer.
ChangeLanguage(r) ==
  /\ text < MaxTexts
  /\ From(r, "idle", "defer")
  /\ text' = text + 1
  /\ kind' = [kind EXCEPT ![r] = "language"]
  /\ UNCHANGED <<engines, disk, flags, sessions, busy, conv, eng, loaded, faults>>

\* restart_engine; a new permission mode, knowledge mode or specialists
\* switch takes the same steps.
RestartEngine(r) ==
  /\ From(r, "idle", "check")
  /\ kind' = [kind EXCEPT ![r] = "restart"]
  /\ UNCHANGED <<engines, files, flags, sessions, busy, conv, eng, loaded, faults>>

\* _rebuild_or_defer reads _busy under the lock and acts on it without.
RebuildOrDefer(r) ==
  /\ pc[r] = "defer"
  /\ Goto(r, IF busy = {} THEN "check" ELSE "mark")
  /\ UNCHANGED <<engines, files, flags, sessions, busy, locals, faults>>

Answered(r) == kind' = [kind EXCEPT ![r] = None]

MarkPending(r) ==
  /\ pc[r] = "mark"
  /\ pending' = TRUE
  /\ IF kind[r] = "language" THEN Goto(r, "dirty") /\ UNCHANGED kind
                             ELSE Goto(r, "idle") /\ Answered(r)
  /\ UNCHANGED <<engines, files, dirty, sessions, busy, conv, eng, loaded, faults>>

MarkDirty(r) ==
  /\ From(r, "dirty", "idle")
  /\ dirty' = TRUE
  /\ Answered(r)
  /\ UNCHANGED <<engines, files, pending, sessions, busy, conv, eng, loaded, faults>>

\* Nothing is left to restart for, in the eyes of a request or of a worker.
Calm(a) ==
  /\ pc[a] = "calm"
  /\ Goto(a, Resting(a))
  /\ pending' = FALSE
  /\ IF a \in Requests THEN Answered(a) ELSE UNCHANGED kind
  /\ UNCHANGED <<engines, files, dirty, sessions, busy, conv, eng, loaded, faults>>
-----------------------------------------------------------------------------
(* _rebuild_workbench, by a request or by the last worker.                 *)

RebuildAllowed(a) ==
  /\ busy = {}
  /\ From(a, "check", "close")
  /\ UNCHANGED <<engines, files, flags, sessions, busy, locals, faults>>

\* Bug variant: the engine is closed before _busy is looked at.
RefusedTooLate(a) ==
  /\ busy # {}
  /\ pc[a] = "check"
  /\ live' = live \ {wb}
  /\ IF a \in Workers THEN Goto(a, "none") /\ UNCHANGED kind
     ELSE IF kind[a] = "restart" THEN Goto(a, "idle") /\ Answered(a)
     ELSE Goto(a, "mark") /\ UNCHANGED kind
  /\ UNCHANGED <<wb, built, running, asked, md, files, flags, sessions, busy,
                 conv, eng, loaded, faults>>

\* RuntimeError: the request defers or answers 409, the worker leaves it.
RebuildRefused(a) ==
  /\ busy # {}
  /\ pc[a] = "check"
  /\ IF a \in Workers THEN Goto(a, "none") /\ UNCHANGED kind
     ELSE IF kind[a] = "restart" THEN Goto(a, "idle") /\ Answered(a)
     ELSE Goto(a, "mark") /\ UNCHANGED kind
  /\ UNCHANGED <<engines, files, flags, sessions, busy, conv, eng, loaded, faults>>

CloseEngine(a) ==
  /\ From(a, "close", "clear")
  /\ live' = live \ {wb}
  /\ UNCHANGED <<wb, built, running, asked, md, files, flags, sessions, busy, locals, faults>>

ClearSessions(a) ==
  /\ From(a, "clear", "load")
  /\ sessions' = [t \in Threads |-> None]
  /\ UNCHANGED <<engines, files, flags, busy, locals, faults>>

\* Bug variant: an unreadable state file leaves the project without settings.
LoadNothing(a) ==
  /\ From(a, "load", "assign")
  /\ UNCHANGED <<engines, files, flags, sessions, busy, locals, faults>>

\* _build_workbench reads the state file ...
LoadProject(a) ==
  /\ From(a, "load", "assign")
  /\ loaded' = [loaded EXCEPT ![a] = disk]
  /\ UNCHANGED <<engines, files, flags, sessions, busy, kind, conv, eng, faults>>

\* ... and its workbench becomes the session's.
AssignEngine(a) ==
  /\ built < MaxEngines
  /\ From(a, "assign", "start")
  /\ built' = built + 1 /\ wb' = built + 1
  /\ running' = [running EXCEPT ![built + 1] = loaded[a]]
  /\ asked' = [asked EXCEPT ![built + 1] = loaded[a]]
  /\ md' = [md EXCEPT ![built + 1] = text]
  /\ loaded' = [loaded EXCEPT ![a] = None]
  /\ UNCHANGED <<live, files, flags, sessions, busy, kind, conv, eng, faults>>

StartEngine(a) ==
  /\ pc[a] = "start"
  /\ live' = live \cup {wb}
  /\ IF a \in Workers THEN Goto(a, "settled") /\ UNCHANGED kind
     ELSE IF kind[a] = "restart" THEN Goto(a, "idle") /\ Answered(a)
     ELSE Goto(a, "calm") /\ UNCHANGED kind
  /\ UNCHANGED <<wb, built, running, asked, md, files, flags, sessions, busy,
                 conv, eng, loaded, faults>>

Rebuild(a) == \/ RebuildAllowed(a) \/ RebuildRefused(a) \/ CloseEngine(a)
              \/ ClearSessions(a) \/ LoadProject(a) \/ AssignEngine(a) \/ StartEngine(a)
-----------------------------------------------------------------------------
\* What users and the interface ask for.
Arrival(r) == \/ \E t \in Threads : SendCached(r, t) \/ SendUncached(r, t)
              \/ \E f \in Flags : ChangeSettings(r, f)
              \/ ChangeLanguage(r) \/ RestartEngine(r)

Serve(r) == \/ Resume(r) \/ Store(r) \/ Admit(r) \/ Refuse(r) \/ Launch(r)
            \/ Sync(r) \/ RebuildOrDefer(r) \/ MarkPending(r) \/ MarkDirty(r)
            \/ Calm(r) \/ Rebuild(r)

Work(w) == \/ TurnStarts(w) \/ TurnEnds(w) \/ Finish(w) \/ AfterTurn(w)
           \/ ApplyPending(w) \/ Settled(w) \/ Calm(w) \/ Rebuild(w)

Next == \/ \E r \in Requests : Arrival(r) \/ Serve(r) \/ LaunchFails(r)
        \/ \E w \in Workers : Work(w)

Spec == Init /\ [][Next]_vars

\* Handlers and workers are threads that run; a turn ends, by itself or
\* interrupted.  Nobody has to ask for anything.
FairSpec == Spec /\ \A r \in Requests : WF_vars(Serve(r))
                 /\ \A w \in Workers : WF_vars(Work(w))
-----------------------------------------------------------------------------
AtRest == \A a \in Actors : pc[a] = Resting(a)

\* Who has a conversation's turn: a worker, or the request about to start it.
Turns   == {w \in Workers : pc[w] \in {"turn", "running", "finish"}}
Holders == Turns \cup {r \in Requests : pc[r] = "launch"}
InTurn(t) == \E w \in Turns : conv[w] = t

\* No two conversations of a project are mid-turn together, unless a caller
\* asked for it, and no conversation is started twice (the incident that
\* send's comment records: two agents on one project).
TurnsExclude ==
  \A a, b \in Holders : a # b => AllowConcurrent /\ conv[a] # conv[b]

\* When every request is answered and every worker is done, the session has
\* an engine that runs, however many restarts raced: the next message is served.
RestEngineIsLive == AtRest => wb \in live

\* The engine is never closed under a running turn: _rebuild_workbench is
\* "refused while a turn runs".  A message admitted between its look at _busy and
\* the close breaks this.
EngineOutlivesTurn ==
  [][\A w \in Workers : pc[w] = "running" /\ eng[w] \in live => eng[w] \in live']_vars

\* Every turn that was started ends and gives its conversation back.
TurnsGiveBack == \A t \in Threads : InTurn(t) ~> t \notin busy

\* A restart that waits for the running turns happens after them, unless
\* another request comes in between (or the model has no engine left).
DeferredRestartIsServed ==
  LET Disturbed == built = MaxEngines \/ \E r \in Requests : pc[r] # "idle" IN
  (/\ pending /\ Turns # {} /\ ~Disturbed
   /\ \A w \in Workers \ Turns : pc[w] = "none")
     ~> (InSync /\ md[wb] = text) \/ Disturbed

(* More of what the code says of itself, each broken by an interleaving. *)

\* The settings the interface shows are those in the project's state file.
SettingsAreKept == AtRest => disk = asked[wb]

\* A settings change that needs another engine gets it: at once when idle,
\* after the running turn otherwise.
DeferredRestartHappens == AtRest => InSync

\* While a turn runs, a restart that waits for its end is remembered until then.
LanguageRestartStaysPending ==
  (dirty /\ Turns # {} /\ \A r \in Requests : pc[r] = "idle") => pending \/ md[wb] = text

\* One app-server serves a project.
OneEngine == \A d, e \in live : d = e

\* A conversation counts as mid-turn only while it has a turn.
BusyMeansTurn ==
  \A t \in busy : InTurn(t) \/ \E r \in Requests : pc[r] = "launch" /\ conv[r] = t
=============================================================================
