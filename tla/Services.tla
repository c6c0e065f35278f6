------------------------------ MODULE Services ------------------------------
(* Six components that share no state, side by side: a behaviour is one of *)
(* a single component, chosen in the initial state, while the others keep  *)
(* still.  The state space is the sum of theirs.                           *)
EXTENDS Integers, Sequences

CONSTANTS
  Openers, Senders, MaxSessions, MaxFailedOpens,             \* SessionPool
  Requests, Browsers, Keys,                                  \* Approvals
  Calls, Budgets, QueueMax, QueueGrace, OrphanPoll, OrphanGrace, \* ToolServer
  Writers, BufLen, Window, MaxEvents, MaxGens, MaxFailedWrites, MaxDrops, \* EventStream
  Handlers, Threads, Workers, Flags, MaxEngines, MaxTexts, MaxFaults,
  AllowConcurrent,                                           \* ProjectSession
  MaxRenames, MaxRebuilds,                                   \* Titles, with Browsers
  None

ASSUME BoundsAssumption ==
  /\ MaxSessions \in Nat /\ MaxRenames \in Nat /\ MaxRebuilds \in Nat
  /\ QueueMax \in Nat /\ QueueGrace \in Nat /\ OrphanPoll \in Nat /\ OrphanGrace \in Nat
  /\ Budgets \subseteq Nat
  /\ Window \in Nat \ {0} /\ BufLen \in Nat \ {0}
  /\ MaxEngines \in Nat \ {0} /\ MaxTexts \in Nat \ {0} /\ MaxFaults \in Nat
  /\ AllowConcurrent \in BOOLEAN
ASSUME ActorsAssumption == Handlers \cap Workers = {} /\ Flags # {}
ASSUME NoneAssumption ==
  /\ None \notin Nat \cup Calls \cup Threads \cup Flags
  /\ None \notin {"accept", "reject"}

VARIABLES
  part,  \* the component this behaviour is about
  current, opening, held, indexed, live, busy, idle, tries, failures,
  opener, sender, reaper, down,
  mode, autoShell, req, slots, open, allowed, hand, verdict, told,
  call, budget, owner, running, age, cancelEv, client, closed, exited,
  file, count, eidOf, prior, pending, chans, conn, wire, page, failed, drops,
  wb, built, flagsOf, asked, md, alive, disk, text, cached, inTurn, deferred,
  dirty, pc, kind, conv, eng, loaded, faults,
  rec, saved, loading, found, titler, namer, announcing, shown, given, gone, renames, rebuilds

Pool == INSTANCE SessionPool WITH MaxFailed <- MaxFailedOpens
pool == <<current, opening, held, indexed, live, busy, idle, tries, failures,
          opener, sender, reaper, down>>

Approve == INSTANCE Approvals
approvals == <<mode, autoShell, req, slots, open, allowed, hand, verdict, told>>

Tools == INSTANCE ToolServer
tools == <<call, budget, owner, running, age, cancelEv, client, closed, exited>>

Stream == INSTANCE EventStream WITH MaxFailed <- MaxFailedWrites, client <- page
stream == <<file, count, eidOf, prior, pending, chans, conn, wire, page, failed, drops>>

Project == INSTANCE ProjectSession WITH
  Requests <- Handlers,
  running <- flagsOf, live <- alive, sessions <- cached, busy <- inTurn, pending <- deferred
session == <<wb, built, flagsOf, asked, md, alive, disk, text, cached, inTurn, deferred,
             dirty, pc, kind, conv, eng, loaded, faults>>

Naming == INSTANCE Titles WITH
  disk <- saved, loaded <- found, sender <- titler, hand <- announcing, closed <- gone
naming == <<rec, saved, loading, found, titler, namer, announcing, shown, given, gone,
            renames, rebuilds>>

vars == <<part, pool, approvals, tools, stream, session, naming>>

Init ==
  /\ part \in {"pool", "approvals", "tools", "stream", "session", "naming"}
  /\ Pool!Init /\ Approve!Init /\ Tools!Init /\ Stream!Init
  /\ Project!Init /\ Naming!Init
  /\ part # "approvals" => mode = "copilot" /\ autoShell
  /\ part # "session" => disk = CHOOSE f \in Flags : TRUE
  /\ part # "naming" => rec = Naming!Nothing

Pooled(A) == part = "pool" /\ A
  /\ UNCHANGED <<part, approvals, tools, stream, session, naming>>
Approved(A) == part = "approvals" /\ A
  /\ UNCHANGED <<part, pool, tools, stream, session, naming>>
Served(A) == part = "tools" /\ A
  /\ UNCHANGED <<part, pool, approvals, stream, session, naming>>
Followed(A) == part = "stream" /\ A
  /\ UNCHANGED <<part, pool, approvals, tools, session, naming>>
Turned(A) == part = "session" /\ A
  /\ UNCHANGED <<part, pool, approvals, tools, stream, naming>>
Named(A) == part = "naming" /\ A
  /\ UNCHANGED <<part, pool, approvals, tools, stream, session>>

Next == Pooled(Pool!Next) \/ Approved(Approve!Next)
        \/ Served(Tools!Next) \/ Followed(Stream!Next)
        \/ Turned(Project!Next) \/ Named(Naming!Next)

Spec == Init /\ [][Next]_vars

-----------------------------------------------------------------------------
TypeOK == Pool!TypeOK /\ Approve!TypeOK /\ Tools!TypeOK
          /\ Stream!TypeOK /\ Project!TypeOK /\ Naming!TypeOK

\* A project has one engine, and no engine runs that nobody can reach.
OneEngine == Pool!OneEngine

\* The engine is told what one of the humans said in time, or a refusal; and
\* a title a person gave is never taken back by the agent that names.
HumansDecide == Approve!HumansDecide /\ Naming!ManualWins

\* The page shows every logged event it has not still to come, once, and no
\* event after one it was the cause of.
TranscriptIsShown == Stream!NothingLost /\ Stream!ShownOnce /\ Stream!CausesComeFirst
=============================================================================
