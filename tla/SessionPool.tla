---------------------------- MODULE SessionPool ----------------------------
(* The open sessions of one project (workbench/service.py, WorkbenchPool): *)
(* browsers that open it at the same time, of which one constructs the     *)
(* session and the others wait for its lock; turns that reach the session  *)
(* through the thread index; and the reaper, which closes a session it     *)
(* found idle and takes it out of the pool afterwards.  Projects do not    *)
(* share anything here but the pool's lock, so one is enough.              *)
EXTENDS Integers, FiniteSets

CONSTANTS Openers, Senders,
          MaxSessions,  \* bound: constructions tried
          MaxFailed,    \* bound: constructions that fail
          None

VARIABLES
  current,   \* _sessions[key]
  opening,   \* _opening[key]: the lock of the construction in flight
  held,      \* the locks of constructions that are held
  indexed,   \* the threads of the project are in _thread_index
  live,      \* history: sessions whose engine has been started and not closed
  busy,      \* the sessions with a turn or a pending approval
  idle,      \* the sessions nobody has touched for IDLE_SHUTDOWN_S
  tries, failures,
  opener, sender, reaper,  \* where each thread is and what it holds
  down       \* the process has left through close_all

vars == <<current, opening, held, indexed, live, busy, idle, tries, failures,
          opener, sender, reaper, down>>

Sessions == 1..MaxSessions
Rest == [at |-> "rest", has |-> None]

Init ==
  /\ current = None /\ opening = None /\ held = {} /\ indexed = FALSE
  /\ live = {} /\ busy = {} /\ idle = {} /\ tries = 0 /\ failures = 0
  /\ opener = [o \in Openers |-> Rest] /\ sender = [s \in Senders |-> Rest]
  /\ reaper = Rest /\ down = FALSE

At(o, place) == opener[o].at = place
OpenerGoes(o, place, what) == opener' = [opener EXCEPT ![o] = [at |-> place, has |-> what]]
Touch(ps) == idle' = idle \ {ps}

-----------------------------------------------------------------------------
(* open.                                                                    *)

OpenBegins(o) ==
  /\ opener[o].at \in {"rest", "open", "failed"} /\ ~down
  /\ OpenerGoes(o, "look", None)
  /\ UNCHANGED <<current, opening, held, indexed, live, busy, idle, tries, failures, sender, reaper, down>>

\* Bug variant: who finds no session builds one, although another does.
LookAlone(o) ==
  /\ At(o, "look") /\ tries < MaxSessions
  /\ IF current # None
     THEN Touch(current) /\ OpenerGoes(o, "open", current) /\ UNCHANGED <<opening, tries>>
     ELSE tries' = tries + 1 /\ opening' = tries' /\ OpenerGoes(o, "own", tries') /\ UNCHANGED idle
  /\ UNCHANGED <<current, held, indexed, live, busy, failures, sender, reaper, down>>
Look(o) ==
  /\ At(o, "look")
  /\ \/ /\ current # None /\ Touch(current)
        /\ OpenerGoes(o, "open", current) /\ UNCHANGED <<opening, tries>>
     \/ /\ current = None /\ opening = None /\ tries < MaxSessions
        /\ tries' = tries + 1 /\ opening' = tries'
        /\ OpenerGoes(o, "own", tries') /\ UNCHANGED idle
     \/ /\ current = None /\ opening # None
        /\ OpenerGoes(o, "wait", opening) /\ UNCHANGED <<opening, tries, idle>>
  /\ UNCHANGED <<current, held, indexed, live, busy, failures, sender, reaper, down>>

\* The lock was published before its owner takes it: a waiter may be first.
Own(o) ==
  /\ At(o, "own") /\ opener[o].has \notin held
  /\ held' = held \cup {opener[o].has} /\ OpenerGoes(o, "build", opener[o].has)
  /\ UNCHANGED <<current, opening, indexed, live, busy, idle, tries, failures, sender, reaper, down>>

Build(o) ==
  /\ At(o, "build")
  /\ \/ /\ live' = live \cup {opener[o].has} /\ OpenerGoes(o, "publish", opener[o].has)
        /\ UNCHANGED failures
     \/ /\ failures < MaxFailed /\ failures' = failures + 1
        /\ OpenerGoes(o, "raise", opener[o].has) /\ UNCHANGED live
  /\ UNCHANGED <<current, opening, held, indexed, busy, idle, tries, sender, reaper, down>>

Publish(o) ==
  /\ At(o, "publish")
  /\ current' = opener[o].has /\ indexed' = TRUE
  /\ OpenerGoes(o, "finally", opener[o].has)
  /\ UNCHANGED <<opening, held, live, busy, idle, tries, failures, sender, reaper, down>>

Release(o) ==
  /\ opener[o].at \in {"finally", "raise"}
  /\ opening' = None /\ held' = held \ {opener[o].has}
  /\ IF At(o, "raise") THEN OpenerGoes(o, "failed", None) ELSE OpenerGoes(o, "open", opener[o].has)
  /\ UNCHANGED <<current, indexed, live, busy, idle, tries, failures, sender, reaper, down>>

Wait(o) ==
  /\ At(o, "wait") /\ opener[o].has \notin held
  /\ OpenerGoes(o, "again", None)
  /\ UNCHANGED <<current, opening, held, indexed, live, busy, idle, tries, failures, sender, reaper, down>>

LookAgain(o) ==
  /\ At(o, "again")
  /\ IF current # None THEN Touch(current) /\ OpenerGoes(o, "open", current)
     ELSE OpenerGoes(o, "look", None) /\ UNCHANGED idle
  /\ UNCHANGED <<current, opening, held, indexed, live, busy, tries, failures, sender, reaper, down>>

-----------------------------------------------------------------------------
(* A turn: by_thread in the route, then send in the session it was given.   *)

ByThread(s) ==
  /\ sender[s].at = "rest" /\ ~down /\ indexed /\ current # None
  /\ sender' = [sender EXCEPT ![s] = [at |-> "send", has |-> current]]
  /\ UNCHANGED <<current, opening, held, indexed, live, busy, idle, tries, failures, opener, reaper, down>>

\* Another turn in progress refuses it; so does an engine that is closed.
Send(s) ==
  /\ sender[s].at = "send"
  /\ LET ps == sender[s].has IN
       IF ps \in busy \/ ps \notin live
       THEN sender' = [sender EXCEPT ![s] = Rest] /\ UNCHANGED <<busy, idle>>
       ELSE /\ sender' = [sender EXCEPT ![s].at = "turn"]
            /\ busy' = busy \cup {ps} /\ Touch(ps)
  /\ UNCHANGED <<current, opening, held, indexed, live, tries, failures, opener, reaper, down>>

\* With the engine closed under it the turn fails, and gives back as well.
TurnEnds(s) ==
  /\ sender[s].at = "turn"
  /\ busy' = busy \ {sender[s].has} /\ Touch(sender[s].has)
  /\ sender' = [sender EXCEPT ![s] = Rest]
  /\ UNCHANGED <<current, opening, held, indexed, live, tries, failures, opener, reaper, down>>

-----------------------------------------------------------------------------
(* The reaper, and the end of the process.                                  *)

HalfAnHour ==
  /\ current # None /\ current \notin idle /\ idle' = idle \cup {current}
  /\ UNCHANGED <<current, opening, held, indexed, live, busy, tries, failures, opener, sender, reaper, down>>

ReaperLooks ==
  /\ reaper = Rest /\ current # None /\ ~down
  /\ reaper' = [at |-> "age", has |-> current] /\ current \notin busy
  /\ UNCHANGED <<current, opening, held, indexed, live, busy, idle, tries, failures, opener, sender, down>>

ReaperAge ==
  /\ reaper.at = "age"
  /\ reaper' = IF reaper.has \in idle THEN [reaper EXCEPT !.at = "close"] ELSE Rest
  /\ UNCHANGED <<current, opening, held, indexed, live, busy, idle, tries, failures, opener, sender, down>>

ReaperCloses ==
  /\ reaper.at = "close"
  /\ live' = live \ {reaper.has} /\ reaper' = [reaper EXCEPT !.at = "pop"]
  /\ UNCHANGED <<current, opening, held, indexed, busy, idle, tries, failures, opener, sender, down>>

ReaperPops ==
  /\ reaper.at = "pop" /\ current' = None /\ reaper' = Rest
  /\ UNCHANGED <<opening, held, indexed, live, busy, idle, tries, failures, opener, sender, down>>

\* atexit: no request is served any more.
CloseAll ==
  /\ ~down /\ down' = TRUE
  /\ \A o \in Openers : opener[o].at \in {"rest", "open", "failed"}
  /\ \A s \in Senders : sender[s].at # "send"
  /\ reaper = Rest
  /\ live' = live \ {current} /\ current' = None /\ indexed' = FALSE
  /\ UNCHANGED <<opening, held, busy, idle, tries, failures, opener, sender, reaper>>

OpenStep(o) == Look(o) \/ Own(o) \/ Build(o) \/ Publish(o) \/ Release(o) \/ Wait(o) \/ LookAgain(o)
ReaperStep == ReaperAge \/ ReaperCloses \/ ReaperPops

Next ==
  \/ \E o \in Openers : OpenBegins(o) \/ OpenStep(o)
  \/ \E s \in Senders : ByThread(s) \/ Send(s) \/ TurnEnds(s)
  \/ HalfAnHour \/ ReaperLooks \/ ReaperStep \/ CloseAll

Spec == Init /\ [][Next]_vars
FairSpec == Spec /\ (\A o \in Openers : WF_vars(OpenStep(o))) /\ WF_vars(ReaperStep)
                 /\ \A s \in Senders : WF_vars(Send(s)) /\ WF_vars(TurnEnds(s))

-----------------------------------------------------------------------------
TypeOK ==
  /\ current \in Sessions \cup {None} /\ opening \in Sessions \cup {None}
  /\ held \subseteq Sessions /\ live \subseteq Sessions
  /\ busy \subseteq Sessions /\ idle \subseteq Sessions
  /\ \A o \in Openers : opener[o].has \in Sessions \cup {None}
  /\ \A s \in Senders : sender[s].has \in Sessions \cup {None}

Building(o) == opener[o].at \in {"build", "publish"}

\* One engine per project, however many browsers open it while another is
\* under construction or being reaped (the incident of 2026-09-16 in open's
\* comment); and an engine nobody can reach any more is not left running.
OneEngine ==
  /\ Cardinality(live \cup {opener[o].has : o \in {p \in Openers : Building(p)}}) <= 1
  /\ \A e \in live : e = current \/ \E o \in Openers : Building(o) /\ opener[o].has = e

Waits(o) == At(o, "look")
Answered(o) == opener[o].at \in {"open", "failed"} \/ tries = MaxSessions

\* Who opens a project gets an answer: the waiters of a construction that
\* failed do not wait for ever on its lock, and one of them tries again.
OpenEnds ==
  \A o \in Openers : Waits(o) ~> Answered(o)

\* A turn cut by the reaper ends as well: the next opener gets a live engine.
TurnsGiveBack == \A e \in Sessions : e \in busy ~> e \notin busy

\* "An idle reaper": no turn loses its engine to it.
ReapsOnlyIdle == [][\A e \in live \ live' : e \in busy => down']_vars
=============================================================================
