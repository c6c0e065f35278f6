------------------------------- MODULE Titles -------------------------------
(* The name of one conversation: ProjectSession.rename, _start_auto_title  *)
(* and its naming thread (workbench/service.py), Workbench.rename_thread,  *)
(* claim_auto_title and finish_auto_title (workbench/core.py), and the one *)
(* question generate_title asks (workbench/thread_titles.py).              *)
(* Browsers rename while the first message names the conversation and the  *)
(* session's engine, with the record the name is in, is rebuilt from disk. *)
(* A step is what runs under the title lock, or between two uses of it.    *)
(* Left out: how a title reads, and the engine's own name of the thread.   *)
EXTENDS Naturals

CONSTANTS
  Browsers,    \* requests to rename
  MaxRenames, MaxRebuilds

VARIABLES
  rec,      \* the record in the session's Workbench: a title and where it is from
  disk,     \* the record in the project's state file
  loading, loaded,   \* a rebuild is under way; what it has read
  sender,   \* the request that sends a message: where it is
  namer,    \* naming thread -> where it is
  hand,     \* browser -> the title it has still to announce
  shown,    \* the title last announced
  given,    \* history: the name a person gave last that no rebuild has lost
  closed, renames, rebuilds

vars == <<rec, disk, loading, loaded, sender, namer, hand, shown, given, closed, renames, rebuilds>>

Names == 1..MaxRenames
Fallback == MaxRenames + 1
Generated == MaxRenames + 2
NoTitle == 0
Titles == NoTitle..Generated
Sources == {"historical", "unnamed", "manual", "auto_pending", "auto", "fallback"}
Records == [title : Titles, source : Sources]
Nothing == [title |-> NoTitle, source |-> "historical"]
\* A conversation is claimed once for every record it has.
Namers == 0..MaxRebuilds
Record(t, s) == [title |-> t, source |-> s]

TypeOK ==
  /\ rec \in Records /\ disk \in Records
  /\ loading \in BOOLEAN /\ loaded \in Records
  /\ sender \in {"idle", "looked", "claimed"}
  /\ namer \in [Namers -> {"none", "begun", "asks", "answered", "failed", "over"}]
  /\ hand \in [Browsers -> Titles] /\ shown \in Titles /\ given \in 0..MaxRenames
  /\ closed \in BOOLEAN /\ renames \in 0..MaxRenames /\ rebuilds \in 0..MaxRebuilds

\* A new conversation is unnamed; a record without a source is older than naming.
Init ==
  /\ rec \in {Record(NoTitle, "unnamed"), Nothing} /\ disk = rec
  /\ loading = FALSE /\ loaded = Nothing
  /\ sender = "idle" /\ namer = [n \in Namers |-> "none"]
  /\ hand = [b \in Browsers |-> NoTitle] /\ shown = NoTitle /\ given = 0
  /\ closed = FALSE /\ renames = 0 /\ rebuilds = 0

\* Every change of a record is saved with it.
Keeps(r) == rec' = r /\ disk' = r

-----------------------------------------------------------------------------
(* A person.                                                               *)

Rename(b) ==
  /\ renames < MaxRenames /\ hand[b] = NoTitle
  /\ renames' = renames + 1 /\ given' = renames + 1
  /\ Keeps(Record(renames + 1, "manual"))
  /\ hand' = [hand EXCEPT ![b] = renames + 1]
  /\ UNCHANGED <<loading, loaded, sender, namer, shown, closed, rebuilds>>

\* Outside the lock.
Announce(b) ==
  /\ hand[b] # NoTitle /\ shown' = hand[b] /\ hand' = [hand EXCEPT ![b] = NoTitle]
  /\ UNCHANGED <<rec, disk, loading, loaded, sender, namer, closed, renames, rebuilds, given>>

-----------------------------------------------------------------------------
(* The request that sends a message.                                       *)

Send ==
  /\ sender = "idle" /\ ~closed /\ rec.source = "unnamed" /\ sender' = "looked"
  /\ UNCHANGED <<rec, disk, loading, loaded, namer, hand, shown, closed, renames, rebuilds, given>>

\* Bug variant: what was unnamed at the first look is taken to be so still.
ClaimUnseen ==
  /\ sender = "looked"
  /\ Keeps(Record(Fallback, "auto_pending")) /\ sender' = "claimed"
  /\ UNCHANGED <<loading, loaded, namer, hand, shown, closed, renames, rebuilds, given>>

\* The claim looks again: a person may have been faster.
Claim ==
  /\ sender = "looked"
  /\ IF rec.source = "unnamed"
     THEN Keeps(Record(Fallback, "auto_pending")) /\ sender' = "claimed"
     ELSE sender' = "idle" /\ UNCHANGED <<rec, disk>>
  /\ UNCHANGED <<loading, loaded, namer, hand, shown, closed, renames, rebuilds, given>>

Begin(n) ==
  /\ sender = "claimed" /\ sender' = "idle" /\ shown' = Fallback
  /\ namer[n] = "none" /\ namer' = [namer EXCEPT ![n] = "begun"]
  /\ UNCHANGED <<rec, disk, loading, loaded, hand, closed, renames, rebuilds, given>>

-----------------------------------------------------------------------------
(* The naming thread.                                                      *)

LookAgain(n) ==
  /\ namer[n] = "begun"
  /\ namer' = [namer EXCEPT ![n] = IF closed \/ rec.source # "auto_pending" THEN "over" ELSE "asks"]
  /\ UNCHANGED <<rec, disk, loading, loaded, sender, hand, shown, closed, renames, rebuilds, given>>

\* One attempt: a provider that fails or answers nonsense gives no title.
Answer(n) ==
  /\ namer[n] = "asks"
  /\ \E a \in {"answered", "failed"} : namer' = [namer EXCEPT ![n] = a]
  /\ UNCHANGED <<rec, disk, loading, loaded, sender, hand, shown, closed, renames, rebuilds, given>>

Settled(n) ==
  IF namer[n] = "answered" THEN Record(Generated, "auto") ELSE Record(rec.title, "fallback")

\* Bug variant: the answer is written whatever the record has become.
FinishUnseen(n) ==
  /\ namer[n] \in {"answered", "failed"} /\ namer' = [namer EXCEPT ![n] = "over"]
  /\ IF closed THEN UNCHANGED <<rec, disk, shown>>
     ELSE Keeps(Settled(n)) /\ shown' = Settled(n).title
  /\ UNCHANGED <<loading, loaded, sender, hand, closed, renames, rebuilds, given>>

\* Under the lock, announcement and all.
Finish(n) ==
  /\ namer[n] \in {"answered", "failed"} /\ namer' = [namer EXCEPT ![n] = "over"]
  /\ IF closed \/ rec.source # "auto_pending" THEN UNCHANGED <<rec, disk, shown>>
     ELSE Keeps(Settled(n)) /\ shown' = Settled(n).title
  /\ UNCHANGED <<loading, loaded, sender, hand, closed, renames, rebuilds, given>>

-----------------------------------------------------------------------------
(* The session.  A rebuild does not take the title lock.                   *)

Load ==
  /\ ~loading /\ rebuilds < MaxRebuilds
  /\ loading' = TRUE /\ loaded' = disk /\ rebuilds' = rebuilds + 1
  /\ UNCHANGED <<rec, disk, sender, namer, hand, shown, closed, renames, given>>

Swap ==
  /\ loading /\ loading' = FALSE /\ rec' = loaded /\ loaded' = Nothing
  /\ given' = IF loaded.source = "manual" THEN loaded.title ELSE 0
  /\ UNCHANGED <<disk, sender, namer, hand, shown, closed, renames, rebuilds>>

Close ==
  /\ ~closed /\ closed' = TRUE
  /\ UNCHANGED <<rec, disk, loading, loaded, sender, namer, hand, shown, renames, rebuilds, given>>

Next ==
  \/ \E b \in Browsers : Rename(b) \/ Announce(b)
  \/ \E n \in Namers : Begin(n) \/ LookAgain(n) \/ Answer(n) \/ Finish(n)
  \/ Send \/ Claim \/ Load \/ Swap \/ Close

Spec == Init /\ [][Next]_vars

-----------------------------------------------------------------------------
\* The name a person gave is replaced by a person, or lost with the record a
\* rebuild read before it was given; the agent never takes it back, however
\* late its answer is and whatever it saw before.
ManualWins == given # 0 => rec = Record(given, "manual")

\* No run's property, and not so: rename announces outside the lock, and so
\* does the claim: a browser is left with the fallback for a conversation a
\* person has named.
ShownIsTheTitle ==
  rec.source = "manual" /\ sender = "idle" /\ (\A b \in Browsers : hand[b] = NoTitle)
    => shown = rec.title

\* No run's property, and not so: a name given between a rebuild's look at the
\* state file and its end is gone.
NamesAreKept == [][rec.source = "manual" => rec'.source = "manual"]_vars
=============================================================================
