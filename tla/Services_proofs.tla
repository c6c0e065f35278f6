--------------------------- MODULE Services_proofs ---------------------------
(***************************************************************************)
(* Proofs about the components of Services, for any number of actors: what *)
(* they keep is typed, a project has one engine, an approval or a title is *)
(* a human's where a human spoke, and a page shows the transcript.         *)
(*                                                                         *)
(* The argument: each component has an inductive invariant of its own, and *)
(* a step of the whole is a step of one component that leaves the others   *)
(* as they are (PartsMove).  A session of the pool is reached by its owner *)
(* while it is constructed and by the pool afterwards, and there is one    *)
(* owner (OneOwner, Reachable).  While an approval waits, its slot holds   *)
(* what somebody said (Judged).  A record a person named stays that        *)
(* person's wherever it was copied to (Given).  A page reads a connection  *)
(* to one channel, whose first message names it (WireOf); what it does not *)
(* show is held by a writer or beyond its cursor, under a number the page  *)
(* will not take for one it knows (Misses), because no writer is a window  *)
(* of events behind another (Numbers).                                     *)
(***************************************************************************)
EXTENDS Services, FiniteSetTheorems, SequenceTheorems, TLAPS

-----------------------------------------------------------------------------
(* Approvals.                                                              *)

Said == {"accept", "reject"}
Hands == [slot : Requests, key : Keys, says : Approve!Answers]
Stages == {"new", "asked", "queue", "wait", "leave", "reply", "done"}

ApprovalsTyped ==
  /\ mode \in Approve!Modes /\ autoShell \in BOOLEAN
  /\ req \in [Requests -> [at : Stages, kind : Approve!Kinds, key : Keys \cup {None}]]
  /\ \A r \in Requests : req[r].at \notin {"new", "done"} => req[r].key \in Keys
  /\ slots \in [Requests -> Said \cup {None}]
  /\ verdict \in [Requests -> Said \cup {None}]
  /\ told \in [Requests -> SUBSET Said]
  /\ open = {r \in Requests : req[r].at \in {"wait", "leave"}} /\ allowed \subseteq Keys
  /\ \A b \in Browsers : hand[b] # None => hand[b] \in Hands
  /\ hand = [b \in Browsers |-> hand[b]]

\* Of one request: nothing is said of it before it waits; while it waits its
\* slot holds what somebody said; and the verdict it leaves with is that, or
\* a refusal when nobody had said anything.
Judged(r) ==
  /\ req[r].at \in {"new", "asked", "queue", "done"} => verdict[r] = None /\ told[r] = {}
  /\ req[r].at = "reply" \/ req[r].at = "leave" \/ verdict[r] = None
  /\ req[r].at \in {"new", "asked", "queue", "done"} => slots[r] = None
  /\ req[r].at = "wait" => IF slots[r] = None THEN told[r] = {} ELSE slots[r] \in told[r]
  /\ req[r].at = "leave" =>
       IF told[r] = {} THEN verdict[r] = "reject" ELSE verdict[r] \in told[r]

ApprovalsInv == ApprovalsTyped /\ \A r \in Requests : Judged(r)

LEMMA ApprovalsInit == Approve!Init => ApprovalsInv
  <1> SUFFICES ASSUME Approve!Init PROVE ApprovalsInv
    OBVIOUS
  <1>1. ApprovalsTyped
    BY DEF ApprovalsTyped, Approve!Init, Approve!Kinds, Stages
  <1>2. \A r \in Requests : Judged(r)
    BY DEF Approve!Init, Judged
  <1> QED BY <1>1, <1>2 DEF ApprovalsInv

\* What Goto leaves of a request.
LEMMA RequestGoes ==
  ASSUME ApprovalsTyped, NEW r \in Requests, NEW place \in Stages, Approve!Goto(r, place)
  PROVE  /\ req' \in [Requests -> [at : Stages, kind : Approve!Kinds, key : Keys \cup {None}]]
         /\ req'[r].at = place /\ req'[r].key = req[r].key
         /\ \A q \in Requests \ {r} : req'[q] = req[q]
  BY DEF ApprovalsTyped, Approve!Goto

\* A callback's step: what it does to its own request, and that it leaves the
\* other requests and the browsers alone.
LEMMA CallbackStep ==
  ASSUME ApprovalsInv, NEW r \in Requests, Approve!Callback(r)
  PROVE  ApprovalsInv'
  <1> USE DEF ApprovalsInv, ApprovalsTyped, Judged, Said, Stages
  <1>1. CASE Approve!Judge(r)
    <2>1. PICK v \in Said \cup {None} : v = Approve!Policy(r)
      BY DEF Approve!Policy
    <2>2. /\ req[r].at = "asked" /\ verdict' = [verdict EXCEPT ![r] = v]
          /\ Approve!Goto(r, IF v = None THEN "queue" ELSE "reply")
          /\ UNCHANGED <<mode, autoShell, slots, open, allowed, hand, told>>
      BY <1>1, <2>1 DEF Approve!Judge
    <2>3. PICK place \in {"queue", "reply"} : /\ place = IF v = None THEN "queue" ELSE "reply"
                                              /\ Approve!Goto(r, place)
      BY <2>2
    <2>4. /\ req' \in [Requests -> [at : Stages, kind : Approve!Kinds, key : Keys \cup {None}]]
          /\ req'[r].at = place /\ req'[r].key = req[r].key
          /\ \A q \in Requests \ {r} : req'[q] = req[q]
      BY <2>3, RequestGoes
    <2>5. open' = {q \in Requests : req'[q].at \in {"wait", "leave"}}
      BY <2>2, <2>3, <2>4
    <2>6. ApprovalsTyped'
      BY <2>2, <2>4, <2>5
    <2>7. \A q \in Requests : Judged(q)'
      BY <2>2, <2>3, <2>4
    <2> QED BY <2>6, <2>7
  <1>2. CASE Approve!Enqueue(r)
    <2>1. Approve!Goto(r, "wait")
      BY <1>2 DEF Approve!Enqueue
    <2>2. /\ req' \in [Requests -> [at : Stages, kind : Approve!Kinds, key : Keys \cup {None}]]
          /\ req'[r].at = "wait" /\ req'[r].key = req[r].key
          /\ \A q \in Requests \ {r} : req'[q] = req[q]
      BY <2>1, RequestGoes
    <2>a. open' = {q \in Requests : req'[q].at \in {"wait", "leave"}}
      BY <1>2, <2>2 DEF Approve!Enqueue
    <2>b. verdict' \in [Requests -> Said \cup {None}]
      BY <1>2 DEF Approve!Enqueue
    <2>c. \A q \in Requests : req'[q].at \notin {"new", "done"} => req'[q].key \in Keys
      BY <1>2, <2>2 DEF Approve!Enqueue
    <2>3. ApprovalsTyped'
      BY <1>2, <2>2, <2>a, <2>b, <2>c DEF Approve!Enqueue
    <2>4. \A q \in Requests : Judged(q)'
      BY <1>2, <2>2 DEF Approve!Enqueue
    <2> QED BY <2>3, <2>4
  <1>3. CASE Approve!Wake(r)
    <2>1. Approve!Goto(r, "leave")
      BY <1>3 DEF Approve!Wake
    <2>2. /\ req' \in [Requests -> [at : Stages, kind : Approve!Kinds, key : Keys \cup {None}]]
          /\ req'[r].at = "leave" /\ req'[r].key = req[r].key
          /\ \A q \in Requests \ {r} : req'[q] = req[q]
      BY <2>1, RequestGoes
    <2>a. open' = {q \in Requests : req'[q].at \in {"wait", "leave"}}
      BY <1>3, <2>2 DEF Approve!Wake
    <2>b. verdict' \in [Requests -> Said \cup {None}]
      BY <1>3 DEF Approve!Wake
    <2>c. \A q \in Requests : req'[q].at \notin {"new", "done"} => req'[q].key \in Keys
      BY <1>3, <2>2 DEF Approve!Wake
    <2>3. ApprovalsTyped'
      BY <1>3, <2>2, <2>a, <2>b, <2>c DEF Approve!Wake
    <2>4. \A q \in Requests : Judged(q)'
      BY <1>3, <2>2 DEF Approve!Wake
    <2> QED BY <2>3, <2>4
  <1>4. CASE Approve!TimeOut(r)
    <2>1. Approve!Goto(r, "leave")
      BY <1>4 DEF Approve!TimeOut
    <2>2. /\ req' \in [Requests -> [at : Stages, kind : Approve!Kinds, key : Keys \cup {None}]]
          /\ req'[r].at = "leave" /\ req'[r].key = req[r].key
          /\ \A q \in Requests \ {r} : req'[q] = req[q]
      BY <2>1, RequestGoes
    <2>a. open' = {q \in Requests : req'[q].at \in {"wait", "leave"}}
      BY <1>4, <2>2 DEF Approve!TimeOut
    <2>b. verdict' \in [Requests -> Said \cup {None}]
      BY <1>4 DEF Approve!TimeOut
    <2>c. \A q \in Requests : req'[q].at \notin {"new", "done"} => req'[q].key \in Keys
      BY <1>4, <2>2 DEF Approve!TimeOut
    <2>3. ApprovalsTyped'
      BY <1>4, <2>2, <2>a, <2>b, <2>c DEF Approve!TimeOut
    <2>4. \A q \in Requests : Judged(q)'
      BY <1>4, <2>2 DEF Approve!TimeOut
    <2> QED BY <2>3, <2>4
  <1>5. CASE Approve!Leave(r)
    <2>1. Approve!Goto(r, "reply")
      BY <1>5 DEF Approve!Leave
    <2>2. /\ req' \in [Requests -> [at : Stages, kind : Approve!Kinds, key : Keys \cup {None}]]
          /\ req'[r].at = "reply" /\ req'[r].key = req[r].key
          /\ \A q \in Requests \ {r} : req'[q] = req[q]
      BY <2>1, RequestGoes
    <2>a. open' = {q \in Requests : req'[q].at \in {"wait", "leave"}}
      BY <1>5, <2>2 DEF Approve!Leave
    <2>b. verdict' \in [Requests -> Said \cup {None}]
      BY <1>5 DEF Approve!Leave
    <2>c. \A q \in Requests : req'[q].at \notin {"new", "done"} => req'[q].key \in Keys
      BY <1>5, <2>2 DEF Approve!Leave
    <2>3. ApprovalsTyped'
      BY <1>5, <2>2, <2>a, <2>b, <2>c DEF Approve!Leave
    <2>4. \A q \in Requests : Judged(q)'
      BY <1>5, <2>2 DEF Approve!Leave
    <2> QED BY <2>3, <2>4
  <1>6. CASE Approve!Reply(r)
    <2>1. [at |-> "done", kind |-> "tool", key |-> None] \in
            [at : Stages, kind : Approve!Kinds, key : Keys \cup {None}]
      BY DEF Approve!Kinds
    <2> QED BY <1>6, <2>1, NoneAssumption DEF Approve!Reply
  <1> QED BY <1>1, <1>2, <1>3, <1>4, <1>5, <1>6 DEF Approve!Callback

\* The engine asks: nothing is known of the request yet.
LEMMA AskStep ==
  ASSUME ApprovalsInv, NEW r \in Requests, Approve!Ask(r)
  PROVE  ApprovalsInv'
  <1>1. PICK k \in Approve!Kinds, key \in Keys :
          req' = [req EXCEPT ![r] = [at |-> "asked", kind |-> k, key |-> key]]
    BY DEF Approve!Ask
  <1>2. [at |-> "asked", kind |-> k, key |-> key] \in
          [at : Stages, kind : Approve!Kinds, key : Keys \cup {None}]
    BY DEF Stages
  <1> QED BY <1>1, <1>2 DEF ApprovalsInv, ApprovalsTyped, Judged, Said, Stages, Approve!Ask

\* A browser takes a slot, or answers the one it took: if its callback still
\* waits, the answer is one of those the callback may take.
LEMMA BrowserStep ==
  ASSUME ApprovalsInv, NEW b \in Browsers
  PROVE  /\ \A r \in Requests, a \in Approve!Answers : Approve!Find(b, r, a) => ApprovalsInv'
         /\ Approve!Decide(b) => ApprovalsInv'
  <1> USE DEF ApprovalsInv, ApprovalsTyped, Judged, Said, Stages
  <1>1. ASSUME NEW r \in Requests, NEW a \in Approve!Answers, Approve!Find(b, r, a)
        PROVE  ApprovalsInv'
    <2>1. [slot |-> r, key |-> req[r].key, says |-> a] \in Hands
      BY <1>1 DEF Approve!Find, Hands
    <2> QED BY <1>1, <2>1 DEF Approve!Find
  <1>2. ASSUME Approve!Decide(b) PROVE ApprovalsInv'
    <2>1. PICK r \in Requests : r = hand[b].slot
      BY <1>2 DEF Approve!Decide, Hands
    <2>2. PICK a \in Said : a = Approve!Said(hand[b].says)
      BY DEF Approve!Said
    <2>3. /\ slots' = IF r \in open THEN [slots EXCEPT ![r] = a] ELSE slots
          /\ told' = IF req[r].at = "wait" THEN [told EXCEPT ![r] = @ \cup {a}] ELSE told
          /\ allowed' \subseteq Keys
          /\ hand' = [hand EXCEPT ![b] = None]
          /\ UNCHANGED <<mode, autoShell, req, open, verdict>>
      BY <1>2, <2>1, <2>2 DEF Approve!Decide, Approve!InTime, Hands
    <2>4. ApprovalsTyped'
      BY <2>3
    <2>5. \A q \in Requests : Judged(q)'
      BY <2>3, NoneAssumption
    <2> QED BY <2>4, <2>5
  <1> QED BY <1>1, <1>2

LEMMA ApprovalsStep == ApprovalsInv /\ [Approve!Next]_approvals => ApprovalsInv'
  <1> SUFFICES ASSUME ApprovalsInv, [Approve!Next]_approvals PROVE ApprovalsInv'
    OBVIOUS
  <1>1. CASE UNCHANGED approvals
    BY <1>1 DEF approvals, ApprovalsInv, ApprovalsTyped, Judged
  <1>2. ASSUME NEW m \in Approve!Modes, Approve!SetMode(m) PROVE ApprovalsInv'
    BY <1>2 DEF Approve!SetMode, ApprovalsInv, ApprovalsTyped, Judged
  <1> QED BY <1>1, <1>2, AskStep, CallbackStep, BrowserStep DEF Approve!Next

\* The two things a run checks of the approvals.
LEMMA ApprovalsHold == ApprovalsInv => Approve!TypeOK /\ Approve!HumansDecide
  BY DEF ApprovalsInv, ApprovalsTyped, Judged, Said, Approve!TypeOK, Approve!HumansDecide

-----------------------------------------------------------------------------
(* Titles.                                                                 *)

\* A record that says a person gave its title has a title persons give.
Given(r) == r.source = "manual" => r.title \in Naming!Names

NamingInv == /\ Naming!TypeOK /\ Given(rec) /\ Given(saved) /\ Given(found)
             /\ Naming!ManualWins

\* A new record, a new title to announce and a new place of a naming thread
\* have their types.
LEMMA NamesTyped ==
  /\ \A t \in Naming!Titles, s \in Naming!Sources :
       /\ Naming!Record(t, s) \in Naming!Records
       /\ Naming!Record(t, s).source = s /\ Naming!Record(t, s).title = t
  /\ Naming!Names \subseteq Naming!Titles /\ Naming!NoTitle \in Naming!Titles
  /\ Naming!Fallback \in Naming!Titles /\ Naming!Generated \in Naming!Titles
  /\ \A t \in Naming!Names : t # 0 /\ t \in 0..MaxRenames
  /\ Naming!Nothing \in Naming!Records /\ Given(Naming!Nothing)
  BY BoundsAssumption
  DEF Given, Naming!Record, Naming!Records, Naming!Nothing, Naming!Titles, Naming!Sources,
      Naming!Names, Naming!NoTitle, Naming!Fallback, Naming!Generated

LEMMA NamingInit == Naming!Init => NamingInv
  <1> SUFFICES ASSUME Naming!Init PROVE NamingInv
    OBVIOUS
  <1>1. rec \in Naming!Records /\ saved = rec /\ rec.source # "manual"
    <2>1. {"unnamed", "historical"} \subseteq Naming!Sources
      BY DEF Naming!Sources
    <2>2. rec \in {Naming!Record(Naming!NoTitle, "unnamed"), Naming!Nothing} /\ saved = rec
      BY DEF Naming!Init
    <2>3. Naming!Nothing = Naming!Record(Naming!NoTitle, "historical")
      BY DEF Naming!Nothing, Naming!Record
    <2> QED BY <2>1, <2>2, <2>3, NamesTyped
  <1>2. 0 \in 0..MaxRenames /\ 0 \in 0..MaxRebuilds
    BY BoundsAssumption
  <1> QED BY <1>1, <1>2, NamesTyped
          DEF Naming!Init, NamingInv, Given, Naming!TypeOK, Naming!ManualWins

LEMMA NamingStep == NamingInv /\ [Naming!Next]_naming => NamingInv'
  <1> SUFFICES ASSUME NamingInv, [Naming!Next]_naming PROVE NamingInv'
    OBVIOUS
  <1> USE NamesTyped DEF NamingInv, Naming!TypeOK, Naming!ManualWins, Given
  <1>1. CASE UNCHANGED naming
    BY <1>1 DEF naming
  <1>2. ASSUME NEW b \in Browsers, Naming!Rename(b) PROVE NamingInv'
    <2>1. PICK n \in Naming!Names : n = renames + 1
      BY <1>2, BoundsAssumption DEF Naming!Rename, Naming!Names
    <2>2. "manual" \in Naming!Sources
      BY DEF Naming!Sources
    <2>3. /\ renames' = n /\ given' = n /\ rec' = Naming!Record(n, "manual") /\ saved' = rec'
          /\ announcing' = [announcing EXCEPT ![b] = n]
          /\ UNCHANGED <<loading, found, titler, namer, shown, gone, rebuilds>>
      BY <1>2, <2>1 DEF Naming!Rename, Naming!Keeps
    <2> QED BY <2>1, <2>2, <2>3
  <1>3. ASSUME NEW b \in Browsers, Naming!Announce(b) PROVE NamingInv'
    BY <1>3 DEF Naming!Announce
  <1>4. CASE Naming!Send
    BY <1>4 DEF Naming!Send
  <1>5. CASE Naming!Claim
    <2>1. "auto_pending" \in Naming!Sources
      BY DEF Naming!Sources
    <2>2. CASE rec.source = "unnamed"
      <3>1. given = 0
        BY <2>2 DEF Naming!Record
      <3> QED BY <1>5, <2>1, <2>2, <3>1 DEF Naming!Claim, Naming!Keeps
    <2> QED BY <1>5, <2>2 DEF Naming!Claim
  <1>6. ASSUME NEW n \in Naming!Namers, Naming!Begin(n) PROVE NamingInv'
    BY <1>6 DEF Naming!Begin
  <1>7. ASSUME NEW n \in Naming!Namers, Naming!LookAgain(n) PROVE NamingInv'
    BY <1>7 DEF Naming!LookAgain
  <1>8. ASSUME NEW n \in Naming!Namers, Naming!Answer(n) PROVE NamingInv'
    BY <1>8 DEF Naming!Answer
  <1>9. ASSUME NEW n \in Naming!Namers, Naming!Finish(n) PROVE NamingInv'
    <2>1. {"auto", "fallback"} \subseteq Naming!Sources
      BY DEF Naming!Sources
    <2>2. rec.title \in Naming!Titles
      BY DEF Naming!Records
    <2>3. PICK t \in Naming!Titles, s \in {"auto", "fallback"} :
            Naming!Settled(n) = Naming!Record(t, s)
      BY <2>2 DEF Naming!Settled
    <2>4. CASE gone \/ rec.source # "auto_pending"
      BY <1>9, <2>4 DEF Naming!Finish
    <2>5. CASE ~gone /\ rec.source = "auto_pending"
      <3>1. given = 0
        BY <2>5 DEF Naming!Record
      <3>2. /\ rec' = Naming!Record(t, s) /\ saved' = rec' /\ shown' = t
            /\ namer' = [namer EXCEPT ![n] = "over"]
            /\ UNCHANGED <<loading, found, titler, announcing, gone, renames, rebuilds, given>>
        BY <1>9, <2>1, <2>3, <2>5 DEF Naming!Finish, Naming!Keeps
      <3> QED BY <2>1, <3>1, <3>2
    <2> QED BY <2>4, <2>5
  <1>10. CASE Naming!Load
    <2>1. rebuilds' \in 0..MaxRebuilds
      BY <1>10, BoundsAssumption DEF Naming!Load
    <2> QED BY <1>10, <2>1 DEF Naming!Load
  <1>11. CASE Naming!Swap
    <2>1. found = Naming!Record(found.title, found.source)
      BY DEF Naming!Records, Naming!Record
    <2>2. /\ loading' = FALSE /\ rec' = found /\ found' = Naming!Nothing
          /\ given' = IF found.source = "manual" THEN found.title ELSE 0
          /\ UNCHANGED <<saved, titler, namer, announcing, shown, gone, renames, rebuilds>>
      BY <1>11 DEF Naming!Swap
    <2>3. given' \in 0..MaxRenames
      BY <2>2, BoundsAssumption
    <2>4. given' # 0 => rec' = Naming!Record(given', "manual")
      BY <2>1, <2>2
    <2> QED BY <2>2, <2>3, <2>4
  <1>12. CASE Naming!Close
    BY <1>12 DEF Naming!Close
  <1> QED BY <1>1, <1>2, <1>3, <1>4, <1>5, <1>6, <1>7, <1>8, <1>9, <1>10, <1>11, <1>12
          DEF Naming!Next

-----------------------------------------------------------------------------
(* The tool server.                                                        *)

Inside(c) == call[c].at \in {"got", "run", "leave"}
\* Who is past the queue holds the lock, and what runs is past the queue.
ToolsInv == /\ Tools!TypeOK
            /\ \A c \in Calls : Inside(c) => owner = c
            /\ \A c \in Calls : running = c => call[c].at = "run"

LEMMA ToolsInit == Tools!Init => ToolsInv
  BY BoundsAssumption, NoneAssumption DEF Tools!Init, ToolsInv, Inside, Tools!TypeOK, Tools!Ended

Spots == {"new", "wait", "got", "run", "leave", "answered", "cancelled", "gave up"}

\* A call's record has its type, and so has a table of them.
LEMMA CallTyped ==
  \A a \in Spots, w, l \in 0..QueueMax :
     /\ [at |-> a, waited |-> w, left |-> l] \in [at : Spots, waited : 0..QueueMax, left : 0..QueueMax]
     /\ [at |-> a, waited |-> w, left |-> l].at = a
  OBVIOUS

LEMMA CallsTyped ==
  ASSUME NEW S, NEW f, f = [c \in Calls |-> f[c]], \A c \in Calls : f[c] \in S
  PROVE  f \in [Calls -> S]
  OBVIOUS

\* What Goto leaves of a call.
LEMMA CallGoes ==
  ASSUME ToolsInv, NEW c \in Calls, NEW place \in Spots, Tools!Goto(c, place)
  PROVE  /\ call' \in [Calls -> [at : Spots, waited : 0..QueueMax, left : 0..QueueMax]]
         /\ call'[c].at = place /\ \A d \in Calls \ {c} : call'[d] = call[d]
  <1>1. call \in [Calls -> [at : Spots, waited : 0..QueueMax, left : 0..QueueMax]]
    BY DEF ToolsInv, Tools!TypeOK, Tools!Ended, Spots
  <1> QED BY <1>1 DEF Tools!Goto

\* The ticks a deadline and a clock may show.
LEMMA TickRanges ==
  /\ 0 \in 0..QueueMax /\ 0 \in 0..OrphanGrace /\ 0..QueueMax \subseteq Nat
  /\ \A a \in 0..QueueMax : Tools!Lesser(a + 1, QueueMax) \in 0..QueueMax
  /\ \A a \in 0..OrphanGrace : Tools!Lesser(a + 1, OrphanGrace) \in 0..OrphanGrace
  /\ \A a \in 0..QueueMax : a > 0 => a - 1 \in 0..QueueMax
  /\ \A a \in 0..QueueMax, l \in Nat : Tools!Lesser(a, l + QueueGrace) \in 0..QueueMax
  BY BoundsAssumption DEF Tools!Lesser

\* The clocks stay within their caps, and a deadline never moves away.
LEMMA ClocksBounded ==
  ASSUME ToolsInv
  PROVE  /\ \A c \in Calls : Tools!Deadline(c) \in 0..QueueMax
         /\ Tools!Older(age, QueueMax) \in 0..QueueMax \cup {None}
         /\ closed # None => Tools!Older(closed, OrphanGrace) \in 0..OrphanGrace
  <1>1. /\ \A c \in Calls : call[c].left \in 0..QueueMax /\ budget[c] \in Budgets \cup {None}
        /\ running \in Calls \cup {None} /\ age \in 0..QueueMax \cup {None}
        /\ closed \in 0..OrphanGrace \cup {None}
    BY DEF ToolsInv, Tools!TypeOK
  <1>2. Tools!Left # None => Tools!Left \in Nat
    <2>1. ASSUME running # None, budget[running] # None, age # None
          PROVE  budget[running] \in Nat /\ age \in Nat
      BY <1>1, <2>1, TickRanges, BoundsAssumption
    <2> QED BY <2>1 DEF Tools!Left
  <1>3. \A c \in Calls : Tools!Deadline(c) \in 0..QueueMax
    BY <1>1, <1>2, TickRanges DEF Tools!Deadline
  <1>4. Tools!Older(age, QueueMax) \in 0..QueueMax \cup {None}
    BY <1>1, TickRanges DEF Tools!Older
  <1>5. closed # None => Tools!Older(closed, OrphanGrace) \in 0..OrphanGrace
    BY <1>1, TickRanges DEF Tools!Older
  <1> QED BY <1>3, <1>4, <1>5

\* A call that waits grows older, and its deadline comes closer.
LEMMA WaitingTicks ==
  ASSUME ToolsInv, NEW c \in Tools!Waiting, Tools!Tick
  PROVE  /\ call'[c] \in [at : Spots, waited : 0..QueueMax, left : 0..QueueMax]
         /\ call'[c].at = call[c].at
  <1>1. call[c] \in [at : Spots, waited : 0..QueueMax, left : 0..QueueMax]
    BY DEF ToolsInv, Tools!TypeOK, Tools!Ended, Tools!Waiting, Spots
  <1>2. call[c].left > 0
    BY DEF Tools!Tick, Tools!MayPass
  <1>3. /\ call[c].left - 1 \in 0..QueueMax /\ call[c].at \in Spots
        /\ Tools!Lesser(call[c].waited + 1, QueueMax) \in 0..QueueMax
    BY <1>1, <1>2, TickRanges
  <1>4. PICK a \in Spots, w \in 0..QueueMax, l \in 0..QueueMax :
          /\ a = call[c].at /\ w = Tools!Lesser(call[c].waited + 1, QueueMax)
          /\ l = call[c].left - 1
    BY <1>3
  <1>5. call'[c] = [call[c] EXCEPT !.waited = w, !.left = l]
    BY <1>4 DEF Tools!Tick, Tools!Waiting
  <1>6. call'[c] = [at |-> a, waited |-> w, left |-> l]
    BY <1>1, <1>4, <1>5
  <1> QED BY <1>4, <1>6, CallTyped

LEMMA ToolsStep == ToolsInv /\ [Tools!Next]_tools => ToolsInv'
  <1> SUFFICES ASSUME ToolsInv, [Tools!Next]_tools PROVE ToolsInv'
    OBVIOUS
  <1>0. \A c \in Calls : call[c] \in [at : Spots, waited : 0..QueueMax, left : 0..QueueMax]
    BY DEF ToolsInv, Tools!TypeOK, Tools!Ended, Spots
  <1> USE NoneAssumption DEF ToolsInv, Tools!TypeOK, Tools!Ended, Inside, Spots
  <1>1. CASE UNCHANGED tools
    BY <1>1 DEF tools
  <1>2. ASSUME NEW c \in Calls, Tools!Arrive(c) PROVE ToolsInv'
    <2>1. PICK place \in {"answered", "wait"} :
            /\ Tools!Goto(c, place) /\ \E b \in Budgets \cup {None} : budget' = [budget EXCEPT ![c] = b]
            /\ UNCHANGED <<owner, running, age, cancelEv, client, closed, exited>>
      BY <1>2 DEF Tools!Arrive
    <2>2. call[c].at = "new"
      BY <1>2 DEF Tools!Arrive
    <2>3. budget' \in [Calls -> Budgets \cup {None}]
      BY <2>1
    <2>4. /\ call' \in [Calls -> [at : Spots, waited : 0..QueueMax, left : 0..QueueMax]]
          /\ call'[c].at = place /\ \A d \in Calls \ {c} : call'[d] = call[d]
      BY <2>1, CallGoes
    <2> QED BY <2>1, <2>2, <2>3, <2>4
  <1>3. ASSUME NEW c \in Calls, Tools!Acquire(c) PROVE ToolsInv'
    <2>1. Tools!Goto(c, "got") /\ call[c].at = "wait"
      BY <1>3 DEF Tools!Acquire
    <2> QED BY <1>3, <2>1, CallGoes DEF Tools!Acquire
  <1>4. ASSUME NEW c \in Calls, Tools!WaitCancelled(c) PROVE ToolsInv'
    <2>1. Tools!Goto(c, "cancelled") /\ call[c].at = "wait"
      BY <1>4 DEF Tools!WaitCancelled
    <2> QED BY <1>4, <2>1, CallGoes DEF Tools!WaitCancelled
  <1>5. ASSUME NEW c \in Calls, Tools!Poll(c) PROVE ToolsInv'
    <2>1. PICK d \in 0..QueueMax : d = Tools!Deadline(c)
      BY ClocksBounded
    <2>2. PICK place \in {"gave up", "wait"} :
            call' = [call EXCEPT ![c].left = d, ![c].at = place]
      BY <1>5, <2>1 DEF Tools!Poll
    <2>3. call[c].at = "wait" /\ UNCHANGED <<budget, owner, running, age, cancelEv, client, closed, exited>>
      BY <1>5 DEF Tools!Poll
    <2>4. /\ DOMAIN call' = Calls /\ \A e \in Calls \ {c} : call'[e] = call[e]
          /\ call'[c] = [[call[c] EXCEPT !.left = d] EXCEPT !.at = place]
      BY <2>2
    <2>5. call[c] \in [at : Spots, waited : 0..QueueMax, left : 0..QueueMax]
      OBVIOUS
    <2>6. /\ call'[c] \in [at : Spots, waited : 0..QueueMax, left : 0..QueueMax]
          /\ call'[c].at = place
      BY <2>4, <2>5
    <2>7. call' = [e \in Calls |-> call'[e]]
      BY <2>2
    <2>8. call' \in [Calls -> [at : Spots, waited : 0..QueueMax, left : 0..QueueMax]]
      <3>1. \A e \in Calls : call'[e] \in [at : Spots, waited : 0..QueueMax, left : 0..QueueMax]
        BY <1>0, <2>4, <2>6
      <3> QED BY <3>1, <2>7, CallsTyped, Zenon
    <2>9. \A e \in Calls : Inside(e)' => owner' = e /\ Inside(e)
      BY <2>3, <2>4, <2>6
    <2>10. \A e \in Calls : running' = e => call'[e].at = "run"
      BY <2>3, <2>4
    <2> QED BY <2>3, <2>8, <2>9, <2>10
  <1>6. ASSUME NEW c \in Calls, Tools!Begin(c) PROVE ToolsInv'
    <2>1. PICK place \in {"leave", "run"} :
            Tools!Goto(c, place) /\ running' = (IF place = "run" THEN c ELSE running)
      BY <1>6 DEF Tools!Begin
    <2>2. call[c].at = "got" /\ UNCHANGED <<budget, owner, age, cancelEv, client, closed, exited>>
      BY <1>6 DEF Tools!Begin
    <2>3. /\ call' \in [Calls -> [at : Spots, waited : 0..QueueMax, left : 0..QueueMax]]
          /\ call'[c].at = place /\ \A d \in Calls \ {c} : call'[d] = call[d]
      BY <2>1, CallGoes
    <2>4. owner = c /\ running # c
      BY <2>2
    <2> QED BY <2>1, <2>2, <2>3, <2>4
  <1>7. ASSUME NEW c \in Calls, Tools!Own(c) PROVE ToolsInv'
    <2>1. age' = 0 /\ UNCHANGED <<call, budget, owner, running, cancelEv, client, closed, exited>>
      BY <1>7 DEF Tools!Own
    <2>2. age' \in 0..QueueMax
      BY <2>1, TickRanges
    <2> QED BY <2>1, <2>2
  <1>8. ASSUME NEW c \in Calls, Tools!ToolEnds(c) PROVE ToolsInv'
    <2>1. Tools!Goto(c, "leave") /\ call[c].at = "run"
      BY <1>8 DEF Tools!ToolEnds
    <2> QED BY <1>8, <2>1, CallGoes DEF Tools!ToolEnds
  <1>9. ASSUME NEW c \in Calls, Tools!Leave(c) PROVE ToolsInv'
    <2>1. PICK place \in {"cancelled", "answered"} : Tools!Goto(c, place) /\ call[c].at = "leave"
      BY <1>9 DEF Tools!Leave
    <2>2. owner = c /\ running = None
      BY <2>1
    <2> QED BY <1>9, <2>1, <2>2, CallGoes DEF Tools!Leave
  <1>10. ASSUME NEW c \in Calls, Tools!Cancel(c) PROVE ToolsInv'
    BY <1>10 DEF Tools!Cancel
  <1>11. CASE Tools!Disconnect \/ Tools!Exit
    BY <1>11 DEF Tools!Disconnect, Tools!Exit
  <1>12. CASE Tools!Tick
    <2>1. \A c \in Calls : call'[c] \in [at : Spots, waited : 0..QueueMax, left : 0..QueueMax]
                           /\ call'[c].at = call[c].at
      <3> SUFFICES ASSUME NEW c \in Calls
                   PROVE  /\ call'[c] \in [at : Spots, waited : 0..QueueMax, left : 0..QueueMax]
                          /\ call'[c].at = call[c].at
        OBVIOUS
      <3>1. CASE c \notin Tools!Waiting
        BY <1>12, <3>1 DEF Tools!Tick
      <3>2. CASE c \in Tools!Waiting
        BY <1>12, <3>2, WaitingTicks
      <3> QED BY <3>1, <3>2
    <2>2. call' = [c \in Calls |-> call'[c]]
      BY <1>12 DEF Tools!Tick
    <2>3. /\ age' = Tools!Older(age, QueueMax)
          /\ closed' = IF client THEN None ELSE IF closed = None THEN 0
                       ELSE Tools!Older(closed, OrphanGrace)
      BY <1>12 DEF Tools!Tick
    <2>4. closed' \in 0..OrphanGrace \cup {None} /\ age' \in 0..QueueMax \cup {None}
      BY <2>3, ClocksBounded, TickRanges
    <2>5. UNCHANGED <<budget, owner, running, cancelEv, client, exited>>
      BY <1>12 DEF Tools!Tick
    <2>6. call' \in [Calls -> [at : Spots, waited : 0..QueueMax, left : 0..QueueMax]]
      BY <2>1, <2>2
    <2> QED BY <2>1, <2>4, <2>5, <2>6
  <1> QED BY <1>1, <1>2, <1>3, <1>4, <1>5, <1>6, <1>7, <1>8, <1>9, <1>10, <1>11, <1>12
          DEF Tools!Next, Tools!Thread

-----------------------------------------------------------------------------
(* The pool of sessions.                                                   *)

Sessions == Pool!Sessions
Doors == {"rest", "look", "own", "build", "publish", "finally", "raise", "wait", "again",
          "open", "failed"}

PoolTyped ==
  /\ current \in Sessions \cup {None} /\ opening \in Sessions \cup {None}
  /\ held \subseteq Sessions /\ live \subseteq Sessions
  /\ busy \subseteq Sessions /\ idle \subseteq Sessions /\ tries \in 0..MaxSessions
  /\ opener \in [Openers -> [at : Doors, has : Sessions \cup {None}]]
  /\ sender \in [Senders -> [at : {"rest", "send", "turn"}, has : Sessions \cup {None}]]
  /\ \A s \in Senders : sender[s].at # "rest" => sender[s].has \in Sessions

\* Who constructs a session has published the lock for it, which is the only
\* one there is, and the project has no other session meanwhile.
Owns(o) == opener[o].at \in {"own", "build", "publish", "finally", "raise"}
OneOwner ==
  /\ \A o \in Openers : Owns(o) => opening \in Sessions /\ opener[o].has = opening
  /\ \A o, p \in Openers : Owns(o) /\ Owns(p) => o = p
  /\ opening # None => \E o \in Openers : Owns(o)
  /\ \A o \in Openers : Owns(o) /\ opener[o].at # "finally" => current = None

\* The reaper is busy with the session the project has; and whose engine runs
\* is that session, or the one about to be.
Reaping ==
  \/ reaper.at = "rest" /\ reaper = Pool!Rest
  \/ reaper.at \in {"age", "close", "pop"} /\ reaper.has = current /\ current \in Sessions
Reachable ==
  /\ \A e \in live : \/ e = current
                     \/ \E o \in Openers : opener[o].at = "publish" /\ opener[o].has = e
  /\ reaper.at = "pop" => live = {}

PoolInv == PoolTyped /\ OneOwner /\ Reaping /\ Reachable

LEMMA PoolInit == Pool!Init => PoolInv
  BY BoundsAssumption, NoneAssumption
  DEF Pool!Init, Pool!Rest, PoolInv, PoolTyped, OneOwner, Owns, Reaping, Reachable, Sessions, Doors

\* Where an opener goes, the others stay.
LEMMA OpenerMoves ==
  ASSUME PoolTyped, NEW o \in Openers, NEW place \in Doors, NEW what \in Sessions \cup {None},
         Pool!OpenerGoes(o, place, what)
  PROVE  /\ opener' \in [Openers -> [at : Doors, has : Sessions \cup {None}]]
         /\ opener'[o].at = place /\ opener'[o].has = what
         /\ \A p \in Openers \ {o} : opener'[p] = opener[p]
  BY DEF PoolTyped, Pool!OpenerGoes

LEMMA SessionsDiffer == None \notin Sessions /\ (\A n \in Sessions : n \in Nat)
  BY BoundsAssumption, NoneAssumption DEF Sessions, Pool!Sessions

\* The steps of a browser that opens the project.
LEMMA OpenerStep ==
  ASSUME PoolInv, NEW o \in Openers, Pool!OpenBegins(o) \/ Pool!OpenStep(o)
  PROVE  PoolInv'
  <1> USE SessionsDiffer DEF PoolInv, PoolTyped, OneOwner, Owns, Reaping, Reachable, Doors
  <1>1. CASE Pool!OpenBegins(o)
    <2>1. Pool!OpenerGoes(o, "look", None)
      BY <1>1 DEF Pool!OpenBegins
    <2>2. /\ opener' \in [Openers -> [at : Doors, has : Sessions \cup {None}]]
          /\ opener'[o].at = "look" /\ \A p \in Openers \ {o} : opener'[p] = opener[p]
      BY <2>1, OpenerMoves
    <2> QED BY <1>1, <2>2 DEF Pool!OpenBegins
  <1>2. CASE Pool!Look(o)
    <2>1. CASE current # None /\ Pool!Touch(current) /\ Pool!OpenerGoes(o, "open", current)
               /\ UNCHANGED <<opening, tries>>
      <3>1. /\ opener' \in [Openers -> [at : Doors, has : Sessions \cup {None}]]
            /\ opener'[o].at = "open" /\ \A p \in Openers \ {o} : opener'[p] = opener[p]
        BY <2>1, OpenerMoves
      <3> QED BY <1>2, <2>1, <3>1 DEF Pool!Look, Pool!At, Pool!Touch
    <2>2. CASE current = None /\ opening = None /\ tries < MaxSessions /\ tries' = tries + 1
               /\ opening' = tries' /\ Pool!OpenerGoes(o, "own", tries') /\ UNCHANGED idle
      <3>1. PICK n \in Sessions : n = tries'
        BY <2>2, BoundsAssumption DEF Sessions, Pool!Sessions
      <3>2. tries' \in 0..MaxSessions
        BY <2>2, BoundsAssumption
      <3>3. /\ opener' \in [Openers -> [at : Doors, has : Sessions \cup {None}]]
            /\ opener'[o].at = "own" /\ opener'[o].has = n
            /\ \A p \in Openers \ {o} : opener'[p] = opener[p]
        BY <2>2, <3>1, OpenerMoves
      <3> QED BY <1>2, <2>2, <3>1, <3>2, <3>3 DEF Pool!Look, Pool!At
    <2>3. CASE current = None /\ opening # None /\ Pool!OpenerGoes(o, "wait", opening)
               /\ UNCHANGED <<opening, tries, idle>>
      <3>1. /\ opener' \in [Openers -> [at : Doors, has : Sessions \cup {None}]]
            /\ opener'[o].at = "wait" /\ \A p \in Openers \ {o} : opener'[p] = opener[p]
        BY <2>3, OpenerMoves
      <3> QED BY <1>2, <2>3, <3>1 DEF Pool!Look, Pool!At
    <2> QED BY <1>2, <2>1, <2>2, <2>3 DEF Pool!Look
  <1>3. CASE Pool!Own(o)
    <2>1. Pool!OpenerGoes(o, "build", opening)
      BY <1>3 DEF Pool!Own, Pool!At
    <2>2. /\ opener' \in [Openers -> [at : Doors, has : Sessions \cup {None}]]
          /\ opener'[o].at = "build" /\ opener'[o].has = opening
          /\ \A p \in Openers \ {o} : opener'[p] = opener[p]
      BY <2>1, OpenerMoves
    <2> QED BY <1>3, <2>2 DEF Pool!Own, Pool!At
  <1>4. CASE Pool!Build(o)
    <2>1. PICK place \in {"publish", "raise"} :
            /\ Pool!OpenerGoes(o, place, opening)
            /\ live' = (IF place = "publish" THEN live \cup {opening} ELSE live)
      BY <1>4 DEF Pool!Build, Pool!At
    <2>2. /\ opener' \in [Openers -> [at : Doors, has : Sessions \cup {None}]]
          /\ opener'[o].at = place /\ opener'[o].has = opening
          /\ \A p \in Openers \ {o} : opener'[p] = opener[p]
      BY <2>1, OpenerMoves
    <2>3. live = {} /\ current = None /\ opening \in Sessions /\ Owns(o)
      BY <1>4 DEF Pool!Build, Pool!At
    <2> QED BY <1>4, <2>1, <2>2, <2>3 DEF Pool!Build, Pool!At
  <1>5. CASE Pool!Publish(o)
    <2>1. Pool!OpenerGoes(o, "finally", opening) /\ current' = opening
      BY <1>5 DEF Pool!Publish, Pool!At
    <2>2. /\ opener' \in [Openers -> [at : Doors, has : Sessions \cup {None}]]
          /\ opener'[o].at = "finally" /\ opener'[o].has = opening
          /\ \A p \in Openers \ {o} : opener'[p] = opener[p]
      BY <2>1, OpenerMoves
    <2>3. /\ current = None /\ opening \in Sessions /\ Owns(o)
          /\ \A e \in live : e = opening
      BY <1>5 DEF Pool!Publish, Pool!At
    <2> QED BY <1>5, <2>1, <2>2, <2>3 DEF Pool!Publish, Pool!At
  <1>6. CASE Pool!Release(o)
    <2>1. PICK place \in {"failed", "open"}, what \in Sessions \cup {None} :
            Pool!OpenerGoes(o, place, what)
      BY <1>6 DEF Pool!Release, Pool!At
    <2>2. /\ opener' \in [Openers -> [at : Doors, has : Sessions \cup {None}]]
          /\ opener'[o].at = place
          /\ \A p \in Openers \ {o} : opener'[p] = opener[p]
      BY <2>1, OpenerMoves
    <2>3. opener[o].at \in {"finally", "raise"} /\ opening' = None
      BY <1>6 DEF Pool!Release
    <2> QED BY <1>6, <2>2, <2>3 DEF Pool!Release
  <1>7. CASE Pool!Wait(o)
    <2>1. Pool!OpenerGoes(o, "again", None)
      BY <1>7 DEF Pool!Wait
    <2>2. /\ opener' \in [Openers -> [at : Doors, has : Sessions \cup {None}]]
          /\ opener'[o].at = "again" /\ \A p \in Openers \ {o} : opener'[p] = opener[p]
      BY <2>1, OpenerMoves
    <2> QED BY <1>7, <2>2 DEF Pool!Wait, Pool!At
  <1>8. CASE Pool!LookAgain(o)
    <2>1. PICK place \in {"open", "look"}, what \in Sessions \cup {None} :
            Pool!OpenerGoes(o, place, what) /\ idle' \subseteq idle
      BY <1>8 DEF Pool!LookAgain, Pool!Touch
    <2>2. /\ opener' \in [Openers -> [at : Doors, has : Sessions \cup {None}]]
          /\ opener'[o].at = place
          /\ \A p \in Openers \ {o} : opener'[p] = opener[p]
      BY <2>1, OpenerMoves
    <2> QED BY <1>8, <2>1, <2>2 DEF Pool!LookAgain, Pool!At
  <1> QED BY <1>1, <1>2, <1>3, <1>4, <1>5, <1>6, <1>7, <1>8 DEF Pool!OpenStep

\* Turns, the reaper and the end of the process.
LEMMA PoolStep == PoolInv /\ [Pool!Next]_pool => PoolInv'
  <1> SUFFICES ASSUME PoolInv, [Pool!Next]_pool PROVE PoolInv'
    OBVIOUS
  <1> USE SessionsDiffer DEF PoolInv, PoolTyped, OneOwner, Owns, Reaping, Reachable
  <1>1. CASE UNCHANGED pool
    BY <1>1 DEF pool
  <1>2. ASSUME NEW s \in Senders, Pool!ByThread(s) PROVE PoolInv'
    <2>1. [at |-> "send", has |-> current] \in [at : {"rest", "send", "turn"}, has : Sessions \cup {None}]
      OBVIOUS
    <2> QED BY <1>2, <2>1 DEF Pool!ByThread
  <1>3. ASSUME NEW s \in Senders, Pool!Send(s) \/ Pool!TurnEnds(s) PROVE PoolInv'
    <2>1. sender' \in [Senders -> [at : {"rest", "send", "turn"}, has : Sessions \cup {None}]]
      BY <1>3 DEF Pool!Send, Pool!TurnEnds, Pool!Rest
    <2>2. \A t \in Senders : sender'[t].at # "rest" => sender'[t].has \in Sessions
      BY <1>3 DEF Pool!Send, Pool!TurnEnds, Pool!Rest
    <2>3. busy' \subseteq Sessions /\ idle' \subseteq idle
      BY <1>3 DEF Pool!Send, Pool!TurnEnds, Pool!Touch
    <2>4. UNCHANGED <<current, opening, held, indexed, live, tries, failures, opener, reaper, down>>
      BY <1>3 DEF Pool!Send, Pool!TurnEnds
    <2> QED BY <2>1, <2>2, <2>3, <2>4
  <1>4. CASE Pool!HalfAnHour
    BY <1>4 DEF Pool!HalfAnHour
  <1>5. CASE Pool!ReaperLooks
    BY <1>5 DEF Pool!ReaperLooks, Pool!Rest
  <1>6. CASE Pool!ReaperAge
    <2>1. reaper' = Pool!Rest \/ (reaper'.at = "close" /\ reaper'.has = reaper.has /\ reaper.at = "age")
      BY <1>6 DEF Pool!ReaperAge
    <2> QED BY <1>6, <2>1 DEF Pool!ReaperAge, Pool!Rest
  <1>7. CASE Pool!ReaperCloses
    <2>1. /\ reaper'.at = "pop" /\ reaper'.has = current /\ current \in Sessions
          /\ live' = live \ {current}
      BY <1>7 DEF Pool!ReaperCloses, Pool!Rest
    <2>2. live' = {}
      BY <2>1
    <2> QED BY <1>7, <2>1, <2>2 DEF Pool!ReaperCloses
  <1>8. CASE Pool!ReaperPops
    BY <1>8 DEF Pool!ReaperPops, Pool!Rest
  <1>9. CASE Pool!CloseAll
    <2>1. \A o \in Openers : ~Owns(o)
      BY <1>9 DEF Pool!CloseAll
    <2>2. live' = {} /\ current' = None
      BY <1>9, <2>1 DEF Pool!CloseAll
    <2> QED BY <1>9, <2>1, <2>2 DEF Pool!CloseAll, Pool!Rest
  <1> QED BY <1>1, <1>2, <1>3, <1>4, <1>5, <1>6, <1>7, <1>8, <1>9, OpenerStep
          DEF Pool!Next, Pool!ReaperStep

LEMMA SameCardinality == \A S : Pool!Cardinality(S) = Cardinality(S)
  BY Zenon DEF Pool!Cardinality, Cardinality

LEMMA PoolHolds == PoolInv => Pool!TypeOK /\ Pool!OneEngine
  <1> SUFFICES ASSUME PoolInv PROVE Pool!TypeOK /\ Pool!OneEngine
    OBVIOUS
  <1> DEFINE building == {opener[o].has : o \in {p \in Openers : Pool!Building(p)}}
             only == IF current = None THEN opening ELSE current
  <1>1. Pool!TypeOK
    BY DEF PoolInv, PoolTyped, Pool!TypeOK, Sessions
  <1>2. \A e \in live : e = current \/ \E o \in Openers : Pool!Building(o) /\ opener[o].has = e
    BY DEF PoolInv, Reachable, Pool!Building
  <1>3. \A o \in Openers : Pool!Building(o) => opener[o].has = opening /\ current = None
    BY DEF PoolInv, OneOwner, Owns, Pool!Building
  <1>4. live \cup building \subseteq {only}
    <2>1. \A e \in live : e = only
      BY <1>2, <1>3, SessionsDiffer DEF PoolInv, PoolTyped
    <2>2. \A e \in building : e = only
      BY <1>3
    <2> QED BY <2>1, <2>2
  <1>5. Cardinality(live \cup building) <= 1
    <2> HIDE DEF building, only
    <2>1. IsFiniteSet({only}) /\ Cardinality({only}) = 1
      BY FS_Singleton
    <2>2. /\ IsFiniteSet(live \cup building)
          /\ Cardinality(live \cup building) <= Cardinality({only})
      BY <1>4, <2>1, FS_Subset
    <2> QED BY <2>1, <2>2
  <1> QED BY <1>1, <1>2, <1>5, SameCardinality DEF Pool!OneEngine

-----------------------------------------------------------------------------
(* The event stream.                                                       *)

Chan == [pushed : Seq(Stream!Events), closed : BOOLEAN]
Message == [kind : {"hello"}, gen : Nat, after : Nat, oldest : Nat]
             \cup [kind : {"event"}, seq : Nat] \cup [kind : {"closed"}]

ServerTyped ==
  /\ file \in Seq(Stream!Events) /\ count \in Nat \cup {None}
  /\ eidOf \in Seq(Nat) /\ prior \in Seq(SUBSET Stream!Events) /\ Len(prior) = Len(eidOf)
  /\ pending \in [Writers -> Stream!Events \cup {None}]
  /\ chans \in Seq(Chan) /\ Len(chans) > 0

Pages == [pc : {"boot", "read", "connect", "open", "lost"}, gen : Nat \cup {None},
          resume : Nat, last : Nat, lastId : Nat, shown : Seq(Nat), recent : Seq(Nat),
          maxEid : Nat, gap : BOOLEAN, since : Nat]
PageTyped ==
  page \in Pages /\ page.gen \in 1..Len(chans) \cup {None} /\ Len(page.recent) <= Window

\* A connection is one page's, to one channel: its hello comes first, and the
\* events on the wire are of that channel, which the page knows by then.
WireOf(g) ==
  /\ \A i \in 1..Len(wire) :
       /\ wire[i].kind = "hello" => i = 1 /\ wire[i].gen = g
       /\ wire[i].kind = "event" => wire[i].seq \in 1..Len(chans[g].pushed)
  /\ conn # None => conn.gen = g
  /\ wire = <<>> \/ wire[1].kind # "hello" => page.gen = g

Connected ==
  /\ wire \in Seq(Message) /\ conn \in [gen : 1..Len(chans), cursor : Nat] \cup {None}
  /\ page.pc = "open" => \E g \in 1..Len(chans) : WireOf(g)
  /\ page.pc # "open" => conn = None /\ wire = <<>>

StreamInv == ServerTyped /\ PageTyped /\ Connected

\* A sequence over a set is one over a larger set.
LEMMA SeqsGrow == ASSUME NEW S, NEW T, S \subseteq T PROVE Seq(S) \subseteq Seq(T)
  <1> SUFFICES ASSUME NEW s \in Seq(S) PROVE s \in Seq(T)
    OBVIOUS
  <1> QED BY SMT

\* What the server's own steps do to what the page and its connection rest on.
ChannelsGrow ==
  /\ Len(chans) <= Len(chans')
  /\ \A g \in 1..Len(chans) : Len(chans[g].pushed) <= Len(chans'[g].pushed)
  /\ UNCHANGED <<conn, wire, page>>

LEMMA EidsTyped == ServerTyped => Stream!NextEid \in Nat
  BY DEF ServerTyped, Stream!NextEid

LEMMA RangeTyped == ASSUME NEW S, NEW s \in Seq(S) PROVE Stream!Range(s) \subseteq S
  <1>1. DOMAIN s = 1..Len(s) /\ \A i \in 1..Len(s) : s[i] \in S
    BY LenProperties, ElementOfSeq
  <1> QED BY <1>1 DEF Stream!Range

LEMMA LogStep ==
  ASSUME ServerTyped, NEW w \in Writers, Stream!LogEvent(w)
  PROVE  ServerTyped' /\ ChannelsGrow
  <1> DEFINE n == Len(eidOf) + 1
  <1>1. /\ eidOf' \in Seq(Nat) /\ Len(eidOf') = n /\ n \in Nat /\ count' \in Nat
        /\ Stream!Events = 1..Len(eidOf) /\ Stream!Events' = 1..n
        /\ Stream!Events \subseteq Stream!Events' /\ n \in Stream!Events'
    BY EidsTyped, AppendProperties DEF ServerTyped, Stream!LogEvent, Stream!Events
  <1>2. /\ Seq(Stream!Events) \subseteq Seq(Stream!Events')
        /\ Seq(SUBSET Stream!Events) \subseteq Seq(SUBSET Stream!Events')
    BY <1>1, SeqsGrow
  <1>3. prior' \in Seq(SUBSET Stream!Events') /\ Len(prior') = Len(eidOf')
    <2> DEFINE seen == UNION {Stream!Range(chans[g].pushed) : g \in 1..Stream!Gen}
    <2>1. seen \subseteq Stream!Events
      <3> SUFFICES ASSUME NEW g \in 1..Len(chans) PROVE Stream!Range(chans[g].pushed) \subseteq Stream!Events
        BY DEF Stream!Gen
      <3>1. chans[g].pushed \in Seq(Stream!Events)
        <4>1. chans[g] \in Chan
          BY ElementOfSeq DEF ServerTyped
        <4> QED BY <4>1 DEF Chan
      <3> QED BY <3>1, RangeTyped
    <2>2. prior' = Append(prior, seen)
      BY DEF Stream!LogEvent
    <2>3. prior \in Seq(SUBSET Stream!Events') /\ seen \in SUBSET Stream!Events'
      BY <1>1, <1>2, <2>1 DEF ServerTyped
    <2> HIDE DEF seen
    <2> QED BY <1>1, <2>2, <2>3, AppendProperties DEF ServerTyped
  <1>4. file' \in Seq(Stream!Events') /\ pending' \in [Writers -> Stream!Events' \cup {None}]
    <2>1. file \in Seq(Stream!Events') /\ pending \in [Writers -> Stream!Events' \cup {None}]
      BY <1>1, <1>2 DEF ServerTyped
    <2>2. CASE file' = Append(file, Len(eidOf')) /\ pending' = [pending EXCEPT ![w] = Len(eidOf')]
      BY <1>1, <2>1, <2>2, AppendProperties
    <2>3. CASE UNCHANGED <<file, pending>>
      BY <2>1, <2>3
    <2> QED BY <2>2, <2>3 DEF Stream!LogEvent
  <1>5. UNCHANGED <<chans, conn, wire, page>>
    BY DEF Stream!LogEvent
  <1>6. chans \in Seq([pushed : Seq(Stream!Events'), closed : BOOLEAN])
    <2>1. [pushed : Seq(Stream!Events), closed : BOOLEAN]
            \subseteq [pushed : Seq(Stream!Events'), closed : BOOLEAN]
      BY <1>2
    <2> QED BY <2>1, SeqsGrow DEF ServerTyped, Chan
  <1>7. chans' \in Seq(Chan')
    BY <1>5, <1>6 DEF Chan
  <1>8. ChannelsGrow
    BY <1>5, LenProperties DEF ChannelsGrow, ServerTyped, Chan
  <1> QED BY <1>1, <1>3, <1>4, <1>5, <1>7, <1>8 DEF ServerTyped

\* Another channel of the same events.
LEMMA ChannelsTyped ==
  ASSUME ServerTyped, NEW g \in 1..Len(chans), NEW ch \in Chan,
         Len(chans[g].pushed) <= Len(ch.pushed), chans' = [chans EXCEPT ![g] = ch],
         UNCHANGED <<conn, wire, page>>
  PROVE  /\ chans' \in Seq(Chan) /\ Len(chans') = Len(chans) /\ ChannelsGrow
  <1>1. chans \in Seq(Chan) /\ \A h \in 1..Len(chans) : chans[h] \in Chan
    BY ElementOfSeq DEF ServerTyped
  <1>2. /\ chans' \in Seq(Chan) /\ Len(chans') = Len(chans)
        /\ \A h \in 1..Len(chans) : chans'[h] = IF h = g THEN ch ELSE chans[h]
    BY <1>1, ExceptSeq
  <1>3. \A h \in 1..Len(chans) : Len(chans[h].pushed) \in Nat
    BY <1>1, LenProperties DEF Chan
  <1> QED BY <1>1, <1>2, <1>3, LenProperties DEF ChannelsGrow

LEMMA PushStep ==
  ASSUME ServerTyped, NEW w \in Writers, Stream!Push(w)
  PROVE  ServerTyped' /\ ChannelsGrow
  <1>1. PICK g \in 1..Len(chans) : g = Stream!Gen
    BY LenProperties DEF ServerTyped, Stream!Gen
  <1>2. chans[g] \in Chan /\ pending[w] \in Stream!Events
    BY ElementOfSeq DEF ServerTyped, Stream!Push
  <1>3. PICK ch \in Chan : ch = [chans[g] EXCEPT !.pushed = Append(@, pending[w])]
    BY <1>2, AppendProperties DEF Chan
  <1>4. Len(chans[g].pushed) <= Len(ch.pushed)
    BY <1>2, <1>3, AppendProperties, LenProperties DEF Chan
  <1>5. /\ chans' = [chans EXCEPT ![g] = ch] /\ pending' = [pending EXCEPT ![w] = None]
        /\ UNCHANGED <<file, count, eidOf, prior, conn, wire, page>>
    BY <1>1, <1>3 DEF Stream!Push
  <1>6. chans' \in Seq(Chan) /\ Len(chans') = Len(chans) /\ ChannelsGrow
    BY <1>4, <1>5, ChannelsTyped
  <1>7. Stream!Events' = Stream!Events /\ Chan' = Chan
    BY <1>5 DEF Stream!Events, Chan
  <1>8. pending' \in [Writers -> Stream!Events \cup {None}]
    BY <1>5 DEF ServerTyped
  <1> QED BY <1>5, <1>6, <1>7, <1>8 DEF ServerTyped

LEMMA CloseStep ==
  ASSUME ServerTyped, Stream!CloseSession
  PROVE  ServerTyped' /\ ChannelsGrow
  <1>1. PICK g \in 1..Len(chans) : g = Stream!Gen
    BY LenProperties DEF ServerTyped, Stream!Gen
  <1>2. chans[g] \in Chan
    BY ElementOfSeq DEF ServerTyped
  <1>3. PICK ch \in Chan : ch = [chans[g] EXCEPT !.closed = TRUE]
    BY <1>2 DEF Chan
  <1>4. Len(chans[g].pushed) <= Len(ch.pushed)
    BY <1>2, <1>3, LenProperties DEF Chan
  <1>5. /\ chans' = [chans EXCEPT ![g] = ch]
        /\ UNCHANGED <<file, count, eidOf, prior, pending, conn, wire, page>>
    BY <1>1, <1>3 DEF Stream!CloseSession
  <1>6. chans' \in Seq(Chan) /\ Len(chans') = Len(chans) /\ ChannelsGrow
    BY <1>4, <1>5, ChannelsTyped
  <1>7. Stream!Events' = Stream!Events /\ Chan' = Chan
    BY <1>5 DEF Stream!Events, Chan
  <1> QED BY <1>5, <1>6, <1>7 DEF ServerTyped

LEMMA OpenStep ==
  ASSUME ServerTyped, Stream!OpenSession
  PROVE  ServerTyped' /\ ChannelsGrow
  <1>1. Stream!NewChannel \in Chan
    BY EmptySeq DEF Stream!NewChannel, Chan
  <1>2. /\ chans' = Append(chans, Stream!NewChannel) /\ count' = None
        /\ UNCHANGED <<file, eidOf, prior, pending, conn, wire, page>>
    BY DEF Stream!OpenSession
  <1>3. /\ chans' \in Seq(Chan) /\ Len(chans') = Len(chans) + 1 /\ Len(chans) \in Nat
        /\ \A h \in 1..Len(chans) : chans'[h] = chans[h]
    BY <1>1, <1>2, AppendProperties, LenProperties DEF ServerTyped
  <1>4. \A h \in 1..Len(chans) : Len(chans[h].pushed) \in Nat
    BY ElementOfSeq, LenProperties DEF ServerTyped, Chan
  <1>5. Stream!Events' = Stream!Events /\ Chan' = Chan
    BY <1>2 DEF Stream!Events, Chan
  <1> QED BY <1>2, <1>3, <1>4, <1>5 DEF ServerTyped, ChannelsGrow

\* The page and its connection outlive what the server does.
LEMMA ConnectionStays ==
  ASSUME StreamInv, ServerTyped', ChannelsGrow
  PROVE  PageTyped' /\ Connected'
  <1>1. Len(chans) \in Nat /\ Len(chans') \in Nat /\ Len(chans) <= Len(chans')
    BY LenProperties DEF StreamInv, ServerTyped, ChannelsGrow
  <1>2. 1..Len(chans) \subseteq 1..Len(chans')
    BY <1>1
  <1>3. UNCHANGED <<conn, wire, page>>
    BY DEF ChannelsGrow
  <1>4. PageTyped'
    BY <1>2, <1>3 DEF StreamInv, PageTyped
  <1>5. ASSUME NEW g \in 1..Len(chans), WireOf(g) PROVE g \in 1..Len(chans') /\ WireOf(g)'
    <2>1. Len(chans[g].pushed) \in Nat /\ Len(chans'[g].pushed) \in Nat
      <3>1. chans[g] \in Chan /\ chans'[g] \in Chan'
        BY <1>2, ElementOfSeq DEF StreamInv, ServerTyped
      <3> QED BY <3>1, LenProperties DEF Chan
    <2>2. 1..Len(chans[g].pushed) \subseteq 1..Len(chans'[g].pushed)
      BY <2>1 DEF ChannelsGrow
    <2> QED BY <1>2, <1>3, <1>5, <2>2 DEF WireOf
  <1>6. Message' = Message
    BY DEF Message
  <1>7. conn \in [gen : 1..Len(chans), cursor : Nat] => conn \in [gen : 1..Len(chans'), cursor : Nat]
    BY <1>2
  <1>8. Connected'
    BY <1>3, <1>5, <1>6, <1>7 DEF StreamInv, Connected
  <1> QED BY <1>4, <1>8

\* A batch takes the channel's numbers from behind the cursor to its end.
LEMMA BatchTyped ==
  ASSUME StreamInv, NEW g \in 1..Len(chans), NEW cursor \in Nat
  PROVE  LET batch == Stream!Buffered(chans[g], cursor) IN
         /\ Stream!Cardinality(batch) \in Nat
         /\ Stream!Cardinality(batch) <= Len(chans[g].pushed)
         /\ Len(chans[g].pushed) \in Nat
  <1>1. Len(chans[g].pushed) \in Nat
    BY ElementOfSeq, LenProperties DEF StreamInv, ServerTyped, Chan
  <1> DEFINE n == Len(chans[g].pushed)
             batch == Stream!Buffered(chans[g], cursor)
  <1>2. batch \subseteq 1..n
    BY DEF Stream!Buffered, Stream!LastSeq
  <1>6. n \in Nat
    BY <1>1
  <1> HIDE DEF n, batch
  <1>3. IsFiniteSet(1..n) /\ Cardinality(1..n) = n
    <2>1. /\ IsFiniteSet(1..n)
          /\ Cardinality(1..n) = IF 1 > n THEN 0 ELSE n - 1 + 1
      BY <1>6, FS_Interval
    <2>2. (IF 1 > n THEN 0 ELSE n - 1 + 1) = n
      BY <1>6
    <2> QED BY <2>1, <2>2
  <1>4. IsFiniteSet(batch) /\ Cardinality(batch) <= n /\ Cardinality(batch) \in Nat
    BY <1>2, <1>3, FS_Subset, FS_CardinalityType
  <1>5. Stream!Cardinality(batch) = Cardinality(batch)
    BY Zenon DEF Stream!Cardinality, Cardinality
  <1> QED BY <1>1, <1>4, <1>5 DEF n, batch

LEMMA SendStep ==
  ASSUME StreamInv, Stream!SendBatch
  PROVE  StreamInv'
  <1>1. PICK g \in 1..Len(chans), cursor \in Nat : g = conn.gen /\ cursor = conn.cursor
    BY DEF StreamInv, Connected, Stream!SendBatch
  <1>2. page.pc = "open" /\ WireOf(g) /\ conn # None
    BY <1>1 DEF StreamInv, Connected, WireOf, Stream!SendBatch
  <1>3. UNCHANGED <<file, count, eidOf, prior, pending, chans, failed, page>>
    BY DEF Stream!SendBatch, Stream!server
  <1>4. ServerTyped' /\ PageTyped'
    BY <1>3 DEF StreamInv, ServerTyped, PageTyped, Chan, Stream!Events
  <1> DEFINE n == Len(chans[g].pushed)
             m == Stream!Cardinality(Stream!Buffered(chans[g], cursor))
             events == [i \in 1..m |-> [kind |-> "event", seq |-> n - m + i]]
  <1>5. n \in Nat /\ m \in Nat /\ m <= n
    BY BatchTyped
  <1>6. CASE wire' = wire \o events /\ conn' = [conn EXCEPT !.cursor = n]
    <2>1. \A i \in 1..m : n - m + i \in 1..n
      BY <1>5
    <2> HIDE DEF n, m
    <2>2. events \in Seq(Message) /\ Len(events) = m
      BY <1>5, <2>1 DEF Message
    <2>3. \A i \in 1..m : events[i].kind = "event" /\ events[i].seq \in 1..n
      BY <2>1
    <2>4. wire \in Seq(Message) /\ Len(wire) \in Nat /\ conn \in [gen : 1..Len(chans), cursor : Nat]
      BY <1>2, LenProperties DEF StreamInv, Connected
    <2> HIDE DEF events
    <2>5. /\ wire' \in Seq(Message) /\ Len(wire') = Len(wire) + m
          /\ \A i \in 1..Len(wire) + m : wire'[i] = IF i <= Len(wire) THEN wire[i] ELSE events[i - Len(wire)]
      BY <1>6, <2>2, <2>4, ConcatProperties
    <2>6. conn' \in [gen : 1..Len(chans), cursor : Nat] /\ conn'.gen = g
      BY <1>1, <1>5, <1>6, <2>4
    <2>7. \A i \in 1..Len(wire') : /\ wire'[i].kind = "hello" => i = 1 /\ wire'[i].gen = g
                                   /\ wire'[i].kind = "event" => wire'[i].seq \in 1..n
      <3> TAKE i \in 1..Len(wire')
      <3>1. CASE i <= Len(wire)
        <4>1. i \in 1..Len(wire) /\ wire'[i] = wire[i]
          BY <2>4, <2>5, <3>1
        <4> QED BY <1>2, <4>1 DEF WireOf, n
      <3>2. CASE ~(i <= Len(wire))
        <4>1. i - Len(wire) \in 1..m /\ wire'[i] = events[i - Len(wire)]
          BY <2>4, <2>5, <3>2, <1>5
        <4> QED BY <2>3, <4>1
      <3> QED BY <3>1, <3>2
    <2>8. wire' = <<>> \/ wire'[1].kind # "hello" => page.gen = g
      <3>1. CASE wire = <<>>
        BY <3>1, <1>2 DEF WireOf
      <3>2. CASE wire # <<>>
        <4>1. 1 \in 1..Len(wire) /\ Len(wire') > 0
          BY <2>4, <2>5, <3>2, EmptySeq, <1>5
        <4>2. wire'[1] = wire[1] /\ wire' # <<>>
          BY <2>4, <2>5, <4>1, <1>5
        <4> QED BY <1>2, <3>2, <4>2 DEF WireOf
      <3> QED BY <3>1, <3>2
    <2>9. WireOf(g)'
      BY <1>3, <2>6, <2>7, <2>8 DEF WireOf, n
    <2> QED BY <1>2, <1>3, <1>4, <2>5, <2>6, <2>9 DEF StreamInv, Connected, Message
  <1>7. CASE wire' = Append(wire, [kind |-> "closed"]) /\ conn' = None
    <2>1. [kind |-> "closed"] \in Message
      BY DEF Message
    <2>2. wire \in Seq(Message) /\ Len(wire) \in Nat
      BY LenProperties DEF StreamInv, Connected
    <2>3. /\ wire' \in Seq(Message) /\ Len(wire') = Len(wire) + 1 /\ wire' # <<>>
          /\ \A i \in 1..Len(wire) : wire'[i] = wire[i]
          /\ wire'[Len(wire) + 1] = [kind |-> "closed"]
      BY <1>7, <2>1, <2>2, AppendProperties
    <2>4. \A i \in 1..Len(wire') : i \in 1..Len(wire) \/ i = Len(wire) + 1
      BY <2>2, <2>3
    <2>5. wire = <<>> \/ wire'[1] = wire[1]
      BY <2>2, <2>3, EmptySeq
    <2>6. WireOf(g)'
      <3>1. \A i \in 1..Len(wire') : /\ wire'[i].kind = "hello" => i = 1 /\ wire'[i].gen = g
                                     /\ wire'[i].kind = "event" => wire'[i].seq \in 1..n
        BY <1>2, <2>3, <2>4 DEF WireOf
      <3>2. wire' = <<>> \/ wire'[1].kind # "hello" => page.gen = g
        BY <1>2, <2>3, <2>5 DEF WireOf
      <3> QED BY <1>3, <1>7, <3>1, <3>2 DEF WireOf
    <2> QED BY <1>2, <1>3, <1>4, <1>7, <2>3, <2>6 DEF StreamInv, Connected, Message
  <1> QED BY <1>1, <1>6, <1>7 DEF Stream!SendBatch, Stream!LastSeq

\* The server keeps what it has.
ServerStays == UNCHANGED <<file, count, eidOf, prior, pending, chans>>
LEMMA ServerKept == ServerTyped /\ ServerStays => ServerTyped'
  BY DEF ServerTyped, ServerStays, Chan, Stream!Events

\* A page that has no connection.
LEMMA PageApart ==
  ASSUME StreamInv, ServerStays, page' \in Pages, page'.pc # "open",
         page'.gen \in 1..Len(chans) \cup {None}, Len(page'.recent) <= Window,
         conn' = None, wire' = <<>>
  PROVE  StreamInv'
  <1>1. ServerTyped' /\ UNCHANGED chans
    BY ServerKept DEF StreamInv, ServerStays
  <1>2. PageTyped'
    BY <1>1 DEF PageTyped, Pages
  <1>3. Connected'
    BY EmptySeq DEF Connected, Message
  <1> QED BY <1>1, <1>2, <1>3 DEF StreamInv

LEMMA Recovers ==
  ASSUME StreamInv, ServerStays, page' = [page EXCEPT !.pc = "boot"], conn' = None, wire' = <<>>
  PROVE  StreamInv'
  <1>1. page' \in Pages /\ page'.pc = "boot" /\ page'.gen = page.gen /\ page'.recent = page.recent
    BY DEF StreamInv, PageTyped, Pages
  <1> QED BY <1>1, PageApart DEF StreamInv, PageTyped

\* A page whose request for events the server accepts.
LEMMA Accepted ==
  ASSUME StreamInv, ServerStays, NEW after \in Nat, Stream!Accept(after),
         page' = [page EXCEPT !.pc = "open"]
  PROVE  StreamInv'
  <1>0. ServerTyped /\ Len(chans) \in Nat /\ Len(chans) > 0
    BY LenProperties DEF StreamInv, ServerTyped
  <1>1. PICK g \in 1..Len(chans) : g = Stream!Gen
    BY <1>0 DEF Stream!Gen
  <1>2. Stream!Oldest(chans[g]) \in Nat
    <2>1. chans[g] \in Chan
      BY <1>0, ElementOfSeq DEF ServerTyped
    <2>2. PICK n \in Nat : n = Len(chans[g].pushed)
      BY <2>1, LenProperties DEF Chan
    <2>3. (IF n > BufLen THEN n - BufLen + 1 ELSE 1) \in Nat
      BY BoundsAssumption
    <2> QED BY <2>2, <2>3 DEF Stream!Oldest, Stream!LastSeq
  <1>3. PICK m : m = Stream!Hello(g, after)
    OBVIOUS
  <1>a. m \in Message /\ m.kind = "hello" /\ m.gen = g
    <2>1. g \in Nat
      BY <1>0
    <2> QED BY <1>2, <1>3, <2>1 DEF Stream!Hello, Message
  <1>4. /\ conn' \in [gen : 1..Len(chans), cursor : Nat] /\ conn'.gen = g /\ wire' = <<m>>
    BY <1>1, <1>3 DEF Stream!Accept
  <1>5. wire' \in Seq(Message) /\ Len(wire') = 1 /\ wire'[1] = m /\ wire' # <<>>
    BY <1>4, <1>a
  <1>b. UNCHANGED chans
    BY DEF ServerStays
  <1>6. WireOf(g)'
    BY <1>a, <1>4, <1>5, <1>b DEF WireOf
  <1>7. PageTyped' /\ page'.pc = "open"
    BY <1>b DEF StreamInv, PageTyped, Pages
  <1>c. Message' = Message
    BY DEF Message
  <1>8. Connected'
    BY <1>4, <1>5, <1>6, <1>7, <1>b, <1>c DEF Connected
  <1> QED BY <1>7, <1>8, ServerKept DEF StreamInv

\* The window of eids a page remembers.
LEMMA WindowTyped ==
  ASSUME NEW s \in Seq(Nat)
  PROVE  Stream!LastOf(s, Window) \in Seq(Nat) /\ Len(Stream!LastOf(s, Window)) <= Window
  <1>1. PICK n \in Nat : n = Len(s)
    BY LenProperties
  <1>w. Window \in Nat /\ Window > 0
    BY BoundsAssumption
  <1>m. (IF n > Window THEN n - Window + 1 ELSE 1) \in Nat
    BY <1>w
  <1>2. PICK m \in Nat : m = IF n > Window THEN n - Window + 1 ELSE 1
    BY <1>m
  <1>3. m \in 1..n + 1 /\ n - m + 1 <= Window
    BY <1>w, <1>2
  <1>4. \A i \in m..n : s[i] \in Nat
    BY <1>1, <1>3, ElementOfSeq
  <1>5. /\ SubSeq(s, m, n) \in Seq(Nat)
        /\ Len(SubSeq(s, m, n)) = IF m <= n THEN n - m + 1 ELSE 0
    BY <1>3, <1>4, SubSeqProperties
  <1>6. Stream!LastOf(s, Window) = SubSeq(s, m, n)
    BY <1>1, <1>2 DEF Stream!LastOf
  <1> QED BY <1>w, <1>3, <1>5, <1>6

\* A page that has read the first message of its wire.
LEMMA Receives ==
  ASSUME StreamInv, ServerStays, wire # <<>>, NEW g \in 1..Len(chans), WireOf(g),
         page' \in Pages, page'.pc = "open", page'.gen = g, Len(page'.recent) <= Window,
         wire' = Tail(wire), UNCHANGED conn
  PROVE  StreamInv'
  <1>1. UNCHANGED chans /\ wire \in Seq(Message)
    BY DEF ServerStays, StreamInv, Connected
  <1>2. /\ wire' \in Seq(Message) /\ Len(wire) \in Nat /\ Len(wire') = Len(wire) - 1
        /\ \A i \in 1..Len(wire') : wire'[i] = wire[i + 1]
    BY <1>1, HeadTailProperties, LenProperties
  <1>3. \A i \in 1..Len(wire') : /\ wire'[i].kind # "hello"
                                 /\ wire'[i].kind = "event" => wire'[i].seq \in 1..Len(chans[g].pushed)
    <2> TAKE i \in 1..Len(wire')
    <2>1. i + 1 \in 1..Len(wire) /\ i + 1 # 1 /\ wire'[i] = wire[i + 1]
      BY <1>2
    <2> QED BY <2>1 DEF WireOf
  <1>4. WireOf(g)'
    BY <1>1, <1>3 DEF WireOf
  <1>5. PageTyped'
    BY <1>1 DEF PageTyped, Pages
  <1>6. Message' = Message
    BY DEF Message
  <1>7. Connected'
    BY <1>1, <1>2, <1>4, <1>6 DEF Connected, StreamInv
  <1> QED BY <1>5, <1>7, ServerKept DEF StreamInv

\* What the reducer makes of an event is a page of the same connection.
LEMMA ShownTyped ==
  ASSUME StreamInv, NEW seq \in Nat, NEW e \in Stream!Events
  PROVE  LET next == Stream!Shown(seq, e) IN
         next \in Pages /\ next.pc = page.pc /\ next.gen = page.gen /\ Len(next.recent) <= Window
  <1>1. /\ page \in Pages /\ Len(page.recent) <= Window
        /\ page.shown \in Seq(Nat) /\ page.recent \in Seq(Nat)
    BY DEF StreamInv, PageTyped, Pages
  <1>2. e \in Nat /\ eidOf[e] \in Nat
    BY ElementOfSeq DEF StreamInv, ServerTyped, Stream!Events
  <1>3. PICK noted : noted = [page EXCEPT !.lastId = seq, !.last = IF seq > @ THEN seq ELSE @,
                                          !.gap = @ \/ seq > page.last + 1]
    OBVIOUS
  <1>4. /\ noted \in Pages /\ noted.pc = page.pc /\ noted.gen = page.gen
        /\ noted.recent = page.recent /\ noted.shown = page.shown
    BY <1>1, <1>3 DEF Pages
  <1>5. CASE Stream!IsDuplicate(eidOf[e])
    BY <1>1, <1>3, <1>4, <1>5 DEF Stream!Shown
  <1>6. CASE ~Stream!IsDuplicate(eidOf[e])
    <2>1. Append(page.shown, e) \in Seq(Nat) /\ Append(page.recent, eidOf[e]) \in Seq(Nat)
      BY <1>1, <1>2, AppendProperties
    <2>2. PICK r \in Seq(Nat) : r = Stream!LastOf(Append(page.recent, eidOf[e]), Window) /\ Len(r) <= Window
      BY <2>1, WindowTyped
    <2>3. Stream!Shown(seq, e) = [noted EXCEPT !.shown = Append(page.shown, e), !.recent = r,
                                    !.maxEid = IF eidOf[e] > @ THEN eidOf[e] ELSE @]
      BY <1>3, <1>4, <1>6, <2>2 DEF Stream!Shown
    <2> QED BY <1>2, <1>4, <2>1, <2>2, <2>3 DEF Pages
  <1> QED BY <1>5, <1>6

\* The page's own steps.
LEMMA TakeCursorStep == StreamInv /\ Stream!TakeCursor => StreamInv'
  <1> SUFFICES ASSUME StreamInv, Stream!TakeCursor PROVE StreamInv'
    OBVIOUS
  <1>0. ServerTyped /\ Len(chans) \in Nat /\ Len(chans) > 0
    BY LenProperties DEF StreamInv, ServerTyped
  <1>1. PICK g \in 1..Len(chans) : g = Stream!Gen
    BY <1>0 DEF Stream!Gen
  <1>2. chans[g] \in Chan
    BY <1>0, ElementOfSeq DEF ServerTyped
  <1>3. Stream!LastSeq(chans[g]) \in Nat
    BY <1>2, LenProperties DEF Chan, Stream!LastSeq
  <1>4. PICK q \in 1..Len(chans) \cup {None}, c \in Nat :
          page' = [page EXCEPT !.pc = "read", !.gen = q, !.resume = c]
    BY <1>1, <1>3 DEF Stream!TakeCursor, Stream!Channel
  <1>5. 1..Len(chans) \subseteq Nat
    BY <1>0
  <1>6. /\ page' \in Pages /\ page'.pc # "open" /\ page'.gen \in 1..Len(chans) \cup {None}
        /\ Len(page'.recent) <= Window
    BY <1>4, <1>5 DEF StreamInv, PageTyped, Pages
  <1>7. conn' = None /\ wire' = <<>> /\ ServerStays
    BY DEF Stream!TakeCursor, Stream!server, ServerStays, StreamInv, Connected
  <1> QED BY <1>6, <1>7, PageApart

LEMMA ReadStep == StreamInv /\ Stream!ReadTranscript => StreamInv'
  <1> SUFFICES ASSUME StreamInv, Stream!ReadTranscript PROVE StreamInv'
    OBVIOUS
  <1>1. file \in Seq(Stream!Events) /\ Len(file) \in Nat
    BY LenProperties DEF StreamInv, ServerTyped
  <1>2. file \in Seq(Nat)
    <2>1. Len(eidOf) \in Nat
      BY LenProperties DEF StreamInv, ServerTyped
    <2>2. Stream!Events \subseteq Nat
      BY <2>1 DEF Stream!Events
    <2> QED BY <1>1, <2>2, SeqsGrow
  <1>3. PICK n \in Nat : n = Len(file)
    BY <1>1
  <1>4. [line \in 1..n |-> line] \in Seq(Nat)
    OBVIOUS
  <1>5. PICK r \in Seq(Nat) : r = Stream!LastOf([line \in 1..n |-> line], Window) /\ Len(r) <= Window
    BY <1>4, WindowTyped
  <1>s. PICK since \in Nat : since = Stream!NextSession
    BY LenProperties DEF StreamInv, ServerTyped, Stream!NextSession, Stream!Gen
  <1>6. page' = [page EXCEPT !.pc = "connect", !.last = page.resume, !.lastId = 0,
                   !.shown = file, !.maxEid = n, !.gap = FALSE, !.since = since, !.recent = r]
    BY <1>3, <1>5, <1>s DEF Stream!ReadTranscript
  <1>7. /\ page' \in Pages /\ page'.pc # "open" /\ page'.gen \in 1..Len(chans) \cup {None}
        /\ Len(page'.recent) <= Window
    BY <1>2, <1>5, <1>6, <1>s DEF StreamInv, PageTyped, Pages
  <1>8. conn' = None /\ wire' = <<>> /\ ServerStays
    BY DEF Stream!ReadTranscript, Stream!server, ServerStays, StreamInv, Connected
  <1> QED BY <1>7, <1>8, PageApart

LEMMA ConnectStep == StreamInv /\ Stream!Connect => StreamInv'
  <1> SUFFICES ASSUME StreamInv, Stream!Connect PROVE StreamInv'
    OBVIOUS
  <1>1. ServerStays /\ page.resume \in Nat /\ conn = None /\ wire = <<>>
    BY DEF Stream!Connect, Stream!server, ServerStays, StreamInv, PageTyped, Pages, Connected
  <1>2. CASE page' = Stream!Recover /\ UNCHANGED <<conn, wire>>
    BY <1>1, <1>2, Recovers DEF Stream!Recover
  <1>3. CASE Stream!Accept(page.resume) /\ page' = [page EXCEPT !.pc = "open"]
    BY <1>1, <1>3, Accepted
  <1> QED BY <1>2, <1>3 DEF Stream!Connect

LEMMA RetryStep == StreamInv /\ Stream!Retry => StreamInv'
  <1> SUFFICES ASSUME StreamInv, Stream!Retry PROVE StreamInv'
    OBVIOUS
  <1>1. ServerStays /\ page.resume \in Nat /\ page.lastId \in Nat /\ conn = None /\ wire = <<>>
    BY DEF Stream!Retry, Stream!server, ServerStays, StreamInv, PageTyped, Pages, Connected
  <1>2. PICK after \in Nat : after = IF page.lastId > page.resume THEN page.lastId ELSE page.resume
    BY <1>1
  <1>3. CASE page' = Stream!Recover /\ UNCHANGED <<conn, wire>>
    BY <1>1, <1>3, Recovers DEF Stream!Recover
  <1>4. CASE Stream!Accept(after) /\ page' = [page EXCEPT !.pc = "open"]
    BY <1>1, <1>4, Accepted
  <1> QED BY <1>2, <1>3, <1>4 DEF Stream!Retry

LEMMA HelloStep == StreamInv /\ Stream!ReceiveHello => StreamInv'
  <1> SUFFICES ASSUME StreamInv, Stream!ReceiveHello PROVE StreamInv'
    OBVIOUS
  <1>1. ServerStays /\ page.pc = "open" /\ wire # <<>> /\ Head(wire).kind = "hello"
    BY DEF Stream!ReceiveHello, Stream!server, ServerStays
  <1>2. PICK g \in 1..Len(chans) : WireOf(g)
    BY <1>1 DEF StreamInv, Connected
  <1>3. Head(wire) = wire[1] /\ 1 \in 1..Len(wire)
    BY <1>1, LenProperties, EmptySeq DEF StreamInv, Connected
  <1>4. Head(wire).gen = g
    BY <1>1, <1>2, <1>3 DEF WireOf
  <1>5. CASE page' = Stream!Recover /\ Stream!Disconnect
    BY <1>1, <1>5, Recovers DEF Stream!Recover, Stream!Disconnect
  <1>6. CASE page' = [page EXCEPT !.gen = Head(wire).gen] /\ wire' = Tail(wire) /\ UNCHANGED conn
    <2>1. g \in Nat
      BY LenProperties DEF StreamInv, ServerTyped
    <2>2. page' \in Pages /\ page'.pc = "open" /\ page'.gen = g /\ Len(page'.recent) <= Window
      BY <1>1, <1>4, <1>6, <2>1 DEF StreamInv, PageTyped, Pages
    <2> QED BY <1>1, <1>2, <1>6, <2>2, Receives
  <1> QED BY <1>5, <1>6 DEF Stream!ReceiveHello

LEMMA EventStep == StreamInv /\ Stream!ReceiveEvent => StreamInv'
  <1> SUFFICES ASSUME StreamInv, Stream!ReceiveEvent PROVE StreamInv'
    OBVIOUS
  <1>1. /\ ServerStays /\ page.pc = "open" /\ wire # <<>> /\ Head(wire).kind = "event"
        /\ page' = Stream!Shown(Head(wire).seq, chans[page.gen].pushed[Head(wire).seq])
        /\ wire' = Tail(wire) /\ UNCHANGED conn
    BY DEF Stream!ReceiveEvent, Stream!server, ServerStays
  <1>2. PICK g \in 1..Len(chans) : WireOf(g)
    BY <1>1 DEF StreamInv, Connected
  <1>3. Head(wire) = wire[1] /\ 1 \in 1..Len(wire)
    BY <1>1, LenProperties, EmptySeq DEF StreamInv, Connected
  <1>4. page.gen = g /\ Head(wire).seq \in 1..Len(chans[g].pushed)
    BY <1>1, <1>2, <1>3 DEF WireOf
  <1>5. chans[g].pushed \in Seq(Stream!Events)
    <2>1. chans[g] \in Chan
      BY ElementOfSeq DEF StreamInv, ServerTyped
    <2> QED BY <2>1 DEF Chan
  <1>6. /\ Head(wire).seq \in Nat /\ chans[g].pushed[Head(wire).seq] \in Stream!Events
    BY <1>4, <1>5, ElementOfSeq, LenProperties
  <1>7. page' \in Pages /\ page'.pc = "open" /\ page'.gen = g /\ Len(page'.recent) <= Window
    BY <1>1, <1>4, <1>6, ShownTyped
  <1> QED BY <1>1, <1>2, <1>7, Receives

LEMMA ClosedStep == StreamInv /\ Stream!ReceiveClosed => StreamInv'
  BY Recovers DEF Stream!ReceiveClosed, Stream!Recover, Stream!Disconnect, Stream!server, ServerStays

LEMMA ReconcileStep == StreamInv /\ Stream!Reconcile => StreamInv'
  BY Recovers DEF Stream!Reconcile, Stream!Recover, Stream!Disconnect, Stream!server, ServerStays

LEMMA DropStep == StreamInv /\ Stream!Drop => StreamInv'
  <1> SUFFICES ASSUME StreamInv, Stream!Drop PROVE StreamInv'
    OBVIOUS
  <1>1. page' = [page EXCEPT !.pc = "lost"] /\ conn' = None /\ wire' = <<>> /\ ServerStays
    BY DEF Stream!Drop, Stream!Disconnect, Stream!server, ServerStays
  <1>2. /\ page' \in Pages /\ page'.pc = "lost" /\ page'.gen = page.gen /\ page'.recent = page.recent
    BY <1>1 DEF StreamInv, PageTyped, Pages
  <1> QED BY <1>1, <1>2, PageApart DEF StreamInv, PageTyped

LEMMA StreamInit == Stream!Init => StreamInv
  <1> SUFFICES ASSUME Stream!Init PROVE StreamInv
    OBVIOUS
  <1>1. Stream!NewChannel \in Chan
    BY EmptySeq DEF Stream!NewChannel, Chan
  <1>2. chans \in Seq(Chan) /\ Len(chans) = 1
    BY <1>1 DEF Stream!Init
  <1>3. ServerTyped
    BY <1>2, EmptySeq DEF Stream!Init, ServerTyped
  <1>4. PageTyped
    BY BoundsAssumption, EmptySeq DEF Stream!Init, PageTyped, Pages
  <1>5. Connected
    BY EmptySeq DEF Stream!Init, Connected
  <1> QED BY <1>3, <1>4, <1>5 DEF StreamInv

LEMMA StreamStep == StreamInv /\ Stream!Next => StreamInv'
  <1> SUFFICES ASSUME StreamInv, Stream!Next PROVE StreamInv'
    OBVIOUS
  <1>1. CASE \E w \in Writers : Stream!LogEvent(w) \/ Stream!Push(w)
    BY <1>1, LogStep, PushStep, ConnectionStays DEF StreamInv
  <1>2. CASE Stream!CloseSession \/ Stream!OpenSession
    BY <1>2, CloseStep, OpenStep, ConnectionStays DEF StreamInv
  <1>3. CASE Stream!SendBatch
    BY <1>3, SendStep
  <1>4. CASE Stream!ClientStep \/ Stream!Drop \/ Stream!Reconcile
    BY <1>4, TakeCursorStep, ReadStep, ConnectStep, RetryStep, HelloStep, EventStep, ClosedStep,
       DropStep, ReconcileStep DEF Stream!ClientStep
  <1> QED BY <1>1, <1>2, <1>3, <1>4 DEF Stream!Next

LEMMA StreamStays == StreamInv /\ UNCHANGED Stream!vars => StreamInv'
  BY DEF StreamInv, ServerTyped, PageTyped, Connected, WireOf, Chan, Pages, Message,
         Stream!Events, Stream!vars

LEMMA StreamTyped == StreamInv => Stream!TypeOK
  <1> SUFFICES ASSUME StreamInv PROVE Stream!TypeOK
    OBVIOUS
  <1>1. Stream!Range(file) \subseteq Stream!Events
    BY RangeTyped DEF StreamInv, ServerTyped
  <1>2. \A g \in 1..Len(chans) : chans[g].pushed \in Seq(Stream!Events) /\ chans[g].closed \in BOOLEAN
    <2> TAKE g \in 1..Len(chans)
    <2>1. chans[g] \in Chan
      BY ElementOfSeq DEF StreamInv, ServerTyped
    <2> QED BY <2>1 DEF Chan
  <1> QED BY <1>1, <1>2 DEF StreamInv, ServerTyped, PageTyped, Pages, Connected, Stream!TypeOK, Stream!Gen

-----------------------------------------------------------------------------
(* What the page shows.  The definitions name elements by their places, so  *)
(* that a step is seen to move one element.                                 *)

Newest == Len(chans)
Ends(g) == Len(chans[g].pushed)
At(g, s) == chans[g].pushed[s]

Written(e) == \E i \in 1..Len(file) : file[i] = e
Held(e) == \E w \in Writers : pending[w] = e
Sent(e) == \E g \in 1..Newest : \E s \in 1..Ends(g) : At(g, s) = e
Current(e) == Held(e) \/ \E s \in 1..Ends(Newest) : At(Newest, s) = e

\* An event of the transcript is about to be pushed or was pushed, one writer
\* holds it, and no channel has it twice.
Logs ==
  /\ chans[Newest].closed => \A w \in Writers : pending[w] = None
  /\ \A i \in 1..Len(file) : Held(file[i]) \/ Sent(file[i])
  /\ \A w \in Writers : pending[w] # None => Written(pending[w]) /\ ~Sent(pending[w])
  /\ \A v, w \in Writers : pending[v] # None /\ pending[v] = pending[w] => v = w
  /\ \A g \in 1..Newest : \A s \in 1..Ends(g) : Written(At(g, s))
  /\ \A g \in 1..Newest : \A s, t \in 1..Ends(g) : At(g, s) = At(g, t) => s = t

\* What was pushed before an event was logged is above it in the transcript,
\* and above it in the channel they share.
Causes ==
  /\ \A e \in Stream!Events : e \notin prior[e] /\ \A f \in prior[e] : Sent(f)
  /\ \A j \in 1..Len(file) : \A f \in prior[file[j]] : \E k \in 1..Len(file) : k < j /\ file[k] = f
  /\ \A g \in 1..Newest : \A s, t \in 1..Ends(g) : At(g, t) \in prior[At(g, s)] => t < s

\* The eids of a session's events are distinct, count on from the transcript
\* it found, and are never a window behind what is pushed after them.
Numbers ==
  /\ Len(file) < Stream!NextEid
  /\ \A e \in Stream!Events : Current(e) => eidOf[e] < Stream!NextEid
  /\ \A e, f \in Stream!Events : Current(e) /\ Current(f) /\ eidOf[e] = eidOf[f] => e = f
  /\ \A w \in Writers : pending[w] # None => Stream!NextEid <= eidOf[pending[w]] + Window
  /\ \A s, t \in 1..Ends(Newest) : t < s => eidOf[At(Newest, t)] < eidOf[At(Newest, s)] + Window

\* While no write has failed, an event, its line and its eid are the same.
Plain == failed \in Nat /\ (failed = 0 =>
  /\ Len(file) = Len(eidOf) /\ Stream!NextEid = Len(file) + 1
  /\ \A i \in 1..Len(file) : file[i] = i /\ eidOf[i] = i)

ServerInv == ServerTyped /\ Logs /\ Causes /\ Numbers /\ Plain

-----------------------------------------------------------------------------
\* What the server's steps do, place by place.
LEMMA Places ==
  ASSUME ServerTyped
  PROVE  /\ Newest \in Nat /\ Newest > 0 /\ Newest \in 1..Newest
         /\ \A g \in 1..Newest : /\ chans[g] \in Chan /\ Ends(g) \in Nat
                                 /\ \A s \in 1..Ends(g) : At(g, s) \in Stream!Events
         /\ Len(eidOf) \in Nat /\ Stream!Events = 1..Len(eidOf) /\ Stream!Events \subseteq Nat
         /\ \A e \in Stream!Events : eidOf[e] \in Nat /\ prior[e] \in SUBSET Stream!Events
         /\ Len(file) \in Nat /\ \A i \in 1..Len(file) : file[i] \in Stream!Events
         /\ \A w \in Writers : pending[w] \in Stream!Events \cup {None}
         /\ Stream!NextEid \in Nat /\ None \notin Nat
  <1>1. Newest \in Nat /\ Newest > 0 /\ Newest \in 1..Newest
    BY LenProperties DEF ServerTyped, Newest
  <1>2. \A g \in 1..Newest : /\ chans[g] \in Chan /\ Ends(g) \in Nat
                             /\ \A s \in 1..Ends(g) : At(g, s) \in Stream!Events
    <2> TAKE g \in 1..Newest
    <2>1. chans[g] \in Chan
      BY ElementOfSeq DEF ServerTyped, Newest
    <2>2. chans[g].pushed \in Seq(Stream!Events)
      BY <2>1 DEF Chan
    <2> QED BY <2>1, <2>2, ElementOfSeq, LenProperties DEF Ends, At
  <1>3. Len(eidOf) \in Nat /\ Stream!Events = 1..Len(eidOf) /\ Stream!Events \subseteq Nat
    BY LenProperties DEF ServerTyped, Stream!Events
  <1>4. \A e \in Stream!Events : eidOf[e] \in Nat /\ prior[e] \in SUBSET Stream!Events
    BY <1>3, ElementOfSeq DEF ServerTyped
  <1>5. Len(file) \in Nat /\ \A i \in 1..Len(file) : file[i] \in Stream!Events
    BY LenProperties, ElementOfSeq DEF ServerTyped
  <1>6. \A w \in Writers : pending[w] \in Stream!Events \cup {None}
    BY DEF ServerTyped
  <1> QED BY <1>1, <1>2, <1>3, <1>4, <1>5, <1>6, EidsTyped, NoneAssumption

Logging(w, n) ==
  /\ pending[w] = None /\ ~chans[Newest].closed
  /\ n = Len(eidOf) + 1 /\ n = Len(eidOf') /\ Stream!Events' = Stream!Events \cup {n}
  /\ \A e \in Stream!Events : eidOf'[e] = eidOf[e] /\ prior'[e] = prior[e]
  /\ eidOf'[n] = Stream!NextEid /\ Stream!NextEid' = Stream!NextEid + 1
  /\ \A f : f \in prior'[n] <=> Sent(f)
  /\ \A v \in Writers : pending[v] # None => Stream!NextEid < eidOf[pending[v]] + Window
  /\ \/ /\ Len(file') = Len(file) + 1 /\ file'[Len(file) + 1] = n
        /\ \A i \in 1..Len(file) : file'[i] = file[i]
        /\ pending' = [pending EXCEPT ![w] = n] /\ UNCHANGED failed
     \/ UNCHANGED <<file, pending>> /\ failed' = failed + 1
  /\ UNCHANGED <<chans, conn, wire, page>>

LEMMA LogPlaces ==
  ASSUME ServerTyped, NEW w \in Writers, Stream!LogEvent(w)
  PROVE  \E n \in Nat : Logging(w, n)
  <1>1. PICK n \in Nat : n = Len(eidOf) + 1
    BY Places
  <1>2. /\ Len(eidOf') = n /\ eidOf'[n] = Stream!NextEid
        /\ \A e \in 1..Len(eidOf) : eidOf'[e] = eidOf[e]
    BY <1>1, EidsTyped, AppendProperties DEF ServerTyped, Stream!LogEvent
  <1>3. Stream!Events' = Stream!Events \cup {n}
    <2>1. 1..n = 1..Len(eidOf) \cup {n}
      BY <1>1, Places
    <2> QED BY <1>2, <2>1 DEF Stream!Events
  <1>4. Stream!NextEid' = Stream!NextEid + 1
    BY EidsTyped, NoneAssumption DEF Stream!LogEvent, Stream!NextEid
  <1> DEFINE seen == UNION {Stream!Range(chans[g].pushed) : g \in 1..Stream!Gen}
  <1>5. \A f : f \in seen <=> Sent(f)
    <2> TAKE f
    <2>1. \A g \in 1..Newest : f \in Stream!Range(chans[g].pushed) <=> \E s \in 1..Ends(g) : At(g, s) = f
      <3> TAKE g \in 1..Newest
      <3>1. DOMAIN chans[g].pushed = 1..Ends(g)
        BY Places, LenProperties DEF Chan, Ends
      <3> QED BY <3>1 DEF Stream!Range, At
    <2> QED BY <2>1 DEF Sent, Stream!Gen, Newest
  <1>6. prior'[n] = seen /\ \A e \in 1..Len(eidOf) : prior'[e] = prior[e]
    <2>1. prior' = Append(prior, seen) /\ Len(prior) = Len(eidOf)
      BY DEF Stream!LogEvent, ServerTyped
    <2>2. prior \in Seq(SUBSET Stream!Events) /\ seen \in SUBSET Stream!Events
      <3>1. \A f : Sent(f) => f \in Stream!Events
        BY Places DEF Sent
      <3> QED BY <1>5, <3>1 DEF ServerTyped
    <2> HIDE DEF seen
    <2> QED BY <1>1, <2>1, <2>2, AppendProperties
  <1>7. \/ /\ Len(file') = Len(file) + 1 /\ file'[Len(file) + 1] = n
           /\ \A i \in 1..Len(file) : file'[i] = file[i]
           /\ pending' = [pending EXCEPT ![w] = n] /\ UNCHANGED failed
        \/ UNCHANGED <<file, pending>> /\ failed' = failed + 1
    <2>1. CASE /\ file' = Append(file, Len(eidOf')) /\ pending' = [pending EXCEPT ![w] = Len(eidOf')]
               /\ UNCHANGED failed
      <3>1. file \in Seq(Nat)
        BY Places, SeqsGrow DEF ServerTyped
      <3> QED BY <1>2, <2>1, <3>1, AppendProperties
    <2>2. CASE UNCHANGED <<file, pending>> /\ failed' = failed + 1
      BY <2>2
    <2> QED BY <2>1, <2>2 DEF Stream!LogEvent
  <1>8. \A v \in Writers : pending[v] # None => Stream!NextEid < eidOf[pending[v]] + Window
    <2> SUFFICES ASSUME NEW v \in Writers, pending[v] # None
                 PROVE Stream!NextEid < eidOf[pending[v]] + Window
      OBVIOUS
    <2>1. eidOf[pending[v]] \in Nat /\ Stream!NextEid \in Nat /\ Window \in Nat
      BY Places, BoundsAssumption
    <2>2. Stream!NextEid - eidOf[pending[v]] < Window
      BY DEF Stream!LogEvent, Stream!KeepsUp
    <2> QED BY <2>1, <2>2
  <1>9. /\ pending[w] = None /\ ~chans[Newest].closed
        /\ UNCHANGED <<chans, conn, wire, page>>
    BY DEF Stream!LogEvent, Stream!Channel, Stream!Gen, Newest
  <1> HIDE DEF seen
  <1> QED BY <1>1, <1>2, <1>3, <1>4, <1>5, <1>6, <1>7, <1>8, <1>9 DEF Logging, Stream!Events

Pushing(w, n) ==
  /\ pending[w] \in Stream!Events /\ pending' = [pending EXCEPT ![w] = None]
  /\ Newest' = Newest /\ n = Ends(Newest) + 1 /\ n = Ends(Newest)'
  /\ \A g \in 1..Newest : g = Newest => Ends(g)' = n /\ At(g, n)' = pending[w]
  /\ \A g \in 1..Newest : chans'[g].closed = chans[g].closed
  /\ \A g \in 1..Newest : g # Newest => Ends(g)' = Ends(g)
  /\ \A g \in 1..Newest : \A s \in 1..Ends(g) : At(g, s)' = At(g, s)
  /\ Stream!NextEid' = Stream!NextEid /\ Stream!Events' = Stream!Events
  /\ UNCHANGED <<file, eidOf, prior, failed, conn, wire, page>>

LEMMA PushPlaces ==
  ASSUME ServerTyped, NEW w \in Writers, Stream!Push(w)
  PROVE  \E n \in Nat : Pushing(w, n)
  <1>1. /\ Newest \in 1..Newest /\ chans[Newest] \in Chan /\ pending[w] \in Stream!Events
    BY Places DEF Stream!Push
  <1>2. PICK p \in Seq(Stream!Events) : p = chans[Newest].pushed
    BY <1>1 DEF Chan
  <1>3. PICK n \in Nat : n = Len(p) + 1
    BY <1>2, LenProperties
  <1>4. /\ Append(p, pending[w]) \in Seq(Stream!Events) /\ Len(Append(p, pending[w])) = n
        /\ Append(p, pending[w])[n] = pending[w]
        /\ \A s \in 1..Len(p) : Append(p, pending[w])[s] = p[s]
    BY <1>1, <1>2, <1>3, AppendProperties
  <1>5. PICK q \in Seq(Stream!Events) : q = Append(p, pending[w])
    BY <1>4
  <1>6. PICK ch : ch = [chans[Newest] EXCEPT !.pushed = q]
    OBVIOUS
  <1>7. ch.pushed = q /\ ch.closed = chans[Newest].closed
    BY <1>1, <1>6 DEF Chan
  <1>8. chans' = [chans EXCEPT ![Newest] = ch]
    BY <1>2, <1>5, <1>6 DEF Stream!Push, Stream!Gen, Newest
  <1>9. /\ Len(chans') = Len(chans)
        /\ \A g \in 1..Newest : chans'[g] = IF g = Newest THEN ch ELSE chans[g]
    BY <1>1, <1>8, LenProperties DEF ServerTyped, Newest
  <1>10. /\ UNCHANGED <<file, count, eidOf, prior, failed, conn, wire, page>>
         /\ pending' = [pending EXCEPT ![w] = None]
    BY DEF Stream!Push
  <1>11. Stream!NextEid' = Stream!NextEid /\ Stream!Events' = Stream!Events
    BY <1>10 DEF Stream!NextEid, Stream!Events
  <1>12. Newest' = Newest
    BY <1>9 DEF Newest
  <1>13. \A g \in 1..Newest : chans'[g].closed = chans[g].closed
    BY <1>7, <1>9
  <1>14. /\ n = Ends(Newest) + 1 /\ n = Ends(Newest)'
         /\ \A g \in 1..Newest : g = Newest => Ends(g)' = n /\ At(g, n)' = pending[w]
    BY <1>1, <1>2, <1>3, <1>4, <1>5, <1>7, <1>9, <1>12 DEF Ends, At
  <1>15. /\ \A g \in 1..Newest : g # Newest => Ends(g)' = Ends(g)
         /\ \A g \in 1..Newest : \A s \in 1..Ends(g) : At(g, s)' = At(g, s)
    BY <1>2, <1>4, <1>5, <1>7, <1>9 DEF Ends, At
  <1> QED BY <1>1, <1>10, <1>11, <1>12, <1>13, <1>14, <1>15 DEF Pushing

Closing ==
  /\ ~chans[Newest].closed /\ \A w \in Writers : pending[w] = None
  /\ Newest' = Newest /\ \A g \in 1..Newest : chans'[g].pushed = chans[g].pushed
  /\ Stream!NextEid' = Stream!NextEid
  /\ UNCHANGED <<file, eidOf, prior, pending, failed, conn, wire, page>>

LEMMA ClosePlaces ==
  ASSUME ServerTyped, Stream!CloseSession
  PROVE  Closing
  <1>1. Newest \in 1..Newest /\ chans[Newest] \in Chan
    BY Places
  <1>2. PICK ch : ch = [chans[Newest] EXCEPT !.closed = TRUE]
    OBVIOUS
  <1>3. ch.pushed = chans[Newest].pushed
    BY <1>1, <1>2 DEF Chan
  <1>4. /\ chans' = [chans EXCEPT ![Newest] = ch]
        /\ ~chans[Newest].closed /\ \A w \in Writers : pending[w] = None
        /\ UNCHANGED <<file, count, eidOf, prior, pending, failed, conn, wire, page>>
    BY <1>2 DEF Stream!CloseSession, Stream!Gen, Stream!Channel, Newest
  <1>5. Len(chans') = Len(chans) /\ \A g \in 1..Newest : chans'[g] = IF g = Newest THEN ch ELSE chans[g]
    BY <1>1, <1>4, LenProperties DEF ServerTyped, Newest
  <1>6. Stream!NextEid' = Stream!NextEid
    BY <1>4 DEF Stream!NextEid
  <1>7. Newest' = Newest
    BY <1>5 DEF Newest
  <1>8. \A g \in 1..Newest : chans'[g].pushed = chans[g].pushed
    BY <1>3, <1>5
  <1> QED BY <1>4, <1>6, <1>7, <1>8 DEF Closing

Opening ==
  /\ chans[Newest].closed
  /\ Newest' = Newest + 1 /\ \A g \in 1..Newest : chans'[g] = chans[g]
  /\ chans'[Newest + 1].pushed = <<>> /\ ~chans'[Newest + 1].closed
  /\ Stream!NextEid' = Len(file) + 1
  /\ UNCHANGED <<file, eidOf, prior, pending, failed, conn, wire, page>>

LEMMA OpenPlaces ==
  ASSUME ServerTyped, Stream!OpenSession
  PROVE  Opening
  <1>1. PICK ch : ch = Stream!NewChannel
    OBVIOUS
  <1>2. ch \in Chan /\ ch.pushed = <<>> /\ ~ch.closed
    BY <1>1, EmptySeq DEF Stream!NewChannel, Chan
  <1>3. /\ chans' = Append(chans, ch) /\ count' = None /\ chans[Newest].closed
        /\ UNCHANGED <<file, eidOf, prior, pending, failed, conn, wire, page>>
    BY <1>1 DEF Stream!OpenSession, Stream!Channel, Stream!Gen, Newest
  <1>4. /\ Len(chans') = Len(chans) + 1 /\ chans'[Len(chans) + 1] = ch
        /\ \A g \in 1..Len(chans) : chans'[g] = chans[g]
    BY <1>2, <1>3, AppendProperties DEF ServerTyped
  <1>5. Stream!NextEid' = Len(file) + 1
    BY <1>3 DEF Stream!NextEid
  <1> QED BY <1>2, <1>3, <1>4, <1>5 DEF Opening, Newest

ServerKeeps == UNCHANGED <<file, count, eidOf, prior, pending, chans, failed>>

-----------------------------------------------------------------------------
LEMMA ServerInit == Stream!Init => ServerInv
  <1> SUFFICES ASSUME Stream!Init PROVE ServerInv
    OBVIOUS
  <1>1. ServerTyped
    BY StreamInit DEF StreamInv
  <1>2. /\ file = <<>> /\ Newest = 1 /\ chans[1].pushed = <<>> /\ ~chans[1].closed /\ eidOf = <<>>
        /\ Stream!NextEid = 1 /\ Len(file) = 0 /\ Ends(1) = 0 /\ Len(eidOf) = 0
    BY DEF Stream!Init, Stream!NewChannel, Newest, Stream!NextEid, Ends
  <1>3. pending = [w \in Writers |-> None]
    BY DEF Stream!Init
  <1>4. Stream!Events = {}
    BY <1>2 DEF Stream!Events
  <1>5. Logs
    BY <1>2, <1>3 DEF Logs
  <1>6. Causes
    BY <1>2, <1>4 DEF Causes
  <1>7. Numbers
    BY <1>2, <1>3, <1>4 DEF Numbers
  <1>8. Plain
    BY <1>2 DEF Plain, Stream!Init
  <1> QED BY <1>1, <1>5, <1>6, <1>7, <1>8 DEF ServerInv

LEMMA LogKeeps ==
  ASSUME ServerInv, NEW w \in Writers, NEW n \in Nat, Logging(w, n)
  PROVE  Logs' /\ Causes' /\ Numbers' /\ Plain'
  <1>1. ServerTyped /\ Logs /\ Causes /\ Numbers /\ Plain
    BY DEF ServerInv
  <1>p. /\ Newest \in Nat /\ Newest > 0 /\ Newest \in 1..Newest
        /\ \A g \in 1..Newest : Ends(g) \in Nat /\ \A s \in 1..Ends(g) : At(g, s) \in Stream!Events
        /\ Len(eidOf) \in Nat /\ Stream!Events = 1..Len(eidOf) /\ Stream!Events \subseteq Nat
        /\ \A e \in Stream!Events : eidOf[e] \in Nat /\ prior[e] \in SUBSET Stream!Events
        /\ Len(file) \in Nat /\ \A i \in 1..Len(file) : file[i] \in Stream!Events
        /\ \A v \in Writers : pending[v] \in Stream!Events \cup {None}
        /\ Stream!NextEid \in Nat /\ None \notin Nat
    BY <1>1, Places
  <1>l. /\ pending[w] = None /\ ~chans[Newest].closed
        /\ n = Len(eidOf) + 1 /\ n = Len(eidOf') /\ Stream!Events' = Stream!Events \cup {n}
        /\ \A e \in Stream!Events : eidOf'[e] = eidOf[e] /\ prior'[e] = prior[e]
        /\ eidOf'[n] = Stream!NextEid /\ Stream!NextEid' = Stream!NextEid + 1
        /\ \A f : f \in prior'[n] <=> Sent(f)
        /\ \A v \in Writers : pending[v] # None => Stream!NextEid < eidOf[pending[v]] + Window
        /\ UNCHANGED <<chans, conn, wire, page>>
    BY DEF Logging
  <1>n. n \notin Stream!Events /\ n # None
    BY <1>p, <1>l
  <1>c. /\ Newest' = Newest
        /\ \A g : Ends(g)' = Ends(g) /\ \A s : At(g, s)' = At(g, s)
        /\ \A f : Sent(f)' <=> Sent(f)
    BY <1>l DEF Newest, Ends, At, Sent
  <1>e. /\ \A e \in Stream!Events : eidOf'[e] = eidOf[e] /\ eidOf[e] \in Nat /\ e # n
        /\ eidOf'[n] = Stream!NextEid /\ Stream!NextEid' = Stream!NextEid + 1
        /\ Stream!NextEid \in Nat /\ Stream!Events' = Stream!Events \cup {n}
    BY <1>p, <1>l, <1>n
  <1>s. \A f : Sent(f) => f \in Stream!Events /\ Written(f)
    <2> SUFFICES ASSUME NEW f, Sent(f) PROVE f \in Stream!Events /\ Written(f)
      OBVIOUS
    <2>1. PICK g \in 1..Newest : \E s \in 1..Ends(g) : At(g, s) = f
      BY DEF Sent
    <2>2. PICK s \in 1..Ends(g) : At(g, s) = f
      BY <2>1
    <2> QED BY <1>1, <1>p, <2>2 DEF Logs
  <1>a. CASE /\ Len(file') = Len(file) + 1 /\ file'[Len(file) + 1] = n
             /\ \A i \in 1..Len(file) : file'[i] = file[i]
             /\ pending' = [pending EXCEPT ![w] = n] /\ UNCHANGED failed
    <2>1. /\ pending'[w] = n /\ \A v \in Writers : v # w => pending'[v] = pending[v]
      BY <1>a, <1>1 DEF ServerTyped
    <2>2. \A e : Held(e)' <=> e = n \/ (e # None /\ Held(e)) \/ (e = None /\ Held(e)')
      BY <2>1, <1>l, <1>n DEF Held
    <2>3. \A e : Written(e)' <=> Written(e) \/ e = n
      <3>1. \A i \in 1..Len(file') : i \in 1..Len(file) \/ i = Len(file) + 1
        BY <1>a, <1>p
      <3>2. \A i \in 1..Len(file) : i \in 1..Len(file')
        BY <1>a, <1>p
      <3>3. Len(file) + 1 \in 1..Len(file')
        BY <1>a, <1>p
      <3> QED BY <1>a, <3>1, <3>2, <3>3 DEF Written
    <2>4. Logs'
      <3>1. (chans[Newest].closed)' = FALSE
        BY <1>l, <1>c, <1>1, <1>p, Places DEF Chan
      <3>2. \A i \in 1..Len(file') : \A e : e = file'[i] => Held(e)' \/ Sent(e)'
        <4> SUFFICES ASSUME NEW i \in 1..Len(file'), NEW e, e = file'[i] PROVE Held(e)' \/ Sent(e)'
          OBVIOUS
        <4>1. CASE i = Len(file) + 1
          BY <4>1, <1>a, <2>2
        <4>2. CASE i \in 1..Len(file)
          BY <4>2, <1>a, <2>2, <1>c, <1>p, <1>1 DEF Logs
        <4> QED BY <4>1, <4>2, <1>a, <1>p
      <3>3. \A v \in Writers : \A e : e = pending'[v] /\ e # None => Written(e)' /\ ~Sent(e)'
        BY <2>1, <2>3, <1>c, <1>s, <1>n, <1>1 DEF Logs
      <3>4. \A u, v \in Writers : pending'[u] # None /\ pending'[u] = pending'[v] => u = v
        BY <2>1, <1>n, <1>p, <1>1 DEF Logs
      <3>5. /\ \A g \in 1..Newest : \A s \in 1..Ends(g) : Written(At(g, s))'
            /\ \A g \in 1..Newest : \A s, t \in 1..Ends(g) : At(g, s) = At(g, t) => s = t
        BY <2>3, <1>c, <1>1 DEF Logs
      <3> QED BY <3>1, <3>2, <3>3, <3>4, <3>5, <1>c DEF Logs
    <2>5. \A j \in 1..Len(file') : \A f \in prior'[file'[j]] :
            \E k \in 1..Len(file') : k < j /\ file'[k] = f
      <3> TAKE j \in 1..Len(file')
      <3>1. CASE j = Len(file) + 1
        <4> SUFFICES ASSUME NEW f \in prior'[n]
                     PROVE \E k \in 1..Len(file') : k < j /\ file'[k] = f
          BY <3>1, <1>a
        <4>1. PICK k \in 1..Len(file) : file[k] = f
          BY <1>l, <1>s DEF Written
        <4>2. k \in 1..Len(file') /\ k < j /\ file'[k] = f
          BY <4>1, <3>1, <1>a, <1>p
        <4> QED BY <4>2
      <3>2. CASE j \in 1..Len(file)
        <4>1. prior'[file'[j]] = prior[file[j]]
          BY <3>2, <1>a, <1>l, <1>p
        <4>2. \A f \in prior[file[j]] : \E k \in 1..Len(file) : k < j /\ file[k] = f
          BY <3>2, <1>1 DEF Causes
        <4>3. \A k \in 1..Len(file) : k \in 1..Len(file') /\ file'[k] = file[k]
          BY <1>a, <1>p
        <4> QED BY <4>1, <4>2, <4>3
      <3> QED BY <3>1, <3>2, <1>a, <1>p
    <2>6. /\ \A e \in Stream!Events' : e \notin prior'[e] /\ \A f \in prior'[e] : Sent(f)'
          /\ \A g \in 1..Newest : \A s, t \in 1..Ends(g) : At(g, t) \in prior'[At(g, s)] => t < s
      BY <1>c, <1>l, <1>n, <1>s, <1>p, <1>1 DEF Causes
    <2>7. Causes'
      BY <2>5, <2>6, <1>c DEF Causes
    <2>8. \A e \in Stream!Events' : Current(e)' => e = n \/ (e \in Stream!Events /\ Current(e))
      BY <2>2, <1>c, <1>l, <1>p, <1>n DEF Current
    <2>9. Numbers'
      <3>1. Len(file') < Stream!NextEid'
        BY <1>a, <1>l, <1>p, <1>1 DEF Numbers
      <3>2. \A e \in Stream!Events' : Current(e)' => eidOf'[e] < Stream!NextEid'
        BY <2>8, <1>e, <1>1 DEF Numbers
      <3>3. \A e, f \in Stream!Events' : Current(e)' /\ Current(f)' /\ eidOf'[e] = eidOf'[f] => e = f
        BY <2>8, <1>e, <1>1 DEF Numbers
      <3>4. \A v \in Writers : pending'[v] # None => Stream!NextEid' <= eidOf'[pending'[v]] + Window
        <4> TAKE v \in Writers
        <4>1. CASE v = w
          BY <4>1, <2>1, <1>l, <1>p, BoundsAssumption
        <4>2. CASE v # w /\ pending[v] # None
          <5>1. pending[v] \in Stream!Events /\ pending'[v] = pending[v]
            BY <4>2, <2>1, <1>p
          <5>2. eidOf'[pending[v]] = eidOf[pending[v]] /\ eidOf[pending[v]] \in Nat
            BY <5>1, <1>l, <1>p
          <5> QED BY <4>2, <5>1, <5>2, <1>l, <1>p, BoundsAssumption
        <4> QED BY <4>1, <4>2, <2>1
      <3>5. \A s, t \in 1..Ends(Newest) :
              t < s => eidOf'[At(Newest, t)] < eidOf'[At(Newest, s)] + Window
        BY <1>l, <1>p, <1>1 DEF Numbers
      <3> QED BY <3>1, <3>2, <3>3, <3>4, <3>5, <1>c DEF Numbers
    <2>10. Plain'
      <3>f. failed' \in Nat
        BY <1>a, <1>1 DEF Plain
      <3> SUFFICES ASSUME failed' = 0
                   PROVE  /\ Len(file') = Len(eidOf') /\ Stream!NextEid' = Len(file') + 1
                          /\ \A i \in 1..Len(file') : file'[i] = i /\ eidOf'[i] = i
        BY <3>f DEF Plain
      <3>1. /\ Len(file) = Len(eidOf) /\ Stream!NextEid = Len(file) + 1
            /\ \A i \in 1..Len(file) : file[i] = i /\ eidOf[i] = i
        BY <1>a, <1>1 DEF Plain
      <3>2. Len(file') = n /\ Stream!NextEid' = n + 1 /\ n = Len(file) + 1
        BY <3>1, <1>a, <1>l, <1>p
      <3>3. ASSUME NEW i \in 1..n PROVE file'[i] = i /\ eidOf'[i] = i
        <4>1. CASE i = n
          BY <4>1, <3>1, <3>2, <1>a, <1>l
        <4>2. CASE i # n
          <5>1. i \in 1..Len(file) /\ i \in Stream!Events
            BY <4>2, <3>1, <3>2, <1>p
          <5> QED BY <5>1, <3>1, <1>a, <1>l
        <4> QED BY <4>1, <4>2
      <3> QED BY <3>2, <3>3, <1>l
    <2> QED BY <2>4, <2>7, <2>9, <2>10
  <1>b. CASE UNCHANGED <<file, pending>> /\ failed' = failed + 1
    <2>2. \A e : (Held(e)' <=> Held(e)) /\ (Written(e)' <=> Written(e))
      BY <1>b DEF Held, Written
    <2>4. Logs'
      BY <1>b, <2>2, <1>c, <1>l, <1>1 DEF Logs
    <2>5. \A j \in 1..Len(file) : prior'[file[j]] = prior[file[j]]
      BY <1>l, <1>p
    <2>6. /\ \A e \in Stream!Events' : e \notin prior'[e] /\ \A f \in prior'[e] : Sent(f)'
          /\ \A g \in 1..Newest : \A s, t \in 1..Ends(g) : At(g, t) \in prior'[At(g, s)] => t < s
      BY <1>c, <1>l, <1>n, <1>s, <1>p, <1>1 DEF Causes
    <2>a. \A j \in 1..Len(file') : \A f \in prior'[file'[j]] :
            \E k \in 1..Len(file') : k < j /\ file'[k] = f
      <3>1. file' = file
        BY <1>b
      <3>2. \A j \in 1..Len(file) : \A f \in prior[file[j]] :
              \E k \in 1..Len(file) : k < j /\ file[k] = f
        BY <1>1 DEF Causes
      <3> QED BY <2>5, <3>1, <3>2
    <2>7. Causes'
      BY <2>a, <2>6, <1>c DEF Causes
    <2>8. \A e \in Stream!Events' : Current(e)' => e \in Stream!Events /\ Current(e)
      <3>1. ~Held(n)
        BY <1>n, <1>p DEF Held
      <3> QED BY <3>1, <2>2, <1>c, <1>l, <1>p, <1>n DEF Current
    <2>9. Numbers'
      <3>2. \A e \in Stream!Events' : Current(e)' => eidOf'[e] < Stream!NextEid'
        BY <2>8, <1>e, <1>1 DEF Numbers
      <3>3. \A e, f \in Stream!Events' : Current(e)' /\ Current(f)' /\ eidOf'[e] = eidOf'[f] => e = f
        BY <2>8, <1>e, <1>1 DEF Numbers
      <3>4. \A v \in Writers : pending'[v] # None => Stream!NextEid' <= eidOf'[pending'[v]] + Window
        <4> SUFFICES ASSUME NEW v \in Writers, pending[v] # None
                     PROVE  Stream!NextEid' <= eidOf'[pending[v]] + Window
          BY <1>b
        <4>1. pending[v] \in Stream!Events
          BY <1>p
        <4>2. Stream!NextEid < eidOf[pending[v]] + Window
          BY <1>l
        <4> QED BY <4>1, <4>2, <1>e, BoundsAssumption
      <3>5. \A s, t \in 1..Ends(Newest) :
              t < s => eidOf'[At(Newest, t)] < eidOf'[At(Newest, s)] + Window
        BY <1>l, <1>p, <1>1 DEF Numbers
      <3>1. Len(file') < Stream!NextEid'
        BY <1>b, <1>l, <1>p, <1>1 DEF Numbers
      <3> QED BY <3>1, <3>2, <3>3, <3>4, <3>5, <1>c DEF Numbers
    <2>10. Plain'
      <3>1. failed' # 0 /\ failed' \in Nat
        BY <1>b, <1>1 DEF Plain
      <3> QED BY <3>1 DEF Plain
    <2> QED BY <2>4, <2>7, <2>9, <2>10
  <1> QED BY <1>a, <1>b DEF Logging

LEMMA PushKeeps ==
  ASSUME ServerInv, NEW w \in Writers, NEW n \in Nat, Pushing(w, n)
  PROVE  Logs' /\ Causes' /\ Numbers' /\ Plain'
  <1>1. ServerTyped /\ Logs /\ Causes /\ Numbers /\ Plain
    BY DEF ServerInv
  <1>p. /\ Newest \in Nat /\ Newest > 0 /\ Newest \in 1..Newest
        /\ \A g \in 1..Newest : Ends(g) \in Nat /\ \A s \in 1..Ends(g) : At(g, s) \in Stream!Events
        /\ Stream!Events \subseteq Nat
        /\ \A e \in Stream!Events : eidOf[e] \in Nat
        /\ \A i \in 1..Len(file) : file[i] \in Stream!Events
        /\ \A v \in Writers : pending[v] \in Stream!Events \cup {None}
        /\ Stream!NextEid \in Nat /\ None \notin Nat
    BY <1>1, Places
  <1>e. PICK e \in Stream!Events : e = pending[w] /\ e # None
    BY <1>p DEF Pushing
  <1>2. /\ pending'[w] = None /\ \A v \in Writers : v # w => pending'[v] = pending[v]
    BY <1>1 DEF Pushing, ServerTyped
  <1>3. /\ Newest' = Newest /\ n = Ends(Newest) + 1 /\ n = Ends(Newest)'
        /\ \A g \in 1..Newest : g = Newest => Ends(g)' = n /\ At(g, n)' = e
        /\ \A g \in 1..Newest : chans'[g].closed = chans[g].closed
        /\ \A g \in 1..Newest : g # Newest => Ends(g)' = Ends(g)
        /\ \A g \in 1..Newest : \A s \in 1..Ends(g) : At(g, s)' = At(g, s)
        /\ Stream!NextEid' = Stream!NextEid /\ Stream!Events' = Stream!Events
        /\ UNCHANGED <<file, eidOf, prior, failed, conn, wire, page>>
    BY <1>e DEF Pushing
  <1>r. \A g \in 1..Newest : 1..Ends(g)' = IF g = Newest THEN 1..Ends(g) \cup {n} ELSE 1..Ends(g)
    <2>1. 1..n = 1..Ends(Newest) \cup {n}
      BY <1>3, <1>p
    <2> QED BY <1>3, <2>1
  <1>4. \A f : Held(f)' <=> (f # e /\ Held(f)) \/ (f = None /\ Held(f)')
    BY <1>1, <1>2, <1>e DEF Held, Logs
  <1>5. \A f : Sent(f)' <=> Sent(f) \/ f = e
    <2>1. Newest \in 1..Newest /\ 1..Newest' = 1..Newest
      BY <1>3, <1>p
    <2>2. \A f : Sent(f)' <=> \E g \in 1..Newest : \E s \in 1..Ends(g)' : At(g, s)' = f
      BY <2>1 DEF Sent
    <2>3. \A f : Sent(f) => Sent(f)'
      BY <1>3, <1>r, <2>2 DEF Sent
    <2>4. Sent(e)'
      BY <1>3, <1>r, <2>1, <2>2
    <2>5. \A f : Sent(f)' => Sent(f) \/ f = e
      <3> SUFFICES ASSUME NEW g \in 1..Newest, NEW s \in 1..Ends(g)'
                   PROVE  Sent(At(g, s)') \/ At(g, s)' = e
        BY <2>2
      <3>1. CASE s \in 1..Ends(g)
        BY <1>3, <3>1 DEF Sent
      <3>2. CASE g = Newest /\ s = n
        BY <1>3, <3>2
      <3> QED BY <1>r, <3>1, <3>2
    <2> QED BY <2>3, <2>4, <2>5
  <1>6. \A f : Written(f)' <=> Written(f)
    BY <1>3 DEF Written
  <1>7. Held(e) /\ Written(e) /\ ~Sent(e)
    BY <1>1, <1>e DEF Held, Logs
  <1>8. \A f : Current(f)' <=> Current(f) \/ (f = None /\ Current(f)')
    <2>1. \A s : s \in 1..Ends(Newest)' <=> s \in 1..Ends(Newest) \/ s = n
      BY <1>3, <1>p
    <2>2. \A f : (\E s \in 1..Ends(Newest)' : At(Newest, s)' = f) <=>
                 f = e \/ \E s \in 1..Ends(Newest) : At(Newest, s) = f
      BY <1>3, <1>p, <2>1
    <2>3. \A f : Current(f)' <=> Held(f)' \/ \E s \in 1..Ends(Newest)' : At(Newest, s)' = f
      BY <1>3 DEF Current
    <2> QED BY <1>4, <1>7, <2>2, <2>3 DEF Current
  <1>9. \A g \in 1..Newest : \A s \in 1..Ends(g)' : \/ s \in 1..Ends(g) /\ At(g, s)' = At(g, s)
                                                    \/ g = Newest /\ s = n /\ At(g, s)' = e
    BY <1>3, <1>r
  <1>a. Logs'
    <2>1. (chans[Newest].closed)' => \A v \in Writers : pending'[v] = None
      BY <1>1, <1>2, <1>3, <1>p, <1>e DEF Logs
    <2>2. \A i \in 1..Len(file) : Held(file[i])' \/ Sent(file[i])'
      <3> SUFFICES ASSUME NEW i \in 1..Len(file), NEW f, f = file[i] PROVE Held(f)' \/ Sent(f)'
        BY <1>3
      <3> QED BY <1>1, <1>4, <1>5, <1>p DEF Logs
    <2>3. \A v \in Writers : \A f : f = pending'[v] /\ f # None => Written(f)' /\ ~Sent(f)'
      <3> SUFFICES ASSUME NEW v \in Writers, NEW f, f = pending'[v], f # None
                   PROVE  Written(f)' /\ ~Sent(f)'
        OBVIOUS
      <3>1. v # w /\ f = pending[v]
        BY <1>2
      <3>2. Written(f) /\ ~Sent(f) /\ f # e
        BY <1>1, <1>e, <3>1 DEF Logs
      <3> QED BY <1>5, <1>6, <3>2
    <2>4. \A u, v \in Writers : pending'[u] # None /\ pending'[u] = pending'[v] => u = v
      BY <1>1, <1>2 DEF Logs
    <2>5. \A g \in 1..Newest : \A s \in 1..Ends(g)' : \A f : f = At(g, s)' => Written(f)'
      BY <1>1, <1>6, <1>7, <1>9 DEF Logs
    <2>6. \A g \in 1..Newest : \A s, t \in 1..Ends(g)' : At(g, s)' = At(g, t)' => s = t
      <3>1. \A g \in 1..Newest : \A s \in 1..Ends(g) : At(g, s) # e
        BY <1>7 DEF Sent
      <3> QED BY <1>1, <1>9, <3>1 DEF Logs
    <2> QED BY <2>1, <2>2, <2>3, <2>4, <2>5, <2>6, <1>3 DEF Logs
  <1>b. Causes'
    <2>1. \A f \in Stream!Events : f \notin prior[f] /\ \A h \in prior[f] : Sent(h)'
      BY <1>1, <1>5 DEF Causes
    <2>2. \A g \in 1..Newest : \A s, t \in 1..Ends(g)' : At(g, t)' \in prior[At(g, s)'] => t < s
      <3> SUFFICES ASSUME NEW g \in 1..Newest, NEW s \in 1..Ends(g)', NEW t \in 1..Ends(g)',
                          At(g, t)' \in prior[At(g, s)']
                   PROVE  t < s
        OBVIOUS
      <3>1. CASE s \in 1..Ends(g) /\ t \in 1..Ends(g)
        BY <1>1, <1>3, <3>1 DEF Causes
      <3>2. CASE g = Newest /\ t = n /\ s \in 1..Ends(g)
        <4>1. e \in prior[At(g, s)] /\ At(g, s) \in Stream!Events
          BY <1>3, <1>p, <3>2
        <4> QED BY <1>1, <1>7, <4>1 DEF Causes
      <3>3. CASE g = Newest /\ s = n /\ t = n
        BY <1>1, <1>3, <3>3 DEF Causes
      <3>4. CASE g = Newest /\ s = n /\ t \in 1..Ends(g)
        BY <1>3, <1>p, <3>4
      <3> QED BY <3>1, <3>2, <3>3, <3>4, <1>9
    <2>3. \A j \in 1..Len(file) : \A f \in prior[file[j]] : \E k \in 1..Len(file) : k < j /\ file[k] = f
      BY <1>1 DEF Causes
    <2> QED BY <2>1, <2>2, <2>3, <1>3 DEF Causes
  <1>c. Numbers'
    <2>1. \A f \in Stream!Events : Current(f)' <=> Current(f)
      BY <1>8, <1>p
    <2>2. /\ Len(file) < Stream!NextEid
          /\ \A f \in Stream!Events : Current(f)' => eidOf[f] < Stream!NextEid
          /\ \A f, h \in Stream!Events : Current(f)' /\ Current(h)' /\ eidOf[f] = eidOf[h] => f = h
      BY <1>1, <2>1 DEF Numbers
    <2>3. \A v \in Writers : pending'[v] # None => Stream!NextEid <= eidOf[pending'[v]] + Window
      BY <1>1, <1>2 DEF Numbers
    <2>4. \A s, t \in 1..Ends(Newest)' : t < s => eidOf[At(Newest, t)'] < eidOf[At(Newest, s)'] + Window
      <3> SUFFICES ASSUME NEW s \in 1..Ends(Newest)', NEW t \in 1..Ends(Newest)', t < s
                   PROVE  eidOf[At(Newest, t)'] < eidOf[At(Newest, s)'] + Window
        OBVIOUS
      <3>1. t \in 1..Ends(Newest) /\ At(Newest, t)' = At(Newest, t)
        BY <1>3, <1>p
      <3>2. CASE s \in 1..Ends(Newest)
        BY <1>1, <1>3, <3>1, <3>2, <1>p DEF Numbers
      <3>3. CASE s = n
        <4>1. At(Newest, t) \in Stream!Events /\ Current(At(Newest, t))
          BY <3>1, <1>p DEF Current
        <4>2. eidOf[At(Newest, t)] < Stream!NextEid /\ eidOf[At(Newest, t)] \in Nat
          BY <1>1, <4>1, <1>p DEF Numbers
        <4>3. Stream!NextEid <= eidOf[e] + Window /\ eidOf[e] \in Nat
          BY <1>1, <1>e, <1>p DEF Numbers
        <4>4. At(Newest, s)' = e
          BY <3>3, <1>3, <1>p
        <4>5. Stream!NextEid \in Nat /\ Window \in Nat
          BY <1>p, BoundsAssumption
        <4>6. eidOf[At(Newest, t)] < eidOf[e] + Window
          BY <4>2, <4>3, <4>5
        <4> QED BY <3>1, <4>4, <4>6
      <3>4. s \in 1..Ends(Newest) \/ s = n
        BY <1>3, <1>p
      <3> QED BY <3>2, <3>3, <3>4
    <2> QED BY <2>2, <2>3, <2>4, <1>3 DEF Numbers
  <1>d. Plain'
    BY <1>1, <1>3 DEF Plain
  <1> QED BY <1>a, <1>b, <1>c, <1>d

LEMMA CloseKeeps == ServerInv /\ Closing => Logs' /\ Causes' /\ Numbers' /\ Plain'
  <1> SUFFICES ASSUME ServerInv, Closing PROVE Logs' /\ Causes' /\ Numbers' /\ Plain'
    OBVIOUS
  <1>1. ServerTyped /\ Logs /\ Causes /\ Numbers /\ Plain
    BY DEF ServerInv
  <1>2. /\ \A w \in Writers : pending[w] = None
        /\ Newest' = Newest /\ \A g \in 1..Newest : chans'[g].pushed = chans[g].pushed
        /\ Stream!NextEid' = Stream!NextEid
        /\ UNCHANGED <<file, eidOf, prior, pending, failed, conn, wire, page>>
    BY DEF Closing
  <1>n. Newest \in 1..Newest
    BY <1>1, Places
  <1>3. /\ \A g \in 1..Newest : Ends(g)' = Ends(g) /\ \A s : At(g, s)' = At(g, s)
        /\ Stream!Events' = Stream!Events
    BY <1>2 DEF Ends, At, Stream!Events
  <1>4. \A e : Held(e)' = Held(e) /\ Written(e)' = Written(e)
    BY <1>2 DEF Held, Written
  <1>5. \A e : Sent(e)' <=> Sent(e)
    BY <1>2, <1>3 DEF Sent
  <1>6. \A e : Current(e)' <=> Current(e)
    BY <1>2, <1>3, <1>4, <1>n DEF Current
  <1>a. Logs'
    BY <1>1, <1>2, <1>3, <1>4, <1>5 DEF Logs
  <1>b. Causes'
    BY <1>1, <1>2, <1>3, <1>5 DEF Causes
  <1>c. Numbers'
    BY <1>1, <1>2, <1>3, <1>6, <1>n DEF Numbers
  <1>d. Plain'
    BY <1>1, <1>2 DEF Plain
  <1> QED BY <1>a, <1>b, <1>c, <1>d

LEMMA OpenKeeps == ServerInv /\ Opening => Logs' /\ Causes' /\ Numbers' /\ Plain'
  <1> SUFFICES ASSUME ServerInv, Opening PROVE Logs' /\ Causes' /\ Numbers' /\ Plain'
    OBVIOUS
  <1>1. ServerTyped /\ Logs /\ Causes /\ Numbers /\ Plain
    BY DEF ServerInv
  <1>p. /\ Newest \in Nat /\ Newest \in 1..Newest
        /\ \A g \in 1..Newest : Ends(g) \in Nat
        /\ Len(file) \in Nat /\ None \notin Nat /\ Stream!Events \subseteq Nat
    BY <1>1, Places
  <1>2. /\ chans[Newest].closed
        /\ Newest' = Newest + 1 /\ \A g \in 1..Newest : chans'[g] = chans[g]
        /\ chans'[Newest + 1].pushed = <<>> /\ ~chans'[Newest + 1].closed
        /\ Stream!NextEid' = Len(file) + 1
        /\ UNCHANGED <<file, eidOf, prior, pending, failed, conn, wire, page>>
    BY DEF Opening
  <1>3. /\ \A g \in 1..Newest : Ends(g)' = Ends(g) /\ \A s : At(g, s)' = At(g, s)
        /\ \A g : g = Newest + 1 => Ends(g)' = 0
    BY <1>2, EmptySeq DEF Ends, At
  <1>r. 1..Newest' = 1..Newest \cup {Newest + 1} /\ Stream!Events' = Stream!Events
    BY <1>2, <1>p DEF Stream!Events
  <1>w. \A w \in Writers : pending[w] = None
    BY <1>1, <1>2 DEF Logs
  <1>4. \A e : Held(e)' = Held(e) /\ Written(e)' = Written(e)
    BY <1>2 DEF Held, Written
  <1>5. \A e : Sent(e)' <=> Sent(e)
    BY <1>3, <1>r DEF Sent
  <1>6. \A e : e # None => ~Current(e)'
    <2>1. \A e : e # None => ~Held(e)'
      BY <1>4, <1>w DEF Held
    <2>2. Ends(Newest)' = 0
      <3>1. Ends(Newest)' = Len(chans'[Newest'].pushed)
        BY DEF Ends
      <3> QED BY <1>2, <3>1, EmptySeq
    <2> QED BY <2>1, <2>2 DEF Current
  <1>a. Logs'
    <2>1. /\ \A g \in 1..Newest' : \A s \in 1..Ends(g)' : Written(At(g, s)')
          /\ \A g \in 1..Newest' : \A s, t \in 1..Ends(g)' : At(g, s)' = At(g, t)' => s = t
      BY <1>1, <1>3, <1>r DEF Logs
    <2>2. /\ \A i \in 1..Len(file) : Held(file[i])' \/ Sent(file[i])'
          /\ \A v, w \in Writers : pending[v] # None /\ pending[v] = pending[w] => v = w
      BY <1>1, <1>2, <1>4, <1>5 DEF Logs
    <2>3. \A g \in 1..Newest' : \A s \in 1..Ends(g)' : \A e : e = At(g, s)' => Written(e)'
      BY <2>1, <1>4
    <2> QED BY <1>2, <1>w, <2>1, <2>2, <2>3 DEF Logs
  <1>b. Causes'
    <2>1. \A g \in 1..Newest' : \A s, t \in 1..Ends(g)' : At(g, t)' \in prior[At(g, s)'] => t < s
      BY <1>1, <1>3, <1>r DEF Causes
    <2>2. /\ \A e \in Stream!Events : e \notin prior[e] /\ \A f \in prior[e] : Sent(f)'
          /\ \A j \in 1..Len(file) : \A f \in prior[file[j]] : \E k \in 1..Len(file) : k < j /\ file[k] = f
      BY <1>1, <1>5 DEF Causes
    <2> QED BY <2>1, <2>2, <1>2, <1>r DEF Causes
  <1>c. Numbers'
    <2>1. \A e \in Stream!Events : ~Current(e)'
      BY <1>6, <1>p
    <2>2. Ends(Newest)' = 0
      <3>1. Ends(Newest)' = Len(chans'[Newest'].pushed)
        BY DEF Ends
      <3> QED BY <1>2, <3>1, EmptySeq
    <2>3. \A s, t \in 1..Ends(Newest)' : FALSE
      BY <2>2
    <2>4. Len(file) < Len(file) + 1
      BY <1>p
    <2> QED BY <2>1, <2>3, <2>4, <1>2, <1>r, <1>w DEF Numbers
  <1>d. Plain'
    BY <1>1, <1>2 DEF Plain
  <1> QED BY <1>a, <1>b, <1>c, <1>d

LEMMA PlacesStay ==
  ASSUME UNCHANGED <<file, count, eidOf, prior, pending, chans, failed>>
  PROVE  /\ Logs' = Logs /\ Causes' = Causes /\ Numbers' = Numbers /\ Plain' = Plain
         /\ Stream!NextEid' = Stream!NextEid /\ Stream!Events' = Stream!Events
         /\ Newest' = Newest
         /\ \A g : Ends(g)' = Ends(g) /\ \A s : At(g, s)' = At(g, s)
         /\ \A e : Held(e)' = Held(e) /\ Sent(e)' = Sent(e)
  BY DEF Logs, Causes, Numbers, Plain, Stream!NextEid, Stream!Events, Newest, Ends, At, Held, Sent,
         Written, Current

\* The page has read a transcript and has not given it up.
Reads == page.pc \in {"connect", "open", "lost"}
Shows(e) == \E i \in 1..Len(page.shown) : page.shown[i] = e
Received(e) == page.gen # None /\ \E s \in 1..Ends(page.gen) : s <= page.last /\ At(page.gen, s) = e

\* The page is within the channel it takes its numbers from.
Cursors ==
  /\ page.since <= Newest + 1
  /\ page.pc = "read" => page.resume <= (IF page.gen = None THEN 0 ELSE Ends(page.gen))
  /\ Reads => /\ page.last \in {page.lastId, page.resume}
              /\ page.lastId <= page.last /\ page.resume <= page.last
              /\ page.last <= (IF page.gen = None THEN 0 ELSE Ends(page.gen))

\* A page that has not connected since it read has been sent no number.
Starts == page.pc = "connect" => page.lastId = 0

\* A transcript that was read between two sessions is all of it.
Ahead ==
  Reads /\ page.since = Newest + 1 =>
    /\ page.pc = "connect" /\ chans[Newest].closed
    /\ \A i \in 1..Len(file) : Shows(file[i])
    /\ page.maxEid <= Len(file) /\ \A i \in 1..Len(page.recent) : page.recent[i] <= Len(file)

\* A connection is to the session the transcript was read in, or a later one.
Since ==
  page.pc = "open" =>
    /\ conn # None => page.since <= conn.gen
    /\ \A i \in 1..Len(wire) : wire[i].kind = "hello" => page.since <= wire[i].gen

\* The numbers on the wire rise from the page's to the connection's.
IsEvent(i) == wire[i].kind = "event"
Rising ==
  page.pc = "open" =>
    /\ \A i \in 1..Len(wire) : IsEvent(i) => page.last < wire[i].seq
    /\ \A i, j \in 1..Len(wire) : IsEvent(i) /\ IsEvent(j) /\ i < j => wire[i].seq < wire[j].seq
    /\ conn # None =>
         /\ \A i \in 1..Len(wire) : IsEvent(i) => wire[i].seq <= conn.cursor
         /\ page.last <= conn.cursor
         /\ IF Len(wire) > 0 /\ IsEvent(Len(wire)) THEN wire[Len(wire)].seq = conn.cursor
                                                   ELSE conn.cursor = page.last

\* A page that lost nothing of its session: what it does not show is to come,
\* under a number that it will not take for one it knows.
Awaited(e) == Held(e) \/ \E s \in 1..Ends(Newest) : page.last < s /\ At(Newest, s) = e
Fresh(n) == page.maxEid < n + Window /\ \A i \in 1..Len(page.recent) : page.recent[i] # n
Keeps == Reads /\ page.since >= Newest /\ page.gen \in {None, Newest} /\ ~page.gap
Misses ==
  Keeps =>
    /\ \A i \in 1..Len(file) : Shows(file[i]) \/ (Awaited(file[i]) /\ Fresh(eidOf[file[i]]))
    /\ page.maxEid < Stream!NextEid
    /\ \A i \in 1..Len(page.recent) : page.recent[i] < Stream!NextEid

\* While no write has failed, the page shows an event where the transcript
\* has it or got it from the channel, and remembers the last it was shown.
Remembered ==
  /\ Len(page.recent) = IF Len(page.shown) > Window THEN Window ELSE Len(page.shown)
  /\ \A i \in 1..Len(page.recent) :
       page.recent[i] = page.shown[Len(page.shown) - Len(page.recent) + i]
Once ==
  failed = 0 =>
    /\ \A i, j \in 1..Len(page.shown) : page.shown[i] = page.shown[j] => i = j
    /\ \A i \in 1..Len(page.shown) : page.shown[i] <= page.maxEid
    /\ Remembered
    /\ Reads => \A i \in 1..Len(page.shown) : page.shown[i] = i \/ Received(page.shown[i])

\* What an event followed is shown above it, or was never shown; all of it, if
\* the event came with the transcript.
Ordered ==
  /\ \A i \in 1..Len(page.shown) : page.shown[i] \in Stream!Events
  /\ \A i, j \in 1..Len(page.shown) : page.shown[i] \in prior[page.shown[j]] =>
       \E k \in 1..Len(page.shown) : k < j /\ page.shown[k] = page.shown[i]
  /\ Reads => \A j \in 1..Len(page.shown) :
       \/ \A f \in prior[page.shown[j]] : \E k \in 1..Len(page.shown) : k < j /\ page.shown[k] = f
       \/ Received(page.shown[j])

ShowInv == /\ StreamInv /\ ServerInv
           /\ Cursors /\ Starts /\ Ahead /\ Since /\ Rising /\ Misses /\ Once /\ Ordered

-----------------------------------------------------------------------------
LEMMA PagePlaces ==
  ASSUME StreamInv
  PROVE  /\ page \in Pages /\ page.gen \in 1..Newest \cup {None}
         /\ page.last \in Nat /\ page.lastId \in Nat /\ page.resume \in Nat /\ page.since \in Nat
         /\ page.maxEid \in Nat /\ page.gap \in BOOLEAN
         /\ page.shown \in Seq(Nat) /\ page.recent \in Seq(Nat)
         /\ Len(page.shown) \in Nat /\ \A i \in 1..Len(page.shown) : page.shown[i] \in Nat
         /\ Len(page.recent) \in Nat /\ \A i \in 1..Len(page.recent) : page.recent[i] \in Nat
         /\ Window \in Nat /\ Window > 0
  <1>1. page \in Pages /\ page.gen \in 1..Newest \cup {None}
    BY DEF StreamInv, PageTyped, Newest
  <1>2. page.shown \in Seq(Nat) /\ page.recent \in Seq(Nat)
    BY <1>1 DEF Pages
  <1> QED BY <1>1, <1>2, LenProperties, ElementOfSeq, BoundsAssumption DEF Pages

\* The server adds to what the page rests on.
Grows ==
  /\ Newest <= Newest'
  /\ \A g \in 1..Newest : Ends(g) <= Ends(g)' /\ \A s \in 1..Ends(g) : At(g, s)' = At(g, s)
  /\ Stream!Events \subseteq Stream!Events'
  /\ \A e \in Stream!Events : prior'[e] = prior[e]
  /\ failed' = 0 => failed = 0
  /\ UNCHANGED <<conn, wire, page>>

LEMMA PageOutlives ==
  ASSUME ShowInv, Grows, Newest' \in Nat, \A g \in 1..Newest : Ends(g)' \in Nat
  PROVE  Cursors' /\ Since' /\ Rising' /\ Once' /\ Ordered'
  <1>1. StreamInv /\ ServerTyped /\ Cursors /\ Since /\ Rising /\ Once /\ Ordered
    BY DEF ShowInv, ServerInv
  <1>2. /\ page.gen \in 1..Newest \cup {None} /\ page.last \in Nat /\ page.since \in Nat
        /\ page.resume \in Nat
    BY <1>1, PagePlaces
  <1>3. Newest \in Nat /\ \A g \in 1..Newest : Ends(g) \in Nat
    BY <1>1, Places
  <1>4. /\ Newest <= Newest' /\ UNCHANGED <<conn, wire, page>> /\ (failed' = 0 => failed = 0)
        /\ \A g \in 1..Newest : Ends(g) <= Ends(g)' /\ \A s \in 1..Ends(g) : At(g, s)' = At(g, s)
        /\ Stream!Events \subseteq Stream!Events' /\ \A e \in Stream!Events : prior'[e] = prior[e]
    BY DEF Grows
  <1>5. PICK q : q = page.gen
    OBVIOUS
  <1>6. q \in 1..Newest => Ends(q) \in Nat /\ Ends(q)' \in Nat /\ Ends(q) <= Ends(q)'
    BY <1>3, <1>4
  <1>7. Cursors'
    <2>1. page.since <= Newest' + 1
      BY <1>1, <1>2, <1>3, <1>4 DEF Cursors
    <2>2. q # None => q \in 1..Newest
      BY <1>2, <1>5
    <2>3. page.pc = "read" => page.resume <= (IF q = None THEN 0 ELSE Ends(q)')
      BY <1>1, <1>2, <1>5, <1>6, <2>2 DEF Cursors
    <2>4. Reads => page.last <= (IF q = None THEN 0 ELSE Ends(q)')
      BY <1>1, <1>2, <1>5, <1>6, <2>2 DEF Cursors
    <2>5. Reads => /\ page.last \in {page.lastId, page.resume}
                   /\ page.lastId <= page.last /\ page.resume <= page.last
      BY <1>1 DEF Cursors
    <2>6. \A g : g = page.gen => Ends(g)' = Ends(q)'
      BY <1>5
    <2> QED BY <1>4, <1>5, <2>1, <2>3, <2>4, <2>5, <2>6 DEF Cursors, Reads
  <1>8. Since' /\ Rising'
    BY <1>1, <1>4 DEF Since, Rising, IsEvent
  <1>9. \A e : Received(e) => Received(e)'
    <2> SUFFICES ASSUME NEW e, Received(e) PROVE Received(e)'
      OBVIOUS
    <2>1. PICK s \in 1..Ends(q) : q # None /\ s <= page.last /\ At(q, s) = e
      BY <1>5 DEF Received
    <2>2. q \in 1..Newest
      BY <1>2, <1>5, <2>1
    <2>3. s \in 1..Ends(q)' /\ At(q, s)' = e
      BY <1>4, <1>6, <2>1, <2>2
    <2>4. page' = page /\ page'.gen = q
      BY <1>4, <1>5
    <2> QED BY <2>1, <2>3, <2>4 DEF Received
  <1>10. Once'
    <2> SUFFICES ASSUME failed' = 0
                 PROVE  /\ \A i, j \in 1..Len(page.shown) : page.shown[i] = page.shown[j] => i = j
                        /\ \A i \in 1..Len(page.shown) : page.shown[i] <= page.maxEid
                        /\ Remembered
                        /\ Reads => \A i \in 1..Len(page.shown) :
                                      page.shown[i] = i \/ Received(page.shown[i])'
      BY <1>4 DEF Once, Reads, Remembered
    <2>1. failed = 0
      BY <1>4
    <2>2. ASSUME Reads, NEW i \in 1..Len(page.shown) PROVE page.shown[i] = i \/ Received(page.shown[i])'
      <3>1. PICK e : e = page.shown[i]
        OBVIOUS
      <3>2. e = i \/ Received(e)'
        BY <1>1, <1>9, <2>1, <2>2, <3>1 DEF Once
      <3>3. Received(e)' => Received(page.shown[i])'
        BY <1>4, <3>1
      <3> QED BY <3>1, <3>2, <3>3
    <2> QED BY <1>1, <2>1, <2>2 DEF Once
  <1>11. Ordered'
    <2>1. \A j \in 1..Len(page.shown) : /\ page.shown[j] \in Stream!Events
                                        /\ prior'[page.shown[j]] = prior[page.shown[j]]
      BY <1>1, <1>4 DEF Ordered
    <2>2. /\ \A i \in 1..Len(page.shown) : page.shown[i] \in Stream!Events'
          /\ \A i, j \in 1..Len(page.shown) : page.shown[i] \in prior'[page.shown[j]] =>
               \E k \in 1..Len(page.shown) : k < j /\ page.shown[k] = page.shown[i]
      BY <1>1, <1>4, <2>1 DEF Ordered
    <2>3. ASSUME Reads, NEW j \in 1..Len(page.shown)
          PROVE  \/ \A f \in prior'[page.shown[j]] :
                      \E k \in 1..Len(page.shown) : k < j /\ page.shown[k] = f
                 \/ \A e : e = page.shown[j] => Received(e)'
      <3>1. CASE Received(page.shown[j])
        BY <1>9, <3>1
      <3>2. CASE ~Received(page.shown[j])
        BY <1>1, <2>1, <2>3, <3>2 DEF Ordered
      <3> QED BY <3>1, <3>2
    <2> QED BY <1>4, <2>2, <2>3 DEF Ordered, Reads
  <1> QED BY <1>7, <1>8, <1>10, <1>11

LEMMA LogMisses ==
  ASSUME ShowInv, NEW w \in Writers, NEW n \in Nat, Logging(w, n)
  PROVE  Misses' /\ Ahead'
  <1>1. /\ StreamInv /\ ServerTyped /\ Misses /\ Ahead /\ Numbers
        /\ ~chans[Newest].closed /\ pending[w] = None /\ n \notin Stream!Events /\ n \in Nat
        /\ Stream!NextEid' = Stream!NextEid + 1 /\ eidOf'[n] = Stream!NextEid
        /\ \A e \in Stream!Events : eidOf'[e] = eidOf[e]
        /\ UNCHANGED <<chans, conn, wire, page>>
    BY Places DEF ShowInv, ServerInv, Logging
  <1>2. /\ page.maxEid \in Nat /\ \A i \in 1..Len(page.recent) : page.recent[i] \in Nat
        /\ Window \in Nat /\ Window > 0
        /\ Stream!NextEid \in Nat /\ None \notin Nat
        /\ Len(file) \in Nat /\ \A i \in 1..Len(file) : file[i] \in Stream!Events
        /\ Stream!Events \subseteq Nat
    BY <1>1, PagePlaces, Places
  <1>3. Newest' = Newest /\ Keeps' = Keeps /\ Reads' = Reads /\ \A e : Shows(e)' = Shows(e)
    BY <1>1 DEF Newest, Keeps, Reads, Shows
  <1>4. Ahead'
    <2>1. ~(Reads /\ page.since = Newest + 1)
      BY <1>1 DEF Ahead
    <2> QED BY <2>1, <1>1, <1>3 DEF Ahead
  <1>5. \A v \in Writers : v # w => pending'[v] = pending[v]
    BY <1>1 DEF Logging, ServerTyped
  <1>6. \A e : e # None /\ Awaited(e) => Awaited(e)'
    <2>1. \A e : e # None /\ Held(e) => Held(e)'
      BY <1>1, <1>5 DEF Held
    <2>2. \A g, s : Ends(g)' = Ends(g) /\ At(g, s)' = At(g, s)
      BY <1>1 DEF Ends, At
    <2> QED BY <2>1, <2>2, <1>1, <1>3 DEF Awaited
  <1>7. Misses'
    <2> SUFFICES ASSUME Keeps
                 PROVE  /\ \A i \in 1..Len(file') : \A e : e = file'[i] =>
                             Shows(e) \/ (Awaited(e)' /\ Fresh(eidOf'[e]))
                        /\ page.maxEid < Stream!NextEid + 1
                        /\ \A i \in 1..Len(page.recent) : page.recent[i] < Stream!NextEid + 1
      <3>1. \A m : Fresh(m)' = Fresh(m)
        BY <1>1 DEF Fresh
      <3> QED BY <1>1, <1>3, <3>1 DEF Misses, Fresh
    <2>1. /\ \A i \in 1..Len(file) : Shows(file[i]) \/ (Awaited(file[i]) /\ Fresh(eidOf[file[i]]))
          /\ page.maxEid < Stream!NextEid
          /\ \A i \in 1..Len(page.recent) : page.recent[i] < Stream!NextEid
      BY <1>1 DEF Misses
    <2>2. ASSUME NEW i \in 1..Len(file) PROVE \A e : e = file[i] => Shows(e) \/ (Awaited(e)' /\ Fresh(eidOf'[e]))
      <3>1. file[i] \in Stream!Events /\ file[i] # None /\ eidOf'[file[i]] = eidOf[file[i]]
        BY <1>1, <1>2
      <3> QED BY <1>6, <2>1, <3>1
    <2>3. CASE /\ Len(file') = Len(file) + 1 /\ file'[Len(file) + 1] = n
               /\ \A i \in 1..Len(file) : file'[i] = file[i]
               /\ pending' = [pending EXCEPT ![w] = n]
      <3>1. pending'[w] = n
        BY <1>1, <2>3 DEF ServerTyped
      <3>2. Held(n)'
        BY <3>1 DEF Held
      <3>3. Awaited(n)'
        BY <3>2 DEF Awaited
      <3>4. Fresh(eidOf'[n])
        BY <1>1, <1>2, <2>1 DEF Fresh
      <3>5. \A i \in 1..Len(file') : i \in 1..Len(file) \/ i = Len(file) + 1
        BY <1>2, <2>3
      <3>6. \A i \in 1..Len(file') : \A e : e = file'[i] => Shows(e) \/ (Awaited(e)' /\ Fresh(eidOf'[e]))
        BY <2>2, <2>3, <3>3, <3>4, <3>5
      <3> QED BY <1>2, <2>1, <3>6
    <2>4. CASE UNCHANGED <<file, pending>>
      BY <1>2, <2>1, <2>2, <2>4
    <2> QED BY <2>3, <2>4 DEF Logging
  <1> QED BY <1>4, <1>7

LEMMA PushMisses ==
  ASSUME ShowInv, NEW w \in Writers, NEW n \in Nat, Pushing(w, n)
  PROVE  Misses' /\ Ahead'
  <1>1. /\ StreamInv /\ ServerTyped /\ Misses /\ Ahead /\ Logs /\ Cursors
        /\ Newest' = Newest /\ n = Ends(Newest) + 1
        /\ \A g \in 1..Newest : g = Newest => Ends(g)' = n /\ At(g, n)' = pending[w]
        /\ \A g \in 1..Newest : chans'[g].closed = chans[g].closed
        /\ \A g \in 1..Newest : \A s \in 1..Ends(g) : At(g, s)' = At(g, s)
        /\ Stream!NextEid' = Stream!NextEid /\ Stream!Events' = Stream!Events
        /\ UNCHANGED <<file, eidOf, prior, failed, conn, wire, page>>
        /\ pending[w] \in Stream!Events /\ pending' = [pending EXCEPT ![w] = None]
    BY DEF ShowInv, ServerInv, Pushing
  <1>2. /\ Newest \in Nat /\ Newest \in 1..Newest /\ Ends(Newest) \in Nat
        /\ page.last \in Nat /\ page.gen \in 1..Newest \cup {None} /\ None \notin Nat
        /\ Stream!Events \subseteq Nat
        /\ \A i \in 1..Len(file) : file[i] \in Stream!Events
    BY <1>1, Places, PagePlaces
  <1>3. Keeps' = Keeps /\ Reads' = Reads /\ (\A e : Shows(e)' = Shows(e)) /\ \A m : Fresh(m)' = Fresh(m)
    BY <1>1 DEF Keeps, Reads, Shows, Fresh
  <1>4. Ahead'
    BY <1>1, <1>2, <1>3 DEF Ahead
  <1>5. 1..Ends(Newest)' = 1..Ends(Newest) \cup {n}
    <2>1. Ends(Newest)' = n
      BY <1>1, <1>2 DEF Ends
    <2>2. 1..n = 1..Ends(Newest) \cup {n}
      BY <1>1, <1>2
    <2> QED BY <2>1, <2>2
  <1>6. ASSUME Keeps, NEW e, e # None, Awaited(e) PROVE Awaited(e)'
    <2>1. page.last <= Ends(Newest)
      <3>1. page.gen = None \/ page.gen = Newest
        BY <1>6 DEF Keeps
      <3>2. Reads
        BY <1>6 DEF Keeps
      <3>3. page.last <= (IF page.gen = None THEN 0 ELSE Ends(page.gen))
        BY <1>1, <3>2 DEF Cursors
      <3> QED BY <1>2, <3>1, <3>3
    <2>a. Awaited(e)' <=> Held(e)' \/ \E s \in 1..Ends(Newest)' : page.last < s /\ At(Newest, s)' = e
      BY <1>1 DEF Awaited
    <2>2. CASE e = pending[w]
      <3>1. page.last < n /\ n \in 1..Ends(Newest)' /\ At(Newest, n)' = e
        BY <2>1, <2>2, <1>1, <1>2, <1>5
      <3> QED BY <2>a, <3>1
    <2>3. CASE \E s \in 1..Ends(Newest) : page.last < s /\ At(Newest, s) = e
      BY <2>3, <2>a, <1>1, <1>2, <1>5
    <2>4. CASE Held(e) /\ e # pending[w]
      <3>1. PICK v \in Writers : pending[v] = e
        BY <2>4 DEF Held
      <3>2. pending'[v] = e
        BY <3>1, <2>4, <1>1 DEF ServerTyped
      <3>3. Held(e)'
        BY <3>2 DEF Held
      <3> QED BY <2>a, <3>3
    <2> QED BY <1>6, <2>2, <2>3, <2>4 DEF Awaited
  <1>7. Misses'
    <2> SUFFICES ASSUME Keeps
                 PROVE  /\ \A i \in 1..Len(file) : \A e : e = file[i] =>
                             Shows(e) \/ (Awaited(e)' /\ Fresh(eidOf[e]))
                        /\ page.maxEid < Stream!NextEid
                        /\ \A i \in 1..Len(page.recent) : page.recent[i] < Stream!NextEid
      BY <1>1, <1>3 DEF Misses, Fresh
    <2>1. /\ \A i \in 1..Len(file) : Shows(file[i]) \/ (Awaited(file[i]) /\ Fresh(eidOf[file[i]]))
          /\ page.maxEid < Stream!NextEid
          /\ \A i \in 1..Len(page.recent) : page.recent[i] < Stream!NextEid
      BY <1>1 DEF Misses
    <2>2. \A i \in 1..Len(file) : file[i] # None
      BY <1>2
    <2> QED BY <1>6, <2>1, <2>2
  <1> QED BY <1>4, <1>7

LEMMA CloseMisses == ShowInv /\ Closing => Misses' /\ Ahead'
  <1> SUFFICES ASSUME ShowInv, Closing PROVE Misses' /\ Ahead'
    OBVIOUS
  <1>1. /\ ServerTyped /\ Misses /\ Ahead /\ ~chans[Newest].closed
        /\ Newest' = Newest /\ \A g \in 1..Newest : chans'[g].pushed = chans[g].pushed
        /\ Stream!NextEid' = Stream!NextEid
        /\ UNCHANGED <<file, eidOf, prior, pending, failed, conn, wire, page>>
    BY DEF ShowInv, ServerInv, Closing
  <1>2. Newest \in 1..Newest
    BY <1>1, Places
  <1>3. /\ Keeps' = Keeps /\ Reads' = Reads /\ (\A e : Shows(e)' = Shows(e))
        /\ (\A m : Fresh(m)' = Fresh(m)) /\ \A e : Awaited(e)' = Awaited(e)
    <2>1. \A s : Ends(Newest)' = Ends(Newest) /\ At(Newest, s)' = At(Newest, s)
      BY <1>1, <1>2 DEF Ends, At
    <2>2. \A e : Held(e)' = Held(e)
      BY <1>1 DEF Held
    <2>3. \A e : Awaited(e)' <=> Awaited(e)
      BY <1>1, <2>1, <2>2 DEF Awaited
    <2> QED BY <1>1, <2>3 DEF Keeps, Reads, Shows, Fresh
  <1>4. Ahead'
    <2>1. ~(Reads /\ page.since = Newest + 1)
      BY <1>1 DEF Ahead
    <2> QED BY <2>1, <1>1, <1>3 DEF Ahead
  <1>5. Misses'
    BY <1>1, <1>3 DEF Misses
  <1> QED BY <1>4, <1>5

LEMMA OpenMisses == ShowInv /\ Opening => Misses' /\ Ahead'
  <1> SUFFICES ASSUME ShowInv, Opening PROVE Misses' /\ Ahead'
    OBVIOUS
  <1>1. /\ StreamInv /\ ServerTyped /\ Ahead /\ Cursors
        /\ Newest' = Newest + 1 /\ Stream!NextEid' = Len(file) + 1
        /\ UNCHANGED <<file, eidOf, prior, pending, failed, conn, wire, page>>
    BY DEF ShowInv, ServerInv, Opening
  <1>2. /\ Newest \in Nat /\ page.since \in Nat /\ page.since <= Newest + 1
        /\ Len(file) \in Nat /\ page.maxEid \in Nat
        /\ \A i \in 1..Len(page.recent) : page.recent[i] \in Nat
    BY <1>1, Places, PagePlaces DEF Cursors
  <1>3. Reads' = Reads /\ (\A e : Shows(e)' = Shows(e))
    BY <1>1 DEF Reads, Shows
  <1>4. Ahead'
    <2>1. ~(page'.since = Newest' + 1)
      BY <1>1, <1>2
    <2> QED BY <2>1 DEF Ahead
  <1>5. Misses'
    <2> SUFFICES ASSUME Keeps' PROVE Misses'
      BY DEF Misses
    <2>1. Reads /\ page.since = Newest + 1
      BY <1>1, <1>2, <1>3 DEF Keeps
    <2>2. /\ \A i \in 1..Len(file) : Shows(file[i])
          /\ page.maxEid <= Len(file) /\ \A i \in 1..Len(page.recent) : page.recent[i] <= Len(file)
      BY <1>1, <2>1 DEF Ahead
    <2>3. /\ \A i \in 1..Len(file) : \A e : e = file[i] => Shows(e)'
          /\ page.maxEid < Len(file) + 1
          /\ \A i \in 1..Len(page.recent) : page.recent[i] < Len(file) + 1
      BY <1>2, <1>3, <2>2
    <2> QED BY <1>1, <2>3 DEF Misses
  <1> QED BY <1>4, <1>5

\* A step of the page that leaves what it shows and its numbers alone.
PageAlike ==
  /\ page'.gen = page.gen /\ page'.resume = page.resume /\ page'.last = page.last
  /\ page'.lastId = page.lastId /\ page'.shown = page.shown /\ page'.recent = page.recent
  /\ page'.maxEid = page.maxEid /\ page'.gap = page.gap /\ page'.since = page.since

LEMMA PageAlikeKeeps ==
  ASSUME ShowInv, ServerKeeps, PageAlike, Reads' => Reads, page'.pc # "read",
         Reads' => page.since <= Newest
  PROVE  Cursors' /\ Ahead' /\ Misses' /\ Once' /\ Ordered'
  <1>1. Cursors /\ Ahead /\ Misses /\ Once /\ Ordered
    BY DEF ShowInv
  <1>2. /\ UNCHANGED <<file, count, eidOf, prior, pending, chans, failed>>
        /\ Stream!NextEid' = Stream!NextEid /\ Stream!Events' = Stream!Events
        /\ Newest' = Newest
        /\ \A g : Ends(g)' = Ends(g) /\ \A s : At(g, s)' = At(g, s)
        /\ \A e : Held(e)' = Held(e)
    BY PlacesStay DEF ServerKeeps
  <1>3. /\ \A e : Shows(e)' = Shows(e)
        /\ \A m : Fresh(m)' = Fresh(m)
        /\ Remembered' = Remembered
    BY DEF PageAlike, Shows, Fresh, Remembered
  <1>4. \A e : Received(e)' <=> Received(e)
    BY <1>2 DEF PageAlike, Received
  <1>5. \A e : Awaited(e)' <=> Awaited(e)
    BY <1>2 DEF PageAlike, Awaited
  <1>6. Keeps' => Keeps
    BY <1>2 DEF PageAlike, Keeps
  <1>7. Cursors'
    BY <1>1, <1>2 DEF PageAlike, Cursors
  <1>8. Ahead'
    <2>1. Reads' => ~(page.since = Newest + 1)
      <3>1. Newest \in Nat /\ page.since \in Nat
        BY Places, PagePlaces DEF ShowInv, ServerInv
      <3> QED BY <3>1
    <2> QED BY <2>1, <1>2 DEF Ahead, PageAlike
  <1>9. Misses'
    BY <1>1, <1>2, <1>3, <1>5, <1>6 DEF Misses, PageAlike
  <1>10. Once'
    BY <1>1, <1>2, <1>3, <1>4 DEF Once, PageAlike
  <1>11. Ordered'
    BY <1>1, <1>2, <1>3, <1>4 DEF Ordered, PageAlike
  <1> QED BY <1>7, <1>8, <1>9, <1>10, <1>11

\* A page that gives its connection up, or waits to have it back.
LEMMA LeavesKeep ==
  ASSUME ShowInv, ServerKeeps, NEW p \in {"boot", "lost"}, page' = [page EXCEPT !.pc = p],
         p = "lost" => page.pc = "open", conn' = None, wire' = <<>>
  PROVE  Cursors' /\ Ahead' /\ Since' /\ Rising' /\ Misses' /\ Once' /\ Ordered'
  <1>1. page \in Pages /\ StreamInv
    BY PagePlaces DEF ShowInv
  <1>2. PageAlike /\ page'.pc = p
    BY <1>1 DEF Pages, PageAlike
  <1>3. Reads' => Reads
    BY <1>2 DEF Reads
  <1>4. Reads' => page.since <= Newest
    <2> SUFFICES ASSUME Reads' PROVE page.since <= Newest
      OBVIOUS
    <2>1. Reads /\ page.pc # "connect"
      BY <1>2 DEF Reads
    <2>2. page.since # Newest + 1 /\ page.since <= Newest + 1
      BY <2>1 DEF ShowInv, Ahead, Cursors
    <2>3. Newest \in Nat /\ page.since \in Nat
      BY <1>1, Places, PagePlaces DEF ShowInv, ServerInv
    <2> QED BY <2>2, <2>3
  <1>5. Since' /\ Rising'
    BY <1>2 DEF Since, Rising
  <1> QED BY <1>2, <1>3, <1>4, <1>5, PageAlikeKeeps

LEMMA AcceptKeeps ==
  ASSUME ShowInv, ServerKeeps, page.pc \in {"connect", "lost"}, ~chans[Newest].closed,
         NEW after, after = page.last, Stream!Accept(after), page' = [page EXCEPT !.pc = "open"]
  PROVE  Cursors' /\ Ahead' /\ Since' /\ Rising' /\ Misses' /\ Once' /\ Ordered'
  <1>1. page \in Pages /\ StreamInv
    BY PagePlaces DEF ShowInv
  <1>2. PageAlike /\ page'.pc = "open" /\ Reads
    BY <1>1 DEF Pages, PageAlike, Reads
  <1>4. page.since <= Newest
    <2>2. page.since # Newest + 1 /\ page.since <= Newest + 1
      BY <1>2 DEF ShowInv, Ahead, Cursors
    <2>3. Newest \in Nat /\ page.since \in Nat
      BY <1>1, Places, PagePlaces DEF ShowInv, ServerInv
    <2> QED BY <2>2, <2>3
  <1>5. /\ conn'.gen = Newest /\ conn'.cursor = page.last
        /\ Len(wire') = 1 /\ wire'[1].kind = "hello" /\ wire'[1].gen = Newest
    BY DEF Stream!Accept, Stream!Hello, Stream!Gen, Newest
  <1>6. page'.last = page.last /\ page'.since = page.since /\ page.last \in Nat
    BY <1>1, <1>2, PagePlaces DEF PageAlike
  <1>7. Since'
    BY <1>4, <1>5, <1>6 DEF Since
  <1>8. Rising'
    <2>1. \A i \in 1..Len(wire') : ~(wire'[i].kind = "event")
      BY <1>5
    <2>2. Len(wire') \in Nat
      BY <1>5
    <2> QED BY <1>5, <1>6, <2>1, <2>2 DEF Rising, IsEvent
  <1> QED BY <1>2, <1>4, <1>7, <1>8, PageAlikeKeeps

LEMMA TakeKeeps ==
  ASSUME ShowInv, Stream!TakeCursor
  PROVE  Cursors' /\ Ahead' /\ Since' /\ Rising' /\ Misses' /\ Once' /\ Ordered'
  <1>1. StreamInv /\ page \in Pages /\ ServerTyped /\ Cursors /\ Once /\ Ordered
    BY PagePlaces DEF ShowInv, ServerInv
  <1>2. /\ UNCHANGED <<file, count, eidOf, prior, pending, chans, failed>>
        /\ Stream!NextEid' = Stream!NextEid /\ Stream!Events' = Stream!Events
        /\ Newest' = Newest
        /\ \A g : Ends(g)' = Ends(g) /\ \A s : At(g, s)' = At(g, s)
    BY PlacesStay DEF Stream!TakeCursor, Stream!server
  <1>3. Newest \in Nat /\ Newest \in 1..Newest /\ Ends(Newest) \in Nat /\ None \notin Nat
    BY <1>1, Places
  <1>4. /\ page'.pc = "read" /\ page'.shown = page.shown /\ page'.recent = page.recent
        /\ page'.maxEid = page.maxEid /\ page'.since = page.since
        /\ page'.resume <= (IF page'.gen = None THEN 0 ELSE Ends(page'.gen))
    <2>1. CASE page' = [page EXCEPT !.pc = "read", !.gen = None, !.resume = 0]
      BY <1>1, <2>1 DEF Pages
    <2>2. CASE page' = [page EXCEPT !.pc = "read", !.gen = Newest, !.resume = Ends(Newest)]
      BY <1>1, <1>3, <2>2 DEF Pages
    <2> QED BY <2>1, <2>2 DEF Stream!TakeCursor, Stream!Channel, Stream!Gen, Stream!LastSeq, Newest, Ends
  <1>5. ~Reads' /\ ~Keeps'
    BY <1>4 DEF Reads, Keeps
  <1>6. Cursors'
    <2>1. \A g : g = page'.gen => Ends(g)' = Ends(g)
      BY <1>2
    <2> QED BY <1>1, <1>2, <1>4, <1>5 DEF Cursors
  <1>7. Since' /\ Rising' /\ Misses' /\ Ahead'
    BY <1>4, <1>5 DEF Since, Rising, Misses, Ahead
  <1>8. Once'
    BY <1>1, <1>2, <1>4, <1>5 DEF Once, Remembered
  <1>9. Ordered'
    BY <1>1, <1>2, <1>4, <1>5 DEF Ordered
  <1> QED BY <1>6, <1>7, <1>8, <1>9

\* The window of a sequence, place by place.
LEMMA WindowPlaces ==
  ASSUME NEW s \in Seq(Nat), NEW r, r = Stream!LastOf(s, Window)
  PROVE  /\ Len(r) = IF Len(s) > Window THEN Window ELSE Len(s)
         /\ \A i \in 1..Len(r) : r[i] = s[Len(s) - Len(r) + i]
  <1>1. PICK n \in Nat : n = Len(s)
    BY LenProperties
  <1>w. Window \in Nat /\ Window > 0
    BY BoundsAssumption
  <1>m. (IF n > Window THEN n - Window + 1 ELSE 1) \in Nat
    BY <1>w
  <1>2. PICK m \in Nat : m = IF n > Window THEN n - Window + 1 ELSE 1
    BY <1>m
  <1>3. m \in 1..n + 1
    BY <1>w, <1>2
  <1>4. \A i \in m..n : s[i] \in Nat
    BY <1>1, <1>3, ElementOfSeq
  <1>5. r = SubSeq(s, m, n)
    BY <1>1, <1>2 DEF Stream!LastOf
  <1>6. /\ Len(r) = IF m <= n THEN n - m + 1 ELSE 0
        /\ \A i \in 1..n - m + 1 : r[i] = s[m + i - 1]
    BY <1>3, <1>4, <1>5, SubSeqProperties
  <1>7. Len(r) = n - m + 1 /\ Len(r) = IF n > Window THEN Window ELSE n
    BY <1>2, <1>3, <1>6, <1>w
  <1>8. \A i \in 1..Len(r) : m + i - 1 = n - Len(r) + i
    BY <1>7
  <1> QED BY <1>1, <1>6, <1>7, <1>8

LEMMA ReadKeeps ==
  ASSUME ShowInv, Stream!ReadTranscript
  PROVE  Cursors' /\ Ahead' /\ Since' /\ Rising' /\ Misses' /\ Once' /\ Ordered'
  <1>1. StreamInv /\ page \in Pages /\ ServerTyped /\ Logs /\ Causes /\ Numbers /\ Plain /\ Cursors
    BY PagePlaces DEF ShowInv, ServerInv
  <1>2. /\ UNCHANGED <<file, count, eidOf, prior, pending, chans, failed>>
        /\ Stream!NextEid' = Stream!NextEid /\ Stream!Events' = Stream!Events
        /\ Newest' = Newest
        /\ \A g : Ends(g)' = Ends(g) /\ \A s : At(g, s)' = At(g, s)
    BY PlacesStay DEF Stream!ReadTranscript, Stream!server
  <1>3. /\ Newest \in Nat /\ Newest \in 1..Newest /\ None \notin Nat
        /\ Len(file) \in Nat /\ \A i \in 1..Len(file) : file[i] \in Stream!Events
        /\ \A g \in 1..Newest : Ends(g) \in Nat
        /\ Stream!Events \subseteq Nat /\ Stream!NextEid \in Nat
        /\ page.resume \in Nat /\ page.gen \in 1..Newest \cup {None}
        /\ Window \in Nat
    BY <1>1, Places, PagePlaces
  <1>4. PICK n \in Nat : n = Len(file)
    BY <1>3
  <1>l. PICK lines : lines = [line \in 1..n |-> line]
    OBVIOUS
  <1>5. lines \in Seq(Nat) /\ Len(lines) = n /\ \A i \in 1..n : lines[i] = i
    BY <1>l
  <1>6. PICK r : r = Stream!LastOf(lines, Window)
    OBVIOUS
  <1>7. /\ Len(r) = IF n > Window THEN Window ELSE n
        /\ \A i \in 1..Len(r) : r[i] = lines[n - Len(r) + i]
    BY <1>5, <1>6, WindowPlaces
  <1>8. \A i \in 1..Len(r) : n - Len(r) + i \in 1..n /\ r[i] = n - Len(r) + i
    <2>1. Len(r) \in Nat /\ Len(r) <= n
      BY <1>3, <1>7
    <2>2. \A i \in 1..Len(r) : n - Len(r) + i \in 1..n
      BY <2>1
    <2> QED BY <1>5, <1>7, <2>2
  <1>s. PICK since : since = Stream!NextSession
    OBVIOUS
  <1>9. since = IF chans[Newest].closed THEN Newest + 1 ELSE Newest
    BY <1>s DEF Stream!NextSession, Stream!Channel, Stream!Gen, Newest
  <1>10. /\ page.pc = "read"
         /\ page' = [page EXCEPT !.pc = "connect", !.last = page.resume, !.lastId = 0,
                       !.shown = file, !.maxEid = n, !.gap = FALSE, !.since = since, !.recent = r]
    BY <1>4, <1>l, <1>6, <1>s DEF Stream!ReadTranscript
  <1>11. /\ page'.pc = "connect" /\ page'.last = page.resume /\ page'.lastId = 0 /\ page'.shown = file
         /\ page'.maxEid = n /\ page'.since = since /\ page'.recent = r
         /\ page'.gen = page.gen /\ page'.resume = page.resume
    BY <1>1, <1>10 DEF Pages
  <1>12. \A i \in 1..Len(file) : \A e : e = file[i] => Shows(e)'
    BY <1>11 DEF Shows
  <1>13. Cursors'
    <2>1. since <= Newest + 1
      BY <1>3, <1>9
    <2>2. page.resume <= (IF page.gen = None THEN 0 ELSE Ends(page.gen))
      BY <1>1, <1>10 DEF Cursors
    <2>3. 0 <= page.resume
      BY <1>3
    <2>4. page'.pc # "read" /\ page'.since <= Newest' + 1
      BY <1>2, <1>11, <2>1
    <2>5. /\ page'.last \in {page'.lastId, page'.resume}
          /\ page'.lastId <= page'.last /\ page'.resume <= page'.last
      BY <1>3, <1>11, <2>3
    <2>6. \A g : g = page'.gen => Ends(g)' = Ends(page.gen)
      BY <1>2, <1>11
    <2>7. page'.last <= (IF page'.gen = None THEN 0 ELSE Ends(page.gen))
      BY <1>11, <2>2
    <2> QED BY <2>4, <2>5, <2>6, <2>7 DEF Cursors
  <1>14. Ahead'
    <2>1. since = Newest + 1 => chans[Newest].closed
      BY <1>3, <1>9
    <2>2. \A i \in 1..Len(r) : r[i] <= n
      BY <1>8
    <2> QED BY <1>2, <1>4, <1>11, <1>12, <2>1, <2>2 DEF Ahead
  <1>15. Since' /\ Rising'
    BY <1>11 DEF Since, Rising
  <1>16. Misses'
    <2>1. n < Stream!NextEid
      BY <1>1, <1>4 DEF Numbers
    <2>2. \A i \in 1..Len(r) : r[i] < Stream!NextEid
      BY <1>3, <1>8, <2>1
    <2> QED BY <1>2, <1>11, <1>12, <2>1, <2>2 DEF Misses
  <1>17. Once'
    <2> SUFFICES ASSUME failed = 0
                 PROVE  /\ \A i, j \in 1..Len(file) : file[i] = file[j] => i = j
                        /\ \A i \in 1..Len(file) : file[i] <= n
                        /\ Len(r) = IF Len(file) > Window THEN Window ELSE Len(file)
                        /\ \A i \in 1..Len(r) : r[i] = file[Len(file) - Len(r) + i]
                        /\ \A i \in 1..Len(file) : file[i] = i
      BY <1>2, <1>11 DEF Once, Remembered
    <2>1. \A i \in 1..Len(file) : file[i] = i
      BY <1>1 DEF Plain
    <2> QED BY <2>1, <1>4, <1>7, <1>8
  <1>18. Ordered'
    <2>1. \A i \in 1..Len(file) : file[i] \in Stream!Events'
      BY <1>2, <1>3
    <2>2. \A j \in 1..Len(file) : \A f \in prior[file[j]] :
            \E k \in 1..Len(file) : k < j /\ file[k] = f
      BY <1>1 DEF Causes
    <2>3. \A i, j \in 1..Len(file) : file[i] \in prior[file[j]] =>
            \E k \in 1..Len(file) : k < j /\ file[k] = file[i]
      BY <2>2
    <2> QED BY <1>2, <1>11, <2>1, <2>2, <2>3 DEF Ordered
  <1> QED BY <1>13, <1>14, <1>15, <1>16, <1>17, <1>18

\* The events of a batch are beyond the cursor it is taken from.
LEMMA BatchBeyond ==
  ASSUME StreamInv, NEW g \in 1..Newest, NEW cursor \in Nat,
         NEW m, m = Stream!Cardinality(Stream!Buffered(chans[g], cursor))
  PROVE  m \in Nat /\ m <= Ends(g) /\ Ends(g) \in Nat /\ (m > 0 => cursor <= Ends(g) - m)
  <1> DEFINE n == Ends(g)
             batch == Stream!Buffered(chans[g], cursor)
  <1>1. m \in Nat /\ m <= n /\ n \in Nat
    BY BatchTyped DEF Newest, Ends
  <1>2. batch \subseteq cursor + 1..n
    <2> SUFFICES ASSUME NEW s \in batch PROVE s \in cursor + 1..n
      OBVIOUS
    <2>1. s \in 1..n /\ s > cursor
      BY DEF Stream!Buffered, Stream!LastSeq, Ends
    <2> HIDE DEF n, batch
    <2> QED BY <1>1, <2>1
  <1>3. m = Cardinality(batch)
    BY Zenon DEF Stream!Cardinality, Cardinality
  <1> HIDE DEF n, batch
  <1>4. PICK a \in Nat : a = cursor + 1
    OBVIOUS
  <1>a. a \in Int /\ n \in Int
    BY <1>1
  <1>5. /\ IsFiniteSet(a..n)
        /\ Cardinality(a..n) = IF a > n THEN 0 ELSE n - a + 1
    BY <1>a, FS_Interval
  <1>6. Cardinality(batch) <= Cardinality(a..n)
    BY <1>2, <1>4, <1>5, FS_Subset
  <1>7. m <= (IF a > n THEN 0 ELSE n - a + 1)
    BY <1>3, <1>5, <1>6
  <1>8. m > 0 => cursor <= n - m
    BY <1>1, <1>4, <1>7
  <1> QED BY <1>1, <1>8 DEF n

LEMMA SendKeeps ==
  ASSUME ShowInv, Stream!SendBatch
  PROVE  Cursors' /\ Ahead' /\ Since' /\ Rising' /\ Misses' /\ Once' /\ Ordered'
  <1>1. StreamInv /\ ServerTyped /\ Since /\ Rising
    BY DEF ShowInv, ServerInv
  <1>2. PICK g \in 1..Newest, cursor \in Nat : g = conn.gen /\ cursor = conn.cursor
    BY <1>1 DEF StreamInv, Connected, Stream!SendBatch, Newest
  <1>3. page.pc = "open" /\ conn # None
    BY <1>1 DEF StreamInv, Connected, Stream!SendBatch
  <1>4. page' = page /\ ServerKeeps
    BY DEF Stream!SendBatch, Stream!server, ServerKeeps
  <1>5. page.since <= Newest
    <2>1. Newest \in Nat /\ page.since \in Nat
      BY <1>1, Places, PagePlaces
    <2> QED BY <1>1, <1>2, <1>3, <2>1 DEF Since
  <1>6. Cursors' /\ Ahead' /\ Misses' /\ Once' /\ Ordered'
    <2>1. PageAlike /\ (Reads' => Reads) /\ page'.pc # "read"
      BY <1>3, <1>4 DEF PageAlike, Reads
    <2> QED BY <1>4, <1>5, <2>1, PageAlikeKeeps
  <1>7. wire \in Seq(Message) /\ Len(wire) \in Nat
    BY <1>1, LenProperties DEF StreamInv, Connected
  <1>8. /\ \A i \in 1..Len(wire) : IsEvent(i) => page.last < wire[i].seq /\ wire[i].seq <= cursor
        /\ \A i, j \in 1..Len(wire) : IsEvent(i) /\ IsEvent(j) /\ i < j => wire[i].seq < wire[j].seq
        /\ page.last <= cursor
        /\ \A i \in 1..Len(wire) : wire[i].kind = "hello" => page.since <= wire[i].gen
    BY <1>1, <1>2, <1>3 DEF Rising, Since
  <1>9. PICK n, m : n = Ends(g) /\ m = Stream!Cardinality(Stream!Buffered(chans[g], cursor))
    OBVIOUS
  <1>10. n \in Nat /\ m \in Nat /\ m <= n /\ (m > 0 => cursor <= n - m)
    BY <1>1, <1>9, BatchBeyond
  <1>11. CASE /\ Stream!Buffered(chans[g], cursor) # {}
              /\ wire' = wire \o [i \in 1..m |-> [kind |-> "event", seq |-> n - m + i]]
              /\ conn' = [conn EXCEPT !.cursor = n]
    <2>1. m > 0
      <3>1. PICK b : b = Stream!Buffered(chans[g], cursor)
        OBVIOUS
      <3>2. b \subseteq 1..n /\ m = Cardinality(b) /\ b # {}
        <4>1. m = Stream!Cardinality(b)
          BY <1>9, <3>1
        <4>2. Stream!Cardinality(b) = Cardinality(b)
          BY Zenon DEF Stream!Cardinality, Cardinality
        <4> QED BY <1>9, <1>11, <3>1, <4>1, <4>2 DEF Stream!Buffered, Stream!LastSeq, Ends
      <3>a. 1 \in Int /\ n \in Int
        BY <1>10
      <3>b. IsFiniteSet(1..n)
        BY <3>a, FS_Interval
      <3>3. IsFiniteSet(b)
        BY <3>2, <3>b, FS_Subset
      <3>4. Cardinality(b) # 0
        BY <3>2, <3>3, FS_EmptySet
      <3> QED BY <1>10, <3>2, <3>4
    <2>2. PICK events : events = [i \in 1..m |-> [kind |-> "event", seq |-> n - m + i]]
      OBVIOUS
    <2>3. /\ events \in Seq(Message) /\ Len(events) = m
          /\ \A i \in 1..m : events[i].kind = "event" /\ events[i].seq = n - m + i
      <3>1. \A i \in 1..m : n - m + i \in Nat
        BY <1>10
      <3> QED BY <1>10, <2>2, <3>1 DEF Message
    <2>4. /\ Len(wire') = Len(wire) + m
          /\ \A i \in 1..Len(wire) + m : wire'[i] = IF i <= Len(wire) THEN wire[i] ELSE events[i - Len(wire)]
      <3>1. wire' = wire \o events
        BY <1>11, <2>2
      <3> QED BY <1>7, <2>3, <3>1, ConcatProperties
    <2>5. \A i \in 1..Len(wire) : wire'[i] = wire[i]
      BY <1>7, <1>10, <2>4
    <2>6. \A k \in 1..m : /\ Len(wire) + k \in 1..Len(wire') /\ wire'[Len(wire) + k].kind = "event"
                          /\ wire'[Len(wire) + k].seq = n - m + k
      <3> SUFFICES ASSUME NEW k \in 1..m
                   PROVE  /\ Len(wire) + k \in 1..Len(wire') /\ wire'[Len(wire) + k].kind = "event"
                          /\ wire'[Len(wire) + k].seq = n - m + k
        OBVIOUS
      <3>1. PICK p \in Nat : p = Len(wire) + k
        BY <1>7
      <3>2. p \in 1..Len(wire) + m /\ ~(p <= Len(wire)) /\ p - Len(wire) = k
        BY <1>7, <1>10, <3>1
      <3>3. wire'[p] = events[k]
        BY <2>4, <3>2
      <3> QED BY <2>3, <2>4, <3>1, <3>2, <3>3
    <2>7. \A i \in 1..Len(wire') : i \in 1..Len(wire) \/ \E k \in 1..m : i = Len(wire) + k
      <3> SUFFICES ASSUME NEW i \in 1..Len(wire'), ~(i \in 1..Len(wire)) PROVE \E k \in 1..m : i = Len(wire) + k
        OBVIOUS
      <3>1. i - Len(wire) \in 1..m /\ i = Len(wire) + (i - Len(wire))
        BY <1>7, <1>10, <2>4
      <3> QED BY <3>1
    <2>8. conn'.cursor = n /\ conn'.gen = g
      <3>1. conn \in [gen : 1..Len(chans), cursor : Nat]
        BY <1>1, <1>3 DEF StreamInv, Connected
      <3> QED BY <1>2, <1>11, <3>1
    <2>9. \A i \in 1..Len(wire') : wire'[i].kind = "event" =>
            page.last < wire'[i].seq /\ wire'[i].seq <= n
      <3> SUFFICES ASSUME NEW i \in 1..Len(wire'), wire'[i].kind = "event"
                   PROVE  page.last < wire'[i].seq /\ wire'[i].seq <= n
        OBVIOUS
      <3>p. page.last \in Nat /\ cursor \in Nat
        BY <1>1, PagePlaces
      <3>1. CASE i \in 1..Len(wire)
        <4>1. page.last < wire[i].seq /\ wire[i].seq <= cursor /\ wire[i].seq \in Nat
          <5>1. wire[i] \in Message /\ wire[i].kind = "event"
            BY <1>7, <2>5, <3>1, ElementOfSeq
          <5>2. wire[i].seq \in Nat
            BY <5>1 DEF Message
          <5> QED BY <1>8, <3>1, <5>1, <5>2 DEF IsEvent
        <4>2. cursor <= n
          BY <1>10, <2>1
        <4> QED BY <1>10, <2>5, <3>1, <4>1, <4>2
      <3>2. CASE \E k \in 1..m : i = Len(wire) + k
        BY <1>8, <1>10, <2>1, <2>6, <3>2, <3>p
      <3> QED BY <2>7, <3>1, <3>2
    <2>10. \A i, j \in 1..Len(wire') : wire'[i].kind = "event" /\ wire'[j].kind = "event" /\ i < j =>
             wire'[i].seq < wire'[j].seq
      <3> SUFFICES ASSUME NEW i \in 1..Len(wire'), NEW j \in 1..Len(wire'),
                          wire'[i].kind = "event", wire'[j].kind = "event", i < j
                   PROVE  wire'[i].seq < wire'[j].seq
        OBVIOUS
      <3>1. CASE j \in 1..Len(wire)
        <4>1. i \in 1..Len(wire)
          BY <1>7, <2>4, <1>10, <3>1
        <4> QED BY <1>8, <2>5, <3>1, <4>1 DEF IsEvent
      <3>2. CASE i \in 1..Len(wire) /\ \E k \in 1..m : j = Len(wire) + k
        <4>1. wire[i].seq <= cursor /\ wire[i].seq \in Nat
          <5>1. wire[i] \in Message /\ wire[i].kind = "event"
            BY <1>7, <2>5, <3>2, ElementOfSeq
          <5>2. wire[i].seq \in Nat
            BY <5>1 DEF Message
          <5> QED BY <1>8, <3>2, <5>1, <5>2 DEF IsEvent
        <4>2. PICK k \in 1..m : wire'[j].seq = n - m + k
          BY <2>6, <3>2
        <4> QED BY <1>10, <2>1, <2>5, <3>2, <4>1, <4>2
      <3>3. CASE (\E h \in 1..m : i = Len(wire) + h) /\ (\E k \in 1..m : j = Len(wire) + k)
        <4>1. PICK h \in 1..m, k \in 1..m : i = Len(wire) + h /\ j = Len(wire) + k
          BY <3>3
        <4>2. wire'[i].seq = n - m + h /\ wire'[j].seq = n - m + k
          BY <2>6, <4>1
        <4> QED BY <1>7, <1>10, <4>1, <4>2
      <3> QED BY <2>7, <3>1, <3>2, <3>3
    <2>11. Len(wire') > 0 /\ wire'[Len(wire')].kind = "event" /\ wire'[Len(wire')].seq = n
      <3>1. m \in 1..m /\ n - m + m = n
        BY <1>10, <2>1
      <3>2. wire'[Len(wire) + m].kind = "event" /\ wire'[Len(wire) + m].seq = n - m + m
        BY <2>6, <3>1
      <3> QED BY <1>7, <1>10, <2>1, <2>4, <3>1, <3>2
    <2>12. Rising'
      <3>1. page.last <= n
        BY <1>1, <1>8, <1>10, <2>1, PagePlaces
      <3> QED BY <1>4, <2>8, <2>9, <2>10, <2>11, <3>1 DEF Rising, IsEvent
    <2>13. Since'
      <3>1. \A i \in 1..Len(wire') : wire'[i].kind = "hello" => page.since <= wire'[i].gen
        <4>1. "hello" # "event"
          OBVIOUS
        <4> QED BY <1>8, <2>5, <2>6, <2>7, <4>1
      <3>2. page.since <= g
        BY <1>1, <1>2, <1>3 DEF Since
      <3> QED BY <1>4, <2>8, <3>1, <3>2 DEF Since
    <2> QED BY <1>6, <2>12, <2>13
  <1>12. CASE wire' = Append(wire, [kind |-> "closed"]) /\ conn' = None
    <2>1. [kind |-> "closed"] \in Message
      BY DEF Message
    <2>3. /\ Len(wire') = Len(wire) + 1
          /\ \A i \in 1..Len(wire) : wire'[i] = wire[i]
          /\ wire'[Len(wire) + 1] = [kind |-> "closed"]
      BY <1>12, <2>1, <1>7, AppendProperties
    <2>4. \A i \in 1..Len(wire') : i \in 1..Len(wire) \/ (i = Len(wire) + 1 /\ wire'[i].kind = "closed")
      BY <1>7, <2>3
    <2>5. \A i \in 1..Len(wire') : wire'[i].kind \in {"hello", "event"} => i \in 1..Len(wire) /\ wire'[i] = wire[i]
      BY <2>3, <2>4
    <2>6. Rising' /\ Since'
      BY <1>4, <1>8, <1>12, <2>5 DEF Rising, Since, IsEvent
    <2> QED BY <1>6, <2>6
  <1> QED BY <1>2, <1>9, <1>11, <1>12 DEF Stream!SendBatch, Stream!LastSeq, Ends

\* A page that reads the head of its wire.
LEMMA HeadRead ==
  ASSUME StreamInv, wire # <<>>
  PROVE  /\ wire \in Seq(Message) /\ Len(wire) \in Nat /\ 1 \in 1..Len(wire) /\ Head(wire) = wire[1]
         /\ Len(Tail(wire)) \in Nat /\ Len(Tail(wire)) = Len(wire) - 1
         /\ \A i \in 1..Len(Tail(wire)) : i + 1 \in 1..Len(wire) /\ Tail(wire)[i] = wire[i + 1]
         /\ \A i \in 1..Len(wire) : wire[i].kind = "event" => wire[i].seq \in Nat
  <1>1. wire \in Seq(Message)
    BY DEF StreamInv, Connected
  <1>2. Len(wire) \in Nat /\ Len(wire) > 0
    BY <1>1, EmptySeq, LenProperties
  <1>3. /\ Head(wire) = wire[1] /\ Len(Tail(wire)) = Len(wire) - 1
        /\ \A i \in 1..Len(Tail(wire)) : Tail(wire)[i] = wire[i + 1]
    BY <1>1, HeadTailProperties
  <1>4. \A i \in 1..Len(wire) : wire[i].kind = "event" => wire[i].seq \in Nat
    <2> TAKE i \in 1..Len(wire)
    <2>1. wire[i] \in Message
      BY <1>1, ElementOfSeq
    <2> QED BY <2>1 DEF Message
  <1> QED BY <1>1, <1>2, <1>3, <1>4

LEMMA HelloKeeps ==
  ASSUME ShowInv, Stream!ReceiveHello
  PROVE  Cursors' /\ Ahead' /\ Since' /\ Rising' /\ Misses' /\ Once' /\ Ordered'
  <1>1. /\ StreamInv /\ ServerTyped /\ page \in Pages
        /\ Cursors /\ Ahead /\ Since /\ Rising /\ Misses /\ Once /\ Ordered
    BY PagePlaces DEF ShowInv, ServerInv
  <1>2. page.pc = "open" /\ wire # <<>> /\ Head(wire).kind = "hello" /\ ServerKeeps
    BY DEF Stream!ReceiveHello, Stream!server, ServerKeeps
  <1>3. PICK g \in 1..Newest : WireOf(g)
    BY <1>1, <1>2 DEF StreamInv, Connected, Newest
  <1>4. /\ wire \in Seq(Message) /\ Len(wire) \in Nat /\ 1 \in 1..Len(wire) /\ Head(wire) = wire[1]
        /\ Len(Tail(wire)) \in Nat /\ Len(Tail(wire)) = Len(wire) - 1
        /\ \A i \in 1..Len(Tail(wire)) : i + 1 \in 1..Len(wire) /\ Tail(wire)[i] = wire[i + 1]
    BY <1>1, <1>2, HeadRead
  <1>5. CASE page' = Stream!Recover /\ Stream!Disconnect
    BY <1>2, <1>5, LeavesKeep DEF Stream!Recover, Stream!Disconnect
  <1>6. CASE /\ ~Stream!StaleHello(Head(wire)) /\ page' = [page EXCEPT !.gen = Head(wire).gen]
             /\ wire' = Tail(wire) /\ UNCHANGED conn
    <2>1. Head(wire).gen = g /\ page.since <= g
      BY <1>1, <1>2, <1>3, <1>4 DEF WireOf, Since
    <2>2. page.gen \in {None, g}
      BY <1>6, <2>1 DEF Stream!StaleHello
    <2>3. /\ page'.gen = g /\ page'.pc = "open" /\ page'.resume = page.resume /\ page'.last = page.last
          /\ page'.lastId = page.lastId /\ page'.shown = page.shown /\ page'.recent = page.recent
          /\ page'.maxEid = page.maxEid /\ page'.gap = page.gap /\ page'.since = page.since
      BY <1>1, <1>2, <1>6, <2>1 DEF Pages
    <2>4. /\ UNCHANGED <<file, count, eidOf, prior, pending, chans, failed>>
          /\ Stream!NextEid' = Stream!NextEid /\ Stream!Events' = Stream!Events
          /\ Newest' = Newest
          /\ \A h : Ends(h)' = Ends(h) /\ \A s : At(h, s)' = At(h, s)
          /\ \A e : Held(e)' = Held(e)
      BY <1>2, PlacesStay DEF ServerKeeps
    <2>5. /\ \A e : Shows(e)' = Shows(e)
          /\ \A m : Fresh(m)' = Fresh(m)
          /\ Remembered' = Remembered /\ Reads' /\ Reads
      BY <1>2, <2>3 DEF Shows, Fresh, Remembered, Reads
    <2>6. /\ Newest \in Nat /\ Ends(g) \in Nat /\ page.last \in Nat /\ page.since \in Nat
          /\ None \notin Nat /\ g \in Nat
      BY <1>1, <1>3, Places, PagePlaces
    <2>7. page.last <= Ends(g)
      <3>1. page.last <= (IF page.gen = None THEN 0 ELSE Ends(page.gen))
        BY <1>1, <2>5 DEF Cursors
      <3> QED BY <2>2, <2>6, <3>1
    <2>8. Cursors'
      <3>1. \A h : h = page'.gen => Ends(h)' = Ends(g)
        BY <2>3, <2>4
      <3>2. g # None
        BY <2>6
      <3>3. /\ page.last \in {page.lastId, page.resume} /\ page.lastId <= page.last
            /\ page.resume <= page.last /\ page.since <= Newest + 1
        BY <1>1, <2>5 DEF Cursors
      <3> QED BY <2>3, <2>4, <2>7, <3>1, <3>2, <3>3 DEF Cursors
    <2>9. Ahead'
      <3>1. page.since # Newest + 1
        BY <1>1, <1>2, <2>5 DEF Ahead
      <3> QED BY <2>3, <2>4, <3>1 DEF Ahead
    <2>10. Since'
      <3>1. \A i \in 1..Len(wire') : wire'[i].kind # "hello"
        <4> TAKE i \in 1..Len(wire')
        <4>1. i + 1 \in 1..Len(wire) /\ wire'[i] = wire[i + 1] /\ i + 1 # 1
          BY <1>4, <1>6
        <4> QED BY <1>3, <4>1 DEF WireOf
      <3> QED BY <1>1, <1>2, <1>6, <2>3, <3>1 DEF Since
    <2>11. Rising'
      <3>1. \A i \in 1..Len(wire') : i + 1 \in 1..Len(wire) /\ wire'[i] = wire[i + 1]
        BY <1>4, <1>6
      <3>w. Len(wire') \in Nat /\ Len(wire') + 1 = Len(wire)
        BY <1>4, <1>6
      <3>2. /\ \A i \in 1..Len(wire') : wire'[i].kind = "event" => page.last < wire'[i].seq
            /\ conn # None => \A i \in 1..Len(wire') : wire'[i].kind = "event" => wire'[i].seq <= conn.cursor
        BY <1>1, <1>2, <3>1 DEF Rising, IsEvent
      <3>3. \A i, j \in 1..Len(wire') : wire'[i].kind = "event" /\ wire'[j].kind = "event" /\ i < j =>
              wire'[i].seq < wire'[j].seq
        <4> SUFFICES ASSUME NEW i \in 1..Len(wire'), NEW j \in 1..Len(wire'),
                            wire'[i].kind = "event", wire'[j].kind = "event", i < j
                     PROVE  wire'[i].seq < wire'[j].seq
          OBVIOUS
        <4>1. i + 1 < j + 1 /\ i + 1 \in 1..Len(wire) /\ j + 1 \in 1..Len(wire)
          BY <1>4, <1>6
        <4>2. wire[i + 1].kind = "event" /\ wire[j + 1].kind = "event"
          BY <3>1
        <4> QED BY <1>1, <1>2, <3>1, <4>1, <4>2 DEF Rising, IsEvent
      <3>4. ASSUME conn # None
            PROVE  IF Len(wire') > 0 /\ wire'[Len(wire')].kind = "event"
                   THEN wire'[Len(wire')].seq = conn.cursor ELSE conn.cursor = page.last
        <4>1. IF Len(wire) > 0 /\ IsEvent(Len(wire)) THEN wire[Len(wire)].seq = conn.cursor
                                                     ELSE conn.cursor = page.last
          BY <1>1, <1>2, <3>4 DEF Rising
        <4>2. CASE Len(wire') = 0
          <5>1. Len(wire) = 1
            BY <3>w, <4>2
          <5>2. ~IsEvent(Len(wire))
            BY <1>2, <1>4, <5>1 DEF IsEvent
          <5> QED BY <4>1, <4>2, <5>2
        <4>3. CASE Len(wire') # 0
          <5>1. Len(wire') \in 1..Len(wire') /\ Len(wire') + 1 = Len(wire) /\ Len(wire) > 0
            BY <3>w, <4>3
          <5>2. wire'[Len(wire')] = wire[Len(wire)]
            BY <3>1, <5>1
          <5>3. Len(wire') > 0
            BY <3>w, <4>3
          <5> QED BY <4>1, <5>1, <5>2, <5>3 DEF IsEvent
        <4> QED BY <4>2, <4>3
      <3>5. conn # None => page.last <= conn.cursor
        BY <1>1, <1>2 DEF Rising
      <3> QED BY <1>6, <2>3, <3>2, <3>3, <3>4, <3>5 DEF Rising, IsEvent
    <2>12. Misses'
      <3>1. Keeps' => Keeps
        <4> SUFFICES ASSUME Keeps' PROVE Keeps
          OBVIOUS
        <4>1. g = Newest /\ page.since >= Newest /\ ~page.gap
          BY <2>3, <2>4, <2>6 DEF Keeps
        <4> QED BY <2>2, <2>5, <4>1 DEF Keeps
      <3>2. \A e : Awaited(e)' <=> Awaited(e)
        BY <2>3, <2>4 DEF Awaited
      <3> QED BY <1>1, <2>3, <2>4, <2>5, <3>1, <3>2 DEF Misses
    <2>13. \A e : Received(e) => Received(e)'
      <3> SUFFICES ASSUME NEW e, Received(e) PROVE Received(e)'
        OBVIOUS
      <3>1. page.gen = g /\ \E s \in 1..Ends(g) : s <= page.last /\ At(g, s) = e
        BY <2>2 DEF Received
      <3>2. \A h : h = page'.gen => h = g
        BY <2>3
      <3> QED BY <2>3, <2>4, <2>6, <3>1, <3>2 DEF Received
    <2>14. Once'
      BY <1>1, <2>3, <2>4, <2>5, <2>13 DEF Once
    <2>15. Ordered'
      <3>1. \A j \in 1..Len(page.shown) :
              \/ \A f \in prior[page.shown[j]] : \E k \in 1..Len(page.shown) : k < j /\ page.shown[k] = f
              \/ \A e : e = page.shown[j] => Received(e)'
        BY <1>1, <2>5, <2>13 DEF Ordered
      <3>2. /\ \A i \in 1..Len(page.shown) : page.shown[i] \in Stream!Events
            /\ \A i, j \in 1..Len(page.shown) : page.shown[i] \in prior[page.shown[j]] =>
                 \E k \in 1..Len(page.shown) : k < j /\ page.shown[k] = page.shown[i]
        BY <1>1 DEF Ordered
      <3>3. page'.shown = page.shown /\ prior' = prior /\ Stream!Events' = Stream!Events
        BY <2>3, <2>4
      <3>4. \A i \in 1..Len(page'.shown) : page'.shown[i] \in Stream!Events'
        BY <3>2, <3>3
      <3>5. \A i, j \in 1..Len(page'.shown) : page'.shown[i] \in prior'[page'.shown[j]] =>
              \E k \in 1..Len(page'.shown) : k < j /\ page'.shown[k] = page'.shown[i]
        BY <3>2, <3>3
      <3>6. \A j \in 1..Len(page'.shown) :
              \/ \A f \in prior'[page'.shown[j]] :
                   \E k \in 1..Len(page'.shown) : k < j /\ page'.shown[k] = f
              \/ \A e : e = page'.shown[j] => Received(e)'
        BY <3>1, <3>3
      <3> QED BY <3>4, <3>5, <3>6 DEF Ordered
    <2> QED BY <2>8, <2>9, <2>10, <2>11, <2>12, <2>14, <2>15
  <1> QED BY <1>5, <1>6 DEF Stream!ReceiveHello

\* An event reaches the page: number s of channel g.
Arrives(g, s, e) ==
  /\ g \in 1..Newest /\ page.gen = g /\ s \in 1..Ends(g) /\ At(g, s) = e
  /\ page.pc = "open" /\ page.last < s
  /\ page'.pc = "open" /\ page'.gen = g /\ page'.resume = page.resume /\ page'.since = page.since
  /\ page'.last = s /\ page'.lastId = s /\ (page'.gap <=> page.gap \/ s > page.last + 1)

\* It is dropped, or put at the end of what the page shows.
Drops == /\ page'.shown = page.shown /\ page'.recent = page.recent /\ page'.maxEid = page.maxEid
Puts(e) ==
  /\ Len(page'.shown) = Len(page.shown) + 1 /\ page'.shown[Len(page.shown) + 1] = e
  /\ \A i \in 1..Len(page.shown) : page'.shown[i] = page.shown[i]
  /\ page'.maxEid = IF eidOf[e] > page.maxEid THEN eidOf[e] ELSE page.maxEid
  /\ Len(page'.recent) = IF Len(page.recent) + 1 > Window THEN Window ELSE Len(page.recent) + 1
  /\ \A i \in 1..Len(page'.recent) : \A j : j = Len(page.recent) + 1 - Len(page'.recent) + i =>
       page'.recent[i] = IF j = Len(page.recent) + 1 THEN eidOf[e] ELSE page.recent[j]

LEMMA EventPlaces ==
  ASSUME ShowInv, Stream!ReceiveEvent
  PROVE  /\ ServerKeeps /\ wire # <<>> /\ wire' = Tail(wire) /\ UNCHANGED conn
         /\ \E g, s, e : /\ Arrives(g, s, e) /\ wire[1].seq = s /\ IsEvent(1)
                         /\ \/ ~Fresh(eidOf[e]) /\ Drops
                            \/ Fresh(eidOf[e]) /\ Puts(e)
  <1>1. StreamInv /\ ServerTyped /\ page \in Pages /\ Rising
    BY PagePlaces DEF ShowInv, ServerInv
  <1>2. /\ page.pc = "open" /\ wire # <<>> /\ Head(wire).kind = "event" /\ ServerKeeps
        /\ wire' = Tail(wire) /\ UNCHANGED conn
    BY DEF Stream!ReceiveEvent, Stream!server, ServerKeeps
  <1>3. PICK g \in 1..Newest : WireOf(g)
    BY <1>1, <1>2 DEF StreamInv, Connected, Newest
  <1>4. 1 \in 1..Len(wire) /\ Head(wire) = wire[1]
    BY <1>1, <1>2, HeadRead
  <1>5. PICK s \in 1..Ends(g) : s = wire[1].seq
    BY <1>2, <1>3, <1>4 DEF WireOf, Ends
  <1>6. page.gen = g /\ IsEvent(1)
    BY <1>2, <1>3, <1>4 DEF WireOf, IsEvent
  <1>7. PICK e \in Stream!Events : e = At(g, s)
    BY <1>1, Places
  <1>8. page.last < s
    BY <1>1, <1>2, <1>4, <1>5, <1>6 DEF Rising
  <1>9. page' = Stream!Shown(s, e)
    BY <1>4, <1>5, <1>6, <1>7 DEF Stream!ReceiveEvent, At
  <1>10. /\ page.last \in Nat /\ page.maxEid \in Nat /\ s \in Nat /\ eidOf[e] \in Nat /\ e \in Nat
         /\ page.shown \in Seq(Nat) /\ page.recent \in Seq(Nat) /\ Window \in Nat /\ Window > 0
         /\ Len(page.recent) \in Nat
    <2>1. Ends(g) \in Nat /\ eidOf[e] \in Nat /\ e \in Nat
      BY <1>1, <1>7, Places
    <2> QED BY <1>1, <2>1, PagePlaces
  <1>11. PICK noted : noted = [page EXCEPT !.lastId = s, !.last = IF s > @ THEN s ELSE @,
                                           !.gap = @ \/ s > page.last + 1]
    OBVIOUS
  <1>12. /\ noted \in Pages /\ noted.pc = "open" /\ noted.gen = g /\ noted.resume = page.resume
         /\ noted.since = page.since /\ noted.last = s /\ noted.lastId = s
         /\ (noted.gap <=> page.gap \/ s > page.last + 1)
         /\ noted.shown = page.shown /\ noted.recent = page.recent /\ noted.maxEid = page.maxEid
    <2>1. (IF s > page.last THEN s ELSE page.last) = s
      BY <1>8, <1>10
    <2>2. noted = [page EXCEPT !.lastId = s, !.last = s, !.gap = page.gap \/ s > page.last + 1]
      BY <1>11, <2>1
    <2> QED BY <1>1, <1>2, <1>6, <1>10, <2>2 DEF Pages
  <1>13. Stream!IsDuplicate(eidOf[e]) <=> ~Fresh(eidOf[e])
    <2>1. eidOf[e] \in Stream!Range(page.recent) <=> \E i \in 1..Len(page.recent) : page.recent[i] = eidOf[e]
      <3>1. DOMAIN page.recent = 1..Len(page.recent)
        BY <1>10, LenProperties
      <3> QED BY <3>1 DEF Stream!Range
    <2>2. eidOf[e] <= page.maxEid - Window <=> ~(page.maxEid < eidOf[e] + Window)
      BY <1>10
    <2> QED BY <2>1, <2>2 DEF Stream!IsDuplicate, Fresh
  <1>14. CASE ~Fresh(eidOf[e])
    <2>1. page' = noted
      BY <1>9, <1>11, <1>13, <1>14 DEF Stream!Shown
    <2>2. Arrives(g, s, e) /\ Drops
      BY <1>2, <1>6, <1>7, <1>8, <1>12, <2>1 DEF Arrives, Drops
    <2> QED BY <1>2, <1>5, <1>6, <1>14, <2>2
  <1>15. CASE Fresh(eidOf[e])
    <2>1. PICK big \in Nat : big = IF eidOf[e] > page.maxEid THEN eidOf[e] ELSE page.maxEid
      BY <1>10
    <2>2. PICK a \in Seq(Nat) : a = Append(page.recent, eidOf[e])
      BY <1>10, AppendProperties
    <2>3. PICK r \in Seq(Nat) : r = Stream!LastOf(a, Window)
      BY WindowTyped
    <2>4. PICK b \in Seq(Nat) : b = Append(page.shown, e)
      BY <1>10, AppendProperties
    <2>5. page' = [noted EXCEPT !.shown = b, !.recent = r, !.maxEid = big]
      BY <1>9, <1>11, <1>12, <1>13, <1>15, <2>1, <2>2, <2>3, <2>4 DEF Stream!Shown
    <2>6. /\ page'.shown = b /\ page'.recent = r /\ page'.maxEid = big /\ page'.pc = "open"
          /\ page'.gen = g /\ page'.resume = page.resume /\ page'.since = page.since
          /\ page'.last = s /\ page'.lastId = s /\ page'.gap = noted.gap
      BY <1>12, <2>5 DEF Pages
    <2>7. Arrives(g, s, e)
      BY <1>2, <1>6, <1>7, <1>8, <1>12, <2>6 DEF Arrives
    <2>8. /\ Len(b) = Len(page.shown) + 1 /\ b[Len(page.shown) + 1] = e
          /\ \A i \in 1..Len(page.shown) : b[i] = page.shown[i]
      BY <1>10, <2>4, AppendProperties
    <2>9. /\ Len(a) = Len(page.recent) + 1 /\ a[Len(page.recent) + 1] = eidOf[e]
          /\ \A i \in 1..Len(page.recent) : a[i] = page.recent[i]
      BY <1>10, <2>2, AppendProperties
    <2>10. /\ Len(r) = IF Len(a) > Window THEN Window ELSE Len(a)
           /\ \A i \in 1..Len(r) : r[i] = a[Len(a) - Len(r) + i]
      BY <2>3, WindowPlaces
    <2>11. \A i \in 1..Len(r) : \A j : j = Len(page.recent) + 1 - Len(r) + i =>
             r[i] = IF j = Len(page.recent) + 1 THEN eidOf[e] ELSE page.recent[j]
      <3> SUFFICES ASSUME NEW i \in 1..Len(r), NEW j, j = Len(page.recent) + 1 - Len(r) + i
                   PROVE  r[i] = IF j = Len(page.recent) + 1 THEN eidOf[e] ELSE page.recent[j]
        OBVIOUS
      <3>1. r[i] = a[j]
        <4>1. j = Len(a) - Len(r) + i
          BY <2>9
        <4> QED BY <2>10, <4>1
      <3>2. Len(r) \in Nat /\ Len(r) <= Len(page.recent) + 1
        BY <1>10, <2>9, <2>10
      <3>3. j \in 1..Len(page.recent) + 1
        BY <1>10, <3>2
      <3>4. j # Len(page.recent) + 1 => j \in 1..Len(page.recent)
        BY <1>10, <3>3
      <3> QED BY <2>9, <3>1, <3>4
    <2>12. Puts(e)
      BY <2>1, <2>6, <2>8, <2>9, <2>10, <2>11 DEF Puts
    <2> QED BY <1>2, <1>5, <1>6, <1>15, <2>7, <2>12
  <1> QED BY <1>14, <1>15

\* What the page gets when the wire moves up.
LEMMA EventNumbers ==
  ASSUME ShowInv, ServerKeeps, wire # <<>>, wire' = Tail(wire), UNCHANGED conn,
         NEW g, NEW s, NEW e, Arrives(g, s, e), wire[1].seq = s, IsEvent(1)
  PROVE  Cursors' /\ Ahead' /\ Since' /\ Rising'
  <1>1. /\ StreamInv /\ ServerTyped /\ Cursors /\ Ahead /\ Since /\ Rising
    BY DEF ShowInv, ServerInv
  <1>2. /\ g \in 1..Newest /\ page.gen = g /\ s \in 1..Ends(g)
        /\ page.pc = "open" /\ page.last < s
        /\ page'.pc = "open" /\ page'.gen = g /\ page'.resume = page.resume /\ page'.since = page.since
        /\ page'.last = s /\ page'.lastId = s
    BY DEF Arrives
  <1>3. Reads /\ Reads'
    BY <1>2 DEF Reads
  <1>4. /\ Newest' = Newest /\ \A h : Ends(h)' = Ends(h)
        /\ UNCHANGED <<chans, file>>
    BY PlacesStay DEF ServerKeeps
  <1>5. /\ Newest \in Nat /\ Ends(g) \in Nat /\ page.last \in Nat /\ page.since \in Nat /\ page.resume \in Nat
        /\ None \notin Nat /\ g \in Nat /\ s \in Nat
    BY <1>1, <1>2, Places, PagePlaces
  <1>6. Cursors'
    <2>1. \A h : h = page'.gen => Ends(h)' = Ends(g)
      BY <1>2, <1>4
    <2>2. g # None /\ page.resume <= s /\ page.since <= Newest + 1
      BY <1>1, <1>2, <1>3, <1>5 DEF Cursors
    <2>3. s <= s /\ s <= Ends(g)
      BY <1>2, <1>5
    <2> QED BY <1>2, <1>4, <2>1, <2>2, <2>3 DEF Cursors
  <1>7. Ahead'
    <2>1. page.since # Newest + 1
      BY <1>1, <1>2, <1>3 DEF Ahead
    <2> QED BY <1>2, <1>4, <2>1 DEF Ahead
  <1>8. /\ Len(wire) \in Nat /\ 1 \in 1..Len(wire)
        /\ Len(wire') \in Nat /\ Len(wire') + 1 = Len(wire)
        /\ \A i \in 1..Len(wire') : i + 1 \in 1..Len(wire) /\ wire'[i] = wire[i + 1]
    BY <1>1, HeadRead
  <1>9. Since'
    BY <1>1, <1>2, <1>8 DEF Since
  <1>10. Rising'
    <2>1. \A i \in 1..Len(wire') : wire'[i].kind = "event" =>
            s < wire'[i].seq /\ (conn # None => wire'[i].seq <= conn.cursor)
      <3> SUFFICES ASSUME NEW i \in 1..Len(wire'), wire'[i].kind = "event"
                   PROVE  s < wire'[i].seq /\ (conn # None => wire'[i].seq <= conn.cursor)
        OBVIOUS
      <3>1. i + 1 \in 1..Len(wire) /\ wire'[i] = wire[i + 1] /\ 1 < i + 1
        BY <1>8
      <3> QED BY <1>1, <1>2, <1>8, <3>1 DEF Rising, IsEvent
    <2>2. \A i, j \in 1..Len(wire') : wire'[i].kind = "event" /\ wire'[j].kind = "event" /\ i < j =>
            wire'[i].seq < wire'[j].seq
      <3> SUFFICES ASSUME NEW i \in 1..Len(wire'), NEW j \in 1..Len(wire'),
                          wire'[i].kind = "event", wire'[j].kind = "event", i < j
                   PROVE  wire'[i].seq < wire'[j].seq
        OBVIOUS
      <3>1. i + 1 < j + 1 /\ i + 1 \in 1..Len(wire) /\ j + 1 \in 1..Len(wire)
        BY <1>8
      <3>2. wire[i + 1].kind = "event" /\ wire[j + 1].kind = "event"
        BY <1>8
      <3> QED BY <1>1, <1>2, <1>8, <3>1, <3>2 DEF Rising, IsEvent
    <2>3. ASSUME conn # None
          PROVE  /\ s <= conn.cursor
                 /\ IF Len(wire') > 0 /\ wire'[Len(wire')].kind = "event"
                    THEN wire'[Len(wire')].seq = conn.cursor ELSE conn.cursor = s
      <3>1. s <= conn.cursor
        BY <1>1, <1>2, <1>8, <2>3 DEF Rising
      <3>2. IF Len(wire) > 0 /\ IsEvent(Len(wire)) THEN wire[Len(wire)].seq = conn.cursor
                                                   ELSE conn.cursor = page.last
        BY <1>1, <1>2, <2>3 DEF Rising
      <3>3. IsEvent(Len(wire)) /\ wire[Len(wire)].seq = conn.cursor
        <4>1. conn.cursor # page.last
          <5>1. conn.cursor \in Nat
            BY <1>1, <2>3 DEF StreamInv, Connected
          <5> QED BY <1>2, <1>5, <3>1, <5>1
        <4> QED BY <3>2, <4>1
      <3>4. CASE Len(wire') = 0
        <4>1. Len(wire) = 1
          <5>1. Len(wire') + 1 = Len(wire)
            BY <1>8
          <5> QED BY <3>4, <5>1
        <4> QED BY <3>1, <3>3, <3>4, <4>1
      <3>5. CASE Len(wire') # 0
        <4>1. Len(wire') \in 1..Len(wire') /\ Len(wire') + 1 = Len(wire) /\ Len(wire') > 0
          BY <1>8, <3>5
        <4>2. wire'[Len(wire')] = wire[Len(wire)]
          BY <1>8, <4>1
        <4> QED BY <3>1, <3>3, <4>1, <4>2 DEF IsEvent
      <3> QED BY <3>4, <3>5
    <2> QED BY <1>2, <2>1, <2>2, <2>3 DEF Rising, IsEvent
  <1> QED BY <1>6, <1>7, <1>9, <1>10

LEMMA EventMisses ==
  ASSUME ShowInv, ServerKeeps, NEW g, NEW s, NEW e, Arrives(g, s, e),
         \/ ~Fresh(eidOf[e]) /\ Drops
         \/ Fresh(eidOf[e]) /\ Puts(e)
  PROVE  Misses'
  <1>1. /\ StreamInv /\ ServerTyped /\ Numbers /\ Misses /\ Cursors
    BY DEF ShowInv, ServerInv
  <1>2. /\ g \in 1..Newest /\ page.gen = g /\ s \in 1..Ends(g) /\ At(g, s) = e
        /\ page.last < s /\ page.pc = "open"
        /\ page'.pc = "open" /\ page'.gen = g /\ page'.since = page.since
        /\ page'.last = s /\ (page'.gap <=> page.gap \/ s > page.last + 1)
    BY DEF Arrives
  <1>3. /\ UNCHANGED <<file, eidOf>> /\ Stream!NextEid' = Stream!NextEid /\ Newest' = Newest
        /\ \A h : Ends(h)' = Ends(h) /\ \A t : At(h, t)' = At(h, t)
        /\ \A f : Held(f)' = Held(f)
    BY PlacesStay DEF ServerKeeps
  <1>4. /\ page.last \in Nat /\ page.maxEid \in Nat /\ Len(page.shown) \in Nat
        /\ Len(page.recent) \in Nat /\ \A i \in 1..Len(page.recent) : page.recent[i] \in Nat
        /\ Window \in Nat /\ Window > 0
    BY <1>1, PagePlaces
  <1>5. /\ Newest \in Nat /\ Ends(g) \in Nat /\ s \in Nat /\ e \in Stream!Events
        /\ \A f \in Stream!Events : eidOf[f] \in Nat
        /\ \A i \in 1..Len(file) : file[i] \in Stream!Events
        /\ \A t \in 1..Ends(g) : At(g, t) \in Stream!Events
        /\ Stream!NextEid \in Nat
    BY <1>1, <1>2, Places
  <1> SUFFICES ASSUME Keeps' PROVE Misses'
    BY DEF Misses
  <1>6. Keeps /\ g = Newest /\ s = page.last + 1
    <2>1. Reads /\ page.gap \in BOOLEAN
      BY <1>1, <1>2, PagePlaces DEF Reads
    <2>2. page'.since >= Newest /\ g \in {None, Newest} /\ ~page'.gap
      BY <1>2, <1>3 DEF Keeps
    <2>3. g = Newest
      BY <2>2, <1>2, <1>5, NoneAssumption
    <2>4. ~page.gap /\ ~(s > page.last + 1)
      BY <1>2, <2>2
    <2>5. s = page.last + 1
      BY <1>2, <1>4, <1>5, <2>4
    <2> QED BY <1>2, <2>1, <2>2, <2>3, <2>4, <2>5 DEF Keeps
  <1>7. /\ \A i \in 1..Len(file) : Shows(file[i]) \/ (Awaited(file[i]) /\ Fresh(eidOf[file[i]]))
        /\ page.maxEid < Stream!NextEid
        /\ \A i \in 1..Len(page.recent) : page.recent[i] < Stream!NextEid
    BY <1>1, <1>6 DEF Misses
  <1>8. Current(e) /\ eidOf[e] < Stream!NextEid /\ eidOf[e] \in Nat
    <2>1. Current(e)
      BY <1>2, <1>6 DEF Current
    <2> QED BY <1>1, <1>5, <2>1 DEF Numbers
  <1>9. \A f : f # e /\ Awaited(f) => Awaited(f)'
    <2> SUFFICES ASSUME NEW f, f # e, Awaited(f) PROVE Awaited(f)'
      OBVIOUS
    <2>1. Awaited(f)' <=> Held(f) \/ \E t \in 1..Ends(g) : s < t /\ At(g, t) = f
      BY <1>2, <1>3, <1>6 DEF Awaited
    <2>2. CASE \E t \in 1..Ends(g) : page.last < t /\ At(g, t) = f
      <3>1. PICK t \in 1..Ends(g) : page.last < t /\ At(g, t) = f
        BY <2>2
      <3>2. t # s
        BY <1>2, <3>1
      <3>3. s < t
        BY <1>4, <1>5, <1>6, <3>1, <3>2
      <3> QED BY <2>1, <3>1, <3>3
    <2> QED BY <2>1, <2>2, <1>6 DEF Awaited
  \* What is still awaited is fresh to a page that shows the arrival.
  <1>10. ASSUME NEW f \in Stream!Events, f # e, Awaited(f), Fresh(eidOf[f])
         PROVE  eidOf[e] < eidOf[f] + Window /\ eidOf[f] # eidOf[e]
    <2>1. Current(f)
      BY <1>10 DEF Awaited, Current
    <2>2. eidOf[f] # eidOf[e]
      BY <1>1, <1>5, <1>8, <1>10, <2>1 DEF Numbers
    <2>3. CASE Held(f)
      <3>1. PICK w \in Writers : pending[w] = f
        BY <2>3 DEF Held
      <3>2. f # None
        BY <1>1, Places
      <3>3. Stream!NextEid <= eidOf[f] + Window
        BY <1>1, <3>1, <3>2 DEF Numbers
      <3>4. eidOf[f] \in Nat
        BY <1>5
      <3> QED BY <1>4, <1>5, <1>8, <2>2, <3>3, <3>4
    <2>4. CASE \E t \in 1..Ends(g) : page.last < t /\ At(g, t) = f
      <3>1. PICK t \in 1..Ends(g) : page.last < t /\ At(g, t) = f
        BY <2>4
      <3>2. t # s
        BY <1>2, <1>10, <3>1
      <3>3. s < t
        BY <1>4, <1>5, <1>6, <3>1, <3>2
      <3>4. eidOf[At(g, s)] < eidOf[At(g, t)] + Window
        BY <1>1, <1>2, <1>6, <3>1, <3>3 DEF Numbers
      <3> QED BY <1>2, <2>2, <3>1, <3>4
    <2> QED BY <1>10, <1>6, <2>3, <2>4 DEF Awaited
  <1>11. CASE ~Fresh(eidOf[e]) /\ Drops
    <2>1. /\ \A f : Shows(f)' = Shows(f)
          /\ \A m : Fresh(m)' = Fresh(m)
          /\ page'.maxEid = page.maxEid /\ page'.recent = page.recent
      BY <1>11 DEF Drops, Shows, Fresh
    <2>2. \A i \in 1..Len(file) : \A f : f = file[i] => Shows(f) \/ (Awaited(f)' /\ Fresh(eidOf[f]))
      BY <1>7, <1>9, <1>11
    <2> QED BY <1>3, <1>7, <2>1, <2>2 DEF Misses
  <1>12. CASE Fresh(eidOf[e]) /\ Puts(e)
    <2>1. /\ Len(page'.shown) = Len(page.shown) + 1 /\ page'.shown[Len(page.shown) + 1] = e
          /\ \A i \in 1..Len(page.shown) : page'.shown[i] = page.shown[i]
          /\ page'.maxEid = IF eidOf[e] > page.maxEid THEN eidOf[e] ELSE page.maxEid
      BY <1>12 DEF Puts
    <2>2. \A f : Shows(f) \/ f = e => Shows(f)'
      <3>1. /\ Len(page.shown) + 1 \in 1..Len(page'.shown)
            /\ \A i \in 1..Len(page.shown) : i \in 1..Len(page'.shown)
        BY <1>4, <2>1
      <3> QED BY <2>1, <3>1 DEF Shows
    <2>3. \A i \in 1..Len(page'.recent) :
            page'.recent[i] = eidOf[e] \/ \E j \in 1..Len(page.recent) : page'.recent[i] = page.recent[j]
      <3> SUFFICES ASSUME NEW i \in 1..Len(page'.recent), page'.recent[i] # eidOf[e]
                   PROVE  \E j \in 1..Len(page.recent) : page'.recent[i] = page.recent[j]
        OBVIOUS
      <3>1. Len(page'.recent) = IF Len(page.recent) + 1 > Window THEN Window ELSE Len(page.recent) + 1
        BY <1>12 DEF Puts
      <3>2. PICK j : j = Len(page.recent) + 1 - Len(page'.recent) + i
        OBVIOUS
      <3>3. j \in 1..Len(page.recent) + 1
        <4>1. PICK l, m \in Nat : l = Len(page'.recent) /\ m = Len(page.recent)
          BY <1>4, <3>1
        <4>2. l <= m + 1
          BY <3>1, <4>1, <1>4
        <4>3. i \in 1..l /\ j = m + 1 - l + i
          BY <3>2, <4>1
        <4>4. j \in 1..m + 1
          BY <4>2, <4>3
        <4> QED BY <4>1, <4>4
      <3>4. page'.recent[i] = IF j = Len(page.recent) + 1 THEN eidOf[e] ELSE page.recent[j]
        BY <1>12, <3>2 DEF Puts
      <3>5. j \in 1..Len(page.recent)
        BY <1>4, <3>3, <3>4
      <3> QED BY <3>4, <3>5, <1>4
    <2>4. page'.maxEid < Stream!NextEid
      BY <1>7, <1>8, <2>1
    <2>5. \A i \in 1..Len(page'.recent) : page'.recent[i] < Stream!NextEid
      BY <1>7, <1>8, <2>3
    <2>6. \A f \in Stream!Events : f # e /\ Awaited(f) /\ Fresh(eidOf[f]) => Fresh(eidOf[f])'
      <3> SUFFICES ASSUME NEW f \in Stream!Events, f # e, Awaited(f), Fresh(eidOf[f])
                   PROVE  /\ page'.maxEid < eidOf[f] + Window
                          /\ \A i \in 1..Len(page'.recent) : page'.recent[i] # eidOf[f]
        BY <1>3 DEF Fresh
      <3>1. eidOf[e] < eidOf[f] + Window /\ eidOf[f] # eidOf[e]
        BY <1>10
      <3>2. page.maxEid < eidOf[f] + Window /\ \A i \in 1..Len(page.recent) : page.recent[i] # eidOf[f]
        BY DEF Fresh
      <3> QED BY <2>1, <2>3, <3>1, <3>2
    <2>7. \A i \in 1..Len(file) : \A f : f = file[i] => Shows(f)' \/ (Awaited(f)' /\ Fresh(eidOf[f])')
      BY <1>5, <1>7, <1>9, <2>2, <2>6
    <2> QED BY <1>3, <2>4, <2>5, <2>7 DEF Misses
  <1> QED BY <1>11, <1>12

LEMMA EventOrdered ==
  ASSUME ShowInv, ServerKeeps, NEW g, NEW s, NEW e, Arrives(g, s, e), Drops \/ Puts(e)
  PROVE  Ordered' /\ \A f : Received(f) \/ f = e => Received(f)'
  <1>1. /\ StreamInv /\ ServerTyped /\ Causes /\ Ordered
    BY DEF ShowInv, ServerInv
  <1>2. /\ g \in 1..Newest /\ page.gen = g /\ s \in 1..Ends(g) /\ At(g, s) = e
        /\ page.last < s /\ page.pc = "open"
        /\ page'.pc = "open" /\ page'.gen = g /\ page'.last = s
    BY DEF Arrives
  <1>3. /\ prior' = prior /\ Stream!Events' = Stream!Events
        /\ \A h : Ends(h)' = Ends(h) /\ \A t : At(h, t)' = At(h, t)
    BY PlacesStay DEF ServerKeeps
  <1>4. /\ page.last \in Nat /\ Len(page.shown) \in Nat
        /\ s \in Nat /\ e \in Stream!Events /\ g # None /\ Ends(g) \in Nat
    <2>1. Ends(g) \in Nat /\ e \in Stream!Events /\ Newest \in Nat /\ None \notin Nat
      BY <1>1, <1>2, Places
    <2> QED BY <1>1, <1>2, <2>1, PagePlaces
  <1>5. Reads
    BY <1>2 DEF Reads
  <1>6. \A f : Received(f) <=> \E t \in 1..Ends(g) : t <= page.last /\ At(g, t) = f
    BY <1>2, <1>4 DEF Received
  <1>7. \A f : Received(f)' <=> \E t \in 1..Ends(g) : t <= s /\ At(g, t) = f
    <2>1. \A h : h = page'.gen => h = g
      BY <1>2
    <2> QED BY <1>2, <1>3, <1>4, <2>1 DEF Received
  <1>8. \A f : Received(f) \/ f = e => Received(f)'
    BY <1>2, <1>4, <1>6, <1>7
  <1>9. /\ \A i \in 1..Len(page.shown) : page.shown[i] \in Stream!Events
        /\ \A i, j \in 1..Len(page.shown) : page.shown[i] \in prior[page.shown[j]] =>
             \E k \in 1..Len(page.shown) : k < j /\ page.shown[k] = page.shown[i]
        /\ \A j \in 1..Len(page.shown) :
             \/ \A f \in prior[page.shown[j]] : \E k \in 1..Len(page.shown) : k < j /\ page.shown[k] = f
             \/ Received(page.shown[j])
    BY <1>1, <1>5 DEF Ordered
  <1>10. CASE Drops
    <2>1. \A j \in 1..Len(page.shown) :
             \/ \A f \in prior[page.shown[j]] : \E k \in 1..Len(page.shown) : k < j /\ page.shown[k] = f
             \/ \A f : f = page.shown[j] => Received(f)'
      BY <1>8, <1>9
    <2>2. page'.shown = page.shown
      BY <1>10 DEF Drops
    <2> QED BY <1>3, <1>8, <1>9, <2>1, <2>2 DEF Ordered
  <1>11. CASE Puts(e)
    <2>1. PICK n \in Nat : n = Len(page.shown)
      BY <1>4
    <2>2. PICK q : q = page'.shown
      OBVIOUS
    <2>3. /\ Len(q) = n + 1 /\ q[n + 1] = e
          /\ \A i \in 1..n : q[i] = page.shown[i]
      BY <1>11, <2>1, <2>2 DEF Puts
    <2>4. \A i \in 1..n + 1 : i \in 1..n \/ i = n + 1
      BY <2>1
    <2>5. n + 1 \in 1..n + 1 /\ \A i \in 1..n : i \in 1..n + 1 /\ i < n + 1
      BY <2>1
    <2>6. \A i \in 1..n + 1 : q[i] \in Stream!Events
      BY <1>4, <1>9, <2>1, <2>3, <2>4
    \* Nothing that was shown already followed the arrival.
    <2>7. \A j \in 1..n : e \in prior[q[j]] => \E k \in 1..n : k < j /\ q[k] = e
      <3> SUFFICES ASSUME NEW j \in 1..n, e \in prior[q[j]] PROVE \E k \in 1..n : k < j /\ q[k] = e
        OBVIOUS
      <3>1. CASE Received(q[j])
        <4>1. PICK t \in 1..Ends(g) : t <= page.last /\ At(g, t) = q[j]
          BY <1>6, <3>1
        <4>2. s < t
          BY <1>1, <1>2, <4>1 DEF Causes
        <4> QED BY <1>2, <1>4, <4>1, <4>2
      <3>2. CASE ~Received(q[j])
        BY <1>9, <2>1, <2>3, <3>2
      <3> QED BY <3>1, <3>2
    <2>8. \A i, j \in 1..n + 1 : q[i] \in prior[q[j]] => \E k \in 1..n + 1 : k < j /\ q[k] = q[i]
      <3> SUFFICES ASSUME NEW i \in 1..n + 1, NEW j \in 1..n + 1, q[i] \in prior[q[j]]
                   PROVE  \E k \in 1..n + 1 : k < j /\ q[k] = q[i]
        OBVIOUS
      <3>1. CASE i \in 1..n /\ j \in 1..n
        BY <1>9, <2>1, <2>3, <2>5, <3>1
      <3>2. CASE i \in 1..n /\ j = n + 1
        BY <2>5, <3>2
      <3>3. CASE i = n + 1 /\ j \in 1..n
        BY <2>3, <2>5, <2>7, <3>3
      <3>4. CASE i = n + 1 /\ j = n + 1
        BY <1>1, <1>4, <2>3, <3>4 DEF Causes
      <3> QED BY <2>4, <3>1, <3>2, <3>3, <3>4
    <2>9. \A j \in 1..n + 1 :
             \/ \A f \in prior[q[j]] : \E k \in 1..n + 1 : k < j /\ q[k] = f
             \/ \A f : f = q[j] => Received(f)'
      <3> TAKE j \in 1..n + 1
      <3>1. CASE j = n + 1
        BY <1>8, <2>3, <3>1
      <3>2. CASE j \in 1..n
        <4>1. \/ \A f \in prior[q[j]] : \E k \in 1..n : k < j /\ q[k] = f
              \/ Received(q[j])
          <5>1. PICK x : x = page.shown[j]
            OBVIOUS
          <5>2. x = q[j] /\ \A k \in 1..n : q[k] = page.shown[k]
            BY <2>3, <3>2, <5>1
          <5>3. \/ \A f \in prior[x] : \E k \in 1..n : k < j /\ page.shown[k] = f
                \/ Received(x)
            BY <1>9, <2>1, <3>2, <5>1
          <5> QED BY <5>2, <5>3
        <4> QED BY <1>8, <2>5, <4>1
      <3> QED BY <2>4, <3>1, <3>2
    <2>10. prior' = prior /\ Stream!Events' = Stream!Events /\ page'.shown = q
      BY <1>3, <2>2
    <2>11. \A i \in 1..Len(q) : q[i] \in Stream!Events
      BY <2>3, <2>6
    <2>12. \A i, j \in 1..Len(q) : q[i] \in prior[q[j]] => \E k \in 1..Len(q) : k < j /\ q[k] = q[i]
      BY <2>3, <2>8
    <2>13. \A j \in 1..Len(q) :
             \/ \A f \in prior[q[j]] : \E k \in 1..Len(q) : k < j /\ q[k] = f
             \/ \A f : f = q[j] => Received(f)'
      BY <2>3, <2>9
    <2> QED BY <1>8, <2>10, <2>11, <2>12, <2>13 DEF Ordered
  <1> QED BY <1>8, <1>10, <1>11

\* A set of naturals has a least one.
LEMMA LeastNat ==
  ASSUME NEW S \in SUBSET Nat, S # {}
  PROVE  \E n \in S : \A m \in S : n <= m
  <1>1. PICK n \in S : \A m \in S : ~(<<m, n>> \in OpToRel(<, Nat))
    BY WFMin, NatLessThanWellFounded
  <1>2. \A m \in S : <<m, n>> \in OpToRel(<, Nat) <=> m < n
    BY DEF OpToRel
  <1>3. n \in Nat /\ \A m \in S : m \in Nat /\ ~(m < n)
    BY <1>1, <1>2
  <1>4. \A m \in S : n <= m
    <2> TAKE m \in S
    <2>1. m \in Nat /\ n \in Nat /\ ~(m < n)
      BY <1>3
    <2> QED BY <2>1
  <1> QED BY <1>4

\* As many different numbers from 1 to m are no more than m.
LEMMA Pigeons ==
  ASSUME NEW n \in Nat, NEW m \in Nat, NEW q, \A i \in 1..n : q[i] \in 1..m,
         \A i, j \in 1..n : q[i] = q[j] => i = j
  PROVE  n <= m
  <1>1. /\ IsFiniteSet(1..n) /\ Cardinality(1..n) = n
        /\ IsFiniteSet(1..m) /\ Cardinality(1..m) = m
    <2>1. 1 \in Int /\ n \in Int /\ m \in Int
      OBVIOUS
    <2>2. \A k \in Int : IsFiniteSet(1..k) /\ Cardinality(1..k) = IF 1 > k THEN 0 ELSE k - 1 + 1
      BY <2>1, FS_Interval
    <2> QED BY <2>1, <2>2
  <1>2. PICK f : f = [i \in 1..n |-> q[i]]
    OBVIOUS
  <1>3. f \in [1..n -> 1..m] /\ \A i, j \in 1..n : f[i] = f[j] => i = j
    BY <1>2
  <1>4. ~(Cardinality(1..m) < Cardinality(1..n))
    <2>1. PICK S, T : S = 1..n /\ T = 1..m
      OBVIOUS
    <2>2. /\ IsFiniteSet(S) /\ IsFiniteSet(T) /\ f \in [S -> T]
          /\ ~ \E i, j \in S : i # j /\ f[i] = f[j]
      BY <1>1, <1>3, <2>1
    <2>3. ~(Cardinality(T) < Cardinality(S))
      BY <2>2, FS_PigeonHole
    <2> QED BY <2>1, <2>3
  <1> QED BY <1>1, <1>4

LEMMA EventOnce ==
  ASSUME ShowInv, ServerKeeps, NEW g, NEW s, NEW e, Arrives(g, s, e),
         \/ ~Fresh(eidOf[e]) /\ Drops
         \/ Fresh(eidOf[e]) /\ Puts(e)
  PROVE  Once'
  <1>1. /\ StreamInv /\ ServerTyped /\ Logs /\ Plain /\ Once /\ Ordered
    BY DEF ShowInv, ServerInv
  <1>2. /\ g \in 1..Newest /\ page.gen = g /\ s \in 1..Ends(g) /\ At(g, s) = e
        /\ page.last < s /\ page.pc = "open"
    BY DEF Arrives
  <1>3. Reads /\ failed' = failed /\ \A f : Received(f) \/ f = e => Received(f)'
    <2>1. Drops \/ Puts(e)
      OBVIOUS
    <2> QED BY <1>2, <2>1, EventOrdered DEF Reads, ServerKeeps
  <1>4. /\ page.last \in Nat /\ page.maxEid \in Nat /\ Len(page.shown) \in Nat
        /\ Len(page.recent) \in Nat /\ Window \in Nat /\ Window > 0
        /\ \A i \in 1..Len(page.recent) : page.recent[i] \in Nat
    BY <1>1, PagePlaces
  <1>5. Ends(g) \in Nat /\ s \in Nat /\ e \in Stream!Events /\ e \in Nat /\ e > 0 /\ g # None
    <2>1. /\ Ends(g) \in Nat /\ e \in Stream!Events /\ Newest \in Nat /\ None \notin Nat
          /\ Stream!Events = 1..Len(eidOf) /\ Len(eidOf) \in Nat
      BY <1>1, <1>2, Places
    <2> QED BY <1>2, <2>1
  <1> SUFFICES ASSUME failed = 0 PROVE Once'
    BY <1>3 DEF Once
  <1>6. eidOf[e] = e
    <2>1. Stream!Events = 1..Len(file)
      BY <1>1, Places DEF Plain
    <2> QED BY <1>1, <1>5, <2>1 DEF Plain
  <1>7. /\ \A i, j \in 1..Len(page.shown) : page.shown[i] = page.shown[j] => i = j
        /\ \A i \in 1..Len(page.shown) : page.shown[i] <= page.maxEid
        /\ Len(page.recent) = IF Len(page.shown) > Window THEN Window ELSE Len(page.shown)
        /\ \A i \in 1..Len(page.recent) :
             page.recent[i] = page.shown[Len(page.shown) - Len(page.recent) + i]
        /\ \A i \in 1..Len(page.shown) : page.shown[i] = i \/ Received(page.shown[i])
    BY <1>1, <1>3 DEF Once, Remembered
  <1>8. CASE Drops
    <2>1. page'.shown = page.shown /\ page'.recent = page.recent /\ page'.maxEid = page.maxEid
      BY <1>8 DEF Drops
    <2>2. \A i \in 1..Len(page.shown) : page.shown[i] = i \/ \A f : f = page.shown[i] => Received(f)'
      BY <1>3, <1>7
    <2> QED BY <1>7, <2>1, <2>2 DEF Once, Remembered
  <1>9. CASE Fresh(eidOf[e]) /\ Puts(e)
    <2>1. PICK n \in Nat : n = Len(page.shown)
      BY <1>4
    <2>2. PICK q : q = page'.shown
      OBVIOUS
    <2>3. /\ Len(q) = n + 1 /\ q[n + 1] = e
          /\ \A i \in 1..n : q[i] = page.shown[i]
      BY <1>9, <2>1, <2>2 DEF Puts
    <2>4. page.maxEid < e + Window /\ \A i \in 1..Len(page.recent) : page.recent[i] # e
      BY <1>6, <1>9 DEF Fresh
    \* The arrival was not shown: neither by its line nor by its number.
    <2>5. ASSUME NEW i \in 1..n, page.shown[i] = e PROVE FALSE
      <3>1. ~Received(e)
        <4> SUFFICES ASSUME Received(e) PROVE FALSE
          OBVIOUS
        <4>1. PICK t \in 1..Ends(g) : t <= page.last /\ At(g, t) = e
          BY <1>2, <1>5 DEF Received
        <4>2. t = s
          BY <1>1, <1>2, <4>1 DEF Logs
        <4> QED BY <1>2, <1>4, <1>5, <4>1, <4>2
      <3>2. i = e
        BY <1>7, <2>1, <2>5, <3>1
      <3>3. n <= page.maxEid
        <4>1. \A k \in 1..n : page.shown[k] \in 1..page.maxEid
          <5> TAKE k \in 1..n
          <5>1. page.shown[k] \in Stream!Events /\ page.shown[k] <= page.maxEid
            BY <1>1, <1>7, <2>1 DEF Ordered
          <5>2. page.shown[k] \in 1..Len(eidOf) /\ Len(eidOf) \in Nat
            BY <1>1, <5>1, Places
          <5> QED BY <1>4, <5>1, <5>2
        <4>2. \A k, l \in 1..n : page.shown[k] = page.shown[l] => k = l
          BY <1>7, <2>1
        <4> QED BY <1>4, <4>1, <4>2, Pigeons
      <3>4. PICK l \in Nat : l = Len(page.recent)
        BY <1>4
      <3>5. l = IF n > Window THEN Window ELSE n
        BY <1>7, <2>1, <3>4
      <3>6. CASE e > n - l
        <4>0. e <= n /\ l <= n
          BY <3>2, <3>5, <1>4
        <4>1. PICK k \in 1..l : k = e - (n - l)
          BY <4>0, <3>6, <1>5
        <4>2. page.recent[k] = page.shown[n - l + k]
          BY <1>7, <2>1, <3>4
        <4>3. n - l + k = e
          BY <1>5, <4>1
        <4> QED BY <2>4, <2>5, <3>2, <3>4, <4>2, <4>3
      <3>7. CASE e <= n - l
        BY <1>4, <1>5, <2>4, <3>3, <3>5, <3>7
      <3> QED BY <1>5, <3>6, <3>7
    <2>6. \A i \in 1..n + 1 : i \in 1..n \/ i = n + 1
      BY <2>1
    <2>7. \A i, j \in 1..n + 1 : q[i] = q[j] => i = j
      BY <1>7, <2>1, <2>3, <2>5, <2>6
    <2>8. page'.maxEid = IF e > page.maxEid THEN e ELSE page.maxEid
      BY <1>6, <1>9 DEF Puts
    <2>9. \A i \in 1..n + 1 : q[i] <= page'.maxEid
      <3> TAKE i \in 1..n + 1
      <3>1. CASE i = n + 1
        BY <1>4, <1>5, <2>3, <2>8, <3>1
      <3>2. CASE i \in 1..n
        <4>1. q[i] = page.shown[i] /\ page.shown[i] <= page.maxEid /\ page.shown[i] \in Nat
          BY <1>1, <1>7, <2>1, <2>3, <3>2, PagePlaces
        <4> QED BY <1>4, <1>5, <2>8, <4>1
      <3> QED BY <2>6, <3>1, <3>2
    <2>10. PICK r, l \in Nat : r = Len(page'.recent) /\ l = Len(page.recent)
      <3>1. Len(page'.recent) = IF Len(page.recent) + 1 > Window THEN Window ELSE Len(page.recent) + 1
        BY <1>9 DEF Puts
      <3> QED BY <1>4, <3>1
    <2>11. /\ r = IF l + 1 > Window THEN Window ELSE l + 1
           /\ \A i \in 1..r : \A j : j = l + 1 - r + i =>
                page'.recent[i] = IF j = l + 1 THEN e ELSE page.recent[j]
      BY <1>6, <1>9, <2>10 DEF Puts
    <2>12. l = IF n > Window THEN Window ELSE n
      BY <1>7, <2>1, <2>10
    <2>13. r = IF n + 1 > Window THEN Window ELSE n + 1
      BY <1>4, <2>11, <2>12
    <2>14. \A i \in 1..r : page'.recent[i] = q[n + 1 - r + i]
      <3> TAKE i \in 1..r
      <3>1. PICK j : j = l + 1 - r + i
        OBVIOUS
      <3>5. l <= n /\ r <= l + 1
        BY <1>4, <2>11, <2>12
      <3>6. i \in Nat /\ 1 <= i /\ i <= r
        OBVIOUS
      <3>7. j \in 1..l + 1
        BY <3>1, <3>5, <3>6
      <3>8. n - l + j = n + 1 - r + i
        BY <3>1, <3>6
      <3>2. j \in 1..l + 1 /\ n - l + j = n + 1 - r + i /\ n - l \in Nat
        BY <3>5, <3>7, <3>8
      <3>3. CASE j = l + 1
        <4>1. n + 1 - r + i = n + 1
          BY <3>1, <3>3, <3>6
        <4> QED BY <2>3, <2>11, <3>1, <3>3, <4>1
      <3>4. CASE j # l + 1
        <4>1. j \in 1..l /\ n - l + j \in 1..n
          BY <2>10, <3>2, <3>4
        <4>2. page.recent[j] = page.shown[n - l + j]
          BY <1>7, <2>1, <2>10, <4>1
        <4>3. page'.recent[i] = page.recent[j]
          BY <2>11, <3>1, <3>4
        <4>4. q[n - l + j] = page.shown[n - l + j]
          BY <2>3, <4>1
        <4> QED BY <3>2, <4>2, <4>3, <4>4
      <3> QED BY <3>3, <3>4
    <2>15. \A i \in 1..n + 1 : q[i] = i \/ \A f : f = q[i] => Received(f)'
      <3> TAKE i \in 1..n + 1
      <3>1. CASE i = n + 1
        BY <1>3, <2>3, <3>1
      <3>2. CASE i \in 1..n
        <4>1. q[i] = page.shown[i]
          BY <2>3, <3>2
        <4>2. page.shown[i] = i \/ Received(page.shown[i])
          BY <1>7, <2>1, <3>2
        <4> QED BY <1>3, <4>1, <4>2
      <3> QED BY <2>6, <3>1, <3>2
    <2>16. Remembered'
      <3>1. Len(page'.shown) = n + 1 /\ Len(page'.recent) = r /\ page'.shown = q
        BY <2>2, <2>3, <2>10
      <3>2. \A i \in 1..r : page'.recent[i] = page'.shown[n + 1 - r + i]
        BY <2>14, <3>1
      <3>3. \A i \in 1..Len(page'.recent) :
              page'.recent[i] = page'.shown[Len(page'.shown) - Len(page'.recent) + i]
        BY <3>1, <3>2
      <3>4. Len(page'.recent) = IF Len(page'.shown) > Window THEN Window ELSE Len(page'.shown)
        BY <2>13, <3>1
      <3> QED BY <3>3, <3>4 DEF Remembered
    <2>17. /\ \A i, j \in 1..Len(q) : q[i] = q[j] => i = j
           /\ \A i \in 1..Len(q) : q[i] <= page'.maxEid
           /\ \A i \in 1..Len(q) : q[i] = i \/ \A f : f = q[i] => Received(f)'
      BY <2>3, <2>7, <2>9, <2>15
    <2>18. page'.shown = q
      BY <2>2
    <2> QED BY <2>16, <2>17, <2>18 DEF Once
  <1> QED BY <1>8, <1>9

LEMMA ShowInit == Stream!Init => ShowInv
  <1> SUFFICES ASSUME Stream!Init PROVE ShowInv
    OBVIOUS
  <1>1. StreamInv /\ ServerInv
    BY StreamInit, ServerInit
  <1>2. /\ page.pc = "boot" /\ page.since = 0 /\ page.shown = <<>> /\ page.recent = <<>>
        /\ Len(chans) = 1 /\ wire = <<>> /\ conn = None
    BY DEF Stream!Init
  <1>3. Len(page.shown) = 0 /\ Len(page.recent) = 0 /\ Window > 0 /\ Window \in Nat
    BY <1>2, BoundsAssumption
  <1>4. Cursors /\ Starts /\ Ahead /\ Since /\ Rising /\ Misses
    BY <1>2 DEF Cursors, Starts, Ahead, Since, Rising, Misses, Reads, Keeps, Newest
  <1>5. Once
    BY <1>3 DEF Once, Remembered
  <1>6. Ordered
    BY <1>3 DEF Ordered
  <1> QED BY <1>1, <1>4, <1>5, <1>6 DEF ShowInv

\* A step of a writer or of the sessions: the page stays, the server grows.
LEMMA GrowShows ==
  ASSUME ShowInv, ServerTyped', Grows
  PROVE  Cursors' /\ Starts' /\ Since' /\ Rising' /\ Once' /\ Ordered'
  <1>1. ServerTyped
    BY DEF ShowInv, ServerInv
  <1>2. Newest \in Nat /\ Newest' \in Nat /\ Newest <= Newest'
    <2>1. Len(chans') \in Nat
      BY LenProperties DEF ServerTyped
    <2> QED BY <1>1, <2>1, Places DEF Grows, Newest
  <1>3. \A g \in 1..Newest' : Ends(g)' \in Nat
    <2> TAKE g \in 1..Newest'
    <2>1. PICK C : C = [pushed : Seq(Stream!Events'), closed : BOOLEAN]
      OBVIOUS
    <2>3. chans' \in Seq(C) /\ g \in 1..Len(chans')
      BY <2>1 DEF ServerTyped, Chan, Newest
    <2>4. chans'[g] \in C
      BY <2>3, ElementOfSeq
    <2>2. chans'[g].pushed \in Seq(Stream!Events')
      BY <2>1, <2>4
    <2> QED BY <2>2, LenProperties DEF Ends
  <1>4. \A g \in 1..Newest : Ends(g)' \in Nat
    BY <1>2, <1>3
  <1>5. Starts'
    BY DEF Grows, Starts, ShowInv
  <1> QED BY <1>2, <1>4, <1>5, PageOutlives

LEMMA LogShows ==
  ASSUME ShowInv, ServerTyped', NEW w \in Writers, Stream!LogEvent(w)
  PROVE  ShowInv'
  <1>1. ServerInv /\ ServerTyped /\ StreamInv
    BY DEF ShowInv, ServerInv
  <1>2. PICK n \in Nat : Logging(w, n)
    BY <1>1, LogPlaces
  <1>3. StreamInv'
    BY <1>1, StreamStep DEF Stream!Next
  <1>4. ServerInv'
    BY <1>1, <1>2, LogKeeps DEF ServerInv
  <1>5. Misses' /\ Ahead'
    BY <1>2, LogMisses
  <1>6. Grows
    <2>1. UNCHANGED <<chans, conn, wire, page>>
      BY <1>2 DEF Logging
    <2>2. Newest' = Newest /\ \A g : Ends(g)' = Ends(g) /\ \A s : At(g, s)' = At(g, s)
      BY <2>1 DEF Newest, Ends, At
    <2>3. Newest \in Nat /\ \A g \in 1..Newest : Ends(g) \in Nat
      BY <1>1, Places
    <2>4. failed' = 0 => failed = 0
      <3>1. failed \in Nat
        BY <1>1 DEF ServerInv, Plain
      <3> QED BY <1>2, <3>1 DEF Logging
    <2>5. /\ Stream!Events \subseteq Stream!Events'
          /\ \A e \in Stream!Events : prior'[e] = prior[e]
      BY <1>2 DEF Logging
    <2> QED BY <2>1, <2>2, <2>3, <2>4, <2>5 DEF Grows
  <1> QED BY <1>3, <1>4, <1>5, <1>6, GrowShows DEF ShowInv

LEMMA PushShows ==
  ASSUME ShowInv, ServerTyped', NEW w \in Writers, Stream!Push(w)
  PROVE  ShowInv'
  <1>1. ServerInv /\ ServerTyped /\ StreamInv
    BY DEF ShowInv, ServerInv
  <1>2. PICK n \in Nat : Pushing(w, n)
    BY <1>1, PushPlaces
  <1>3. StreamInv'
    BY <1>1, StreamStep DEF Stream!Next
  <1>4. ServerInv'
    BY <1>1, <1>2, PushKeeps DEF ServerInv
  <1>5. Misses' /\ Ahead'
    BY <1>2, PushMisses
  <1>6. Grows
    <2>1. Newest \in Nat /\ Newest \in 1..Newest /\ \A g \in 1..Newest : Ends(g) \in Nat
      BY <1>1, Places
    <2>2. /\ Newest' = Newest /\ n = Ends(Newest) + 1
          /\ \A g \in 1..Newest : g = Newest => Ends(g)' = n
          /\ \A g \in 1..Newest : g # Newest => Ends(g)' = Ends(g)
          /\ \A g \in 1..Newest : \A s \in 1..Ends(g) : At(g, s)' = At(g, s)
          /\ Stream!Events' = Stream!Events /\ UNCHANGED <<prior, failed, conn, wire, page>>
      BY <1>2 DEF Pushing
    <2>3. \A g \in 1..Newest : Ends(g) <= Ends(g)'
      <3> TAKE g \in 1..Newest
      <3>1. CASE g = Newest
        BY <2>1, <2>2, <3>1
      <3>2. CASE g # Newest
        BY <2>1, <2>2, <3>2
      <3> QED BY <3>1, <3>2
    <2> QED BY <2>1, <2>2, <2>3 DEF Grows
  <1> QED BY <1>3, <1>4, <1>5, <1>6, GrowShows DEF ShowInv

LEMMA CloseShows ==
  ASSUME ShowInv, ServerTyped', Stream!CloseSession
  PROVE  ShowInv'
  <1>1. ServerInv /\ ServerTyped /\ StreamInv
    BY DEF ShowInv, ServerInv
  <1>2. Closing
    BY <1>1, ClosePlaces
  <1>3. StreamInv'
    BY <1>1, StreamStep DEF Stream!Next
  <1>4. ServerInv'
    BY <1>1, <1>2, CloseKeeps DEF ServerInv
  <1>5. Misses' /\ Ahead'
    BY <1>2, CloseMisses
  <1>6. Grows
    <2>1. /\ Newest' = Newest /\ \A g \in 1..Newest : chans'[g].pushed = chans[g].pushed
          /\ UNCHANGED <<eidOf, prior, failed, conn, wire, page>>
      BY <1>2 DEF Closing
    <2>2. \A g \in 1..Newest : Ends(g)' = Ends(g) /\ \A s : At(g, s)' = At(g, s)
      BY <2>1 DEF Ends, At
    <2>3. Newest \in Nat /\ \A g \in 1..Newest : Ends(g) \in Nat
      BY <1>1, Places
    <2>4. Stream!Events' = Stream!Events
      BY <2>1 DEF Stream!Events
    <2> QED BY <2>1, <2>2, <2>3, <2>4 DEF Grows
  <1> QED BY <1>3, <1>4, <1>5, <1>6, GrowShows DEF ShowInv

LEMMA OpenShows ==
  ASSUME ShowInv, ServerTyped', Stream!OpenSession
  PROVE  ShowInv'
  <1>1. ServerInv /\ ServerTyped /\ StreamInv
    BY DEF ShowInv, ServerInv
  <1>2. Opening
    BY <1>1, OpenPlaces
  <1>3. StreamInv'
    BY <1>1, StreamStep DEF Stream!Next
  <1>4. ServerInv'
    BY <1>1, <1>2, OpenKeeps DEF ServerInv
  <1>5. Misses' /\ Ahead'
    BY <1>2, OpenMisses
  <1>6. Grows
    <2>1. /\ Newest' = Newest + 1 /\ \A g \in 1..Newest : chans'[g] = chans[g]
          /\ UNCHANGED <<eidOf, prior, failed, conn, wire, page>>
      BY <1>2 DEF Opening
    <2>2. \A g \in 1..Newest : Ends(g)' = Ends(g) /\ \A s : At(g, s)' = At(g, s)
      BY <2>1 DEF Ends, At
    <2>3. Newest \in Nat /\ \A g \in 1..Newest : Ends(g) \in Nat
      BY <1>1, Places
    <2>4. Stream!Events' = Stream!Events
      BY <2>1 DEF Stream!Events
    <2> QED BY <2>1, <2>2, <2>3, <2>4 DEF Grows
  <1> QED BY <1>3, <1>4, <1>5, <1>6, GrowShows DEF ShowInv

\* A step of the page or of its connection: the server stays.
PageStep == Stream!ClientStep \/ Stream!SendBatch \/ Stream!Drop \/ Stream!Reconcile

LEMMA ServerRests == PageStep => ServerKeeps
  BY DEF PageStep, ServerKeeps, Stream!server, Stream!ClientStep, Stream!TakeCursor,
         Stream!ReadTranscript, Stream!Connect, Stream!Retry, Stream!ReceiveHello,
         Stream!ReceiveEvent, Stream!ReceiveClosed, Stream!SendBatch, Stream!Drop, Stream!Reconcile

LEMMA StartsKept == ShowInv /\ PageStep => Starts'
  <1> SUFFICES ASSUME ShowInv, PageStep PROVE Starts'
    OBVIOUS
  <1>1. page \in Pages /\ Starts
    BY PagePlaces DEF ShowInv
  <1>2. CASE Stream!SendBatch
    BY <1>1, <1>2 DEF Starts, Stream!SendBatch
  <1>3. CASE Stream!ReadTranscript
    <2>1. PICK shown2, recent2, max2, since2 :
            page' = [page EXCEPT !.pc = "connect", !.last = page.resume, !.lastId = 0,
                       !.shown = shown2, !.maxEid = max2, !.gap = FALSE, !.since = since2,
                       !.recent = recent2]
      BY <1>3 DEF Stream!ReadTranscript
    <2> QED BY <1>1, <2>1 DEF Starts, Pages
  <1>4. CASE Stream!ReceiveEvent
    <2>1. page'.pc = "open"
      BY <1>4, EventPlaces DEF Arrives
    <2> QED BY <2>1 DEF Starts
  <1>5. CASE Stream!TakeCursor
    <2>1. page'.pc = "read"
      BY <1>1, <1>5 DEF Stream!TakeCursor, Pages
    <2> QED BY <2>1 DEF Starts
  <1>6. CASE \/ Stream!Connect \/ Stream!Retry \/ Stream!ReceiveHello \/ Stream!ReceiveClosed
             \/ Stream!Drop \/ Stream!Reconcile
    <2>1. page'.pc # "connect"
      BY <1>1, <1>6 DEF Pages, Stream!Connect, Stream!Retry, Stream!ReceiveHello,
         Stream!ReceiveClosed, Stream!Drop, Stream!Reconcile, Stream!Recover
    <2> QED BY <2>1 DEF Starts
  <1> QED BY <1>2, <1>3, <1>4, <1>5, <1>6 DEF PageStep, Stream!ClientStep

LEMMA PageShows ==
  ASSUME ShowInv, PageStep
  PROVE  Cursors' /\ Ahead' /\ Since' /\ Rising' /\ Misses' /\ Once' /\ Ordered'
  <1>1. /\ page \in Pages /\ StreamInv /\ Cursors /\ Starts /\ ServerKeeps
        /\ page.last \in Nat /\ page.lastId \in Nat /\ page.resume \in Nat
    BY PagePlaces, ServerRests DEF ShowInv
  <1>2. Reads => /\ page.last \in {page.lastId, page.resume}
                 /\ page.lastId <= page.last /\ page.resume <= page.last
    BY <1>1 DEF Cursors
  <1>3. page.pc # "open" => conn = None /\ wire = <<>>
    BY <1>1 DEF StreamInv, Connected
  <1>4. CASE Stream!Connect
    <2>1. page.pc = "connect" /\ Reads
      BY <1>4 DEF Stream!Connect, Reads
    <2>2. page.resume = page.last
      BY <1>1, <1>2, <2>1 DEF Starts
    <2>3. CASE page' = Stream!Recover /\ UNCHANGED <<conn, wire>>
      <3>1. page' = [page EXCEPT !.pc = "boot"] /\ conn' = None /\ wire' = <<>>
        BY <1>3, <2>1, <2>3 DEF Stream!Recover
      <3> QED BY <1>1, <3>1, LeavesKeep
    <2>4. CASE ~Stream!Channel.closed /\ Stream!Accept(page.resume) /\ page' = [page EXCEPT !.pc = "open"]
      <3>1. ~chans[Newest].closed
        BY <2>4 DEF Stream!Channel, Stream!Gen, Newest
      <3> QED BY <1>1, <2>1, <2>2, <2>4, <3>1, AcceptKeeps
    <2> QED BY <1>4, <2>3, <2>4 DEF Stream!Connect
  <1>5. CASE Stream!Retry
    <2>1. page.pc = "lost" /\ Reads
      BY <1>5 DEF Stream!Retry, Reads
    <2>2. PICK after : after = IF page.lastId > page.resume THEN page.lastId ELSE page.resume
      OBVIOUS
    <2>3. after = page.last
      BY <1>1, <1>2, <2>1, <2>2
    <2>4. CASE page' = Stream!Recover /\ UNCHANGED <<conn, wire>>
      <3>1. page' = [page EXCEPT !.pc = "boot"] /\ conn' = None /\ wire' = <<>>
        BY <1>3, <2>1, <2>4 DEF Stream!Recover
      <3> QED BY <1>1, <3>1, LeavesKeep
    <2>5. CASE ~Stream!Channel.closed /\ Stream!Accept(after) /\ page' = [page EXCEPT !.pc = "open"]
      <3>1. ~chans[Newest].closed
        BY <2>5 DEF Stream!Channel, Stream!Gen, Newest
      <3> QED BY <1>1, <2>1, <2>3, <2>5, <3>1, AcceptKeeps
    <2> QED BY <1>5, <2>2, <2>4, <2>5 DEF Stream!Retry
  <1>6. CASE Stream!ReceiveClosed \/ Stream!Reconcile
    <2>1. page' = [page EXCEPT !.pc = "boot"] /\ conn' = None /\ wire' = <<>>
      BY <1>6 DEF Stream!ReceiveClosed, Stream!Reconcile, Stream!Recover, Stream!Disconnect
    <2> QED BY <1>1, <2>1, LeavesKeep
  <1>7. CASE Stream!Drop
    <2>1. page.pc = "open" /\ page' = [page EXCEPT !.pc = "lost"] /\ conn' = None /\ wire' = <<>>
      BY <1>7 DEF Stream!Drop, Stream!Disconnect
    <2> QED BY <1>1, <2>1, LeavesKeep
  <1>8. CASE Stream!ReceiveEvent
    <2>1. PICK g, s, e : /\ Arrives(g, s, e) /\ wire[1].seq = s /\ IsEvent(1)
                         /\ \/ ~Fresh(eidOf[e]) /\ Drops
                            \/ Fresh(eidOf[e]) /\ Puts(e)
      BY <1>8, EventPlaces
    <2>2. wire # <<>> /\ wire' = Tail(wire) /\ UNCHANGED conn
      BY <1>8, EventPlaces
    <2>3. Cursors' /\ Ahead' /\ Since' /\ Rising'
      BY <1>1, <2>1, <2>2, EventNumbers
    <2>4. Misses'
      BY <1>1, <2>1, EventMisses
    <2>5. Once'
      BY <1>1, <2>1, EventOnce
    <2>6. Ordered'
      BY <1>1, <2>1, EventOrdered
    <2> QED BY <2>3, <2>4, <2>5, <2>6
  <1>9. CASE Stream!TakeCursor
    BY <1>9, TakeKeeps
  <1>10. CASE Stream!ReadTranscript
    BY <1>10, ReadKeeps
  <1>11. CASE Stream!ReceiveHello
    BY <1>11, HelloKeeps
  <1>12. CASE Stream!SendBatch
    BY <1>12, SendKeeps
  <1> QED BY <1>4, <1>5, <1>6, <1>7, <1>8, <1>9, <1>10, <1>11, <1>12 DEF PageStep, Stream!ClientStep

LEMMA ShowStep == ShowInv /\ Stream!Next => ShowInv'
  <1> SUFFICES ASSUME ShowInv, Stream!Next PROVE ShowInv'
    OBVIOUS
  <1>1. StreamInv' /\ ServerTyped' /\ ServerInv
    BY StreamStep DEF ShowInv, StreamInv
  <1>2. CASE \E w \in Writers : Stream!LogEvent(w) \/ Stream!Push(w)
    BY <1>1, <1>2, LogShows, PushShows
  <1>3. CASE Stream!CloseSession \/ Stream!OpenSession
    BY <1>1, <1>3, CloseShows, OpenShows
  <1>4. CASE PageStep
    <2>1. Logs' /\ Causes' /\ Numbers' /\ Plain'
      BY <1>1, <1>4, ServerRests, PlacesStay DEF ServerKeeps, ServerInv
    <2> QED BY <1>1, <1>4, <2>1, PageShows, StartsKept DEF ShowInv, ServerInv
  <1> QED BY <1>2, <1>3, <1>4 DEF Stream!Next, PageStep

LEMMA ShowStays == ShowInv /\ UNCHANGED Stream!vars => ShowInv'
  <1> SUFFICES ASSUME ShowInv, UNCHANGED Stream!vars PROVE ShowInv'
    OBVIOUS
  <1>1. UNCHANGED <<file, count, eidOf, prior, pending, chans, failed, conn, wire, page>>
    BY DEF Stream!vars
  <1>2. StreamInv' /\ ServerTyped'
    BY StreamStays DEF ShowInv, StreamInv
  <1>3. ServerInv'
    BY <1>1, <1>2, PlacesStay DEF ShowInv, ServerInv
  <1>4. /\ Stream!NextEid' = Stream!NextEid /\ Stream!Events' = Stream!Events /\ Newest' = Newest
        /\ \A g : Ends(g)' = Ends(g) /\ \A s : At(g, s)' = At(g, s)
        /\ \A e : Held(e)' = Held(e)
    BY <1>1, PlacesStay
  <1>5. Newest \in Nat /\ \A g \in 1..Newest : Ends(g) \in Nat
    BY Places DEF ShowInv, ServerInv
  <1>6. Grows
    BY <1>1, <1>4, <1>5 DEF Grows
  <1>7. Misses'
    <2>1. \A e : Awaited(e)' = Awaited(e) /\ Shows(e)' = Shows(e) /\ Fresh(eidOf[e])' = Fresh(eidOf[e])
      BY <1>1, <1>4 DEF Awaited, Shows, Fresh
    <2>2. Keeps' = Keeps
      BY <1>1, <1>4 DEF Keeps, Reads
    <2> QED BY <1>1, <1>4, <2>1, <2>2 DEF Misses, ShowInv
  <1>8. Ahead'
    <2>1. \A e : Shows(e)' = Shows(e)
      BY <1>1 DEF Shows
    <2> QED BY <1>1, <1>4, <2>1 DEF Ahead, Reads, ShowInv
  <1> QED BY <1>2, <1>3, <1>6, <1>7, <1>8, GrowShows DEF ShowInv

\* A sequence between a number and another, place by place.
Between(q, a, s, n, b) ==
  /\ Len(q) = n + 2 /\ q[1] = a /\ q[n + 2] = b
  /\ \A i \in 1..n : q[i + 1] = s[i]

LEMMA BetweenPlaces ==
  ASSUME NEW s \in Seq(Nat), NEW a \in Nat, NEW b \in Nat
  PROVE  Between(<<a>> \o s \o <<b>>, a, s, Len(s), b)
  <1>0. PICK n \in Nat : n = Len(s)
    BY LenProperties
  <1>1. PICK x, z : x = <<a>> /\ z = <<b>>
    OBVIOUS
  <1>2. x \in Seq(Nat) /\ Len(x) = 1 /\ x[1] = a /\ z \in Seq(Nat) /\ Len(z) = 1 /\ z[1] = b
    BY <1>1
  <1>3. PICK y \in Seq(Nat) : y = x \o s
    BY <1>2, ConcatProperties
  <1>4. PICK q \in Seq(Nat) : q = y \o z
    BY <1>2, <1>3, ConcatProperties
  <1>5. /\ Len(y) = n + 1 /\ \A i \in 1..n + 1 : y[i] = IF i <= 1 THEN x[i] ELSE s[i - 1]
    <2>1. /\ Len(y) = Len(x) + Len(s)
          /\ \A i \in 1..Len(x) + Len(s) : y[i] = IF i <= Len(x) THEN x[i] ELSE s[i - Len(x)]
      BY <1>2, <1>3, ConcatProperties
    <2> QED BY <1>0, <1>2, <2>1
  <1>6. /\ Len(q) = n + 2 /\ \A i \in 1..n + 2 : q[i] = IF i <= n + 1 THEN y[i] ELSE z[i - (n + 1)]
    <2>1. /\ Len(q) = Len(y) + Len(z)
          /\ \A i \in 1..Len(y) + Len(z) : q[i] = IF i <= Len(y) THEN y[i] ELSE z[i - Len(y)]
      BY <1>2, <1>3, <1>4, ConcatProperties
    <2> QED BY <1>2, <1>5, <2>1
  <1>7. q[1] = a
    <2>1. 1 \in 1..n + 2 /\ 1 \in 1..n + 1 /\ 1 <= n + 1
      OBVIOUS
    <2>2. q[1] = y[1] /\ y[1] = x[1]
      BY <1>5, <1>6, <2>1
    <2> QED BY <1>2, <2>2
  <1>8. q[n + 2] = b
    <2>1. PICK j \in 1..n + 2 : j = n + 2
      OBVIOUS
    <2>2. ~(j <= n + 1) /\ j - (n + 1) = 1
      BY <2>1
    <2>3. q[j] = z[j - (n + 1)]
      BY <1>6, <2>2
    <2> QED BY <1>2, <2>1, <2>2, <2>3
  <1>9. \A i \in 1..n : q[i + 1] = s[i]
    <2> TAKE i \in 1..n
    <2>1. PICK j \in 1..n + 1 : j = i + 1
      OBVIOUS
    <2>2. j \in 1..n + 2 /\ j <= n + 1 /\ ~(j <= 1) /\ j - 1 = i
      BY <2>1
    <2>3. q[j] = y[j] /\ y[j] = s[j - 1]
      BY <1>5, <1>6, <2>2
    <2> QED BY <2>1, <2>2, <2>3
  <1>10. Between(q, a, s, n, b)
    BY <1>6, <1>7, <1>8, <1>9 DEF Between
  <1>11. q = <<a>> \o s \o <<b>>
    BY <1>1, <1>3, <1>4
  <1> QED BY <1>0, <1>10, <1>11

\* The numbers of s, from the one after a, rise by at most one.
Climbs(s, n, a) == s[1] <= a + 1 /\ \A i \in 2..n : s[i] <= s[i - 1] + 1

\* Steps of at most one between a number, a sequence and another number.
LEMMA StepsBetween ==
  ASSUME NEW n \in Nat, NEW s, NEW a, NEW b, NEW q, Between(q, a, s, n, b),
         \A i \in 2..Len(q) : q[i] <= q[i - 1] + 1
  PROVE  /\ n = 0 => b <= a + 1
         /\ n > 0 => Climbs(s, n, a) /\ b <= s[n] + 1
  <1>0. /\ Len(q) = n + 2 /\ q[1] = a /\ q[n + 2] = b
        /\ \A i \in 1..n : q[i + 1] = s[i]
    BY DEF Between
  <1>1. \A i \in 1..n + 1 : q[i + 1] <= q[i] + 1
    <2> TAKE i \in 1..n + 1
    <2>1. PICK j \in 2..Len(q) : j = i + 1
      BY <1>0
    <2>2. q[j] <= q[j - 1] + 1 /\ j - 1 = i
      BY <2>1
    <2> QED BY <2>1, <2>2
  <1>2. n = 0 => b <= a + 1
    <2> SUFFICES ASSUME n = 0 PROVE b <= a + 1
      OBVIOUS
    <2>1. 1 \in 1..n + 1 /\ 1 + 1 = n + 2
      OBVIOUS
    <2>2. q[1 + 1] <= q[1] + 1
      BY <1>0, <1>1, <2>1
    <2> QED BY <1>0, <2>1, <2>2
  <1>3. n > 0 => s[1] <= a + 1 /\ b <= s[n] + 1
    <2> SUFFICES ASSUME n > 0 PROVE s[1] <= a + 1 /\ b <= s[n] + 1
      OBVIOUS
    <2>1. 1 \in 1..n /\ n \in 1..n /\ 1 \in 1..n + 1 /\ n + 1 \in 1..n + 1 /\ n + 1 + 1 = n + 2
      OBVIOUS
    <2>2. q[1 + 1] = s[1] /\ q[1 + 1] <= q[1] + 1
      BY <1>0, <1>1, <2>1
    <2>3. q[n + 1] = s[n] /\ q[n + 1 + 1] <= q[n + 1] + 1
      BY <1>0, <1>1, <2>1
    <2> QED BY <1>0, <2>1, <2>2, <2>3
  <1>4. \A i \in 2..n : s[i] <= s[i - 1] + 1
    <2> TAKE i \in 2..n
    <2>1. i - 1 \in 1..n /\ i \in 1..n /\ i \in 1..n + 1 /\ i - 1 + 1 = i
      OBVIOUS
    <2>2. q[i - 1 + 1] = s[i - 1] /\ q[i + 1] = s[i] /\ q[i + 1] <= q[i] + 1
      BY <1>0, <1>1, <2>1
    <2> QED BY <2>1, <2>2
  <1> QED BY <1>2, <1>3, <1>4 DEF Climbs

\* Numbers that rise by at most one from a to their last meet all in between.
LEMMA NoneSkipped ==
  ASSUME NEW n \in Nat, NEW s \in Seq(Nat), Len(s) = n, n > 0, NEW a \in Nat, Climbs(s, n, a)
  PROVE  \A m \in Nat : a < m /\ m <= s[n] => \E i \in 1..n : s[i] = m
  <1> SUFFICES ASSUME NEW m \in Nat, a < m, m <= s[n] PROVE \E i \in 1..n : s[i] = m
    OBVIOUS
  <1>0. s[1] <= a + 1 /\ \A i \in 2..n : s[i] <= s[i - 1] + 1
    BY DEF Climbs
  <1>1. \A i \in 1..n : s[i] \in Nat
    BY ElementOfSeq
  <1>2. PICK S : S = {i \in 1..n : m <= s[i]}
    OBVIOUS
  <1>8. S \in SUBSET Nat
    BY <1>2
  <1>3. n \in S
    BY <1>2
  <1>4. PICK k \in S : \A i \in S : k <= i
    BY <1>3, <1>8, LeastNat
  <1>5. k \in 1..n /\ m <= s[k]
    BY <1>2, <1>4
  <1>6. CASE k = 1
    BY <1>0, <1>1, <1>5, <1>6
  <1>7. CASE k # 1
    <2>1. k - 1 \in 1..n /\ k \in 2..n /\ ~(k <= k - 1)
      BY <1>5, <1>7
    <2>2. k - 1 \notin S
      BY <1>4, <2>1
    <2>3. ~(m <= s[k - 1])
      BY <1>2, <2>1, <2>2
    <2>4. s[k] <= s[k - 1] + 1 /\ s[k] \in Nat /\ s[k - 1] \in Nat
      BY <1>0, <1>1, <1>5, <2>1
    <2>5. s[k] = m
      BY <1>5, <2>3, <2>4
    <2> QED BY <1>5, <2>5
  <1> QED BY <1>6, <1>7

LEMMA NothingIsLost == ShowInv => Stream!NothingLost
  <1> SUFFICES ASSUME ShowInv, page.pc = "open", conn # None,
                      \A i \in 1..Len(wire) : wire[i].kind = "event",
                      Stream!Following, Stream!SameSession, ~(conn.gen < Stream!Gen)
               PROVE  Stream!Range(file) \subseteq Stream!Range(page.shown) \cup Stream!ToCome
    BY DEF Stream!NothingLost
  <1>1. StreamInv /\ ServerTyped /\ Rising /\ Misses
    BY DEF ShowInv, ServerInv
  <1>2. /\ page.last \in Nat /\ Newest \in Nat /\ Newest \in 1..Newest /\ Ends(Newest) \in Nat
        /\ page.since \in Nat /\ page.shown \in Seq(Nat) /\ Len(file) \in Nat /\ file \in Seq(Stream!Events)
    BY <1>1, Places, PagePlaces DEF ServerTyped
  <1>3. wire \in Seq(Message) /\ conn.gen \in 1..Newest /\ conn.cursor \in Nat /\ conn.gen = Newest
    <2>1. wire \in Seq(Message) /\ conn \in [gen : 1..Newest, cursor : Nat]
      BY <1>1 DEF StreamInv, Connected, Newest
    <2>2. conn.gen \in 1..Newest /\ conn.cursor \in Nat
      BY <2>1
    <2>3. ~(conn.gen < Newest)
      BY DEF Stream!Gen, Newest
    <2> QED BY <1>2, <2>1, <2>2, <2>3
  <1>4. PICK n \in Nat : n = Len(wire)
    BY <1>3, LenProperties
  <1>5. Keeps
    <2>1. page.since >= Newest
      BY <1>2, <1>3 DEF Stream!SameSession
    <2>2. ~page.gap
      BY DEF Stream!Following
    <2>3. page.gen = Newest
      <3>1. PICK g \in 1..Newest : WireOf(g)
        BY <1>1 DEF StreamInv, Connected, Newest
      <3>2. g = Newest
        BY <1>3, <3>1 DEF WireOf
      <3>3. wire = <<>> \/ wire[1].kind # "hello"
        <4>1. n = 0 => wire = <<>>
          BY <1>3, <1>4, EmptySeq
        <4>2. n # 0 => 1 \in 1..Len(wire)
          BY <1>4
        <4> QED BY <4>1, <4>2, <1>4
      <3> QED BY <3>1, <3>2, <3>3 DEF WireOf
    <2> QED BY <2>1, <2>2, <2>3 DEF Keeps, Reads
  <1>6. PICK q \in Seq(Nat) : q = Stream!OnWire /\ Len(q) = n /\ \A i \in 1..n : q[i] = wire[i].seq
    <2>1. \A i \in 1..n : wire[i].seq \in Nat
      <3> TAKE i \in 1..n
      <3>1. wire[i] \in Message /\ wire[i].kind = "event"
        BY <1>3, <1>4, ElementOfSeq
      <3> QED BY <3>1 DEF Message
    <2>2. PICK r : r = [i \in 1..n |-> wire[i].seq]
      OBVIOUS
    <2>3. r \in Seq(Nat) /\ Len(r) = n /\ \A i \in 1..n : r[i] = wire[i].seq
      BY <2>1, <2>2
    <2>4. r = Stream!OnWire
      BY <1>4, <2>2 DEF Stream!OnWire
    <2> QED BY <2>3, <2>4
  <1>7. PICK old \in Nat : old = Stream!Oldest(chans[Newest])
    <2>1. PICK m \in Nat : m = Stream!LastSeq(chans[Newest])
      BY <1>2 DEF Stream!LastSeq, Ends
    <2>2. (IF m > BufLen THEN m - BufLen + 1 ELSE 1) \in Nat
      BY BoundsAssumption
    <2> QED BY <2>1, <2>2 DEF Stream!Oldest
  <1>8. /\ n = 0 => old <= page.last + 1
        /\ n > 0 => Climbs(q, n, page.last) /\ old <= q[n] + 1
    <2>1. PICK a \in Nat : a = page.last
      BY <1>2
    <2>2. PICK seqs : seqs = <<a>> \o q \o <<old>>
      OBVIOUS
    <2>3. Between(seqs, a, q, n, old)
      BY <1>6, <2>2, BetweenPlaces
    <2>4. \A i \in 2..Len(seqs) : seqs[i] <= seqs[i - 1] + 1
      BY <1>3, <1>6, <1>7, <2>1, <2>2 DEF Stream!Following
    <2>5. /\ n = 0 => old <= a + 1
          /\ n > 0 => Climbs(q, n, a) /\ old <= q[n] + 1
      BY <2>3, <2>4, StepsBetween
    <2> QED BY <2>1, <2>5
  <1>9. /\ page.last <= conn.cursor
        /\ n = 0 => conn.cursor = page.last
        /\ n > 0 => q[n] = conn.cursor
    <2>1. /\ page.last <= conn.cursor
          /\ IF Len(wire) > 0 /\ IsEvent(Len(wire)) THEN wire[Len(wire)].seq = conn.cursor
                                                    ELSE conn.cursor = page.last
      BY <1>1 DEF Rising
    <2>2. n > 0 => n \in 1..n /\ IsEvent(n)
      BY <1>4 DEF IsEvent
    <2> QED BY <1>4, <1>6, <2>1, <2>2
  <1>10. old <= conn.cursor + 1
    BY <1>8, <1>9
  <1>11. ASSUME NEW s \in 1..Ends(Newest), page.last < s
         PROVE  s \in Stream!Range(Stream!OnWire) \cup Stream!Buffered(chans[conn.gen], conn.cursor)
    <2>1. CASE s > conn.cursor
      <3>1. s >= old
        BY <1>3, <1>7, <1>10, <2>1
      <3>2. s \in Stream!Buffered(chans[conn.gen], conn.cursor)
        BY <1>3, <1>7, <2>1, <3>1 DEF Stream!Buffered, Stream!LastSeq, Ends
      <3> QED BY <3>2
    <2>2. CASE s <= conn.cursor
      <3>1. s \in Nat /\ n > 0 /\ s <= q[n]
        BY <1>2, <1>4, <1>9, <1>11, <2>2
      <3>2. PICK i \in 1..n : q[i] = s
        <4>1. \A m \in Nat : page.last < m /\ m <= q[n] => \E i \in 1..n : q[i] = m
          <5>1. PICK a \in Nat : a = page.last
            BY <1>2
          <5>2. Climbs(q, n, a) /\ n > 0 /\ n \in Nat /\ q \in Seq(Nat) /\ Len(q) = n
            BY <1>6, <1>8, <3>1, <5>1
          <5>3. \A m \in Nat : a < m /\ m <= q[n] => \E i \in 1..n : q[i] = m
            BY <5>2, NoneSkipped
          <5> QED BY <5>1, <5>3
        <4> QED BY <1>11, <3>1, <4>1
      <3>3. DOMAIN q = 1..n
        BY <1>6, LenProperties
      <3>4. s \in Stream!Range(Stream!OnWire)
        BY <1>6, <3>2, <3>3 DEF Stream!Range
      <3> QED BY <3>4
    <2> QED BY <1>3, <2>1, <2>2
  <1>12. \A e : Awaited(e) => e \in Stream!ToCome
    <2> SUFFICES ASSUME NEW e, Awaited(e) PROVE e \in Stream!ToCome
      OBVIOUS
    <2>1. CASE Held(e)
      BY <2>1 DEF Held, Stream!ToCome
    <2>2. CASE \E s \in 1..Ends(Newest) : page.last < s /\ At(Newest, s) = e
      <3>1. PICK s \in 1..Ends(Newest) : page.last < s /\ At(Newest, s) = e
        BY <2>2
      <3>2. chans[conn.gen].pushed[s] = e
        BY <1>3, <3>1 DEF At
      <3> QED BY <1>11, <3>1, <3>2 DEF Stream!ToCome
    <2> QED BY <2>1, <2>2 DEF Awaited
  <1>13. \A e : Shows(e) => e \in Stream!Range(page.shown)
    <2>1. DOMAIN page.shown = 1..Len(page.shown)
      BY <1>2, LenProperties
    <2> QED BY <2>1 DEF Shows, Stream!Range
  <1>14. ASSUME NEW e \in Stream!Range(file) PROVE Shows(e) \/ Awaited(e)
    <2>1. DOMAIN file = 1..Len(file)
      BY <1>2, LenProperties
    <2>2. PICK i \in 1..Len(file) : file[i] = e
      BY <1>14, <2>1 DEF Stream!Range
    <2> QED BY <1>1, <1>5, <2>2 DEF Misses
  <1> QED BY <1>12, <1>13, <1>14

LEMMA TranscriptFollows ==
  ShowInv => Stream!NothingLost /\ Stream!ShownOnce /\ Stream!CausesComeFirst
  <1> SUFFICES ASSUME ShowInv PROVE Stream!NothingLost /\ Stream!ShownOnce /\ Stream!CausesComeFirst
    OBVIOUS
  <1>1. StreamInv /\ Once /\ Ordered
    BY DEF ShowInv
  <1>2. page.shown \in Seq(Nat) /\ Len(page.shown) \in Nat /\ DOMAIN page.shown = 1..Len(page.shown)
    BY <1>1, PagePlaces, LenProperties
  <1>3. Stream!ShownOnce
    BY <1>1, <1>2 DEF Stream!ShownOnce, Stream!IsInjective, Once
  <1>4. Stream!CausesComeFirst
    <2> SUFFICES ASSUME NEW i \in 1..Len(page.shown), NEW j \in 1..Len(page.shown),
                        page.shown[i] \in prior[page.shown[j]]
                 PROVE  \E k \in 1..j - 1 : page.shown[k] = page.shown[i]
      BY DEF Stream!CausesComeFirst
    <2>1. PICK k \in 1..Len(page.shown) : k < j /\ page.shown[k] = page.shown[i]
      BY <1>1 DEF Ordered
    <2>2. k \in 1..j - 1
      BY <1>2, <2>1
    <2> QED BY <2>1, <2>2
  <1> QED BY <1>3, <1>4, NothingIsLost

-----------------------------------------------------------------------------
(* Project sessions, whose proofs are those of ProjectSession_proofs: the   *)
(* definitions of that instance are the ones of the instance in Services.  *)

Sitting == INSTANCE ProjectSession_proofs WITH
  Requests <- Handlers,
  running <- flagsOf, live <- alive, sessions <- cached, busy <- inTurn, pending <- deferred

LEMMA SameInit == Project!Init = Sitting!Init
  BY Zenon DEF Project!Init, Project!Actors, Project!Engines, Sitting!Init,
    Sitting!Actors, Sitting!Engines

LEMMA SameTypes == Project!TypeOK = Sitting!TypeOK
  BY Zenon DEF Project!TypeOK, Project!Actors, Project!Engines, Project!Texts,
    Project!Kinds, Project!RequestSteps, Project!SendSteps, Project!RebuildSteps,
    Project!WorkerSteps, Sitting!TypeOK, Sitting!Actors, Sitting!Engines, Sitting!Texts,
    Sitting!Kinds, Sitting!RequestSteps, Sitting!SendSteps, Sitting!RebuildSteps,
    Sitting!WorkerSteps

LEMMA SameSteps == Project!Next = Sitting!Next
  BY Zenon DEF Project!Next, Project!LaunchFails, Project!From, Project!Goto,
    Project!engines, Project!files, Project!flags, Project!Arrival, Project!SendCached,
    Project!SendUncached, Project!ChangeSettings, Project!ChangeLanguage,
    Project!RestartEngine, Project!Serve, Project!Resume, Project!Store, Project!locals,
    Project!Admit, Project!Admissible, Project!Refuse, Project!Launch, Project!Sync,
    Project!InSync, Project!RebuildOrDefer, Project!MarkPending, Project!Answered,
    Project!MarkDirty, Project!Calm, Project!Resting, Project!Rebuild,
    Project!RebuildAllowed, Project!RebuildRefused, Project!CloseEngine,
    Project!ClearSessions, Project!LoadProject, Project!AssignEngine,
    Project!StartEngine, Project!Work, Project!TurnStarts, Project!TurnEnds,
    Project!Finish, Project!AfterTurn, Project!ApplyPending, Project!Settled,
    Sitting!Next, Sitting!LaunchFails, Sitting!From, Sitting!Goto, Sitting!engines,
    Sitting!files, Sitting!flags, Sitting!Arrival, Sitting!SendCached,
    Sitting!SendUncached, Sitting!ChangeSettings, Sitting!ChangeLanguage,
    Sitting!RestartEngine, Sitting!Serve, Sitting!Resume, Sitting!Store, Sitting!locals,
    Sitting!Admit, Sitting!Admissible, Sitting!Refuse, Sitting!Launch, Sitting!Sync,
    Sitting!InSync, Sitting!RebuildOrDefer, Sitting!MarkPending, Sitting!Answered,
    Sitting!MarkDirty, Sitting!Calm, Sitting!Resting, Sitting!Rebuild,
    Sitting!RebuildAllowed, Sitting!RebuildRefused, Sitting!CloseEngine,
    Sitting!ClearSessions, Sitting!LoadProject, Sitting!AssignEngine,
    Sitting!StartEngine, Sitting!Work, Sitting!TurnStarts, Sitting!TurnEnds,
    Sitting!Finish, Sitting!AfterTurn, Sitting!ApplyPending, Sitting!Settled

\* What the constants of Services say of a session's.
LEMMA SittingAssumptions ==
  /\ Handlers \cap Workers = {} /\ None \notin Threads \cup Flags \cup Sitting!Engines
  /\ MaxEngines \in Nat \ {0} /\ MaxTexts \in Nat \ {0}
  /\ MaxFaults \in Nat /\ AllowConcurrent \in BOOLEAN
  BY BoundsAssumption, ActorsAssumption, NoneAssumption DEF Sitting!Engines

LEMMA ProjectInit == Project!Init => Sitting!SessionInv
  BY SameInit, SittingAssumptions, Sitting!SessionInit

LEMMA ProjectStep == Sitting!SessionInv /\ [Project!Next]_session => Sitting!SessionInv'
  <1>1. ASSUME UNCHANGED session PROVE UNCHANGED Sitting!vars
    BY <1>1 DEF session, Sitting!vars, Sitting!engines, Sitting!files, Sitting!flags, Sitting!locals
  <1> QED BY <1>1, SameSteps, SittingAssumptions, Sitting!SessionStep

LEMMA ProjectTyped == Sitting!SessionInv => Project!TypeOK
  BY SameTypes DEF Sitting!SessionInv, Sitting!Typed

-----------------------------------------------------------------------------
(* All of them.                                                            *)

\* A step of the whole is a step of each part, or leaves it as it is.
LEMMA PartsMove ==
  ASSUME [Next]_vars
  PROVE  /\ [Pool!Next]_pool /\ [Approve!Next]_approvals /\ [Tools!Next]_tools
         /\ [Stream!Next]_stream /\ [Project!Next]_session /\ [Naming!Next]_naming
  BY Zenon DEF Next, vars, Pooled, Approved, Served, Followed, Turned, Named

\* A project has one engine, and no engine runs that nobody can reach, however
\* many browsers open it, whichever constructions fail and whenever the reaper
\* closes it (WorkbenchPool.open, _reap_loop).
THEOREM OneEngineRuns == Spec => []OneEngine
  <1>1. Init => PoolInv
    BY PoolInit DEF Init
  <1>2. PoolInv /\ [Next]_vars => PoolInv'
    BY PoolStep, PartsMove
  <1>3. PoolInv => OneEngine
    BY PoolHolds DEF OneEngine
  <1> QED BY <1>1, <1>2, <1>3, PTL DEF Spec

\* The engine is told what a human said while it waited, or a refusal, however
\* many browsers answer one request (_on_approval, decide); and a title a
\* person gave is not replaced by the agent's, however late that comes
\* (rename_thread, claim_auto_title, finish_auto_title).
THEOREM HumansHaveDecided == Spec => []HumansDecide
  <1>1. Init => ApprovalsInv /\ NamingInv
    BY ApprovalsInit, NamingInit DEF Init
  <1>2. ApprovalsInv /\ NamingInv /\ [Next]_vars => (ApprovalsInv /\ NamingInv)'
    BY ApprovalsStep, NamingStep, PartsMove
  <1>3. ApprovalsInv /\ NamingInv => HumansDecide
    BY ApprovalsHold DEF HumansDecide, NamingInv
  <1> QED BY <1>1, <1>2, <1>3, PTL DEF Spec

\* A page that has connected misses no event of the transcript, shows each
\* once and never above one it followed, however two writers, a dropping
\* connection and the end of a session are interleaved (_log_event, Channel,
\* useThreadChannel, threadReducer).
THEOREM TranscriptsAreShown == Spec => []TranscriptIsShown
  <1>1. Init => ShowInv
    BY ShowInit DEF Init
  <1>2. ShowInv /\ [Next]_vars => ShowInv'
    <2> SUFFICES ASSUME ShowInv, [Next]_vars PROVE ShowInv'
      OBVIOUS
    <2>1. [Stream!Next]_stream
      BY PartsMove
    <2>2. UNCHANGED stream => UNCHANGED Stream!vars
      BY DEF stream, Stream!vars
    <2> QED BY <2>1, <2>2, ShowStep, ShowStays
  <1>3. ShowInv => TranscriptIsShown
    BY TranscriptFollows DEF TranscriptIsShown
  <1> QED BY <1>1, <1>2, <1>3, PTL DEF Spec

\* Every state of every component has its type; in particular a page only
\* reads event numbers the channel it follows has given (Channel.push,
\* useThreadChannel).
THEOREM TypesHold == Spec => []TypeOK
  <1> DEFINE Inv == PoolInv /\ ApprovalsInv /\ ToolsInv /\ StreamInv
                    /\ Sitting!SessionInv /\ NamingInv
  <1>1. Init => Inv
    BY PoolInit, ApprovalsInit, ToolsInit, StreamInit, ProjectInit, NamingInit DEF Init
  <1>2. Inv /\ [Next]_vars => Inv'
    <2> SUFFICES ASSUME Inv, [Next]_vars PROVE Inv'
      OBVIOUS
    <2>1. PoolInv' /\ ApprovalsInv' /\ ToolsInv' /\ NamingInv'
      BY PoolStep, ApprovalsStep, ToolsStep, NamingStep, PartsMove
    <2>2. StreamInv'
      <3>1. UNCHANGED stream => UNCHANGED Stream!vars
        BY DEF stream, Stream!vars
      <3> QED BY <3>1, StreamStep, StreamStays, PartsMove
    <2>3. Sitting!SessionInv'
      BY ProjectStep, PartsMove
    <2> QED BY <2>1, <2>2, <2>3
  <1>3. Inv => TypeOK
    BY PoolHolds, ApprovalsHold, StreamTyped, ProjectTyped DEF TypeOK, ToolsInv, NamingInv
  <1> HIDE DEF Inv
  <1> QED BY <1>1, <1>2, <1>3, PTL DEF Spec
=============================================================================
