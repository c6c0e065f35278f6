---------------------------- MODULE EventStream ----------------------------
(* How a browser follows one conversation: the transcript a task logs to  *)
(* (workbench/core.py), the channel that pushes the same events           *)
(* (workbench/service.py, Channel), the transcript and event routes, and  *)
(* the client that joins the two (ui useThreadChannel.ts,                 *)
(* threadReducer.ts).  An event is logged first and pushed afterwards,    *)
(* under different locks; the client reads the transcript, resumes the    *)
(* channel at the cursor it was given and drops what it already shows.    *)
(* Deltas, which are never logged, and project-wide events, which have no *)
(* line of a transcript, are left out.                                    *)
EXTENDS Integers, Sequences, FiniteSets, SequencesExt

CONSTANTS Writers,    \* the turn iterator and the notification callbacks
          BufLen,     \* maxlen of a channel
          Window,     \* EID_WINDOW of the client
          MaxEvents,  \* bound: events logged
          MaxGens,    \* bound: sessions opened
          MaxFailed,  \* bound: writes of the transcript that fail
          MaxDrops,   \* bound: connections that drop
          None

VARIABLES
  file,     \* transcript.jsonl: the events, by line
  count,    \* TaskSession._eids of the task; None until it is counted
  eidOf,    \* event -> the eid stamped on it
  prior,    \* event -> history: the events pushed before it was logged
  pending,  \* writer -> the event it has logged and not pushed yet
  chans,    \* the channels, one per session; the last is the current one
  conn,     \* the generator of the open connection: its channel and cursor
  wire,     \* what it has sent and the browser has not read
  client,   \* the state of useThreadChannel and of the reducer; .since is
            \* history: the first session whose events the transcript it
            \* read may lack
  failed, drops  \* faults so far

vars == <<file, count, eidOf, prior, pending, chans, conn, wire, client, failed, drops>>
server == <<file, count, eidOf, prior, pending, chans, failed>>

Events == 1..Len(eidOf)
Gen == Len(chans)
Channel == chans[Gen]
NewChannel == [pushed |-> <<>>, closed |-> FALSE]
LastSeq(ch) == Len(ch.pushed)
Oldest(ch) == IF LastSeq(ch) > BufLen THEN LastSeq(ch) - BufLen + 1 ELSE 1
Buffered(ch, after) == {s \in 1..LastSeq(ch) : s >= Oldest(ch) /\ s > after}

Init ==
  /\ file = <<>> /\ count = None /\ eidOf = <<>> /\ prior = <<>>
  /\ pending = [w \in Writers |-> None]
  /\ chans = <<NewChannel>> /\ conn = None /\ wire = <<>>
  /\ client = [pc |-> "boot", gen |-> None, resume |-> 0, last |-> 0, lastId |-> 0,
               shown |-> <<>>, recent |-> <<>>, maxEid |-> 0, gap |-> FALSE, since |-> 0]
  /\ failed = 0 /\ drops = 0

-----------------------------------------------------------------------------
(* The workbench: _log_event, then _push.                                   *)

NextEid == (IF count = None THEN Len(file) ELSE count) + 1

\* No writer is overtaken by a window of events between its log and its push.
KeepsUp == \A w \in Writers : pending[w] # None => NextEid - eidOf[pending[w]] < Window

LogEvent(w) ==
  /\ pending[w] = None /\ ~Channel.closed /\ Len(eidOf) < MaxEvents /\ KeepsUp
  /\ count' = NextEid
  /\ eidOf' = Append(eidOf, NextEid)
  /\ prior' = Append(prior, UNION {Range(chans[g].pushed) : g \in 1..Gen})
  /\ \/ /\ file' = Append(file, Len(eidOf'))
        /\ pending' = [pending EXCEPT ![w] = Len(eidOf')]
        /\ UNCHANGED failed
     \/ /\ failed < MaxFailed /\ failed' = failed + 1  \* the write raises
        /\ UNCHANGED <<file, pending>>
  /\ UNCHANGED <<chans, conn, wire, client, drops>>

Push(w) ==
  /\ pending[w] # None
  /\ chans' = [chans EXCEPT ![Gen].pushed = Append(@, pending[w])]
  /\ pending' = [pending EXCEPT ![w] = None]
  /\ UNCHANGED <<file, count, eidOf, prior, conn, wire, client, failed, drops>>

\* The session of an idle project is released: its channels are closed.
CloseSession ==
  /\ ~Channel.closed /\ \A w \in Writers : pending[w] = None
  /\ Gen < MaxGens
  /\ chans' = [chans EXCEPT ![Gen].closed = TRUE]
  /\ UNCHANGED <<file, count, eidOf, prior, pending, conn, wire, client, failed, drops>>

\* Another tab, or the recovery of this one, opens the project again.
OpenSession ==
  /\ Channel.closed
  /\ chans' = Append(chans, NewChannel) /\ count' = None
  /\ UNCHANGED <<file, eidOf, prior, pending, conn, wire, client, failed, drops>>

-----------------------------------------------------------------------------
(* The routes.                                                              *)

Hello(g, after) == [kind |-> "hello", gen |-> g, after |-> after, oldest |-> Oldest(chans[g])]
Accept(after) ==
  /\ conn' = [gen |-> Gen, cursor |-> after]
  /\ wire' = <<Hello(Gen, after)>>

SendBatch ==
  /\ conn # None
  /\ LET batch == Buffered(chans[conn.gen], conn.cursor)
         events == [i \in 1..Cardinality(batch) |->
                      [kind |-> "event", seq |-> LastSeq(chans[conn.gen]) - Cardinality(batch) + i]]
     IN  \/ /\ batch # {}
            /\ wire' = wire \o events
            /\ conn' = [conn EXCEPT !.cursor = LastSeq(chans[conn.gen])]
         \/ /\ batch = {} /\ chans[conn.gen].closed
            /\ wire' = Append(wire, [kind |-> "closed"])
            /\ conn' = None
  /\ UNCHANGED <<server, client, drops>>

-----------------------------------------------------------------------------
(* The client.                                                              *)

Recover == [client EXCEPT !.pc = "boot"]
Disconnect == conn' = None /\ wire' = <<>>

\* openProject and the head of thread_transcript: the cursor is taken first.
TakeCursor ==
  /\ client.pc = "boot"
  /\ client' = IF Channel.closed
               THEN [client EXCEPT !.pc = "read", !.gen = None, !.resume = 0]
               ELSE [client EXCEPT !.pc = "read", !.gen = Gen, !.resume = LastSeq(Channel)]
  /\ UNCHANGED <<server, conn, wire, drops>>

\* The rest of thread_transcript and rebuild in the reducer.
NextSession == IF Channel.closed THEN Gen + 1 ELSE Gen
\* Bug variant: the window is never trimmed.
AllOf(s, n) == s
LastOf(s, n) == SubSeq(s, IF Len(s) > n THEN Len(s) - n + 1 ELSE 1, Len(s))
\* Bug variant: what the page shows is kept and what it lacks comes behind.
ReadWithoutReset ==
  /\ client.pc = "read"
  /\ LET missing == SelectSeq(file, LAMBDA e : e \notin Range(client.shown))
     IN  client' = [client EXCEPT !.pc = "connect", !.last = client.resume, !.lastId = 0,
                      !.shown = @ \o missing, !.maxEid = Len(file), !.gap = FALSE, !.since = NextSession,
                      !.recent = LastOf([line \in 1..Len(file) |-> line], Window)]
  /\ UNCHANGED <<server, conn, wire, drops>>
ReadTranscript ==
  /\ client.pc = "read"
  /\ client' = [client EXCEPT !.pc = "connect", !.last = client.resume, !.lastId = 0,
                  !.shown = file, !.maxEid = Len(file), !.gap = FALSE, !.since = NextSession,
                  !.recent = LastOf([line \in 1..Len(file) |-> line], Window)]
  /\ UNCHANGED <<server, conn, wire, drops>>

\* A project that is not open refuses the EventSource: recover.
Connect ==
  /\ client.pc = "connect"
  /\ \/ Channel.closed /\ client' = Recover /\ UNCHANGED <<conn, wire>>
     \/ ~Channel.closed /\ Accept(client.resume) /\ client' = [client EXCEPT !.pc = "open"]
  /\ UNCHANGED <<server, drops>>

Drop ==
  /\ client.pc = "open" /\ drops < MaxDrops
  /\ drops' = drops + 1 /\ client' = [client EXCEPT !.pc = "lost"]
  /\ Disconnect /\ UNCHANGED server

\* The browser retries by itself with Last-Event-ID, or the ladder gives up.
Retry ==
  /\ client.pc = "lost"
  /\ \/ /\ ~Channel.closed /\ client' = [client EXCEPT !.pc = "open"]
        /\ Accept(IF client.lastId > client.resume THEN client.lastId ELSE client.resume)
     \/ client' = Recover /\ UNCHANGED <<conn, wire>>
  /\ UNCHANGED <<server, drops>>

StaleHello(m) ==
  \/ client.gen # None /\ m.gen # client.gen
  \/ m.after > 0 /\ m.oldest > m.after + 1

\* Bug variants: the highest eid alone decides; the recent ones are forgotten.
NotNewer(e) == e <= client.maxEid
OutsideWindow(e) == e <= client.maxEid - Window
IsDuplicate(e) == e \in Range(client.recent) \/ e <= client.maxEid - Window

\* The state after an event: its seq is noted, then the reducer decides.
Shown(seq, e) ==
  LET noted == [client EXCEPT !.lastId = seq, !.last = IF seq > @ THEN seq ELSE @,
                              !.gap = @ \/ seq > client.last + 1]
      eid == eidOf[e]
  IN  IF IsDuplicate(eid) THEN noted
      ELSE [noted EXCEPT !.shown = Append(@, e), !.recent = LastOf(Append(@, eid), Window),
                         !.maxEid = IF eid > @ THEN eid ELSE @]

ReceiveHello ==
  /\ client.pc = "open" /\ wire # <<>> /\ Head(wire).kind = "hello"
  /\ \/ /\ StaleHello(Head(wire)) /\ client' = Recover /\ Disconnect
     \/ /\ ~StaleHello(Head(wire)) /\ client' = [client EXCEPT !.gen = Head(wire).gen]
        /\ wire' = Tail(wire) /\ UNCHANGED conn
  /\ UNCHANGED <<server, drops>>

ReceiveEvent ==
  /\ client.pc = "open" /\ wire # <<>> /\ Head(wire).kind = "event"
  /\ client' = Shown(Head(wire).seq, chans[client.gen].pushed[Head(wire).seq])
  /\ wire' = Tail(wire)
  /\ UNCHANGED <<server, conn, drops>>

\* Bug variant: the end of the channel is not told from its silence.
IgnoreClosed ==
  /\ client.pc = "open" /\ wire # <<>> /\ Head(wire).kind = "closed"
  /\ wire' = Tail(wire) /\ UNCHANGED <<server, client, conn, drops>>
ReceiveClosed ==
  /\ client.pc = "open" /\ wire # <<>> /\ Head(wire).kind = "closed"
  /\ client' = Recover /\ Disconnect /\ UNCHANGED <<server, drops>>

\* Back to the tab, or the watchdog: does the server hold more than we do?
Reconcile ==
  /\ client.pc = "open" /\ ~Channel.closed
  /\ \/ client.gen # None /\ client.gen # Gen
     \/ wire = <<>> /\ LastSeq(Channel) > client.last
  /\ client' = Recover /\ Disconnect /\ UNCHANGED <<server, drops>>

ClientStep == TakeCursor \/ ReadTranscript \/ Connect \/ Retry \/ ReceiveHello
              \/ ReceiveEvent \/ ReceiveClosed

Next ==
  \/ \E w \in Writers : LogEvent(w) \/ Push(w)
  \/ CloseSession \/ OpenSession \/ SendBatch
  \/ ClientStep \/ Drop \/ Reconcile

Spec == Init /\ [][Next]_vars

\* The writers finish what they log, the server serves, the page runs.
FairSpec == Spec /\ \A w \in Writers : WF_vars(Push(w))
                 /\ WF_vars(OpenSession) /\ WF_vars(SendBatch) /\ WF_vars(ClientStep)

-----------------------------------------------------------------------------
TypeOK ==
  /\ Range(file) \subseteq Events /\ count \in Nat \cup {None}
  /\ eidOf \in Seq(Nat) /\ prior \in Seq(SUBSET Events) /\ Len(prior) = Len(eidOf)
  /\ pending \in [Writers -> Events \cup {None}]
  /\ \A g \in 1..Gen : chans[g].pushed \in Seq(Events) /\ chans[g].closed \in BOOLEAN
  /\ conn \in [gen : 1..Gen, cursor : Nat] \cup {None}
  /\ client.pc \in {"boot", "read", "connect", "open", "lost"}
  /\ client.gen \in 1..Gen \cup {None} /\ Len(client.recent) <= Window

\* The events the connected page still has to get: on the wire, buffered
\* beyond the cursor of its connection, or logged and not pushed.
OnWire == [i \in 1..Len(wire) |-> wire[i].seq]
ToCome == {pending[w] : w \in Writers}
  \cup {chans[conn.gen].pushed[s] : s \in Range(OnWire) \cup Buffered(chans[conn.gen], conn.cursor)}

\* No channel outran the page: the numbers it gets follow on each other.
Following ==
  LET seqs == <<client.last>> \o OnWire \o <<Oldest(chans[conn.gen])>>
  IN  ~client.gap /\ \A i \in 2..Len(seqs) : seqs[i] <= seqs[i - 1] + 1

\* No session came and went between the transcript and the connection.
SameSession == conn.gen <= client.since

\* A page that has read its hello misses no logged event: it shows the event
\* or the event is still to come.  A transcript read after its cursor, a
\* reconnection with Last-Event-ID and a replay all meet at the same place.
NothingLost ==
  (/\ client.pc = "open" /\ conn # None
   /\ \A i \in 1..Len(wire) : wire[i].kind = "event"
   /\ Following /\ SameSession)
  => conn.gen < Gen \/ Range(file) \subseteq Range(client.shown) \cup ToCome

\* An event logged before the transcript was read and pushed afterwards
\* reaches the page twice and is shown once.
ShownOnce == failed = 0 => IsInjective(client.shown)

\* Two writers may push in another order than they log, but of an event and
\* one that was pushed before it was logged, the page shows the other first.
CausesComeFirst ==
  \A i, j \in 1..Len(client.shown) :
    client.shown[i] \in prior[client.shown[j]] =>
      \E k \in 1..j - 1 : client.shown[k] = client.shown[i]

\* With the faults over, the page shows all of the transcript again.
CatchesUp ==
  <>[](\/ Range(file) \subseteq Range(client.shown) \/ client.gap
       \/ conn # None /\ ~SameSession)

\* What the code says of itself, broken: "eid = 1-based line index in
\* transcript.jsonl" (_log_event) by a write that fails after the number was
\* taken, and "a resume cursor below oldest - 1 means events were lost"
\* (Channel.oldest) by a client that asks only in its hello, and never at 0.
EidIsLine == \A line \in 1..Len(file) : eidOf[file[line]] = line
GapsAreNoticed == ~client.gap

\* "channel_hello is compared against the token: a different generation means
\* the channel was recreated" (useThreadChannel.ts), broken when the transcript
\* was read while no session was open and named none.
SessionsAreNoticed ==
  client.pc = "open" /\ conn # None /\ (wire = <<>> \/ Head(wire).kind # "hello") => SameSession
=============================================================================
