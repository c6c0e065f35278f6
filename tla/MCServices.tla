----------------------------- MODULE MCServices -----------------------------
(* Services on small sets of actors, with the fairness under which nobody  *)
(* of them waits for ever.                                                 *)
EXTENDS Services

\* The fairness of each component's own FairSpec.  A behaviour is one of a
\* single component, so a disjunction of actions of different components is
\* fair exactly when each of them is.
FairSpec ==
  /\ Spec
  /\ WF_vars(Pooled(Pool!OpenStep("o1")) \/ Served(Tools!Thread("c1")) \/ Followed(Stream!Push("w1")))
  /\ WF_vars(Pooled(Pool!OpenStep("o2")) \/ Served(Tools!Thread("c2")) \/ Followed(Stream!Push("w2")))
  /\ WF_vars(Pooled(Pool!ReaperStep) \/ Served(Tools!Exit) \/ Followed(Stream!OpenSession))
  /\ WF_vars(Pooled(Pool!Send("s1")) \/ Served(Tools!Tick) \/ Followed(Stream!SendBatch)
             \/ Turned(Project!Serve("q1")))
  /\ WF_vars(Pooled(Pool!TurnEnds("s1")) \/ Approved(Approve!Callback("r1"))
             \/ Followed(Stream!ClientStep) \/ Turned(Project!Work("w1")))

-----------------------------------------------------------------------------
\* Nobody waits for ever: OpenEnds, EveryRequestEnds, QueuedCallEnds and
\* TurnsGiveBack, for the first of each of their actors, who are alike; and a
\* tool server without its client ends, whatever it computes.
NobodyWaitsForever ==
  /\ (\/ part = "pool" /\ Pool!Waits("o1")
      \/ part = "approvals" /\ Approve!Waits("r1")
      \/ part = "tools" /\ Tools!Waits("c1")
      \/ part = "session" /\ Project!InTurn("t1"))
     ~> CASE part = "pool"      -> Pool!Answered("o1")
          [] part = "approvals" -> Approve!Answered("r1")
          [] part = "session"   -> "t1" \notin inTurn
          [] OTHER              -> Tools!Answered("c1")
  /\ Tools!OrphanEnds

\* A restart that waits for the running turns happens after them, unless
\* another request comes in between.
DeferredRestartIsServed == Project!DeferredRestartIsServed

\* With the faults over, the page shows all of the transcript again.
CatchesUp == Stream!CatchesUp
=============================================================================
