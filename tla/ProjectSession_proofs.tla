------------------------ MODULE ProjectSession_proofs ------------------------
(***************************************************************************)
(* Proof that a project session, for any number of requests, conversations *)
(* and turn threads, admits one turn at a time and always gets back to an  *)
(* engine that runs.                                                       *)
(*                                                                         *)
(* The argument: whoever holds a conversation's turn has it in _busy, and  *)
(* nobody else holds the same one (HoldersAreBusy), so the look at _busy   *)
(* that admits a turn sees every holder.  The engine is closed only by an  *)
(* actor that is then on its way to starting another (EngineReturns).      *)
(***************************************************************************)
EXTENDS ProjectSession, TLAPS

\* What an actor carries from step to step is there when the step needs it.
InHand ==
  /\ \A r \in Requests : pc[r] \in SendSteps => conv[r] \in Threads
  /\ \A r \in Requests : pc[r] \in {"store", "admit", "launch"} => eng[r] \in Engines
  /\ \A w \in Turns : conv[w] \in Threads /\ eng[w] \in Engines
  /\ \A a \in Actors : pc[a] = "assign" => loaded[a] \in Flags

Typed == TypeOK /\ InHand

HoldersAreBusy ==
  /\ \A a \in Holders : conv[a] \in busy
  /\ \A a, b \in Holders : conv[a] = conv[b] => a = b
  /\ ~AllowConcurrent => \A s, t \in busy : s = t

EngineReturns ==
  wb \in live \/ \E a \in Actors : pc[a] \in {"clear", "load", "assign", "start"}

SessionInv == Typed /\ HoldersAreBusy /\ EngineReturns

-----------------------------------------------------------------------------
LEMMA SessionInit == Init => SessionInv
  <1> USE ActorsAssumption, BoundsAssumption
          DEF Actors, Engines, Texts, RequestSteps, WorkerSteps, SendSteps
  <1> SUFFICES ASSUME Init PROVE SessionInv
    OBVIOUS
  <1>1. \A a \in Actors : pc[a] \in {"idle", "none"}
    BY DEF Init
  <1>2. TypeOK
    <2>1. 1 \in Engines /\ 1 \in Texts /\ 0 \in 0 .. MaxFaults
      OBVIOUS
    <2>2. /\ running \in [Engines -> Flags] /\ asked \in [Engines -> Flags]
          /\ md \in [Engines -> Texts]
      BY <2>1 DEF Init
    <2>3. /\ pc \in [Actors -> RequestSteps \cup WorkerSteps]
          /\ \A r \in Requests : pc[r] \in RequestSteps
          /\ \A w \in Workers : pc[w] \in WorkerSteps
      BY DEF Init
    <2> QED
      BY <2>1, <2>2, <2>3 DEF Init, TypeOK
  <1>3. InHand
    BY <1>1 DEF Init, InHand, Turns
  <1>4. HoldersAreBusy
    BY <1>1 DEF Init, HoldersAreBusy, Holders, Turns
  <1>5. EngineReturns
    BY DEF Init, EngineReturns
  <1> QED
    BY <1>2, <1>3, <1>4, <1>5 DEF SessionInv, Typed

LEMMA TypedStep == Typed /\ Next => Typed'
  <1> USE ActorsAssumption, BoundsAssumption
          DEF Actors, Engines, Texts, RequestSteps, WorkerSteps, SendSteps, RebuildSteps
  <1> SUFFICES ASSUME Typed, Next PROVE Typed'
    OBVIOUS
  <1>1. ASSUME NEW r \in Requests, NEW t \in Threads, SendCached(r, t) PROVE Typed'
    BY <1>1
    DEF SendCached, Typed, TypeOK, InHand, Turns, Goto, From, Resting, Answered, engines,
        files, flags
  <1>2. ASSUME NEW r \in Requests, NEW t \in Threads, SendUncached(r, t) PROVE Typed'
    BY <1>2
    DEF SendUncached, Typed, TypeOK, InHand, Turns, Goto, From, Resting, Answered, engines,
        files, flags
  <1>3. ASSUME NEW r \in Requests, NEW f \in Flags, ChangeSettings(r, f) PROVE Typed'
    <2>1. TypeOK'
      BY <1>3
      DEF ChangeSettings, Kinds, Typed, TypeOK, InHand, Goto, From, Answered, flags, locals
    <2>2. InHand'
      BY <1>3 DEF ChangeSettings, Turns, Typed, TypeOK, InHand, Goto, From, Answered
    <2> QED
      BY <2>1, <2>2 DEF Typed
  <1>4. ASSUME NEW r \in Requests, Resume(r) PROVE Typed'
    <2>1. TypeOK /\ InHand
      BY DEF Typed
    <2>2. CASE wb \in live
      <3>1. /\ eng' = [eng EXCEPT ![r] = wb] /\ pc' = [pc EXCEPT ![r] = "store"]
            /\ conv' = conv /\ loaded' = loaded
        BY <1>4, <2>2 DEF Resume, Goto
      <3>2. TypeOK'
        BY <1>4, <2>1, <3>1 DEF Resume, TypeOK, engines, files, flags
      <3>3. InHand'
        BY <1>4, <2>1, <3>1 DEF Resume, TypeOK, InHand, Turns
      <3> QED
        BY <3>2, <3>3 DEF Typed
    <2>3. CASE wb \notin live
      <3>1. /\ conv' = [conv EXCEPT ![r] = None] /\ pc' = [pc EXCEPT ![r] = "idle"]
            /\ eng' = eng /\ loaded' = loaded
        BY <1>4, <2>3 DEF Resume, Goto
      <3>2. TypeOK'
        BY <1>4, <2>1, <3>1 DEF Resume, TypeOK, engines, files, flags
      <3>3. InHand'
        BY <1>4, <2>1, <3>1 DEF Resume, TypeOK, InHand, Turns
      <3> QED
        BY <3>2, <3>3 DEF Typed
    <2> QED
      BY <2>2, <2>3
  <1>5. ASSUME NEW r \in Requests, Store(r) PROVE Typed'
    BY <1>5
    DEF Store, Typed, TypeOK, InHand, Turns, Goto, From, Resting, Answered, engines, files,
        flags, locals
  <1>6. ASSUME NEW r \in Requests, Admit(r) PROVE Typed'
    BY <1>6
    DEF Admit, Typed, TypeOK, InHand, Turns, Goto, From, Resting, Answered, engines, files,
        flags, locals
  <1>7. ASSUME NEW r \in Requests, Refuse(r) PROVE Typed'
    BY <1>7
    DEF Refuse, Typed, TypeOK, InHand, Turns, Goto, From, Resting, Answered, engines, files,
        flags
  <1>8. ASSUME NEW r \in Requests, Launch(r) PROVE Typed'
    <2>1. TypeOK /\ InHand
      BY DEF Typed
    <2>2. PICK w \in Workers :
            /\ pc[r] = "launch" /\ pc[w] = "none"
            /\ pc' = [pc EXCEPT ![r] = "idle", ![w] = "turn"]
            /\ eng' = [eng EXCEPT ![r] = None, ![w] = eng[r]]
            /\ conv' = [conv EXCEPT ![r] = None, ![w] = conv[r]]
            /\ UNCHANGED <<engines, files, flags, sessions, busy, kind, loaded, faults>>
      BY <1>8 DEF Launch
    <2>3. conv[r] \in Threads /\ eng[r] \in Engines /\ r # w
      BY <2>1, <2>2 DEF InHand
    <2>4. TypeOK'
      BY <2>1, <2>2, <2>3 DEF TypeOK, engines, files, flags
    <2>5. InHand'
      BY <2>1, <2>2, <2>3 DEF TypeOK, InHand, Turns
    <2> QED
      BY <2>4, <2>5 DEF Typed
  <1>9. ASSUME NEW r \in Requests, LaunchFails(r) PROVE Typed'
    BY <1>9
    DEF LaunchFails, Typed, TypeOK, InHand, Turns, Goto, From, Resting, Answered, engines,
        files, flags
  <1>10. ASSUME NEW r \in Requests, Sync(r) PROVE Typed'
    BY <1>10
    DEF Sync, Typed, TypeOK, InHand, Turns, Goto, Answered, engines, files, flags, locals
  <1>11. ASSUME NEW r \in Requests, ChangeLanguage(r) PROVE Typed'
    <2>1. TypeOK'
      BY <1>11
      DEF ChangeLanguage, Kinds, Typed, TypeOK, InHand, Goto, From, Answered, engines,
          files, flags, locals
    <2>2. InHand'
      BY <1>11 DEF ChangeLanguage, Turns, Typed, TypeOK, InHand, Goto, From, Answered
    <2> QED
      BY <2>1, <2>2 DEF Typed
  <1>12. ASSUME NEW r \in Requests, RestartEngine(r) PROVE Typed'
    <2>1. TypeOK'
      BY <1>12
      DEF RestartEngine, Kinds, Typed, TypeOK, InHand, Goto, From, Answered, engines, files,
          flags, locals
    <2>2. InHand'
      BY <1>12 DEF RestartEngine, Turns, Typed, TypeOK, InHand, Goto, From, Answered
    <2> QED
      BY <2>1, <2>2 DEF Typed
  <1>13. ASSUME NEW r \in Requests, RebuildOrDefer(r) PROVE Typed'
    BY <1>13
    DEF RebuildOrDefer, Typed, TypeOK, InHand, Turns, Goto, Answered, engines, files, flags,
        locals
  <1>14. ASSUME NEW r \in Requests, MarkPending(r) PROVE Typed'
    <2>1. TypeOK'
      BY <1>14
      DEF MarkPending, Kinds, Typed, TypeOK, InHand, Goto, From, Answered, engines, files,
          flags, locals
    <2>2. InHand'
      BY <1>14 DEF MarkPending, Turns, Typed, TypeOK, InHand, Goto
    <2> QED
      BY <2>1, <2>2 DEF Typed
  <1>15. ASSUME NEW r \in Requests, MarkDirty(r) PROVE Typed'
    BY <1>15
    DEF MarkDirty, Typed, TypeOK, InHand, Turns, Goto, From, Resting, Answered, engines,
        files, flags
  <1>16. ASSUME NEW w \in Workers, TurnStarts(w) PROVE Typed'
    BY <1>16
    DEF TurnStarts, Typed, TypeOK, InHand, Turns, Goto, Answered, engines, files, flags,
        locals
  <1>17. ASSUME NEW w \in Workers, TurnEnds(w) PROVE Typed'
    BY <1>17
    DEF TurnEnds, Typed, TypeOK, InHand, Turns, Goto, From, Resting, Answered, engines,
        files, flags, locals
  <1>18. ASSUME NEW w \in Workers, Finish(w) PROVE Typed'
    BY <1>18 DEF Finish, Typed, TypeOK, InHand, Turns, Goto, Answered, engines, files, flags
  <1>19. ASSUME NEW w \in Workers, AfterTurn(w) PROVE Typed'
    BY <1>19
    DEF AfterTurn, Typed, TypeOK, InHand, Turns, Goto, Answered, engines, files, flags,
        locals
  <1>20. ASSUME NEW w \in Workers, ApplyPending(w) PROVE Typed'
    BY <1>20
    DEF ApplyPending, Typed, TypeOK, InHand, Turns, Goto, From, Resting, Answered, engines,
        files, flags, locals
  <1>21. ASSUME NEW w \in Workers, Settled(w) PROVE Typed'
    BY <1>21
    DEF Settled, Typed, TypeOK, InHand, Turns, Goto, From, Resting, Answered, engines,
        files, flags, locals
  <1>22. ASSUME NEW a \in Actors, Calm(a) PROVE Typed'
    BY <1>22
    DEF Calm, Typed, TypeOK, InHand, Turns, Goto, From, Resting, Answered, engines, files,
        flags, locals
  <1>23. ASSUME NEW a \in Actors, RebuildAllowed(a) PROVE Typed'
    BY <1>23
    DEF RebuildAllowed, Typed, TypeOK, InHand, Turns, Goto, From, Resting, Answered,
        engines, files, flags, locals
  <1>24. ASSUME NEW a \in Actors, RebuildRefused(a) PROVE Typed'
    <2>1. TypeOK /\ InHand
      BY DEF Typed
    <2>2. /\ pc[a] = "check"
          /\ UNCHANGED <<engines, files, flags, sessions, busy, conv, eng, loaded, faults>>
      BY <1>24 DEF RebuildRefused
    <2>3. PICK s \in {"none", "idle", "mark"} :
            /\ pc' = [pc EXCEPT ![a] = s]
            /\ a \in Workers => s = "none"
            /\ a \in Requests => s \in {"idle", "mark"}
      BY <1>24 DEF RebuildRefused, Goto
    <2>4. kind' \in [Requests -> Kinds \cup {None}]
      BY <1>24, <2>1 DEF RebuildRefused, Answered, TypeOK
    <2>5. TypeOK'
      BY <2>1, <2>2, <2>3, <2>4 DEF TypeOK, engines, files, flags
    <2>6. InHand'
      BY <2>1, <2>2, <2>3 DEF TypeOK, InHand, Turns
    <2> QED
      BY <2>5, <2>6 DEF Typed
  <1>25. ASSUME NEW a \in Actors, CloseEngine(a) PROVE Typed'
    BY <1>25
    DEF CloseEngine, Typed, TypeOK, InHand, Turns, Goto, From, Resting, files, flags, locals
  <1>26. ASSUME NEW a \in Actors, ClearSessions(a) PROVE Typed'
    BY <1>26
    DEF ClearSessions, Typed, TypeOK, InHand, Turns, Goto, From, Resting, Answered, engines,
        files, flags, locals
  <1>27. ASSUME NEW a \in Actors, LoadProject(a) PROVE Typed'
    BY <1>27
    DEF LoadProject, Typed, TypeOK, InHand, Turns, Goto, From, Resting, Answered, engines,
        files, flags
  <1>28. ASSUME NEW a \in Actors, AssignEngine(a) PROVE Typed'
    <2>1. TypeOK'
      BY <1>28
      DEF AssignEngine, Kinds, Typed, TypeOK, InHand, Goto, From, Answered, engines, files,
          flags, locals
    <2>2. InHand'
      BY <1>28 DEF AssignEngine, Turns, Typed, TypeOK, InHand, Goto, From, Answered
    <2> QED
      BY <2>1, <2>2 DEF Typed
  <1>29. ASSUME NEW a \in Actors, StartEngine(a) PROVE Typed'
    <2>1. TypeOK'
      BY <1>29
      DEF StartEngine, Kinds, Typed, TypeOK, InHand, Goto, From, Answered, engines, files,
          flags, locals
    <2>2. InHand'
      BY <1>29 DEF StartEngine, Turns, Typed, TypeOK, InHand, Goto
    <2> QED
      BY <2>1, <2>2 DEF Typed
  <1> QED
    BY <1>1, <1>2, <1>3, <1>4, <1>5, <1>6, <1>7, <1>8, <1>9, <1>10, <1>11, <1>12, <1>13,
        <1>14, <1>15, <1>16, <1>17, <1>18, <1>19, <1>20, <1>21, <1>22, <1>23, <1>24, <1>25,
        <1>26, <1>27, <1>28, <1>29
    DEF Next, Arrival, Serve, Work, Rebuild

\* Only Admit, Launch, Finish and the failures change who holds a turn.
LEMMA BusyStep == Typed /\ HoldersAreBusy /\ Next => HoldersAreBusy'
  <1> USE ActorsAssumption, BoundsAssumption
          DEF Actors, RequestSteps, WorkerSteps, SendSteps, RebuildSteps
  <1> SUFFICES ASSUME Typed, HoldersAreBusy, Next PROVE HoldersAreBusy'
    OBVIOUS
  <1>1. ASSUME NEW r \in Requests, NEW t \in Threads, SendCached(r, t) PROVE HoldersAreBusy'
    BY <1>1 DEF SendCached, HoldersAreBusy, Holders, Turns, Goto, From
  <1>2. ASSUME NEW r \in Requests, NEW t \in Threads, SendUncached(r, t) PROVE HoldersAreBusy'
    BY <1>2 DEF SendUncached, HoldersAreBusy, Holders, Turns, Goto, From
  <1>3. ASSUME NEW r \in Requests, NEW f \in Flags, ChangeSettings(r, f) PROVE HoldersAreBusy'
    BY <1>3 DEF ChangeSettings, HoldersAreBusy, Holders, Turns, Goto, From
  <1>4. ASSUME NEW r \in Requests, Resume(r) PROVE HoldersAreBusy'
    BY <1>4 DEF Resume, HoldersAreBusy, Holders, Turns, Typed, TypeOK, Goto, From
  <1>5. ASSUME NEW r \in Requests, Store(r) PROVE HoldersAreBusy'
    BY <1>5 DEF Store, HoldersAreBusy, Holders, Turns, Goto, From, locals
  <1>6. ASSUME NEW r \in Requests, Admit(r) PROVE HoldersAreBusy'
    BY <1>6
    DEF Admit, HoldersAreBusy, Holders, Turns, Goto, From, Admissible, engines, locals
  <1>7. ASSUME NEW r \in Requests, Refuse(r) PROVE HoldersAreBusy'
    BY <1>7 DEF Refuse, HoldersAreBusy, Holders, Turns, Goto, From
  <1>8. ASSUME NEW r \in Requests, Launch(r) PROVE HoldersAreBusy'
    BY <1>8 DEF Launch, HoldersAreBusy, Holders, Turns, Typed, TypeOK
  <1>9. ASSUME NEW r \in Requests, LaunchFails(r) PROVE HoldersAreBusy'
    BY <1>9 DEF LaunchFails, HoldersAreBusy, Holders, Turns, Typed, TypeOK, Goto, From
  <1>10. ASSUME NEW r \in Requests, Sync(r) PROVE HoldersAreBusy'
    BY <1>10 DEF Sync, HoldersAreBusy, Holders, Turns, Goto, From, locals
  <1>11. ASSUME NEW r \in Requests, ChangeLanguage(r) PROVE HoldersAreBusy'
    BY <1>11 DEF ChangeLanguage, HoldersAreBusy, Holders, Turns, Goto, From
  <1>12. ASSUME NEW r \in Requests, RestartEngine(r) PROVE HoldersAreBusy'
    BY <1>12 DEF RestartEngine, HoldersAreBusy, Holders, Turns, Goto, From
  <1>13. ASSUME NEW r \in Requests, RebuildOrDefer(r) PROVE HoldersAreBusy'
    BY <1>13 DEF RebuildOrDefer, HoldersAreBusy, Holders, Turns, Goto, From, locals
  <1>14. ASSUME NEW r \in Requests, MarkPending(r) PROVE HoldersAreBusy'
    BY <1>14 DEF MarkPending, HoldersAreBusy, Holders, Turns, Typed, TypeOK, Goto, From
  <1>15. ASSUME NEW r \in Requests, MarkDirty(r) PROVE HoldersAreBusy'
    BY <1>15 DEF MarkDirty, HoldersAreBusy, Holders, Turns, Goto, From
  <1>16. ASSUME NEW w \in Workers, TurnStarts(w) PROVE HoldersAreBusy'
    BY <1>16 DEF TurnStarts, HoldersAreBusy, Holders, Turns, Goto, From, locals
  <1>17. ASSUME NEW w \in Workers, TurnEnds(w) PROVE HoldersAreBusy'
    BY <1>17 DEF TurnEnds, HoldersAreBusy, Holders, Turns, Goto, From, locals
  <1>18. ASSUME NEW w \in Workers, Finish(w) PROVE HoldersAreBusy'
    BY <1>18 DEF Finish, HoldersAreBusy, Holders, Turns, Typed, TypeOK, Goto, From
  <1>19. ASSUME NEW w \in Workers, AfterTurn(w) PROVE HoldersAreBusy'
    BY <1>19 DEF AfterTurn, HoldersAreBusy, Holders, Turns, Goto, From, locals
  <1>20. ASSUME NEW w \in Workers, ApplyPending(w) PROVE HoldersAreBusy'
    BY <1>20 DEF ApplyPending, HoldersAreBusy, Holders, Turns, Goto, From, locals
  <1>21. ASSUME NEW w \in Workers, Settled(w) PROVE HoldersAreBusy'
    BY <1>21 DEF Settled, HoldersAreBusy, Holders, Turns, Goto, From, locals
  <1>22. ASSUME NEW a \in Actors, Calm(a) PROVE HoldersAreBusy'
    BY <1>22 DEF Calm, HoldersAreBusy, Holders, Turns, Goto, From, Resting, Answered
  <1>23. ASSUME NEW a \in Actors, RebuildAllowed(a) PROVE HoldersAreBusy'
    BY <1>23 DEF RebuildAllowed, HoldersAreBusy, Holders, Turns, Goto, From
  <1>24. ASSUME NEW a \in Actors, RebuildRefused(a) PROVE HoldersAreBusy'
    BY <1>24 DEF RebuildRefused, HoldersAreBusy, Holders, Turns, Typed, TypeOK, Goto, From
  <1>25. ASSUME NEW a \in Actors, CloseEngine(a) PROVE HoldersAreBusy'
    BY <1>25 DEF CloseEngine, HoldersAreBusy, Holders, Turns, Goto, From, locals
  <1>26. ASSUME NEW a \in Actors, ClearSessions(a) PROVE HoldersAreBusy'
    BY <1>26 DEF ClearSessions, HoldersAreBusy, Holders, Turns, Goto, From, locals
  <1>27. ASSUME NEW a \in Actors, LoadProject(a) PROVE HoldersAreBusy'
    BY <1>27 DEF LoadProject, HoldersAreBusy, Holders, Turns, Goto, From
  <1>28. ASSUME NEW a \in Actors, AssignEngine(a) PROVE HoldersAreBusy'
    BY <1>28 DEF AssignEngine, HoldersAreBusy, Holders, Turns, Goto, From
  <1>29. ASSUME NEW a \in Actors, StartEngine(a) PROVE HoldersAreBusy'
    BY <1>29 DEF StartEngine, HoldersAreBusy, Holders, Turns, Typed, TypeOK, Goto, From
  <1> QED
    BY <1>1, <1>2, <1>3, <1>4, <1>5, <1>6, <1>7, <1>8, <1>9, <1>10, <1>11, <1>12, <1>13,
        <1>14, <1>15, <1>16, <1>17, <1>18, <1>19, <1>20, <1>21, <1>22, <1>23, <1>24, <1>25,
        <1>26, <1>27, <1>28, <1>29
    DEF Next, Arrival, Serve, Work, Rebuild

\* CloseEngine, AssignEngine and StartEngine are the steps that matter here.
LEMMA ReturnsStep == Typed /\ EngineReturns /\ Next => EngineReturns'
  <1> USE ActorsAssumption, BoundsAssumption
          DEF Actors, RequestSteps, WorkerSteps, SendSteps, RebuildSteps
  <1> SUFFICES ASSUME Typed, EngineReturns, Next PROVE EngineReturns'
    OBVIOUS
  <1>1. ASSUME NEW r \in Requests, NEW t \in Threads, SendCached(r, t) PROVE EngineReturns'
    BY <1>1 DEF SendCached, EngineReturns, Goto, From, engines, files
  <1>2. ASSUME NEW r \in Requests, NEW t \in Threads, SendUncached(r, t) PROVE EngineReturns'
    BY <1>2 DEF SendUncached, EngineReturns, Goto, From, engines, files
  <1>3. ASSUME NEW r \in Requests, NEW f \in Flags, ChangeSettings(r, f) PROVE EngineReturns'
    BY <1>3 DEF ChangeSettings, EngineReturns, Goto, From
  <1>4. ASSUME NEW r \in Requests, Resume(r) PROVE EngineReturns'
    BY <1>4 DEF Resume, EngineReturns, Typed, TypeOK, Goto, From, engines, files
  <1>5. ASSUME NEW r \in Requests, Store(r) PROVE EngineReturns'
    BY <1>5 DEF Store, EngineReturns, Goto, From, engines, files
  <1>6. ASSUME NEW r \in Requests, Admit(r) PROVE EngineReturns'
    BY <1>6 DEF Admit, EngineReturns, Goto, From, engines, files
  <1>7. ASSUME NEW r \in Requests, Refuse(r) PROVE EngineReturns'
    BY <1>7 DEF Refuse, EngineReturns, Goto, From, engines, files
  <1>8. ASSUME NEW r \in Requests, Launch(r) PROVE EngineReturns'
    BY <1>8 DEF Launch, EngineReturns, Typed, TypeOK, engines, files
  <1>9. ASSUME NEW r \in Requests, LaunchFails(r) PROVE EngineReturns'
    BY <1>9 DEF LaunchFails, EngineReturns, Goto, From, engines, files
  <1>10. ASSUME NEW r \in Requests, Sync(r) PROVE EngineReturns'
    BY <1>10 DEF Sync, EngineReturns, Goto, From, engines, files
  <1>11. ASSUME NEW r \in Requests, ChangeLanguage(r) PROVE EngineReturns'
    BY <1>11 DEF ChangeLanguage, EngineReturns, Goto, From, engines, files
  <1>12. ASSUME NEW r \in Requests, RestartEngine(r) PROVE EngineReturns'
    BY <1>12 DEF RestartEngine, EngineReturns, Goto, From, engines, files
  <1>13. ASSUME NEW r \in Requests, RebuildOrDefer(r) PROVE EngineReturns'
    BY <1>13 DEF RebuildOrDefer, EngineReturns, Goto, From, engines, files
  <1>14. ASSUME NEW r \in Requests, MarkPending(r) PROVE EngineReturns'
    BY <1>14 DEF MarkPending, EngineReturns, Typed, TypeOK, Goto, From, engines, files
  <1>15. ASSUME NEW r \in Requests, MarkDirty(r) PROVE EngineReturns'
    BY <1>15 DEF MarkDirty, EngineReturns, Goto, From, engines, files
  <1>16. ASSUME NEW w \in Workers, TurnStarts(w) PROVE EngineReturns'
    BY <1>16 DEF TurnStarts, EngineReturns, Goto, From, engines, files
  <1>17. ASSUME NEW w \in Workers, TurnEnds(w) PROVE EngineReturns'
    BY <1>17 DEF TurnEnds, EngineReturns, Goto, From, engines, files
  <1>18. ASSUME NEW w \in Workers, Finish(w) PROVE EngineReturns'
    BY <1>18 DEF Finish, EngineReturns, Goto, From, engines, files
  <1>19. ASSUME NEW w \in Workers, AfterTurn(w) PROVE EngineReturns'
    BY <1>19 DEF AfterTurn, EngineReturns, Goto, From, engines, files
  <1>20. ASSUME NEW w \in Workers, ApplyPending(w) PROVE EngineReturns'
    BY <1>20 DEF ApplyPending, EngineReturns, Goto, From, engines, files
  <1>21. ASSUME NEW w \in Workers, Settled(w) PROVE EngineReturns'
    BY <1>21 DEF Settled, EngineReturns, Goto, From, engines, files
  <1>22. ASSUME NEW a \in Actors, Calm(a) PROVE EngineReturns'
    BY <1>22 DEF Calm, EngineReturns, Goto, From, engines, files
  <1>23. ASSUME NEW a \in Actors, RebuildAllowed(a) PROVE EngineReturns'
    BY <1>23 DEF RebuildAllowed, EngineReturns, Goto, From, engines, files
  <1>24. ASSUME NEW a \in Actors, RebuildRefused(a) PROVE EngineReturns'
    BY <1>24 DEF RebuildRefused, EngineReturns, Typed, TypeOK, Goto, From, engines, files
  <1>25. ASSUME NEW a \in Actors, CloseEngine(a) PROVE EngineReturns'
    BY <1>25 DEF CloseEngine, EngineReturns, Typed, TypeOK, Goto, From
  <1>26. ASSUME NEW a \in Actors, ClearSessions(a) PROVE EngineReturns'
    BY <1>26 DEF ClearSessions, EngineReturns, Goto, From
  <1>27. ASSUME NEW a \in Actors, LoadProject(a) PROVE EngineReturns'
    BY <1>27 DEF LoadProject, EngineReturns, Goto, From
  <1>28. ASSUME NEW a \in Actors, AssignEngine(a) PROVE EngineReturns'
    BY <1>28 DEF AssignEngine, EngineReturns, Goto, From
  <1>29. ASSUME NEW a \in Actors, StartEngine(a) PROVE EngineReturns'
    BY <1>29 DEF StartEngine, EngineReturns
  <1> QED
    BY <1>1, <1>2, <1>3, <1>4, <1>5, <1>6, <1>7, <1>8, <1>9, <1>10, <1>11, <1>12, <1>13,
        <1>14, <1>15, <1>16, <1>17, <1>18, <1>19, <1>20, <1>21, <1>22, <1>23, <1>24, <1>25,
        <1>26, <1>27, <1>28, <1>29
    DEF Next, Arrival, Serve, Work, Rebuild

LEMMA SessionStep == SessionInv /\ [Next]_vars => SessionInv'
  <1> SUFFICES ASSUME SessionInv, [Next]_vars PROVE SessionInv'
    OBVIOUS
  <1>0. Typed /\ HoldersAreBusy /\ EngineReturns
    BY DEF SessionInv
  <1>1. CASE Next
    BY <1>0, <1>1, TypedStep, BusyStep, ReturnsStep DEF SessionInv
  <1>2. CASE UNCHANGED vars
    <2> USE <1>0, <1>2 DEF vars, engines, files, flags, locals
    <2>1. TypeOK'
      BY DEF Typed, TypeOK
    <2>2. InHand'
      BY DEF Typed, InHand, Turns
    <2>3. HoldersAreBusy'
      BY DEF HoldersAreBusy, Holders, Turns
    <2>4. EngineReturns'
      BY DEF EngineReturns
    <2> QED
      BY <2>1, <2>2, <2>3, <2>4 DEF SessionInv, Typed
  <1> QED
    BY <1>1, <1>2

LEMMA SessionAlways == Spec => []SessionInv
  BY SessionInit, SessionStep, PTL DEF Spec

(* Every variable keeps its type: the session's record of engines, turns   *)
(* and deferred restarts, and what each request and worker carries.        *)
THEOREM SessionTyped == Spec => []TypeOK
  <1>1. SessionInv => TypeOK
    BY DEF SessionInv, Typed
  <1> QED
    BY <1>1, SessionAlways, PTL

(* However requests race, send admits one turn per conversation, and one   *)
(* per project unless its caller passes allow_concurrent; the proof also   *)
(* covers conversations that stay in _busy after a failed request.         *)
THEOREM SessionAdmitsOneTurn == Spec => []TurnsExclude
  <1>1. SessionInv => TurnsExclude
    <2> SUFFICES ASSUME SessionInv, NEW a \in Holders, NEW b \in Holders, a # b
                 PROVE  AllowConcurrent /\ conv[a] # conv[b]
      BY DEF TurnsExclude
    <2>1. conv[a] \in busy /\ conv[b] \in busy /\ conv[a] # conv[b]
      BY DEF SessionInv, HoldersAreBusy
    <2>2. AllowConcurrent
      BY <2>1 DEF SessionInv, HoldersAreBusy
    <2> QED
      BY <2>1, <2>2
  <1> QED
    BY <1>1, SessionAlways, PTL

(* Whatever restarts raced, a session with no request in progress and no   *)
(* worker left has an engine whose app-server runs.                        *)
THEOREM SessionEngineComesBack == Spec => []RestEngineIsLive
  <1>1. SessionInv => RestEngineIsLive
    BY ActorsAssumption DEF SessionInv, EngineReturns, RestEngineIsLive, AtRest, Resting
  <1> QED
    BY <1>1, SessionAlways, PTL
=============================================================================
