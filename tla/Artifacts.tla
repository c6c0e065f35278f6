------------------------------ MODULE Artifacts ------------------------------
(* What a project's directory says of itself: a suite of components that    *)
(* share no state, of which a behaviour moves one, chosen in the initial    *)
(* state, while the others keep still.                                      *)
(*   switch    NodePublication over several transactions                    *)
(*   delivery  Deliveries                                                   *)
(*   checkcif  CheckcifRun                                                  *)
(*   consult   SpecialistTurn                                               *)
(*   cache     DisplayCache                                                 *)
(*   cleanup   StorageCleanup                                               *)
EXTENDS Integers, Sequences

CONSTANTS
  Names, Hkl, Ctx, Edits, MaxTxn, MaxRev, MaxStoreFaults, MaxStoreEdits,
  DeliveredNodes, MaxWrites, MaxChecks, MaxDeaths,
  Blocks, Pause, Stable, Timeout,
  Viewers, MaxBuilder, MaxUpsets,
  Bytes, KeepRecent, MaxJobs, MaxRevisions, MaxTouches,
  None

ASSUME BoundsAssumption ==
  /\ MaxTxn \in Nat /\ MaxRev \in Nat /\ MaxStoreFaults \in Nat /\ MaxStoreEdits \in Nat
  /\ MaxWrites \in Nat /\ MaxChecks \in Nat /\ MaxDeaths \in Nat
  /\ Blocks \in Nat \ {0} /\ Timeout \in Nat
  /\ MaxBuilder \in Nat \ {0} /\ MaxUpsets \in Nat
  /\ KeepRecent \in Nat /\ MaxJobs \in Nat
\* PLATON, while it has more to say, is silent for less than STABLE_S.
ASSUME PauseAssumption == Pause \in Nat /\ Stable \in Nat /\ Pause < Stable
ASSUME NodesAssumption == DeliveredNodes # {} /\ Bytes # {}
ASSUME AliasAssumption == Hkl \in Names /\ Ctx \in Names /\ Hkl # Ctx

VARIABLES
  part,
  state, marker, nodeDir, dataDir, stagedNode, stagedData, alias, before, after,
  bound, exper, obs, pc, ctl, op, snap, txn, todo, now, lastTxn, faults, edits,
  active, cif, fcf, report, manifest, check, call, writes, checks, deaths,
  tree, chk, clock, cancelled, at, look, result, archive,
  sup, worker, engine, runtime, interrupted, replies, closer, blocked, stopped,
  overdue, consultation,
  builder, wanted, surface, file, torn, stamp, holder, viewer, ask, left, got, upsets,
  work, revisions, jobs, wrote, named, turn, plan, kept, touches

Switch == INSTANCE NodePublication WITH
  MaxFaults <- MaxStoreFaults, MaxEdits <- MaxStoreEdits
switch == <<state, marker, nodeDir, dataDir, stagedNode, stagedData, alias, before,
            after, bound, exper, obs, pc, ctl, op, snap, txn, todo, now, lastTxn,
            faults, edits>>

Delivery == INSTANCE Deliveries WITH Nodes <- DeliveredNodes
\* The absence of a file is none of the files, and no number either.
ASSUME NoneAssumption ==
  /\ None \notin Delivery!Reports \cup Delivery!Cifs
  /\ None \notin Nat \cup Edits \cup Names /\ None \notin Switch!Markers
delivery == <<active, cif, fcf, report, manifest, check, call, writes, checks, deaths>>

Checkcif == INSTANCE CheckcifRun
checkcif == <<tree, chk, clock, cancelled, at, look, result, archive>>

Consult == INSTANCE SpecialistTurn WITH cancelled <- stopped, late <- overdue
consult == <<sup, worker, engine, runtime, interrupted, replies, closer, blocked,
             stopped, overdue, consultation>>

Cache == INSTANCE DisplayCache WITH
  Requests <- Viewers, MaxFaults <- MaxUpsets, at <- viewer, todo <- left, faults <- upsets
cache == <<builder, wanted, surface, file, torn, stamp, holder, viewer, ask, left,
           got, upsets>>

Clean == INSTANCE StorageCleanup WITH MaxEdits <- MaxTouches, edits <- touches
cleanup == <<work, revisions, jobs, wrote, named, turn, plan, kept, touches>>

vars == <<part, switch, delivery, checkcif, consult, cache, cleanup>>

Init ==
  /\ part \in {"switch", "delivery", "checkcif", "consult", "cache", "cleanup"}
  /\ Switch!Init /\ Delivery!Init /\ Checkcif!Init /\ Consult!Init /\ Cache!Init
  /\ Clean!Init
  /\ part = "delivery" \/ active = CHOOSE n \in DeliveredNodes : TRUE
  /\ part = "cache" \/ (wanted = {"fofc", "peaks"} /\ surface = {})
  /\ part = "cleanup" \/ work = CHOOSE b \in Bytes : TRUE

Switched(A) == part = "switch" /\ A
  /\ UNCHANGED <<part, delivery, checkcif, consult, cache, cleanup>>
Delivered(A) == part = "delivery" /\ A
  /\ UNCHANGED <<part, switch, checkcif, consult, cache, cleanup>>
Checked(A) == part = "checkcif" /\ A
  /\ UNCHANGED <<part, switch, delivery, consult, cache, cleanup>>
Consulted(A) == part = "consult" /\ A
  /\ UNCHANGED <<part, switch, delivery, checkcif, cache, cleanup>>
Cached(A) == part = "cache" /\ A
  /\ UNCHANGED <<part, switch, delivery, checkcif, consult, cleanup>>
Cleaned(A) == part = "cleanup" /\ A
  /\ UNCHANGED <<part, switch, delivery, checkcif, consult, cache>>

Next == \/ Switched(Switch!Next) \/ Delivered(Delivery!Next)
        \/ Checked(Checkcif!Next) \/ Consulted(Consult!Next)
        \/ Cached(Cache!Next) \/ Cleaned(Clean!Next)

Spec == Init /\ [][Next]_vars

-----------------------------------------------------------------------------
TypeOK == Delivery!TypeOK /\ Checkcif!TypeOK /\ Consult!TypeOK
          /\ Cache!TypeOK /\ Clean!TypeOK

\* The active data revision and the working reflections follow the active
\* node, over a pointer from one data revision to another.
WorkingDataIsActive == Switch!WorkingDataIsActive

\* Nothing is vouched for too early: a delivery marked "final" was seen, as it
\* is, by a complete checkCIF run; a checkCIF report that is published is
\* PLATON's last word; a map, a peak table or a void that is shown was computed
\* by the release that its stamp names.
EvidenceIsEarned ==
  Delivery!FinalIsEarned /\ Checkcif!PublishedIsWhole /\ Cache!ServedIsCurrent

\* A cleanup and the solver leave what is still needed: reflection lists can
\* be put back as they were, and jobs named before a plan keep their files.
FilesSurvive == Clean!RestoredIsOriginal /\ Clean!NamedJobsAreKept
=============================================================================
