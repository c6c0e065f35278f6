-------------------------- MODULE Artifacts_proofs --------------------------
(***************************************************************************)
(* What the suite of a project's directory promises, for every value of    *)
(* its constants: any number of nodes, writes, checks, requests, releases, *)
(* jobs and revisions, and a report of any length.                         *)
(*                                                                         *)
(* The argument: each component has an inductive invariant of its own, and *)
(* a step of the whole is a step of one component that leaves the others   *)
(* as they are (PartsMove).                                                *)
(*   Deliveries: a check of a delivery names a revision that was written   *)
(*   (Asked), a new report takes a new revision (Numbered), so a complete  *)
(*   check of the revision that lies there saw the final.cif beside it     *)
(*   (ChecksFollow); finalize_delivery holds on to that (Promoting).       *)
(*   checkCIF: between two looks of the loop PLATON cannot have been       *)
(*   silent for longer than the loop counts (Silent), so a report that has *)
(*   more to come is never silent for STABLE_S (Signed, Looked).           *)
(*   Display caches: what a build has not left to do is done (Building),   *)
(*   and a stamp is put only where the running release has written         *)
(*   (Stamping).                                                           *)
(*   Cleanups: what was taken out of a job's CIF is still in its           *)
(*   reflections (JobKept), and a plan spares what was named before it     *)
(*   (PlanSpares).                                                         *)
(***************************************************************************)
EXTENDS Artifacts, SequenceTheorems, TLAPS

-----------------------------------------------------------------------------
(* Deliveries.                                                             *)

Writing == {"cif", "header", "report"}
Granted == {"provisional", "diagnostic"}

CallTyped ==
  /\ call.at \in {"none", "manifest", "platon", "promote", "seal"} \cup Writing
  /\ call.at \in Writing =>
       call \in [at : Writing, node : DeliveredNodes, revision : Delivery!Revisions, status : Granted]
  /\ call.at = "platon" => call \in [at : {"platon"}, record : Delivery!Checks]
  /\ call.at \in {"promote", "seal"} =>
       call \in [at : {"promote", "seal"}, waived : SUBSET Delivery!Items,
                 status : {"diagnostic", "final"}]

\* The numbers: a CIF and a report are of writes that were, and a report has a
\* revision of its own.
Numbered ==
  /\ writes \in 0 .. MaxWrites /\ checks \in 0 .. MaxChecks
  /\ cif # None => cif.write <= writes
  /\ report # None => report.write <= writes /\ report.revision <= writes
  /\ call.at \in Writing =>
       /\ report # None => call.revision = report.revision + 1
       /\ report = None => call.revision = 1
  /\ call.at = "cif" => writes < MaxWrites
  /\ call.at \in {"header", "report"} =>
       /\ cif \in Delivery!Cifs /\ cif.write = writes /\ cif.header # "final"
       /\ call.revision <= writes /\ (report # None => report.write < writes)
  /\ call.at \in {"manifest", "promote", "seal"} => report \in Delivery!Reports
  /\ call.at \in {"promote", "seal", "platon"} => cif \in Delivery!Cifs
  /\ call.at = "platon" => call.record.attempt = checks

\* A check of a delivery was asked for a revision that had been written.
Asked(c) == c.source.kind = "delivery" =>
              report # None /\ c.source.revision \in Nat /\ c.source.revision <= report.revision

\* A complete check of the report that lies beside a whole delivery's CIF.
Matches(c) == /\ c.exec = "completed" /\ c.final /\ c.source.kind = "delivery"
              /\ c.source.revision = report.revision
Proves(c) == c.exec = "completed" /\ c.alert \in BOOLEAN /\ (Delivery!Whole => c.saw = cif.write)

ChecksFollow ==
  /\ check # None => /\ Asked(check)
                     /\ check.exec = "completed" => check.alert \in BOOLEAN
                     /\ Delivery!Whole /\ Matches(check) => check.saw = cif.write
  /\ call.at = "platon" => Asked(call.record) /\ call.record.exec # "completed"

\* What finalize_delivery has found is still so while it promotes and seals.
Promoting ==
  /\ call.at \in {"promote", "seal"} /\ call.status = "final" =>
       /\ check # None /\ Proves(check)
       /\ check.alert => "alert" \in call.waived
       /\ report.unresolved => "unresolved" \in call.waived
  /\ call.at \in {"promote", "seal"} /\ call.status = "diagnostic" => report.status = "diagnostic"
  /\ call.at = "seal" => cif.header = call.status /\ cif.proof = check

DeliveryInv == /\ Delivery!TypeOK /\ CallTyped /\ Numbered /\ ChecksFollow /\ Promoting
               /\ Delivery!FinalIsEarned

LEMMA DeliveryInit == Delivery!Init => DeliveryInv
  <1> SUFFICES ASSUME Delivery!Init PROVE DeliveryInv
    OBVIOUS
  <1> USE BoundsAssumption DEF Delivery!Init, Delivery!Idle
  <1>1. Delivery!TypeOK BY DEF Delivery!TypeOK
  <1>2. CallTyped BY DEF CallTyped, Writing
  <1>3. Numbered BY DEF Numbered, Writing
  <1>4. ChecksFollow BY DEF ChecksFollow
  <1>5. Promoting BY DEF Promoting
  <1>6. Delivery!FinalIsEarned BY DEF Delivery!FinalIsEarned, Delivery!Whole
  <1> QED BY <1>1, <1>2, <1>3, <1>4, <1>5, <1>6 DEF DeliveryInv

LEMMA CheckoutStep == ASSUME DeliveryInv, NEW n \in DeliveredNodes, Delivery!Checkout(n) PROVE DeliveryInv'
  <1> USE DEF DeliveryInv, Delivery!Checkout, Delivery!bounds
  <1>1. Delivery!TypeOK' BY DEF Delivery!TypeOK
  <1>2. CallTyped' BY DEF CallTyped
  <1>3. Numbered' BY DEF Numbered
  <1>4. ChecksFollow' BY DEF ChecksFollow, Asked, Matches, Delivery!Whole
  <1>5. Promoting' BY DEF Promoting, Proves, Delivery!Whole
  <1>6. Delivery!FinalIsEarned' BY DEF Delivery!FinalIsEarned, Delivery!Whole
  <1> QED BY <1>1, <1>2, <1>3, <1>4, <1>5, <1>6

LEMMA DieStep == ASSUME DeliveryInv, Delivery!Die PROVE DeliveryInv'
  <1> USE DEF DeliveryInv, Delivery!Die, Delivery!Idle
  <1>1. Delivery!TypeOK' BY DEF Delivery!TypeOK
  <1>0. call'.at = "none" OBVIOUS
  <1>2. CallTyped' BY <1>0 DEF CallTyped, Writing
  <1>3. Numbered' BY <1>0 DEF Numbered, Writing
  <1>4. ChecksFollow' BY <1>0 DEF ChecksFollow, Asked, Matches, Delivery!Whole
  <1>5. Promoting' BY <1>0 DEF Promoting
  <1>6. Delivery!FinalIsEarned' BY DEF Delivery!FinalIsEarned, Delivery!Whole
  <1> QED BY <1>1, <1>2, <1>3, <1>4, <1>5, <1>6

LEMMA BeginWriteStep ==
  ASSUME DeliveryInv, NEW asked \in {"provisional", "diagnostic", "final"},
         Delivery!BeginWrite(asked)
  PROVE  DeliveryInv'
  <1> DEFINE revision == Delivery!NextRevision
             status == IF asked = "final" THEN "provisional" ELSE asked
  <1>0. /\ call' = [at |-> "cif", node |-> active, revision |-> revision, status |-> status]
        /\ writes < MaxWrites
        /\ UNCHANGED <<active, cif, fcf, report, manifest, check, writes, checks, deaths>>
    BY DEF Delivery!BeginWrite, Delivery!bounds
  <1>a. status \in Granted BY DEF Granted
  <1>b. active \in DeliveredNodes /\ writes \in 0 .. MaxWrites
    BY DEF DeliveryInv, Delivery!TypeOK, Numbered
  <1>c. /\ report # None => revision = report.revision + 1
        /\ report = None => revision = 1
    BY DEF Delivery!NextRevision
  <1>e. report # None => report.revision \in Delivery!Revisions /\ report.revision <= writes
    BY DEF DeliveryInv, Delivery!TypeOK, Delivery!Reports, Numbered
  <1>d. revision \in Delivery!Revisions
    BY <1>0, <1>b, <1>c, <1>e, BoundsAssumption DEF Delivery!Revisions
  <1> HIDE DEF revision, status
  <1>f. call'.at = "cif" /\ call'.revision = revision BY <1>0
  <1>1. Delivery!TypeOK' BY <1>0 DEF DeliveryInv, Delivery!TypeOK
  <1>2. CallTyped' BY <1>0, <1>a, <1>b, <1>d DEF CallTyped, Writing
  <1>3. Numbered' BY <1>0, <1>f, <1>c DEF DeliveryInv, Numbered, Writing
  <1>4. ChecksFollow' BY <1>0, <1>f DEF DeliveryInv, ChecksFollow, Asked, Matches, Delivery!Whole
  <1>5. Promoting' BY <1>f DEF Promoting
  <1>6. Delivery!FinalIsEarned' BY <1>0 DEF DeliveryInv, Delivery!FinalIsEarned, Delivery!Whole
  <1> QED BY <1>1, <1>2, <1>3, <1>4, <1>5, <1>6 DEF DeliveryInv

LEMMA WriteCifStep == ASSUME DeliveryInv, Delivery!WriteCif PROVE DeliveryInv'
  <1>0. /\ call.at = "cif" /\ writes' = writes + 1
        /\ cif' = [write |-> writes + 1, header |-> "none", proof |-> None]
        /\ fcf' \in {writes + 1, fcf}
        /\ call' = [call EXCEPT !.at = "header"]
        /\ UNCHANGED <<active, report, manifest, check, checks, deaths>>
    BY DEF Delivery!WriteCif
  <1>a. /\ call \in [at : Writing, node : DeliveredNodes, revision : Delivery!Revisions, status : Granted]
    BY <1>0 DEF DeliveryInv, CallTyped, Writing
  <1>b. call' = [at |-> "header", node |-> call.node, revision |-> call.revision,
                 status |-> call.status]
    BY <1>0, <1>a
  <1>c. writes \in Nat /\ writes < MaxWrites /\ writes + 1 \in 1 .. MaxWrites
    BY <1>0, BoundsAssumption DEF DeliveryInv, Numbered
  <1>d. cif' \in Delivery!Cifs /\ cif'.write = writes + 1 /\ cif'.header = "none"
    BY <1>0, <1>c DEF Delivery!Cifs, Delivery!Statuses
  <1>e. report # None => report.write \in 1 .. MaxWrites /\ report.write <= writes
                         /\ report.revision \in Delivery!Revisions /\ report.revision <= writes
    BY DEF DeliveryInv, Delivery!TypeOK, Delivery!Reports, Numbered
  <1>f. ~Delivery!Whole'
    BY <1>0, <1>c, <1>d, <1>e DEF Delivery!Whole
  <1>g. call'.at = "header" /\ call'.revision = call.revision BY <1>b
  <1>h. /\ report # None => call.revision = report.revision + 1
        /\ report = None => call.revision = 1
    BY <1>0 DEF DeliveryInv, Numbered, Writing
  <1>i. call.revision <= writes + 1
    BY <1>c, <1>e, <1>h, BoundsAssumption DEF Delivery!Revisions
  <1>1. Delivery!TypeOK'
    BY <1>0, <1>c, <1>d DEF DeliveryInv, Delivery!TypeOK
  <1>2. CallTyped' BY <1>a, <1>b DEF CallTyped, Writing
  <1>3. Numbered'
    <2>1. writes' \in 0 .. MaxWrites /\ checks' \in 0 .. MaxChecks
      BY <1>0, <1>c DEF DeliveryInv, Numbered
    <2>2. report' # None => report'.write < writes' /\ report'.write <= writes' /\ report'.revision <= writes'
      BY <1>0, <1>c, <1>e, BoundsAssumption DEF Delivery!Revisions
    <2> QED BY <2>1, <2>2, <1>0, <1>c, <1>d, <1>g, <1>h, <1>i DEF Numbered, Writing
  <1>4. ChecksFollow'
    BY <1>0, <1>f, <1>g DEF DeliveryInv, ChecksFollow, Asked
  <1>5. Promoting' BY <1>g DEF Promoting
  <1>6. Delivery!FinalIsEarned' BY <1>f DEF Delivery!FinalIsEarned
  <1> QED BY <1>1, <1>2, <1>3, <1>4, <1>5, <1>6 DEF DeliveryInv

LEMMA WriteHeaderStep == ASSUME DeliveryInv, Delivery!WriteHeader PROVE DeliveryInv'
  <1>0. /\ call.at = "header"
        /\ cif' = [cif EXCEPT !.header = call.status]
        /\ call' = [call EXCEPT !.at = "report"]
        /\ UNCHANGED <<active, fcf, report, manifest, check, writes, checks, deaths>>
    BY DEF Delivery!WriteHeader, Delivery!bounds
  <1>a. /\ call \in [at : Writing, node : DeliveredNodes, revision : Delivery!Revisions, status : Granted]
    BY <1>0 DEF DeliveryInv, CallTyped, Writing
  <1>b. call' = [at |-> "report", node |-> call.node, revision |-> call.revision,
                 status |-> call.status]
    BY <1>0, <1>a
  <1>c. /\ cif \in Delivery!Cifs /\ cif.write = writes /\ call.revision <= writes
        /\ report # None => report.write < writes
    BY <1>0 DEF DeliveryInv, Numbered
  <1>d. cif' = [write |-> cif.write, header |-> call.status, proof |-> cif.proof]
    BY <1>0, <1>c DEF Delivery!Cifs
  <1>e. cif' \in Delivery!Cifs /\ cif'.write = writes /\ cif'.header # "final"
    BY <1>a, <1>c, <1>d DEF Delivery!Cifs, Delivery!Statuses, Granted
  <1>f. ~Delivery!Whole'
    <2>1. writes \in Nat BY DEF DeliveryInv, Numbered
    <2>2. report # None => report.write \in Nat
      BY BoundsAssumption DEF DeliveryInv, Delivery!TypeOK, Delivery!Reports
    <2> QED BY <1>0, <1>c, <1>e, <2>1, <2>2 DEF Delivery!Whole
  <1>g. call'.at = "report" /\ call'.revision = call.revision BY <1>b
  <1>1. Delivery!TypeOK' BY <1>0, <1>e DEF DeliveryInv, Delivery!TypeOK
  <1>2. CallTyped' BY <1>a, <1>b DEF CallTyped, Writing
  <1>3. Numbered'
    BY <1>0, <1>c, <1>e, <1>g DEF DeliveryInv, Numbered, Writing
  <1>4. ChecksFollow'
    BY <1>0, <1>f, <1>g DEF DeliveryInv, ChecksFollow, Asked
  <1>5. Promoting' BY <1>g DEF Promoting
  <1>6. Delivery!FinalIsEarned' BY <1>f DEF Delivery!FinalIsEarned
  <1> QED BY <1>1, <1>2, <1>3, <1>4, <1>5, <1>6 DEF DeliveryInv

LEMMA WriteReportStep ==
  ASSUME DeliveryInv, NEW u \in BOOLEAN, NEW i \in BOOLEAN, Delivery!WriteReport(u, i)
  PROVE  DeliveryInv'
  <1>0. /\ call.at = "report"
        /\ report' = [node |-> call.node, revision |-> call.revision, status |-> call.status,
                      unresolved |-> u, issues |-> i, waived |-> None, proof |-> None,
                      write |-> cif.write]
        /\ call' = [at |-> "manifest"]
        /\ UNCHANGED <<active, cif, fcf, manifest, check, writes, checks, deaths>>
    BY DEF Delivery!WriteReport, Delivery!bounds
  <1>a. /\ call \in [at : Writing, node : DeliveredNodes, revision : Delivery!Revisions, status : Granted]
    BY <1>0 DEF DeliveryInv, CallTyped, Writing
  <1>c. /\ cif \in Delivery!Cifs /\ cif.write = writes /\ cif.header # "final"
        /\ call.revision <= writes
        /\ report # None => call.revision = report.revision + 1
    BY <1>0 DEF DeliveryInv, Numbered, Writing
  <1>b. /\ call.node \in DeliveredNodes /\ call.revision \in Delivery!Revisions
        /\ call.status \in Granted /\ cif.write \in 1 .. MaxWrites
    BY <1>a, <1>c DEF Delivery!Cifs
  <1>d. report' \in Delivery!Reports
    BY <1>0, <1>b DEF Delivery!Reports, Delivery!Statuses, Granted
  <1>e. report' # None BY <1>d, NoneAssumption
  <1>f. /\ report'.revision = call.revision /\ report'.write = writes
        /\ report'.status # "final"
    BY <1>0, <1>b, <1>c DEF Granted
  <1>g. call'.at = "manifest" BY <1>0
  <1>h. report # None => report.revision \in Nat
    BY BoundsAssumption DEF DeliveryInv, Delivery!TypeOK, Delivery!Reports, Delivery!Revisions
  <1>1. Delivery!TypeOK' BY <1>0, <1>d DEF DeliveryInv, Delivery!TypeOK
  <1>2. CallTyped' BY <1>g DEF CallTyped, Writing
  <1>3. Numbered'
    <2>1. writes \in Nat BY DEF DeliveryInv, Numbered
    <2> QED BY <1>0, <1>c, <1>d, <1>f, <1>g, <2>1 DEF DeliveryInv, Numbered, Writing
  <1>4. ChecksFollow'
    <2>1. ASSUME check # None PROVE Asked(check)' /\ ~Matches(check)'
      <3>1. Asked(check) BY <2>1 DEF DeliveryInv, ChecksFollow
      <3>2. CASE check.source.kind # "delivery"
        BY <1>0, <3>2 DEF Asked, Matches
      <3>3. CASE check.source.kind = "delivery"
        <4>1. /\ report # None /\ check.source.revision \in Nat
              /\ check.source.revision <= report.revision
          BY <3>1, <3>3 DEF Asked
        <4>2. check.source.revision < report'.revision BY <4>1, <1>c, <1>f, <1>h
        <4>3. report'.revision \in Nat
          BY <4>1, <1>c, <1>f, <1>h
        <4> QED BY <1>0, <1>e, <4>1, <4>2, <4>3 DEF Asked, Matches
      <3> QED BY <3>2, <3>3
    <2>2. check # None /\ check.exec = "completed" => check.alert \in BOOLEAN
      BY DEF DeliveryInv, ChecksFollow
    <2> QED BY <1>0, <1>g, <2>1, <2>2 DEF ChecksFollow
  <1>5. Promoting' BY <1>g DEF Promoting
  <1>6. Delivery!FinalIsEarned'
    BY <1>0, <1>c, <1>f DEF Delivery!FinalIsEarned
  <1> QED BY <1>1, <1>2, <1>3, <1>4, <1>5, <1>6 DEF DeliveryInv

LEMMA WriteManifestStep == ASSUME DeliveryInv, Delivery!WriteManifest PROVE DeliveryInv'
  <1>0. /\ call.at = "manifest"
        /\ manifest' = [revision |-> report.revision, status |-> report.status]
        /\ call' = [at |-> "none"]
        /\ UNCHANGED <<active, cif, fcf, report, check, writes, checks, deaths>>
    BY DEF Delivery!WriteManifest, Delivery!bounds, Delivery!Idle
  <1>a. report \in Delivery!Reports BY <1>0 DEF DeliveryInv, Numbered
  <1>b. report.revision \in Delivery!Revisions /\ report.status \in Delivery!Statuses
    BY <1>a DEF Delivery!Reports
  <1>g. call'.at = "none" BY <1>0
  <1>1. Delivery!TypeOK' BY <1>0, <1>b DEF DeliveryInv, Delivery!TypeOK
  <1>2. CallTyped' BY <1>g DEF CallTyped, Writing
  <1>3. Numbered' BY <1>0, <1>g DEF DeliveryInv, Numbered, Writing
  <1>4. ChecksFollow'
    BY <1>0, <1>g DEF DeliveryInv, ChecksFollow, Asked, Matches, Delivery!Whole
  <1>5. Promoting' BY <1>g DEF Promoting
  <1>6. Delivery!FinalIsEarned'
    BY <1>0 DEF DeliveryInv, Delivery!FinalIsEarned, Delivery!Whole
  <1> QED BY <1>1, <1>2, <1>3, <1>4, <1>5, <1>6 DEF DeliveryInv

\* The record of an attempt at its start.
LEMMA BeginCheckStep ==
  ASSUME DeliveryInv, NEW final \in BOOLEAN, Delivery!BeginCheck(final)
  PROVE  DeliveryInv'
  <1>s. PICK source : source = Delivery!ValidationSource(final) OBVIOUS
  <1>r. PICK record : record = [attempt |-> checks + 1, exec |-> "running", alert |-> None,
                                final |-> final, source |-> source, saw |-> None]
   OBVIOUS
  <1>0. /\ cif # None /\ checks < MaxChecks /\ checks' = checks + 1
        /\ check' = (IF check # None /\ check.attempt > record.attempt THEN check ELSE record)
        /\ call' = [at |-> "platon", record |-> record]
        /\ UNCHANGED <<active, cif, fcf, report, manifest, writes, deaths>>
    BY <1>s, <1>r DEF Delivery!BeginCheck, Delivery!Persist
  <1>a. source \in Delivery!Sources
    BY <1>s DEF DeliveryInv, Delivery!TypeOK, Delivery!ValidationSource, Delivery!NoSource,
           Delivery!Sources, Delivery!Reports
  <1>b. source.kind = "delivery" =>
          report # None /\ source.revision \in Nat /\ source.revision = report.revision
    BY <1>s, BoundsAssumption
    DEF DeliveryInv, Delivery!TypeOK, Delivery!ValidationSource, Delivery!NoSource,
        Delivery!Reports, Delivery!Revisions
  <1>c. checks + 1 \in 1 .. MaxChecks
    BY <1>0, BoundsAssumption DEF DeliveryInv, Numbered
  <1>d. record \in Delivery!Checks BY <1>r, <1>a, <1>c DEF Delivery!Checks
  <1>e. /\ record.source = source /\ record.exec = "running" /\ record.attempt = checks + 1
    BY <1>r
  <1>f. Asked(record) BY <1>b, <1>e DEF Asked
  <1>g. call'.at = "platon" /\ call'.record = record BY <1>0
  <1>h. cif \in Delivery!Cifs BY <1>0 DEF DeliveryInv, Delivery!TypeOK
  <1>1. Delivery!TypeOK' BY <1>0, <1>d DEF DeliveryInv, Delivery!TypeOK
  <1>2. CallTyped' BY <1>0, <1>d, <1>g DEF CallTyped, Writing
  <1>3. Numbered'
    BY <1>0, <1>c, <1>e, <1>g, <1>h DEF DeliveryInv, Numbered, Writing
  <1>4. ChecksFollow'
    <2>1. Asked(record)' BY <1>0, <1>e, <1>f, <1>b DEF Asked
    <2>2. CASE check' = check
      BY <1>0, <1>e, <1>g, <1>f, <2>2 DEF DeliveryInv, ChecksFollow, Asked, Matches, Delivery!Whole
    <2>3. CASE check' = record
      BY <1>0, <1>e, <1>g, <1>f, <2>3 DEF ChecksFollow, Asked, Matches
    <2> QED BY <1>0, <2>2, <2>3
  <1>5. Promoting' BY <1>g DEF Promoting
  <1>6. Delivery!FinalIsEarned'
    BY <1>0 DEF DeliveryInv, Delivery!FinalIsEarned, Delivery!Whole
  <1> QED BY <1>1, <1>2, <1>3, <1>4, <1>5, <1>6 DEF DeliveryInv

LEMMA EndCheckStep ==
  ASSUME DeliveryInv, NEW exec \in {"completed", "failed", "timeout", "cancelled"},
         NEW alert \in BOOLEAN \cup {None}, exec = "completed" => alert \in BOOLEAN,
         Delivery!EndCheck(exec, alert)
  PROVE  DeliveryInv'
  <1> DEFINE record == [attempt |-> call.record.attempt, exec |-> exec, alert |-> alert,
                        final |-> call.record.final, source |-> call.record.source,
                        saw |-> IF call.record.final THEN cif.write ELSE None]
  <1>1. /\ call.at = "platon"
        /\ call' = [at |-> "none"]
        /\ UNCHANGED <<active, cif, fcf, report, manifest, writes, checks, deaths>>
    BY DEF Delivery!EndCheck, Delivery!bounds, Delivery!Idle
  <1>2. call.record \in Delivery!Checks
    BY <1>1 DEF DeliveryInv, CallTyped
  <1>3. [call.record EXCEPT !.exec = exec, !.alert = alert,
                            !.saw = IF call.record.final THEN cif.write ELSE None] = record
    <2>1. PICK saw : saw = IF call.record.final THEN cif.write ELSE None OBVIOUS
    <2>2. PICK new : new = [call.record EXCEPT !.exec = exec, !.alert = alert, !.saw = saw]
     OBVIOUS
    <2>3. new = [attempt |-> call.record.attempt, exec |-> exec, alert |-> alert,
                 final |-> call.record.final, source |-> call.record.source, saw |-> saw]
      BY <1>2, <2>2 DEF Delivery!Checks
    <2> QED BY <2>1, <2>2, <2>3
  <1>4. check' = IF check # None /\ check.attempt > record.attempt THEN check ELSE record
    BY <1>3 DEF Delivery!EndCheck, Delivery!Persist
  <1>5. cif \in Delivery!Cifs /\ cif.write \in 1 .. MaxWrites
    BY <1>1 DEF DeliveryInv, Numbered, Delivery!Cifs
  <1>6. record \in Delivery!Checks
    <2>1. /\ call.record.attempt \in 1 .. MaxChecks /\ call.record.final \in BOOLEAN
          /\ call.record.source \in Delivery!Sources
      BY <1>2 DEF Delivery!Checks
    <2>2. (IF call.record.final THEN cif.write ELSE None) \in 1 .. MaxWrites \cup {None}
      BY <1>5
    <2> QED BY <2>1, <2>2 DEF Delivery!Checks
  <1>7. /\ record.source = call.record.source /\ record.exec = exec /\ record.alert = alert
        /\ record.final = call.record.final /\ (record.final => record.saw = cif.write)
   OBVIOUS
  <1> HIDE DEF record
  <1>8. Asked(record)
    BY <1>1, <1>7 DEF DeliveryInv, ChecksFollow, Asked
  <1>9. call'.at = "none" BY <1>1
  <1>10. Delivery!TypeOK' BY <1>1, <1>4, <1>6 DEF DeliveryInv, Delivery!TypeOK
  <1>11. CallTyped' BY <1>9 DEF CallTyped, Writing
  <1>12. Numbered' BY <1>1, <1>9 DEF DeliveryInv, Numbered, Writing
  <1>13. ChecksFollow'
    <2>2. CASE check' = check
      BY <1>1, <1>9, <2>2 DEF DeliveryInv, ChecksFollow, Asked, Matches, Delivery!Whole
    <2>3. CASE check' = record
      BY <1>1, <1>7, <1>8, <1>9, <2>3 DEF ChecksFollow, Asked, Matches
    <2> QED BY <1>4, <2>2, <2>3
  <1>14. Promoting' BY <1>9 DEF Promoting
  <1>15. Delivery!FinalIsEarned'
    BY <1>1 DEF DeliveryInv, Delivery!FinalIsEarned, Delivery!Whole
  <1> QED BY <1>10, <1>11, <1>12, <1>13, <1>14, <1>15 DEF DeliveryInv

\* What finalize_delivery has looked at when it begins to promote.
LEMMA BeginFinalizeStep ==
  ASSUME DeliveryInv, NEW w \in SUBSET Delivery!Items, NEW g \in BOOLEAN,
         Delivery!BeginFinalize(w, g)
  PROVE  DeliveryInv'
  <1> DEFINE status == IF Delivery!Diagnostic THEN "diagnostic" ELSE "final"
  <1>1. /\ report # None /\ cif # None /\ ~Delivery!Fatal
        /\ ~Delivery!Diagnostic => Delivery!Blocking \subseteq w
        /\ call' = [at |-> "promote", waived |-> w, status |-> status]
        /\ UNCHANGED <<active, cif, fcf, report, manifest, check, writes, checks, deaths>>
    BY DEF Delivery!BeginFinalize, Delivery!bounds
  <1>2. /\ status \in {"diagnostic", "final"}
        /\ status = "diagnostic" => report.status = "diagnostic"
        /\ status = "final" => ~Delivery!Diagnostic
    BY DEF Delivery!Diagnostic
  <1> HIDE DEF status
  <1>3. call'.at = "promote" /\ call'.status = status /\ call'.waived = w BY <1>1
  <1>4. cif \in Delivery!Cifs /\ report \in Delivery!Reports
    BY <1>1 DEF DeliveryInv, Delivery!TypeOK
  <1>5. ASSUME status = "final"
        PROVE  /\ check # None /\ Proves(check)
               /\ check.alert => "alert" \in w
               /\ report.unresolved => "unresolved" \in w
    <2>1. check # None /\ check.exec = "completed" /\ ~Delivery!SourceIssue
      BY <1>1, <1>2, <1>5 DEF Delivery!Fatal, Delivery!ReportIssue
    <2>2. check.alert \in BOOLEAN BY <2>1 DEF DeliveryInv, ChecksFollow
    <2>3. Matches(check) BY <2>1 DEF Delivery!SourceIssue, Matches, DeliveryInv, Delivery!TypeOK, Delivery!Checks
    <2>4. Proves(check) BY <2>1, <2>2, <2>3 DEF DeliveryInv, ChecksFollow, Proves
    <2>5. check.alert => "alert" \in w
      BY <1>1, <1>2, <1>5, <2>1, <2>2 DEF Delivery!Blocking, Delivery!Items
    <2>6. report.unresolved => "unresolved" \in w
      BY <1>1, <1>2, <1>5 DEF Delivery!Blocking, Delivery!Items
    <2> QED BY <2>1, <2>4, <2>5, <2>6
  <1>10. Delivery!TypeOK' BY <1>1 DEF DeliveryInv, Delivery!TypeOK
  <1>11. CallTyped' BY <1>1, <1>2, <1>3 DEF CallTyped, Writing
  <1>12. Numbered' BY <1>1, <1>3, <1>4 DEF DeliveryInv, Numbered, Writing
  <1>13. ChecksFollow'
    BY <1>1, <1>3 DEF DeliveryInv, ChecksFollow, Asked, Matches, Delivery!Whole
  <1>14. Promoting'
    <2>1. Proves(check) => Proves(check)' BY <1>1 DEF Proves, Delivery!Whole
    <2> QED BY <1>1, <1>2, <1>3, <1>5, <2>1 DEF Promoting
  <1>15. Delivery!FinalIsEarned'
    BY <1>1 DEF DeliveryInv, Delivery!FinalIsEarned, Delivery!Whole
  <1> QED BY <1>10, <1>11, <1>12, <1>13, <1>14, <1>15 DEF DeliveryInv

LEMMA PromoteStep == ASSUME DeliveryInv, Delivery!Promote PROVE DeliveryInv'
  <1>1. /\ call.at = "promote"
        /\ cif' = [cif EXCEPT !.header = call.status, !.proof = check]
        /\ call' = [call EXCEPT !.at = "seal"]
        /\ UNCHANGED <<active, fcf, report, manifest, check, writes, checks, deaths>>
    BY DEF Delivery!Promote, Delivery!bounds
  <1>2. call \in [at : {"promote", "seal"}, waived : SUBSET Delivery!Items,
                  status : {"diagnostic", "final"}]
    BY <1>1 DEF DeliveryInv, CallTyped
  <1>3. call' = [at |-> "seal", waived |-> call.waived, status |-> call.status]
    BY <1>1, <1>2
  <1>4. cif \in Delivery!Cifs /\ report \in Delivery!Reports
    BY <1>1 DEF DeliveryInv, Numbered
  <1>5. cif' = [write |-> cif.write, header |-> call.status, proof |-> check]
    BY <1>1, <1>4 DEF Delivery!Cifs
  <1>6. check \in Delivery!Checks \cup {None} BY DEF DeliveryInv, Delivery!TypeOK
  <1>7. cif' \in Delivery!Cifs /\ cif'.write = cif.write /\ cif'.header = call.status
        /\ cif'.proof = check
    BY <1>2, <1>4, <1>5, <1>6 DEF Delivery!Cifs, Delivery!Statuses
  <1>8. call'.at = "seal" /\ call'.status = call.status /\ call'.waived = call.waived
    BY <1>3
  <1>9. Delivery!Whole' => report # None /\ report.write = cif.write
    BY <1>1, <1>7 DEF Delivery!Whole
  <1>w. Delivery!Whole' => Delivery!Whole
    BY <1>1, <1>4, <1>7, NoneAssumption DEF Delivery!Whole
  <1>10. Delivery!TypeOK' BY <1>1, <1>7 DEF DeliveryInv, Delivery!TypeOK
  <1>11. CallTyped' BY <1>2, <1>3 DEF CallTyped, Writing
  <1>12. Numbered'
    BY <1>1, <1>4, <1>7, <1>8, NoneAssumption DEF DeliveryInv, Numbered, Writing
  <1>13. ChecksFollow'
    BY <1>1, <1>7, <1>8, <1>w DEF DeliveryInv, ChecksFollow, Asked, Matches
  <1>14. Promoting'
    BY <1>1, <1>7, <1>8, <1>w DEF DeliveryInv, Promoting, Proves
  <1>15. Delivery!FinalIsEarned'
    BY <1>1, <1>2, <1>7, <1>w DEF DeliveryInv, Promoting, Proves, Delivery!FinalIsEarned
  <1> QED BY <1>10, <1>11, <1>12, <1>13, <1>14, <1>15 DEF DeliveryInv

LEMMA SealStep == ASSUME DeliveryInv, Delivery!Seal PROVE DeliveryInv'
  <1>1. /\ call.at = "seal"
        /\ report' = [report EXCEPT !.status = call.status, !.waived = call.waived,
                                    !.proof = check]
        /\ call' = [at |-> "manifest"]
        /\ UNCHANGED <<active, cif, fcf, manifest, check, writes, checks, deaths>>
    BY DEF Delivery!Seal, Delivery!bounds
  <1>2. call \in [at : {"promote", "seal"}, waived : SUBSET Delivery!Items,
                  status : {"diagnostic", "final"}]
    BY <1>1 DEF DeliveryInv, CallTyped
  <1>3. report \in Delivery!Reports /\ report # None
    BY <1>1, NoneAssumption DEF DeliveryInv, Numbered
  <1>4. report' = [node |-> report.node, revision |-> report.revision, status |-> call.status,
                   unresolved |-> report.unresolved, issues |-> report.issues,
                   waived |-> call.waived, proof |-> check, write |-> report.write]
    BY <1>1, <1>3 DEF Delivery!Reports
  <1>5. check \in Delivery!Checks \cup {None} BY DEF DeliveryInv, Delivery!TypeOK
  <1>6. report' \in Delivery!Reports
    BY <1>2, <1>3, <1>4, <1>5 DEF Delivery!Reports, Delivery!Statuses
  <1>7. /\ report'.revision = report.revision /\ report'.write = report.write
        /\ report'.status = call.status /\ report'.waived = call.waived
        /\ report'.proof = check /\ report'.unresolved = report.unresolved
    BY <1>4
  <1>8. report' # None BY <1>6, NoneAssumption
  <1>9. call'.at = "manifest" BY <1>1
  <1>w. Delivery!Whole' <=> Delivery!Whole BY <1>1, <1>3, <1>7, <1>8 DEF Delivery!Whole
  <1>10. Delivery!TypeOK' BY <1>1, <1>6 DEF DeliveryInv, Delivery!TypeOK
  <1>11. CallTyped' BY <1>9 DEF CallTyped, Writing
  <1>12. Numbered'
    BY <1>1, <1>3, <1>6, <1>7, <1>9 DEF DeliveryInv, Numbered, Writing
  <1>13. ChecksFollow'
    BY <1>1, <1>3, <1>7, <1>8, <1>9, <1>w DEF DeliveryInv, ChecksFollow, Asked, Matches
  <1>14. Promoting' BY <1>9 DEF Promoting
  <1>15. Delivery!FinalIsEarned'
    <2>1. call.status = "final" =>
            /\ check.alert => "alert" \in call.waived
            /\ report.unresolved => "unresolved" \in call.waived
      BY <1>1 DEF DeliveryInv, Promoting
    <2>2. cif.header = call.status BY <1>1 DEF DeliveryInv, Promoting
    <2> QED BY <1>1, <1>7, <1>w, <2>1, <2>2 DEF DeliveryInv, Delivery!FinalIsEarned
  <1> QED BY <1>10, <1>11, <1>12, <1>13, <1>14, <1>15 DEF DeliveryInv

LEMMA DeliveryStep == DeliveryInv /\ [Delivery!Next]_delivery => DeliveryInv'
  <1> SUFFICES ASSUME DeliveryInv, [Delivery!Next]_delivery PROVE DeliveryInv'
    OBVIOUS
  <1>1. ASSUME NEW a \in BOOLEAN, Delivery!EndCheck("completed", a) PROVE DeliveryInv'
    BY <1>1, EndCheckStep
  <1>2. ASSUME NEW e \in {"failed", "timeout", "cancelled"}, Delivery!EndCheck(e, None)
        PROVE DeliveryInv'
    BY <1>2, EndCheckStep
  <1>3. CASE UNCHANGED delivery
    BY <1>3 DEF delivery, DeliveryInv, Delivery!TypeOK, CallTyped, Numbered, ChecksFollow,
                Asked, Matches, Promoting, Proves, Delivery!Whole, Delivery!FinalIsEarned
  <1> QED
    BY <1>1, <1>2, <1>3, CheckoutStep, BeginWriteStep, WriteCifStep, WriteHeaderStep,
       WriteManifestStep, WriteReportStep, BeginCheckStep, BeginFinalizeStep, PromoteStep,
       SealStep, DieStep
    DEF Delivery!Next

-----------------------------------------------------------------------------
(* checkCIF runs.                                                          *)

Looping == {"sign", "read", "check", "decide", "sleep"}
Over == {"ran", "count", "published"}

CheckcifTyped ==
  /\ Checkcif!TypeOK
  /\ look \in [signature : 0 .. Checkcif!Full, since : 0 .. Timeout, text : 0 .. Checkcif!Full,
               code : {None, "zero", "error"}]
  /\ look.since <= clock /\ look.signature <= chk.n /\ look.text <= chk.n

\* PLATON runs while the loop runs, and exits with 0 when it has said everything.
PlatonRuns ==
  /\ at = "prepare" => chk.n = 0 /\ tree = Checkcif!Dead /\ look.signature = 0
  /\ at \in Looping => tree.root # "none"
  /\ tree.root = "zero" => chk.n = Checkcif!Full

\* A report that is as the loop signed it has been silent for as long as the
\* loop counts.
Silent ==
  at \in Looping /\ chk.n = look.signature /\ Checkcif!Writing =>
    clock - look.since <= chk.quiet

\* Of a report that is not whole the loop cannot count to STABLE_S, unless
\* PLATON has died of an error.
Unripe == clock - look.since <= Pause
Signed == \/ tree.root = "error"
          \/ look.signature \in {0, Checkcif!Full}
          \/ Unripe
Looked == ~Checkcif!Complete(look.text) \/ look.text = Checkcif!Full \/ Unripe

LoopKnows ==
  /\ at = "read" => chk.n \in {look.signature, look.signature + 1} /\ Signed
  /\ at = "check" => tree.root = "error" \/ Looked
  /\ at = "decide" => look.code = "error" \/ Looked

\* What a run that completed leaves.
Verdict ==
  /\ at \in Looping \cup {"prepare"} => result.status # "completed"
  /\ result.status = "completed" => chk.n = Checkcif!Full
  /\ at \in Over \cup {"preserve"} /\ result.status = "completed" => ~Checkcif!Active
  /\ at \in Over /\ result.status = "completed" => archive = Checkcif!Full
  /\ at \in {"count", "published"} => result.status = "completed"

CheckcifInv == CheckcifTyped /\ PlatonRuns /\ Silent /\ LoopKnows /\ Verdict

Places == {"prepare", "sign", "read", "check", "decide", "sleep", "close", "preserve",
           "ran", "count", "published", "ended"}
Statuses == {"completed", "failed", "timeout", "cancelled"}

LEMMA WholeReport ==
  /\ Checkcif!Full \in Nat /\ Checkcif!Full > 0
  /\ ~Checkcif!Complete(0) /\ ~Checkcif!Complete(1)
  /\ Timeout \in Nat /\ Pause \in Nat /\ Stable \in Nat /\ Pause < Stable
  BY BoundsAssumption, PauseAssumption DEF Checkcif!Full, Checkcif!Complete

LEMMA CheckcifInit == Checkcif!Init => CheckcifInv
  <1> SUFFICES ASSUME Checkcif!Init PROVE CheckcifInv
    OBVIOUS
  <1> USE WholeReport DEF Checkcif!Init
  <1>1. CheckcifTyped
    <2>1. /\ tree \in [root : {"none", "alive", "zero", "error"}, helpers : BOOLEAN]
          /\ result \in [status : {"completed", "failed", "timeout", "cancelled"}, clean : BOOLEAN]
      BY DEF Checkcif!Dead
    <2>2. chk \in [n : 0 .. Checkcif!Full, quiet : 0 .. Pause] /\ chk.n = 0
      OBVIOUS
    <2>3. /\ look \in [signature : 0 .. Checkcif!Full, since : 0 .. Timeout,
                        text : 0 .. Checkcif!Full, code : {None, "zero", "error"}]
          /\ look.since = 0 /\ look.signature = 0 /\ look.text = 0
      OBVIOUS
    <2>4. clock \in 0 .. Timeout /\ clock = 0
      OBVIOUS
    <2>5. archive \in 0 .. Checkcif!Full \cup {None} /\ cancelled \in BOOLEAN /\ at = "prepare"
      OBVIOUS
    <2> QED BY <2>1, <2>2, <2>3, <2>4, <2>5 DEF CheckcifTyped, Checkcif!TypeOK
  <1>2. PlatonRuns
    BY DEF PlatonRuns, Looping, Checkcif!Dead
  <1>3. Silent /\ LoopKnows /\ Verdict
    BY DEF Silent, LoopKnows, Verdict, Looping, Over
  <1> QED BY <1>1, <1>2, <1>3 DEF CheckcifInv

\* The types of what the lemmas below reckon with.
LEMMA CheckcifNumbers ==
  ASSUME CheckcifInv
  PROVE  /\ chk.n \in Nat /\ chk.n <= Checkcif!Full /\ chk.quiet \in Nat /\ chk.quiet <= Pause
         /\ clock \in Nat /\ clock <= Timeout /\ look.since \in Nat /\ look.since <= clock
         /\ look.signature \in Nat /\ look.signature <= chk.n
         /\ look.text \in Nat /\ look.text <= chk.n
         /\ chk = [n |-> chk.n, quiet |-> chk.quiet]
         /\ tree = [root |-> tree.root, helpers |-> tree.helpers]
         /\ tree.root \in {"none", "alive", "zero", "error"} /\ tree.helpers \in BOOLEAN
         /\ result = [status |-> result.status, clean |-> result.clean]
         /\ result.status \in Statuses /\ result.clean \in BOOLEAN /\ at \in Places
         /\ look = [signature |-> look.signature, since |-> look.since, text |-> look.text,
                    code |-> look.code]
  <1>1. /\ chk \in [n : 0 .. Checkcif!Full, quiet : 0 .. Pause]
        /\ tree \in [root : {"none", "alive", "zero", "error"}, helpers : BOOLEAN]
        /\ result \in [status : Statuses, clean : BOOLEAN]
        /\ look \in [signature : 0 .. Checkcif!Full, since : 0 .. Timeout,
                     text : 0 .. Checkcif!Full, code : {None, "zero", "error"}]
        /\ clock \in 0 .. Timeout /\ at \in Places
        /\ look.since <= clock /\ look.signature <= chk.n /\ look.text <= chk.n
    BY DEF CheckcifInv, CheckcifTyped, Checkcif!TypeOK, Places, Statuses
  <1> HIDE DEF Places, Statuses
  <1>2. /\ chk = [n |-> chk.n, quiet |-> chk.quiet]
        /\ chk.n \in 0 .. Checkcif!Full /\ chk.quiet \in 0 .. Pause
    BY <1>1
  <1>3. /\ tree = [root |-> tree.root, helpers |-> tree.helpers]
        /\ tree.root \in {"none", "alive", "zero", "error"} /\ tree.helpers \in BOOLEAN
    BY <1>1
  <1>4. /\ result = [status |-> result.status, clean |-> result.clean]
        /\ result.status \in Statuses /\ result.clean \in BOOLEAN
    BY <1>1
  <1>5. /\ look = [signature |-> look.signature, since |-> look.since, text |-> look.text,
                   code |-> look.code]
        /\ look.since \in 0 .. Timeout /\ look.signature \in 0 .. Checkcif!Full
        /\ look.text \in 0 .. Checkcif!Full
    BY <1>1
  <1> QED BY <1>1, <1>2, <1>3, <1>4, <1>5, WholeReport

-----------------------------------------------------------------------------
LEMMA PlatonWrites == ASSUME CheckcifInv, Checkcif!Write PROVE CheckcifInv'
  <1>1. PICK h \in {TRUE, tree.helpers} : tree' = [tree EXCEPT !.helpers = h]
    BY DEF Checkcif!Write
  <1>2. /\ tree.root = "alive" /\ chk.n < Checkcif!Full
        /\ at = "read" => chk.n = look.signature
        /\ chk' = [n |-> chk.n + 1, quiet |-> 0]
        /\ UNCHANGED <<clock, cancelled, at, look, result, archive>>
    BY DEF Checkcif!Write
  <1>3. h \in BOOLEAN /\ tree' = [root |-> "alive", helpers |-> h]
    BY <1>1, <1>2, CheckcifNumbers
  <1>4. chk'.n = chk.n + 1 /\ chk'.quiet = 0 /\ tree'.root = "alive"
    BY <1>2, <1>3
  <1>5. CheckcifTyped'
    <2>1. chk' \in [n : 0 .. Checkcif!Full, quiet : 0 .. Pause]
      BY <1>2, CheckcifNumbers, WholeReport
    <2>2. look'.signature <= chk'.n /\ look'.text <= chk'.n
      BY <1>2, <1>4, CheckcifNumbers
    <2> QED BY <1>2, <1>3, <2>1, <2>2 DEF CheckcifInv, CheckcifTyped, Checkcif!TypeOK
  <1>6. PlatonRuns'
    BY <1>2, <1>4 DEF CheckcifInv, PlatonRuns, Looping, Checkcif!Dead
  <1>7. Silent'
    BY <1>2, <1>4, CheckcifNumbers DEF Silent
  <1>8. LoopKnows'
    <2>1. Signed => Signed'
      BY <1>2, <1>4 DEF Signed, Unripe
    <2>2. Looked => Looked'
      BY <1>2 DEF Looked, Unripe
    <2> QED BY <1>2, <1>4, <2>1, <2>2 DEF CheckcifInv, LoopKnows
  <1>9. Verdict'
    <2>1. result.status # "completed"
      BY <1>2, CheckcifNumbers, WholeReport DEF CheckcifInv, Verdict
    <2> QED BY <1>2, <2>1 DEF CheckcifInv, Verdict
  <1> QED BY <1>5, <1>6, <1>7, <1>8, <1>9 DEF CheckcifInv

LEMMA ProcessEndsStep == ASSUME CheckcifInv, Checkcif!ProcessEnds PROVE CheckcifInv'
  <1>1. UNCHANGED <<chk, clock, cancelled, at, look, result, archive>>
    BY DEF Checkcif!ProcessEnds
  <1>2. /\ tree' \in [root : {"none", "alive", "zero", "error"}, helpers : BOOLEAN]
        /\ tree'.root = tree.root \/ (tree.root = "alive" /\ tree'.root \in {"zero", "error"})
        /\ tree'.root = "zero" => chk.n = Checkcif!Full
        /\ Checkcif!Active
    <2>1. CASE tree.root = "alive" /\ \E c \in {"zero", "error"} :
             (c = "zero" => chk.n = Checkcif!Full) /\ tree' = [tree EXCEPT !.root = c]
      <3>1. PICK c \in {"zero", "error"} :
               (c = "zero" => chk.n = Checkcif!Full) /\ tree' = [tree EXCEPT !.root = c]
        BY <2>1
      <3>2. tree' = [root |-> c, helpers |-> tree.helpers]
        BY <3>1, CheckcifNumbers
      <3> QED BY <2>1, <3>1, <3>2, CheckcifNumbers DEF Checkcif!Active
    <2>2. CASE tree.helpers /\ tree' = [tree EXCEPT !.helpers = FALSE]
      <3>1. tree' = [root |-> tree.root, helpers |-> FALSE]
        BY <2>2, CheckcifNumbers
      <3>2. tree.root = "zero" => chk.n = Checkcif!Full
        BY DEF CheckcifInv, PlatonRuns
      <3>3. tree'.root = tree.root /\ tree'.helpers = FALSE /\ tree.root \in {"none", "alive", "zero", "error"}
        BY <3>1, CheckcifNumbers
      <3>4. tree' \in [root : {"none", "alive", "zero", "error"}, helpers : BOOLEAN]
        BY <3>1, <3>3
      <3>5. Checkcif!Active
        BY <2>2 DEF Checkcif!Active
      <3> QED BY <3>2, <3>3, <3>4, <3>5
    <2> QED BY <2>1, <2>2 DEF Checkcif!ProcessEnds
  <1>3. CheckcifTyped'
    BY <1>1, <1>2 DEF CheckcifInv, CheckcifTyped, Checkcif!TypeOK
  <1>4. PlatonRuns'
    <2>1. at # "prepare"
      BY <1>2 DEF CheckcifInv, PlatonRuns, Checkcif!Active, Checkcif!Dead
    <2> QED BY <1>1, <1>2, <2>1 DEF CheckcifInv, PlatonRuns
  <1>5. Silent'
    BY <1>1, <1>2 DEF CheckcifInv, Silent, Checkcif!Writing
  <1>6. LoopKnows'
    <2>1. Signed => Signed'
      BY <1>1, <1>2 DEF Signed, Unripe
    <2>2. Looked => Looked'
      BY <1>1 DEF Looked, Unripe
    <2>3. tree.root = "error" => tree'.root = "error"
      BY <1>2
    <2> QED BY <1>1, <2>1, <2>2, <2>3 DEF CheckcifInv, LoopKnows
  <1>7. Verdict'
    BY <1>1, <1>2 DEF CheckcifInv, Verdict
  <1> QED BY <1>3, <1>4, <1>5, <1>6, <1>7 DEF CheckcifInv

LEMMA TickStep == ASSUME CheckcifInv, Checkcif!Tick PROVE CheckcifInv'
  <1>1. PICK c, place : /\ c = IF clock < Timeout THEN clock + 1 ELSE clock
                        /\ place = IF at = "sleep" THEN "sign" ELSE at
    OBVIOUS
  <1>2. /\ at \notin {"read", "check", "decide", "published", "ended"}
        /\ Checkcif!Writing => chk.quiet < Pause
        /\ clock' = c /\ at' = place
        /\ chk' = IF Checkcif!Writing THEN [chk EXCEPT !.quiet = @ + 1] ELSE chk
        /\ UNCHANGED <<tree, cancelled, look, result, archive>>
    BY <1>1 DEF Checkcif!Tick
  <1>3. /\ c \in 0 .. Timeout /\ clock <= c /\ c <= clock + 1 /\ c \in Nat
    BY <1>1, CheckcifNumbers, WholeReport
  <1>4. /\ chk' \in [n : 0 .. Checkcif!Full, quiet : 0 .. Pause] /\ chk'.n = chk.n
        /\ Checkcif!Writing => chk'.quiet = chk.quiet + 1
    <2>1. CASE Checkcif!Writing
      <3>1. chk' = [n |-> chk.n, quiet |-> chk.quiet + 1]
        BY <1>2, <2>1, CheckcifNumbers
      <3> QED BY <1>2, <2>1, <3>1, CheckcifNumbers, WholeReport
    <2>2. CASE ~Checkcif!Writing
      BY <1>2, <2>2 DEF CheckcifInv, CheckcifTyped, Checkcif!TypeOK
    <2> QED BY <2>1, <2>2
  <1>5. CheckcifTyped'
    <2>1. look'.since <= clock'
      BY <1>2, <1>3, CheckcifNumbers
    <2>2. at' \in {"prepare", "sign", "read", "check", "decide", "sleep", "close", "preserve",
                   "ran", "count", "published", "ended"}
      BY <1>1, <1>2, CheckcifNumbers DEF Places
    <2> QED BY <1>2, <1>3, <1>4, <2>1, <2>2 DEF CheckcifInv, CheckcifTyped, Checkcif!TypeOK
  <1>6. at' \in Looping <=> at \in Looping
    BY <1>1, <1>2 DEF Looping
  <1>7. PlatonRuns'
    <2>1. at' = "prepare" <=> at = "prepare"
      BY <1>1, <1>2
    <2> QED BY <1>2, <1>4, <1>6, <2>1 DEF CheckcifInv, PlatonRuns
  <1>8. Silent'
    <2>1. Checkcif!Writing' <=> Checkcif!Writing
      BY <1>2, <1>4 DEF Checkcif!Writing
    <2> QED BY <1>2, <1>3, <1>4, <1>6, <2>1, CheckcifNumbers DEF CheckcifInv, Silent
  <1>9. LoopKnows'
    BY <1>1, <1>2 DEF LoopKnows
  <1>10. Verdict'
    <2>1. /\ at' \in Looping \cup {"prepare"} <=> at \in Looping \cup {"prepare"}
          /\ at' \in Over <=> at \in Over
          /\ at' \in Over \cup {"preserve"} <=> at \in Over \cup {"preserve"}
          /\ at' \in {"count", "published"} <=> at \in {"count", "published"}
      BY <1>1, <1>2 DEF Looping, Over
    <2> QED BY <1>2, <1>4, <2>1 DEF CheckcifInv, Verdict, Checkcif!Active
  <1> QED BY <1>5, <1>7, <1>8, <1>9, <1>10 DEF CheckcifInv

LEMMA CheckcifCancelled == ASSUME CheckcifInv, Checkcif!Cancel PROVE CheckcifInv'
  <1>1. /\ cancelled' = TRUE /\ UNCHANGED <<tree, chk, clock, at, look, result, archive>>
    BY DEF Checkcif!Cancel
  <1>2. CheckcifTyped'
    BY <1>1 DEF CheckcifInv, CheckcifTyped, Checkcif!TypeOK
  <1> QED
    BY <1>1, <1>2
    DEF CheckcifInv, PlatonRuns, Silent, LoopKnows, Signed, Looked, Unripe, Verdict,
        Checkcif!Writing, Checkcif!Active

-----------------------------------------------------------------------------
\* A step of the loop ends it without a success.
LEMMA GivesUp ==
  ASSUME CheckcifInv, NEW status \in Statuses \ {"completed"}, at \in Looping \cup {"prepare"},
         result' = [result EXCEPT !.status = status], at' = "close", CheckcifTyped',
         UNCHANGED <<tree, chk, clock, cancelled, archive>>
  PROVE  CheckcifInv'
  <1>1. result' = [status |-> status, clean |-> result.clean]
    BY CheckcifNumbers
  <1>2. result'.status # "completed"
    BY <1>1
  <1>3. PlatonRuns'
    BY DEF CheckcifInv, PlatonRuns, Looping
  <1>4. Silent' /\ LoopKnows'
    BY DEF Silent, LoopKnows, Looping
  <1>5. Verdict'
    BY <1>2 DEF Verdict, Looping, Over
  <1> QED BY <1>3, <1>4, <1>5 DEF CheckcifInv

\* The types after a step that neither PLATON nor the clock takes part in.
LEMMA ResultTyped ==
  ASSUME CheckcifInv, NEW status \in Statuses, result' = [result EXCEPT !.status = status]
  PROVE  /\ result' \in [status : {"completed", "failed", "timeout", "cancelled"}, clean : BOOLEAN]
         /\ result'.status = status
  <1>1. result' = [status |-> status, clean |-> result.clean]
    BY CheckcifNumbers
  <1> QED BY <1>1, CheckcifNumbers DEF Statuses

LEMMA StoppedStatus ==
  ASSUME Checkcif!Stopped
  PROVE  at' = "close" /\ \E s \in Statuses \ {"completed"} : result' = [result EXCEPT !.status = s]
  BY DEF Checkcif!Stopped, Checkcif!Ends, Checkcif!Goto, Statuses

LEMMA StartStep == ASSUME CheckcifInv, Checkcif!Start PROVE CheckcifInv'
  <1>1. at = "prepare" /\ UNCHANGED <<chk, clock, cancelled, archive>>
    BY DEF Checkcif!Start
  <1>2. ASSUME NEW s \in Statuses \ {"completed"}, result' = [result EXCEPT !.status = s],
               at' = "close", UNCHANGED <<tree, look>>
        PROVE  CheckcifInv'
    <2>1. CheckcifTyped'
      BY <1>1, <1>2, ResultTyped DEF CheckcifInv, CheckcifTyped, Checkcif!TypeOK
    <2> QED BY <1>1, <1>2, <2>1, GivesUp
  <1>3. CASE /\ tree' = [root |-> "alive", helpers |-> FALSE]
             /\ look' = [look EXCEPT !.since = clock]
             /\ at' = "sign" /\ UNCHANGED result
    <2>1. look' = [signature |-> look.signature, since |-> clock, text |-> look.text,
                   code |-> look.code]
      BY <1>3, CheckcifNumbers
    <2>2. look.code \in {None, "zero", "error"} /\ clock \in 0 .. Timeout
      BY DEF CheckcifInv, CheckcifTyped, Checkcif!TypeOK
    <2>3. CheckcifTyped'
      <3>1. look' \in [signature : 0 .. Checkcif!Full, since : 0 .. Timeout,
                       text : 0 .. Checkcif!Full, code : {None, "zero", "error"}]
        BY <2>1, <2>2, CheckcifNumbers, WholeReport
      <3>2. look'.since <= clock' /\ look'.signature <= chk'.n /\ look'.text <= chk'.n
        BY <1>1, <2>1, CheckcifNumbers
      <3> QED BY <1>1, <1>3, <3>1, <3>2 DEF CheckcifInv, CheckcifTyped, Checkcif!TypeOK
    <2>4. chk'.n = 0 /\ tree'.root = "alive"
      BY <1>1, <1>3 DEF CheckcifInv, PlatonRuns
    <2>5. PlatonRuns'
      BY <1>3, <2>4 DEF PlatonRuns
    <2>6. Silent'
      BY <2>4, WholeReport DEF Silent, Checkcif!Writing
    <2>7. LoopKnows' /\ Verdict'
      BY <1>1, <1>3 DEF LoopKnows, CheckcifInv, Verdict, Looping, Over
    <2> QED BY <2>3, <2>5, <2>6, <2>7 DEF CheckcifInv
  <1>4. Checkcif!Stopped /\ UNCHANGED <<tree, look>> => CheckcifInv'
    BY <1>2, StoppedStatus
  <1>5. Checkcif!Ends("failed") /\ UNCHANGED <<tree, look>> => CheckcifInv'
    <2>1. "failed" \in Statuses \ {"completed"}
      BY DEF Statuses
    <2> QED BY <1>2, <2>1 DEF Checkcif!Ends, Checkcif!Goto
  <1> QED BY <1>3, <1>4, <1>5 DEF Checkcif!Start, Checkcif!Goto

LEMMA SignStep == ASSUME CheckcifInv, Checkcif!Sign PROVE CheckcifInv'
  <1>1. /\ at = "sign" /\ at' = "read"
        /\ look' = IF chk.n = look.signature THEN look
                   ELSE [look EXCEPT !.signature = chk.n, !.since = clock]
        /\ UNCHANGED <<tree, chk, clock, cancelled, result, archive>>
    BY DEF Checkcif!Sign, Checkcif!Goto
  <1>2. PICK since \in 0 .. Timeout :
          /\ look' = [signature |-> chk.n, since |-> since, text |-> look.text, code |-> look.code]
          /\ since <= clock
          /\ since = clock \/ (chk.n = look.signature /\ since = look.since)
    <2>1. CASE chk.n = look.signature
      <3>1. look' = [signature |-> chk.n, since |-> look.since, text |-> look.text,
                     code |-> look.code]
        BY <1>1, <2>1, CheckcifNumbers
      <3>2. look.since \in 0 .. Timeout
        BY CheckcifNumbers, WholeReport
      <3> QED BY <2>1, <3>1, <3>2, CheckcifNumbers
    <2>2. CASE chk.n # look.signature
      <3>1. look' = [signature |-> chk.n, since |-> clock, text |-> look.text,
                     code |-> look.code]
        BY <1>1, <2>2, CheckcifNumbers
      <3>2. clock \in 0 .. Timeout
        BY CheckcifNumbers, WholeReport
      <3> QED BY <3>1, <3>2, CheckcifNumbers
    <2> QED BY <2>1, <2>2
  <1>3. /\ look'.signature = chk.n /\ look'.since = since /\ look'.text = look.text
        /\ since \in Nat
    BY <1>2, WholeReport
  <1>4. CheckcifTyped'
    <2>1. look.code \in {None, "zero", "error"}
      BY DEF CheckcifInv, CheckcifTyped
    <2>2. look' \in [signature : 0 .. Checkcif!Full, since : 0 .. Timeout,
                     text : 0 .. Checkcif!Full, code : {None, "zero", "error"}]
      BY <1>2, <2>1, CheckcifNumbers, WholeReport
    <2>3. look'.since <= clock' /\ look'.signature <= chk'.n /\ look'.text <= chk'.n
      BY <1>1, <1>2, <1>3, CheckcifNumbers
    <2> QED BY <1>1, <2>2, <2>3 DEF CheckcifInv, CheckcifTyped, Checkcif!TypeOK
  <1>5. PlatonRuns'
    BY <1>1 DEF CheckcifInv, PlatonRuns, Looping
  <1>6. Checkcif!Writing => clock - since <= chk.quiet
    BY <1>1, <1>2, CheckcifNumbers DEF CheckcifInv, Silent, Looping
  <1>7. Silent'
    BY <1>1, <1>3, <1>6 DEF Silent, Checkcif!Writing
  <1>8. LoopKnows'
    <2>1. Signed'
      <3>1. CASE Checkcif!Writing
        <4>1. clock - since <= Pause
          BY <1>3, <1>6, <3>1, CheckcifNumbers, WholeReport
        <4> QED BY <1>1, <1>3, <4>1 DEF Signed, Unripe
      <3>2. CASE ~Checkcif!Writing
        <4>1. tree.root # "none"
          BY <1>1 DEF CheckcifInv, PlatonRuns, Looping
        <4>2. tree.root = "alive" => chk.n \in {0, Checkcif!Full}
          BY <3>2, CheckcifNumbers, WholeReport DEF Checkcif!Writing
        <4>3. tree.root = "zero" => chk.n = Checkcif!Full
          BY DEF CheckcifInv, PlatonRuns
        <4>4. tree.root \in {"none", "alive", "zero", "error"}
          BY CheckcifNumbers
        <4>5. tree.root = "error" \/ chk.n \in {0, Checkcif!Full}
          BY <4>1, <4>2, <4>3, <4>4
        <4> QED BY <1>1, <1>3, <4>5 DEF Signed
      <3> QED BY <3>1, <3>2
    <2> QED BY <1>1, <1>3, <2>1 DEF LoopKnows
  <1>9. Verdict'
    BY <1>1 DEF CheckcifInv, Verdict, Looping, Over
  <1> QED BY <1>4, <1>5, <1>7, <1>8, <1>9 DEF CheckcifInv

LEMMA ReadStep == ASSUME CheckcifInv, Checkcif!Read PROVE CheckcifInv'
  <1>1. /\ at = "read" /\ at' = "check" /\ look' = [look EXCEPT !.text = chk.n]
        /\ UNCHANGED <<tree, chk, clock, cancelled, result, archive>>
    BY DEF Checkcif!Read, Checkcif!Goto
  <1>2. look' = [signature |-> look.signature, since |-> look.since, text |-> chk.n,
                 code |-> look.code]
    BY <1>1, CheckcifNumbers
  <1>3. look'.signature = look.signature /\ look'.since = look.since /\ look'.text = chk.n
    BY <1>2
  <1>4. CheckcifTyped'
    <2>1. look.code \in {None, "zero", "error"} /\ look.since \in 0 .. Timeout
      BY DEF CheckcifInv, CheckcifTyped
    <2>2. look' \in [signature : 0 .. Checkcif!Full, since : 0 .. Timeout,
                     text : 0 .. Checkcif!Full, code : {None, "zero", "error"}]
      BY <1>2, <2>1, CheckcifNumbers, WholeReport
    <2>3. look'.since <= clock' /\ look'.signature <= chk'.n /\ look'.text <= chk'.n
      BY <1>1, <1>3, CheckcifNumbers
    <2> QED BY <1>1, <2>2, <2>3 DEF CheckcifInv, CheckcifTyped, Checkcif!TypeOK
  <1>5. PlatonRuns'
    BY <1>1 DEF CheckcifInv, PlatonRuns, Looping
  <1>6. Silent'
    BY <1>1, <1>3 DEF CheckcifInv, Silent, Checkcif!Writing, Looping
  <1>7. tree.root = "error" \/ Looked'
    <2>1. Signed /\ chk.n \in {look.signature, look.signature + 1}
      BY <1>1 DEF CheckcifInv, LoopKnows
    <2>2. CASE look.signature = 0
      <3>1. chk.n = 0 \/ chk.n = 1
        BY <2>1, <2>2
      <3>2. ~Checkcif!Complete(chk.n)
        BY <3>1, WholeReport
      <3> QED BY <1>3, <3>2 DEF Looked, Checkcif!Complete
    <2>3. CASE look.signature = Checkcif!Full
      <3>1. chk.n = Checkcif!Full
        BY <2>3, CheckcifNumbers, WholeReport
      <3> QED BY <1>3, <3>1 DEF Looked
    <2>4. CASE Unripe
      BY <1>1, <1>3, <2>4 DEF Looked, Unripe
    <2> QED BY <2>1, <2>2, <2>3, <2>4 DEF Signed
  <1>8. LoopKnows'
    BY <1>1, <1>7 DEF LoopKnows
  <1>9. Verdict'
    BY <1>1 DEF CheckcifInv, Verdict, Looping, Over
  <1> QED BY <1>4, <1>5, <1>6, <1>8, <1>9 DEF CheckcifInv

LEMMA CheckStep == ASSUME CheckcifInv, Checkcif!Check PROVE CheckcifInv'
  <1>1. PICK code \in {None, "zero", "error"} :
          code = IF tree.root \in {"zero", "error"} THEN tree.root ELSE None
    OBVIOUS
  <1>2. /\ at = "check" /\ look' = [look EXCEPT !.code = code]
        /\ UNCHANGED <<tree, chk, clock, cancelled, archive>>
    BY <1>1 DEF Checkcif!Check
  <1>3. look' = [signature |-> look.signature, since |-> look.since, text |-> look.text,
                 code |-> code]
    BY <1>2, CheckcifNumbers
  <1>4. /\ look'.signature = look.signature /\ look'.since = look.since
        /\ look'.text = look.text /\ look'.code = code
    BY <1>3
  <1>5. /\ look' \in [signature : 0 .. Checkcif!Full, since : 0 .. Timeout,
                      text : 0 .. Checkcif!Full, code : {None, "zero", "error"}]
        /\ look'.since <= clock' /\ look'.signature <= chk'.n /\ look'.text <= chk'.n
    <2>1. look.since \in 0 .. Timeout
      BY DEF CheckcifInv, CheckcifTyped
    <2>2. look' \in [signature : 0 .. Checkcif!Full, since : 0 .. Timeout,
                      text : 0 .. Checkcif!Full, code : {None, "zero", "error"}]
      BY <1>3, <2>1, CheckcifNumbers, WholeReport
    <2> QED BY <1>2, <1>4, <2>2, CheckcifNumbers
  <1>6. CASE Checkcif!Stopped
    <2>1. PICK s \in Statuses \ {"completed"} :
            at' = "close" /\ result' = [result EXCEPT !.status = s]
      BY <1>6, StoppedStatus
    <2>2. CheckcifTyped'
      BY <1>2, <1>5, <2>1, ResultTyped DEF CheckcifInv, CheckcifTyped, Checkcif!TypeOK
    <2> QED BY <1>2, <2>1, <2>2, GivesUp DEF Looping
  <1>7. CASE at' = "decide" /\ UNCHANGED result
    <2>1. CheckcifTyped'
      BY <1>2, <1>5, <1>7 DEF CheckcifInv, CheckcifTyped, Checkcif!TypeOK
    <2>2. PlatonRuns'
      BY <1>2, <1>7 DEF CheckcifInv, PlatonRuns, Looping
    <2>3. Silent'
      BY <1>2, <1>4, <1>7 DEF CheckcifInv, Silent, Checkcif!Writing, Looping
    <2>4. LoopKnows'
      <3>1. tree.root = "error" => code = "error"
        BY <1>1
      <3>2. Looked => Looked'
        BY <1>2, <1>4 DEF Looked, Unripe, Checkcif!Complete
      <3> QED BY <1>2, <1>4, <1>7, <3>1, <3>2 DEF CheckcifInv, LoopKnows
    <2>5. Verdict'
      BY <1>2, <1>7 DEF CheckcifInv, Verdict, Looping, Over
    <2> QED BY <2>1, <2>2, <2>3, <2>4, <2>5 DEF CheckcifInv
  <1> QED BY <1>6, <1>7 DEF Checkcif!Check, Checkcif!Goto

LEMMA DecideStep == ASSUME CheckcifInv, Checkcif!Decide PROVE CheckcifInv'
  <1>1. at = "decide" /\ UNCHANGED <<tree, chk, clock, cancelled, look, archive>>
    BY DEF Checkcif!Decide
  <1>2. ASSUME NEW s \in Statuses \ {"completed"}, result' = [result EXCEPT !.status = s],
               at' = "close"
        PROVE  CheckcifInv'
    <2>1. CheckcifTyped'
      BY <1>1, <1>2, ResultTyped DEF CheckcifInv, CheckcifTyped, Checkcif!TypeOK
    <2> QED BY <1>1, <1>2, <2>1, GivesUp DEF Looping
  <1>3. CASE Checkcif!Ends("failed")
    <2>1. "failed" \in Statuses \ {"completed"}
      BY DEF Statuses
    <2> QED BY <1>2, <1>3, <2>1 DEF Checkcif!Ends, Checkcif!Goto
  <1>4. CASE Checkcif!Stopped
    BY <1>2, <1>4, StoppedStatus
  <1>5. CASE /\ look.code # "error" /\ Checkcif!Complete(look.text)
             /\ clock - look.since >= Stable /\ Checkcif!Ends("completed")
    <2>1. result' = [result EXCEPT !.status = "completed"] /\ at' = "close"
      BY <1>5 DEF Checkcif!Ends, Checkcif!Goto
    <2>2. CheckcifTyped'
      <3>1. "completed" \in Statuses
        BY DEF Statuses
      <3> QED BY <1>1, <2>1, <3>1, ResultTyped DEF CheckcifInv, CheckcifTyped, Checkcif!TypeOK
    <2>3. chk.n = Checkcif!Full
      <3>1. ~Unripe
        BY <1>5, CheckcifNumbers, WholeReport DEF Unripe
      <3>2. look.text = Checkcif!Full
        BY <1>1, <1>5, <3>1 DEF CheckcifInv, LoopKnows, Looked
      <3> QED BY <3>2, CheckcifNumbers, WholeReport
    <2>4. PlatonRuns' /\ Silent' /\ LoopKnows'
      BY <1>1, <2>1 DEF CheckcifInv, PlatonRuns, Silent, LoopKnows, Looping
    <2>5. Verdict'
      BY <1>1, <2>1, <2>3 DEF Verdict, Looping, Over
    <2> QED BY <2>2, <2>4, <2>5 DEF CheckcifInv
  <1>6. CASE at' = "sleep" /\ UNCHANGED result
    <2>1. CheckcifTyped'
      BY <1>1, <1>6 DEF CheckcifInv, CheckcifTyped, Checkcif!TypeOK
    <2>2. PlatonRuns' /\ Silent' /\ LoopKnows'
      BY <1>1, <1>6 DEF CheckcifInv, PlatonRuns, Silent, LoopKnows, Looping, Checkcif!Writing
    <2>3. Verdict'
      BY <1>1, <1>6 DEF CheckcifInv, Verdict, Looping, Over
    <2> QED BY <2>1, <2>2, <2>3 DEF CheckcifInv
  <1> QED BY <1>3, <1>4, <1>5, <1>6 DEF Checkcif!Decide, Checkcif!Goto

-----------------------------------------------------------------------------
LEMMA CloseStep == ASSUME CheckcifInv, Checkcif!Close PROVE CheckcifInv'
  <1>1. /\ at = "close" /\ at' = "preserve" /\ UNCHANGED <<chk, clock, cancelled, look, archive>>
    BY DEF Checkcif!Close, Checkcif!Goto
  <1>2. CASE /\ tree' = (IF tree.root = "alive" THEN Checkcif!Dead ELSE [tree EXCEPT !.helpers = FALSE])
             /\ UNCHANGED result
    <2>1. /\ tree' \in [root : {"none", "alive", "zero", "error"}, helpers : BOOLEAN]
          /\ tree'.root # "alive" /\ ~tree'.helpers /\ tree'.root \in {"none", tree.root}
      <3>1. CASE tree.root = "alive"
        <4>1. tree' = [root |-> "none", helpers |-> FALSE]
          BY <1>2, <3>1 DEF Checkcif!Dead
        <4> QED BY <4>1
      <3>2. CASE tree.root # "alive"
        <4>1. tree' = [root |-> tree.root, helpers |-> FALSE]
          BY <1>2, <3>2, CheckcifNumbers
        <4> QED BY <3>2, <4>1, CheckcifNumbers
      <3> QED BY <3>1, <3>2
    <2>2. CheckcifTyped'
      BY <1>1, <1>2, <2>1 DEF CheckcifInv, CheckcifTyped, Checkcif!TypeOK
    <2>3. PlatonRuns' /\ Silent' /\ LoopKnows'
      BY <1>1, <2>1 DEF CheckcifInv, PlatonRuns, Silent, LoopKnows, Looping
    <2>4. Verdict'
      BY <1>1, <1>2, <2>1 DEF CheckcifInv, Verdict, Looping, Over, Checkcif!Active
    <2> QED BY <2>2, <2>3, <2>4 DEF CheckcifInv
  <1>3. CASE UNCHANGED tree /\ result' = [status |-> "failed", clean |-> FALSE]
    <2>1. CheckcifTyped'
      BY <1>1, <1>3 DEF CheckcifInv, CheckcifTyped, Checkcif!TypeOK
    <2>2. PlatonRuns' /\ Silent' /\ LoopKnows'
      BY <1>1, <1>3 DEF CheckcifInv, PlatonRuns, Silent, LoopKnows, Looping
    <2>3. Verdict'
      BY <1>1, <1>3 DEF Verdict, Looping, Over
    <2> QED BY <2>1, <2>2, <2>3 DEF CheckcifInv
  <1> QED BY <1>2, <1>3 DEF Checkcif!Close

LEMMA PreserveStep == ASSUME CheckcifInv, Checkcif!Preserve PROVE CheckcifInv'
  <1>1. /\ at = "preserve" /\ at' = "ran" /\ UNCHANGED <<tree, chk, clock, cancelled, look>>
    BY DEF Checkcif!Preserve, Checkcif!Goto
  <1>2. PlatonRuns' /\ Silent' /\ LoopKnows'
    BY <1>1 DEF CheckcifInv, PlatonRuns, Silent, LoopKnows, Looping
  <1>3. CASE archive' = chk.n /\ UNCHANGED result
    <2>1. CheckcifTyped'
      BY <1>1, <1>3, CheckcifNumbers, WholeReport DEF CheckcifInv, CheckcifTyped, Checkcif!TypeOK
    <2>2. Verdict'
      BY <1>1, <1>3 DEF CheckcifInv, Verdict, Looping, Over, Checkcif!Active
    <2> QED BY <1>2, <2>1, <2>2 DEF CheckcifInv
  <1>4. CASE UNCHANGED archive /\ result' = [result EXCEPT !.status = "failed"]
    <2>1. "failed" \in Statuses
      BY DEF Statuses
    <2>2. CheckcifTyped' /\ result'.status = "failed"
      BY <1>1, <1>4, <2>1, ResultTyped DEF CheckcifInv, CheckcifTyped, Checkcif!TypeOK
    <2>3. Verdict'
      BY <1>1, <2>2 DEF Verdict, Looping, Over
    <2> QED BY <1>2, <2>2, <2>3 DEF CheckcifInv
  <1> QED BY <1>3, <1>4 DEF Checkcif!Preserve

LEMMA LookAgainStep ==
  ASSUME CheckcifInv, NEW from, NEW to, Checkcif!LookAgain(from, to),
         <<from, to>> \in {<<"ran", "count">>, <<"count", "published">>}
  PROVE  CheckcifInv'
  <1>0. /\ from \in Over /\ to \in {"count", "published"}
    BY DEF Over
  <1>1. at = from /\ UNCHANGED <<tree, chk, clock, cancelled, look, archive>>
    BY DEF Checkcif!LookAgain
  <1>2. CASE result' = [result EXCEPT !.status = "cancelled"] /\ at' = "ended"
    <2>1. "cancelled" \in Statuses
      BY DEF Statuses
    <2>2. CheckcifTyped' /\ result'.status = "cancelled"
      BY <1>1, <1>2, <2>1, ResultTyped DEF CheckcifInv, CheckcifTyped, Checkcif!TypeOK
    <2>3. PlatonRuns' /\ Silent' /\ LoopKnows'
      BY <1>1, <1>2 DEF CheckcifInv, PlatonRuns, Silent, LoopKnows, Looping
    <2>4. Verdict'
      BY <1>2, <2>2 DEF Verdict, Looping, Over
    <2> QED BY <2>2, <2>3, <2>4 DEF CheckcifInv
  <1>3. CASE at' = (IF result.status = "completed" THEN to ELSE "ended") /\ UNCHANGED result
    <2>1. (at' \in {"count", "published"} /\ result.status = "completed") \/ at' = "ended"
      BY <1>0, <1>3
    <2>2. CheckcifTyped'
      BY <1>1, <1>3, <2>1 DEF CheckcifInv, CheckcifTyped, Checkcif!TypeOK
    <2>3. PlatonRuns' /\ Silent' /\ LoopKnows'
      BY <1>1, <2>1 DEF CheckcifInv, PlatonRuns, Silent, LoopKnows, Looping
    <2>4. Verdict'
      BY <1>0, <1>1, <1>3, <2>1 DEF CheckcifInv, Verdict, Looping, Over, Checkcif!Active
    <2> QED BY <2>2, <2>3, <2>4 DEF CheckcifInv
  <1> QED BY <1>2, <1>3 DEF Checkcif!LookAgain, Checkcif!Goto

LEMMA CheckcifStep == CheckcifInv /\ [Checkcif!Next]_checkcif => CheckcifInv'
  <1> SUFFICES ASSUME CheckcifInv, [Checkcif!Next]_checkcif PROVE CheckcifInv'
    OBVIOUS
  <1>1. CASE UNCHANGED checkcif
    BY <1>1
    DEF CheckcifInv, CheckcifTyped, Checkcif!TypeOK, PlatonRuns, Silent, LoopKnows, Signed,
        Looked, Unripe, Verdict, Checkcif!Writing, Checkcif!Active, checkcif
  <1>2. Checkcif!AfterRun => CheckcifInv'
    BY LookAgainStep DEF Checkcif!AfterRun
  <1>3. Checkcif!Publish => CheckcifInv'
    BY LookAgainStep DEF Checkcif!Publish
  <1> QED BY <1>1, <1>2, <1>3, StartStep, SignStep, ReadStep, CheckStep, DecideStep, CloseStep,
             PreserveStep, PlatonWrites, ProcessEndsStep, TickStep, CheckcifCancelled
          DEF Checkcif!Next, Checkcif!Runner

LEMMA CheckcifHolds == CheckcifInv => Checkcif!TypeOK /\ Checkcif!PublishedIsWhole
  BY DEF CheckcifInv, CheckcifTyped, Verdict, Over, Checkcif!PublishedIsWhole

-----------------------------------------------------------------------------
(* Display caches.                                                         *)

Single == {"fofc", "2fofc", "peaks"}

\* A file is of the release that runs; a surface also when it is rightly absent.
Written(f) ==
  IF f = "voids.ccp4" THEN file[f] = (IF builder \in surface THEN builder ELSE 0)
                      ELSE file[f] = builder

\* Of a build, what is not left to do is done.
Building(r) ==
  \/ /\ ask[r] \in {"fofc", "peaks"}
     /\ \/ left[r] = <<"fofc", "peaks">>
        \/ left[r] = <<"peaks">> /\ Written("fofc")
        \/ left[r] = <<>> /\ Written("fofc") /\ Written("peaks")
  \/ /\ ask[r] = "2fofc"
     /\ left[r] = <<"2fofc">> \/ (left[r] = <<>> /\ Written("2fofc"))
  \/ /\ ask[r] \in {"voids", "voidmap"}
     /\ \/ left[r] = <<"voids.ccp4", "voids.json">> /\ builder \in surface
        \/ left[r] = <<"unlink", "voids.json">> /\ builder \notin surface
        \/ left[r] = <<"voids.json">> /\ Written("voids.ccp4")
        \/ left[r] = <<>> /\ Written("voids.ccp4") /\ Written("voids.json")

\* A stamp is put where the release that runs has written.
Stamping(r) ==
  /\ left[r] # <<>>
  /\ \A i \in 1..Len(left[r]) :
       left[r][i] = "voids" \/ (left[r][i] \in Single /\ Written(left[r][i]))

CacheTyped ==
  /\ Cache!TypeOK
  /\ \A f \in Cache!Files : file[f] <= builder
  /\ \A s \in Cache!Stamps : stamp[s] <= builder

RequestFollows(r) ==
  /\ viewer[r] \in {"build", "write"} => Building(r)
  /\ viewer[r] = "write" => left[r] # <<>> /\ Head(left[r]) # "unlink" /\ Written(Head(left[r]))
  /\ viewer[r] = "stamp" => Stamping(r)
  /\ viewer[r] \in {"stamp", "serve"} => Written(Cache!Answer(ask[r]))
  /\ viewer[r] = "served" => got[r].by = builder

CacheInv ==
  /\ CacheTyped
  /\ \A s \in Single : stamp[s] = builder => Written(s)
  /\ Written("voids.json") => Written("voids.ccp4")
  /\ \A r \in Viewers : RequestFollows(r)

LEMMA CacheConstants ==
  /\ MaxBuilder \in Nat /\ MaxUpsets \in Nat /\ Cache!Files = Single \cup {"voids.json", "voids.ccp4"}
  /\ Cache!Stamps = Single \cup {"voids"} /\ "voids.ccp4" \notin Single /\ "unlink" \notin Single
  /\ Cache!Asks = Single \cup {"voids", "voidmap"} /\ "voids" \notin Single
  /\ \A k \in Cache!Asks : Cache!Answer(k) \in Cache!Files
  BY BoundsAssumption DEF Single, Cache!Files, Cache!Stamps, Cache!Asks, Cache!Answer

\* The sequences of a build.
LEMMA BuildSequences ==
  /\ \A a, b : Head(<<a, b>>) = a /\ Tail(<<a, b>>) = <<b>> /\ <<a, b>> # <<>>
  /\ \A a : Head(<<a>>) = a /\ Tail(<<a>>) = <<>> /\ <<a>> # <<>>
  OBVIOUS

LEMMA CacheInit == Cache!Init => CacheInv
  <1> SUFFICES ASSUME Cache!Init PROVE CacheInv
    OBVIOUS
  <1>1. builder = 1 /\ \A f \in Cache!Files : file[f] = 0
    BY DEF Cache!Init
  <1>2. \A s \in Cache!Stamps : stamp[s] = 0
    BY DEF Cache!Init
  <1>3. \A r \in Viewers : viewer[r] = "idle"
    BY DEF Cache!Init
  <1>4. Cache!TypeOK
    <2>1. <<>> \in Seq(Cache!Files \cup Cache!Stamps \cup {"unlink"})
      BY EmptySeq
    <2> QED BY <2>1, BoundsAssumption DEF Cache!Init, Cache!TypeOK, Cache!Releases, Cache!Asks
  <1>5. ~Written("voids.json") /\ \A s \in Single : stamp[s] # builder
    BY <1>1, <1>2, CacheConstants DEF Written
  <1> QED BY <1>1, <1>2, <1>3, <1>4, <1>5 DEF CacheInv, CacheTyped, RequestFollows

\* What is written stays written, and a request nobody moves follows it.
FilesStay ==
  /\ builder' = builder /\ surface' = surface
  /\ \A f \in Cache!Files : Written(f) => Written(f)'

LEMMA OthersFollow ==
  ASSUME FilesStay, NEW r \in Viewers, RequestFollows(r), ask[r] \in Cache!Asks,
         viewer'[r] = viewer[r], ask'[r] = ask[r], left'[r] = left[r], got'[r] = got[r]
  PROVE  RequestFollows(r)'
  <1>1. /\ Written("fofc") => Written("fofc")'
        /\ Written("peaks") => Written("peaks")'
        /\ Written("2fofc") => Written("2fofc")'
        /\ Written("voids.json") => Written("voids.json")'
        /\ Written("voids.ccp4") => Written("voids.ccp4")'
    BY DEF FilesStay, Cache!Files
  <1>2. Building(r) => Building(r)'
    BY <1>1 DEF Building, FilesStay
  <1>3. Stamping(r) => Stamping(r)'
    BY <1>1 DEF Stamping, Single
  <1>4. Cache!Answer(ask[r])' = Cache!Answer(ask[r]) /\ Cache!Answer(ask[r]) \in Cache!Files
    BY CacheConstants DEF Cache!Answer
  <1>5. Written(Cache!Answer(ask[r])) => Written(Cache!Answer(ask[r]))'
    BY <1>4 DEF FilesStay, Written
  <1>6. viewer[r] = "write" /\ Building(r) /\ left[r] # <<>> /\ Head(left[r]) # "unlink"
        => Head(left[r]) \in Cache!Files
    BY BuildSequences DEF Building, Cache!Files
  <1>7. viewer[r] = "write" => (Written(Head(left[r])) => Written(Head(left[r]))')
    BY <1>6 DEF RequestFollows, FilesStay, Written
  <1> QED BY <1>2, <1>3, <1>5, <1>7 DEF RequestFollows, FilesStay

\* What a step of a build leaves alone.
Only(r) ==
  /\ \A q \in Viewers \ {r} : viewer'[q] = viewer[q] /\ ask'[q] = ask[q] /\ left'[q] = left[q] /\ got'[q] = got[q]
  /\ UNCHANGED builder /\ UNCHANGED surface

\* One request moves, and what is written stays written.
LEMMA RequestMoves ==
  ASSUME CacheInv, NEW r \in Viewers, Only(r), FilesStay, CacheTyped', RequestFollows(r)',
         \A s \in Single : stamp'[s] = builder => stamp[s] = builder \/ Written(s)',
         Written("voids.json")' => Written("voids.ccp4")'
  PROVE  CacheInv'
  <1>1. \A q \in Viewers : RequestFollows(q)'
    <2> TAKE q \in Viewers
    <2>1. ask[q] \in Cache!Asks
      BY DEF CacheInv, CacheTyped, Cache!TypeOK
    <2> QED BY <2>1, OthersFollow DEF CacheInv, Only
  <1>2. \A s \in Single : stamp'[s] = builder' => Written(s)'
    BY CacheConstants DEF CacheInv, FilesStay
  <1> QED BY <1>1, <1>2 DEF CacheInv

LEMMA NothingWritten ==
  ASSUME UNCHANGED <<builder, surface, file>> PROVE FilesStay /\ \A f : Written(f)' = Written(f)
  BY DEF FilesStay, Written

LEMMA AskStep == ASSUME CacheInv, NEW r \in Viewers, Cache!Ask(r) PROVE CacheInv'
  <1>1. UNCHANGED <<builder, surface, file, stamp, torn, holder, left, upsets, wanted>>
    BY DEF Cache!Ask
  <1>2. CacheTyped'
    <2>1. PICK k \in wanted : ask' = [ask EXCEPT ![r] = k]
      BY DEF Cache!Ask
    <2>2. k \in Cache!Asks
      BY DEF CacheInv, CacheTyped, Cache!TypeOK, Cache!Interests, Cache!Asks
    <2>3. /\ viewer' = [viewer EXCEPT ![r] = "look"]
          /\ got' = [got EXCEPT ![r] = [by |-> 0, whole |-> TRUE]]
      BY DEF Cache!Ask, Cache!Goes
    <2>4. [by |-> 0, whole |-> TRUE] \in [by : 0..MaxBuilder, whole : BOOLEAN]
      BY CacheConstants
    <2> QED BY <1>1, <2>1, <2>2, <2>3, <2>4 DEF CacheInv, CacheTyped, Cache!TypeOK
  <1>3. viewer'[r] = "look" /\ Only(r)
    BY <1>1 DEF Cache!Ask, Cache!Goes, Only, CacheInv, CacheTyped, Cache!TypeOK
  <1> QED BY <1>1, <1>2, <1>3, NothingWritten, RequestMoves DEF CacheInv, RequestFollows

\* A cache that is fresh holds the answer of the release that runs.
LEMMA FreshIsWritten ==
  ASSUME CacheInv, NEW k \in Cache!Asks, Cache!Fresh(k) PROVE Written(Cache!Answer(k))
  <1>1. CASE k \in {"voids", "voidmap"}
    <2>1. Written("voids.json")
      BY <1>1 DEF Cache!Fresh, Written
    <2> QED BY <1>1, <2>1 DEF CacheInv, Cache!Answer
  <1>2. CASE k \in Single
    <2>1. stamp[k] = builder /\ Cache!Answer(k) = k
      BY <1>2 DEF Cache!Fresh, Cache!Answer, Single
    <2> QED BY <1>2, <2>1 DEF CacheInv
  <1> QED BY <1>1, <1>2, CacheConstants

LEMMA LookStep == ASSUME CacheInv, NEW r \in Viewers, Cache!Look(r) PROVE CacheInv'
  <1>1. UNCHANGED <<builder, surface, file, stamp, torn, holder, left, upsets, wanted, ask, got>>
    BY DEF Cache!Look
  <1>0. PICK place \in {"serve", "wait"} : /\ viewer' = [viewer EXCEPT ![r] = place]
                                           /\ place = "serve" => Cache!Fresh(ask[r])
    BY DEF Cache!Look, Cache!Goes
  <1>2. CacheTyped'
    BY <1>0, <1>1 DEF CacheInv, CacheTyped, Cache!TypeOK
  <1>3. viewer'[r] = place /\ Only(r) /\ ask[r] \in Cache!Asks
    BY <1>0, <1>1 DEF Only, CacheInv, CacheTyped, Cache!TypeOK
  <1>4. RequestFollows(r)'
    <2>1. Cache!Answer(ask[r])' = Cache!Answer(ask[r])
      BY <1>1 DEF Cache!Answer
    <2> QED BY <1>0, <1>1, <1>3, <2>1, FreshIsWritten, NothingWritten DEF RequestFollows
  <1> QED BY <1>1, <1>2, <1>3, <1>4, NothingWritten, RequestMoves DEF CacheInv

LEMMA TakeStep == ASSUME CacheInv, NEW r \in Viewers, Cache!Take(r) PROVE CacheInv'
  <1>1. UNCHANGED <<builder, surface, file, stamp, torn, upsets, wanted, ask, got>>
    BY DEF Cache!Take
  <1>2. ask[r] \in Cache!Asks
    BY DEF CacheInv, CacheTyped, Cache!TypeOK
  <1>3. PICK p : p = Cache!Products(ask[r])
    OBVIOUS
  <1>4. /\ p \in Seq(Cache!Files \cup Cache!Stamps \cup {"unlink"})
        /\ \/ ask[r] \in {"fofc", "peaks"} /\ p = <<"fofc", "peaks">>
           \/ ask[r] = "2fofc" /\ p = <<"2fofc">>
           \/ ask[r] \in {"voids", "voidmap"} /\ p = <<"voids.ccp4", "voids.json">> /\ builder \in surface
           \/ ask[r] \in {"voids", "voidmap"} /\ p = <<"unlink", "voids.json">> /\ builder \notin surface
    <2>1. CASE ask[r] \in {"fofc", "peaks"}
      <3>1. p = <<"fofc", "peaks">>
        BY <1>3, <2>1 DEF Cache!Products
      <3> QED BY <2>1, <3>1 DEF Cache!Files
    <2>2. CASE ask[r] = "2fofc"
      <3>1. p = <<"2fofc">>
        BY <1>3, <2>2 DEF Cache!Products
      <3> QED BY <2>2, <3>1 DEF Cache!Files
    <2>3. CASE ask[r] \in {"voids", "voidmap"}
      <3>1. p = IF builder \in surface THEN <<"voids.ccp4", "voids.json">>
                                       ELSE <<"unlink", "voids.json">>
        BY <1>3, <2>3 DEF Cache!Products
      <3>2. CASE builder \in surface
        BY <2>3, <3>1, <3>2 DEF Cache!Files
      <3>3. CASE builder \notin surface
        BY <2>3, <3>1, <3>3 DEF Cache!Files
      <3> QED BY <3>2, <3>3
    <2> QED BY <1>2, <2>1, <2>2, <2>3 DEF Cache!Asks
  <1>5. viewer' = [viewer EXCEPT ![r] = "build"] /\ left' = [left EXCEPT ![r] = p] /\ holder' = r
    BY <1>3 DEF Cache!Take, Cache!Goes
  <1>6. CacheTyped'
    BY <1>1, <1>4, <1>5 DEF CacheInv, CacheTyped, Cache!TypeOK
  <1>7. viewer'[r] = "build" /\ left'[r] = p /\ Only(r)
    BY <1>1, <1>5 DEF Only, CacheInv, CacheTyped, Cache!TypeOK
  <1>8. RequestFollows(r)'
    BY <1>1, <1>4, <1>7 DEF RequestFollows, Building
  <1> QED BY <1>1, <1>6, <1>7, <1>8, NothingWritten, RequestMoves DEF CacheInv

LEMMA UnlinkStep == ASSUME CacheInv, NEW r \in Viewers, Cache!Unlink(r) PROVE CacheInv'
  <1>1. /\ file' = [file EXCEPT !["voids.ccp4"] = 0] /\ torn' = torn \ {"voids.ccp4"}
        /\ left' = [left EXCEPT ![r] = Tail(@)]
        /\ UNCHANGED <<builder, wanted, surface, stamp, holder, viewer, ask, got, upsets>>
    BY DEF Cache!Unlink
  <1>2. /\ ask[r] \in {"voids", "voidmap"} /\ left[r] = <<"unlink", "voids.json">>
        /\ builder \notin surface /\ viewer[r] = "build"
    BY BuildSequences DEF Cache!Unlink, CacheInv, RequestFollows, Building
  <1>3. left' = [left EXCEPT ![r] = <<"voids.json">>]
    BY <1>1, <1>2
  <1>4. "voids.ccp4" \in Cache!Files /\ <<"voids.json">> \in Seq(Cache!Files \cup Cache!Stamps \cup {"unlink"})
    BY DEF Cache!Files
  <1>5. /\ file'["voids.ccp4"] = 0 /\ \A f \in Cache!Files : f # "voids.ccp4" => file'[f] = file[f]
        /\ left'[r] = <<"voids.json">> /\ Only(r)
    BY <1>1, <1>3, <1>4 DEF Only, CacheInv, CacheTyped, Cache!TypeOK
  <1>6. Written("voids.ccp4")' /\ FilesStay
    BY <1>1, <1>2, <1>5 DEF Written, FilesStay
  <1>7. CacheTyped'
    <2>1. file' \in [Cache!Files -> 0..MaxBuilder] /\ torn' \subseteq Cache!Files
      BY <1>1, <1>4, CacheConstants DEF CacheInv, CacheTyped, Cache!TypeOK
    <2>2. \A f \in Cache!Files : file'[f] <= builder
      <3>1. builder \in Nat
        BY CacheConstants DEF CacheInv, CacheTyped, Cache!TypeOK, Cache!Releases
      <3>2. \A f \in Cache!Files : file[f] <= builder
        BY DEF CacheInv, CacheTyped
      <3> TAKE f \in Cache!Files
      <3>3. CASE f = "voids.ccp4"
        BY <1>5, <3>1, <3>3
      <3>4. CASE f # "voids.ccp4"
        BY <1>5, <3>2, <3>4
      <3> QED BY <3>3, <3>4
    <2>3. left' \in [Viewers -> Seq(Cache!Files \cup Cache!Stamps \cup {"unlink"})]
      BY <1>3, <1>4 DEF CacheInv, CacheTyped, Cache!TypeOK
    <2> QED BY <1>1, <2>1, <2>2, <2>3 DEF CacheInv, CacheTyped, Cache!TypeOK
  <1>8. RequestFollows(r)'
    BY <1>1, <1>2, <1>5, <1>6 DEF RequestFollows, Building
  <1> QED BY <1>1, <1>5, <1>6, <1>7, <1>8, RequestMoves DEF CacheInv

LEMMA BeginStep == ASSUME CacheInv, NEW r \in Viewers, Cache!BeginWrite(r) PROVE CacheInv'
  <1>1. PICK f : f = Head(left[r])
    OBVIOUS
  <1>2. /\ viewer[r] = "build" /\ left[r] # <<>> /\ f # "unlink" /\ Building(r)
        /\ file' = [file EXCEPT ![f] = builder] /\ torn' = torn \cup {f}
        /\ viewer' = [viewer EXCEPT ![r] = "write"]
        /\ UNCHANGED <<builder, wanted, surface, stamp, holder, ask, left, got, upsets>>
    BY <1>1 DEF Cache!BeginWrite, Cache!Goes, CacheInv, RequestFollows
  <1>3. /\ f \in Cache!Files
        /\ f = "voids.ccp4" => builder \in surface
        /\ f = "voids.json" => Written("voids.ccp4")
    BY <1>1, <1>2, BuildSequences DEF Building, Cache!Files
  <1>4. /\ file'[f] = builder /\ \A g \in Cache!Files : g # f => file'[g] = file[g]
        /\ viewer'[r] = "write" /\ Only(r)
    BY <1>2, <1>3 DEF Only, CacheInv, CacheTyped, Cache!TypeOK
  <1>5. Written(f)' /\ FilesStay
    BY <1>2, <1>3, <1>4 DEF Written, FilesStay
  <1>6. Written("voids.json")' => Written("voids.ccp4")'
    <2>1. CASE f = "voids.json"
      BY <1>3, <1>5, <2>1 DEF FilesStay, Cache!Files
    <2>2. CASE f # "voids.json"
      <3>1. Written("voids.json")' => Written("voids.json")
        BY <1>2, <1>4, <2>2 DEF Written, Cache!Files
      <3> QED BY <1>5, <3>1 DEF CacheInv, FilesStay, Cache!Files
    <2> QED BY <2>1, <2>2
  <1>7. CacheTyped'
    <2>1. builder \in 0..MaxBuilder /\ builder \in Nat
      BY CacheConstants DEF CacheInv, CacheTyped, Cache!TypeOK, Cache!Releases
    <2>2. file' \in [Cache!Files -> 0..MaxBuilder] /\ torn' \subseteq Cache!Files
      BY <1>2, <1>3, <2>1 DEF CacheInv, CacheTyped, Cache!TypeOK
    <2>3. \A g \in Cache!Files : file'[g] <= builder
      BY <1>4, <2>1 DEF CacheInv, CacheTyped
    <2> QED BY <1>2, <2>2, <2>3 DEF CacheInv, CacheTyped, Cache!TypeOK
  <1>8. RequestFollows(r)'
    <2>1. Building(r)'
      <3>1. /\ Written("fofc") => Written("fofc")'
            /\ Written("peaks") => Written("peaks")'
            /\ Written("2fofc") => Written("2fofc")'
            /\ Written("voids.json") => Written("voids.json")'
            /\ Written("voids.ccp4") => Written("voids.ccp4")'
        BY <1>5 DEF FilesStay, Cache!Files
      <3> QED BY <1>2, <3>1 DEF Building
    <2> QED BY <1>1, <1>2, <1>4, <1>5, <2>1 DEF RequestFollows
  <1> QED BY <1>2, <1>4, <1>5, <1>6, <1>7, <1>8, RequestMoves DEF CacheInv

LEMMA EndStep == ASSUME CacheInv, NEW r \in Viewers, Cache!EndWrite(r) PROVE CacheInv'
  <1>1. /\ viewer' = [viewer EXCEPT ![r] = "build"] /\ left' = [left EXCEPT ![r] = Tail(left[r])]
        /\ torn' = torn \ {Head(left[r])} /\ viewer[r] = "write"
        /\ UNCHANGED <<builder, wanted, surface, file, stamp, holder, ask, got, upsets>>
    BY DEF Cache!EndWrite, Cache!Goes
  <1>2. Building(r) /\ left[r] # <<>> /\ Head(left[r]) # "unlink" /\ Written(Head(left[r]))
    BY <1>1 DEF CacheInv, RequestFollows
  <1>0. PICK l : l = left[r]
    OBVIOUS
  <1>3. PICK rest : rest = Tail(l)
    OBVIOUS
  <1>a. \/ ask[r] \in {"fofc", "peaks"} /\ rest = <<"peaks">> /\ Written("fofc")
        \/ ask[r] \in {"fofc", "peaks"} /\ rest = <<>> /\ Written("fofc") /\ Written("peaks")
        \/ ask[r] = "2fofc" /\ rest = <<>> /\ Written("2fofc")
        \/ ask[r] \in {"voids", "voidmap"} /\ rest = <<"voids.json">> /\ Written("voids.ccp4")
        \/ ask[r] \in {"voids", "voidmap"} /\ rest = <<>> /\ Written("voids.ccp4") /\ Written("voids.json")
    <2>1. l # <<>> /\ Head(l) # "unlink" /\ Written(Head(l))
      BY <1>0, <1>2
    <2>2. CASE ask[r] \in {"fofc", "peaks"}
      <3>1. \/ l = <<"fofc", "peaks">>
            \/ l = <<"peaks">> /\ Written("fofc")
        BY <1>0, <1>2, <2>1, <2>2 DEF Building
      <3>2. CASE l = <<"fofc", "peaks">>
        <4>1. rest = <<"peaks">> /\ Head(l) = "fofc"
          BY <1>3, <3>2
        <4> QED BY <2>1, <2>2, <4>1
      <3>3. CASE l = <<"peaks">> /\ Written("fofc")
        <4>1. rest = <<>> /\ Head(l) = "peaks"
          BY <1>3, <3>3
        <4> QED BY <2>1, <2>2, <3>3, <4>1
      <3> QED BY <3>1, <3>2, <3>3
    <2>3. CASE ask[r] = "2fofc"
      <3>1. l = <<"2fofc">>
        BY <1>0, <1>2, <2>1, <2>3 DEF Building
      <3> QED BY <1>3, <2>1, <2>3, <3>1
    <2>4. CASE ask[r] \in {"voids", "voidmap"}
      <3>1. \/ l = <<"voids.ccp4", "voids.json">>
            \/ l = <<"unlink", "voids.json">>
            \/ l = <<"voids.json">> /\ Written("voids.ccp4")
        BY <1>0, <1>2, <2>1, <2>4 DEF Building
      <3>2. CASE l = <<"voids.ccp4", "voids.json">>
        <4>1. rest = <<"voids.json">> /\ Head(l) = "voids.ccp4"
          BY <1>3, <3>2
        <4> QED BY <2>1, <2>4, <4>1
      <3>3. CASE l = <<"unlink", "voids.json">>
        <4>1. Head(l) = "unlink"
          BY <3>3
        <4> QED BY <2>1, <4>1
      <3>4. CASE l = <<"voids.json">> /\ Written("voids.ccp4")
        <4>1. rest = <<>> /\ Head(l) = "voids.json"
          BY <1>3, <3>4
        <4> QED BY <2>1, <2>4, <3>4, <4>1
      <3> QED BY <3>1, <3>2, <3>3, <3>4
    <2> QED BY <1>2, <2>2, <2>3, <2>4 DEF Building
  <1>4. rest \in Seq(Cache!Files \cup Cache!Stamps \cup {"unlink"})
    <2>1. rest = <<>> \/ rest = <<"peaks">> \/ rest = <<"voids.json">>
      BY <1>a
    <2>2. /\ <<"peaks">> \in Seq(Cache!Files \cup Cache!Stamps \cup {"unlink"})
          /\ <<"voids.json">> \in Seq(Cache!Files \cup Cache!Stamps \cup {"unlink"})
      BY DEF Cache!Files
    <2>3. <<>> \in Seq(Cache!Files \cup Cache!Stamps \cup {"unlink"})
      BY EmptySeq
    <2> QED BY <2>1, <2>2, <2>3
  <1>5. CacheTyped'
    BY <1>0, <1>1, <1>3, <1>4 DEF CacheInv, CacheTyped, Cache!TypeOK
  <1>6. viewer'[r] = "build" /\ left'[r] = rest /\ Only(r)
    BY <1>0, <1>1, <1>3 DEF Only, CacheInv, CacheTyped, Cache!TypeOK
  <1>7. RequestFollows(r)'
    <2>1. \A f : Written(f)' = Written(f)
      BY <1>1, NothingWritten
    <2> QED BY <1>1, <1>a, <1>6, <2>1 DEF RequestFollows, Building
  <1> QED BY <1>1, <1>5, <1>6, <1>7, NothingWritten, RequestMoves DEF CacheInv

LEMMA LeaveStep == ASSUME CacheInv, NEW r \in Viewers, Cache!Leave(r) PROVE CacheInv'
  <1>1. PICK m : m = Cache!Marks(ask[r])
    OBVIOUS
  <1>2. /\ viewer' = [viewer EXCEPT ![r] = "stamp"] /\ left' = [left EXCEPT ![r] = m] /\ holder' = None
        /\ viewer[r] = "build" /\ left[r] = <<>>
        /\ UNCHANGED <<builder, wanted, surface, file, torn, stamp, ask, got, upsets>>
    BY <1>1 DEF Cache!Leave, Cache!Goes
  <1>3. /\ Building(r) /\ ask[r] \in Cache!Asks
    BY <1>2 DEF CacheInv, CacheTyped, RequestFollows, Cache!TypeOK
  <1>4. \/ ask[r] \in {"fofc", "peaks"} /\ Written("fofc") /\ Written("peaks")
        \/ ask[r] = "2fofc" /\ Written("2fofc")
        \/ ask[r] \in {"voids", "voidmap"} /\ Written("voids.ccp4") /\ Written("voids.json")
    BY <1>2, <1>3, BuildSequences DEF Building
  <1>5. /\ m \in Seq(Cache!Files \cup Cache!Stamps \cup {"unlink"}) /\ m # <<>>
        /\ \A i \in 1..Len(m) : m[i] = "voids" \/ (m[i] \in Single /\ Written(m[i]))
        /\ Written(Cache!Answer(ask[r]))
    <2>1. CASE ask[r] = "fofc"
      <3>1. m = <<"fofc", "peaks">> /\ Cache!Answer(ask[r]) = "fofc"
        BY <1>1, <2>1 DEF Cache!Marks, Cache!Answer
      <3> QED BY <1>4, <2>1, <3>1 DEF Cache!Files, Single
    <2>2. CASE ask[r] = "peaks"
      <3>1. m = <<"peaks", "fofc">> /\ Cache!Answer(ask[r]) = "peaks"
        BY <1>1, <2>2 DEF Cache!Marks, Cache!Answer
      <3> QED BY <1>4, <2>2, <3>1 DEF Cache!Files, Single
    <2>3. CASE ask[r] = "2fofc"
      <3>1. m = <<"2fofc">> /\ Cache!Answer(ask[r]) = "2fofc"
        BY <1>1, <2>3 DEF Cache!Marks, Cache!Answer
      <3> QED BY <1>4, <2>3, <3>1 DEF Cache!Files, Single
    <2>4. CASE ask[r] \in {"voids", "voidmap"}
      <3>1. m = <<"voids">> /\ Cache!Answer(ask[r]) \in {"voids.json", "voids.ccp4"}
        BY <1>1, <2>4 DEF Cache!Marks, Cache!Answer
      <3> QED BY <1>4, <2>4, <3>1 DEF Cache!Stamps
    <2> QED BY <1>3, <2>1, <2>2, <2>3, <2>4 DEF Cache!Asks
  <1>6. CacheTyped'
    BY <1>2, <1>5 DEF CacheInv, CacheTyped, Cache!TypeOK
  <1>7. viewer'[r] = "stamp" /\ left'[r] = m /\ Only(r)
    BY <1>2 DEF Only, CacheInv, CacheTyped, Cache!TypeOK
  <1>8. RequestFollows(r)'
    <2>1. \A f : Written(f)' = Written(f)
      BY <1>2, NothingWritten
    <2>2. Cache!Answer(ask[r])' = Cache!Answer(ask[r])
      BY <1>2 DEF Cache!Answer
    <2>3. Stamping(r)'
      BY <1>5, <1>7, <2>1 DEF Stamping
    <2>4. Written(Cache!Answer(ask[r]))'
      BY <1>5, <2>1, <2>2
    <2> QED BY <1>7, <2>3, <2>4 DEF RequestFollows
  <1> QED BY <1>2, <1>6, <1>7, <1>8, NothingWritten, RequestMoves DEF CacheInv

LEMMA StampStep == ASSUME CacheInv, NEW r \in Viewers, Cache!Stamp(r) PROVE CacheInv'
  <1>0. PICK place \in {"serve", "stamp"} : place = IF Len(left[r]) = 1 THEN "serve" ELSE "stamp"
    OBVIOUS
  <1>1. /\ stamp' = [stamp EXCEPT ![Head(left[r])] = builder] /\ left' = [left EXCEPT ![r] = Tail(left[r])]
        /\ viewer[r] = "stamp" /\ viewer' = [viewer EXCEPT ![r] = place]
        /\ UNCHANGED <<builder, wanted, surface, file, torn, holder, ask, got, upsets>>
    BY <1>0 DEF Cache!Stamp, Cache!Goes
  <1>2. Stamping(r) /\ Written(Cache!Answer(ask[r]))
        /\ left[r] \in Seq(Cache!Files \cup Cache!Stamps \cup {"unlink"})
    BY <1>1 DEF CacheInv, CacheTyped, RequestFollows, Cache!TypeOK
  <1>3. PICK rest : rest = Tail(left[r])
    OBVIOUS
  <1>4. /\ rest \in Seq(Cache!Files \cup Cache!Stamps \cup {"unlink"})
        /\ Len(left[r]) \in Nat /\ Len(left[r]) > 0 /\ Len(rest) = Len(left[r]) - 1
        /\ \A i \in 1..Len(rest) : rest[i] = left[r][i + 1]
        /\ Head(left[r]) = left[r][1]
    BY <1>2, <1>3, HeadTailProperties, LenProperties, EmptySeq DEF Stamping
  <1>5. /\ Head(left[r]) = "voids" \/ (Head(left[r]) \in Single /\ Written(Head(left[r])))
        /\ Head(left[r]) \in Cache!Stamps
    BY <1>2, <1>4, CacheConstants DEF Stamping
  <1>6. \A i \in 1..Len(rest) : rest[i] = "voids" \/ (rest[i] \in Single /\ Written(rest[i]))
    <2> TAKE i \in 1..Len(rest)
    <2>1. i + 1 \in 1..Len(left[r])
      BY <1>4
    <2> QED BY <1>2, <1>4, <2>1 DEF Stamping
  <1>7. place = "stamp" => rest # <<>>
    <2> SUFFICES ASSUME rest = <<>> PROVE place # "stamp"
      OBVIOUS
    <2>1. Len(rest) = 0
      OBVIOUS
    <2> QED BY <1>0, <1>4, <2>1
  <1>8. \A f : Written(f)' = Written(f)
    BY <1>1, NothingWritten
  <1>9. CacheTyped'
    <2>1. builder \in 0..MaxBuilder /\ builder \in Nat
      BY CacheConstants DEF CacheInv, CacheTyped, Cache!TypeOK, Cache!Releases
    <2>2. stamp' \in [Cache!Stamps -> 0..MaxBuilder] /\ \A s \in Cache!Stamps : stamp'[s] <= builder
      BY <1>1, <1>5, <2>1 DEF CacheInv, CacheTyped, Cache!TypeOK
    <2>3. left' \in [Viewers -> Seq(Cache!Files \cup Cache!Stamps \cup {"unlink"})]
      BY <1>1, <1>3, <1>4 DEF CacheInv, CacheTyped, Cache!TypeOK
    <2> QED BY <1>1, <2>2, <2>3 DEF CacheInv, CacheTyped, Cache!TypeOK
  <1>10. viewer'[r] = place /\ left'[r] = rest /\ Only(r)
    BY <1>1, <1>3 DEF Only, CacheInv, CacheTyped, Cache!TypeOK
  <1>11. RequestFollows(r)'
    <2>2. Cache!Answer(ask[r])' = Cache!Answer(ask[r])
      BY <1>1 DEF Cache!Answer
    <2>3. place = "stamp" => Stamping(r)'
      BY <1>6, <1>7, <1>8, <1>10 DEF Stamping
    <2>4. Written(Cache!Answer(ask[r]))'
      BY <1>2, <1>8, <2>2
    <2> QED BY <1>10, <2>3, <2>4 DEF RequestFollows
  <1>12. \A s \in Single : stamp'[s] = builder => stamp[s] = builder \/ Written(s)'
    BY <1>1, <1>5, <1>8, CacheConstants DEF CacheInv, CacheTyped, Cache!TypeOK
  <1> QED BY <1>1, <1>8, <1>9, <1>10, <1>11, <1>12, NothingWritten, RequestMoves DEF CacheInv

LEMMA ServeStep == ASSUME CacheInv, NEW r \in Viewers, Cache!Serve(r) PROVE CacheInv'
  <1>1. UNCHANGED <<builder, wanted, surface, file, torn, stamp, holder, ask, left, upsets>>
    BY DEF Cache!Serve
  <1>2. viewer[r] = "serve" /\ ask[r] \in Cache!Asks
    BY DEF Cache!Serve, CacheInv, CacheTyped, Cache!TypeOK
  <1>3. Written(Cache!Answer(ask[r])) /\ Cache!Answer(ask[r]) \in Cache!Files
    BY <1>2, CacheConstants DEF CacheInv, RequestFollows
  <1>4. CASE viewer' = [viewer EXCEPT ![r] = "idle"] /\ UNCHANGED got
    <2>1. CacheTyped'
      BY <1>1, <1>4 DEF CacheInv, CacheTyped, Cache!TypeOK
    <2>2. viewer'[r] = "idle" /\ Only(r)
      BY <1>1, <1>4 DEF Only, CacheInv, CacheTyped, Cache!TypeOK
    <2> QED BY <1>1, <2>1, <2>2, NothingWritten, RequestMoves DEF CacheInv, RequestFollows
  <1>5. CASE /\ viewer' = [viewer EXCEPT ![r] = "served"] /\ file[Cache!Answer(ask[r])] # 0
             /\ got' = [got EXCEPT ![r] = [by |-> file[Cache!Answer(ask[r])],
                                           whole |-> Cache!Answer(ask[r]) \notin torn]]
    <2>1. file[Cache!Answer(ask[r])] = builder /\ builder \in 0..MaxBuilder
      BY <1>3, <1>5, CacheConstants DEF Written, CacheInv, CacheTyped, Cache!TypeOK, Cache!Releases
    <2>2. PICK g \in [by : 0..MaxBuilder, whole : BOOLEAN] : g.by = builder /\ got' = [got EXCEPT ![r] = g]
      <3> DEFINE g == [by |-> file[Cache!Answer(ask[r])],
                       whole |-> Cache!Answer(ask[r]) \notin torn]
      <3>1. g \in [by : 0..MaxBuilder, whole : BOOLEAN] /\ g.by = builder
        BY <2>1
      <3>2. got' = [got EXCEPT ![r] = g]
        BY <1>5
      <3> QED BY <3>1, <3>2
    <2>3. CacheTyped'
      BY <1>1, <1>5, <2>2 DEF CacheInv, CacheTyped, Cache!TypeOK
    <2>4. viewer'[r] = "served" /\ got'[r].by = builder /\ Only(r)
      BY <1>1, <1>5, <2>2 DEF Only, CacheInv, CacheTyped, Cache!TypeOK
    <2> QED BY <1>1, <2>3, <2>4, NothingWritten, RequestMoves DEF CacheInv, RequestFollows
  <1> QED BY <1>4, <1>5 DEF Cache!Serve, Cache!Goes

LEMMA FailStep == ASSUME CacheInv, NEW r \in Viewers, Cache!Fail(r) PROVE CacheInv'
  <1>1. /\ viewer' = [viewer EXCEPT ![r] = "idle"] /\ left' = [left EXCEPT ![r] = <<>>] /\ holder' = None
        /\ upsets < MaxUpsets /\ upsets' = upsets + 1
        /\ UNCHANGED <<builder, wanted, surface, file, torn, stamp, ask, got>>
    BY DEF Cache!Fail, Cache!Goes
  <1>2. CacheTyped'
    BY <1>1, EmptySeq, CacheConstants DEF CacheInv, CacheTyped, Cache!TypeOK
  <1>3. viewer'[r] = "idle" /\ Only(r)
    BY <1>1 DEF Only, CacheInv, CacheTyped, Cache!TypeOK
  <1> QED BY <1>1, <1>2, <1>3, NothingWritten, RequestMoves DEF CacheInv, RequestFollows

\* A newer release finds no stamp and no file of its own.
LEMMA RestartStep == ASSUME CacheInv, Cache!Restart PROVE CacheInv'
  <1>1. /\ upsets < MaxUpsets /\ upsets' = upsets + 1 /\ holder' = None
        /\ builder' \in Cache!Releases /\ (builder' = builder \/ builder' = builder + 1)
        /\ viewer' = [q \in Viewers |-> "idle"] /\ left' = [q \in Viewers |-> <<>>]
        /\ ask' = [q \in Viewers |-> "fofc"]
        /\ got' = [q \in Viewers |-> [by |-> 0, whole |-> TRUE]]
        /\ UNCHANGED <<wanted, surface, file, torn, stamp>>
    BY DEF Cache!Restart
  <1>2. builder \in Nat /\ builder' \in Nat /\ builder <= builder'
    BY <1>1, CacheConstants DEF CacheInv, CacheTyped, Cache!TypeOK, Cache!Releases
  <1>3. Cache!TypeOK'
    <2>1. <<>> \in Seq(Cache!Files \cup Cache!Stamps \cup {"unlink"}) /\ 0 \in 0..MaxBuilder
      BY EmptySeq, CacheConstants
    <2>2. upsets' \in 0..MaxUpsets
      BY <1>1, CacheConstants DEF CacheInv, CacheTyped, Cache!TypeOK
    <2> QED BY <1>1, <2>1, <2>2 DEF CacheInv, CacheTyped, Cache!TypeOK, Cache!Asks
  <1>4. /\ \A f \in Cache!Files : file[f] \in Nat /\ file[f] <= builder
        /\ \A s \in Cache!Stamps : stamp[s] \in Nat /\ stamp[s] <= builder
    BY CacheConstants DEF CacheInv, CacheTyped, Cache!TypeOK
  <1>5. CacheTyped'
    BY <1>1, <1>2, <1>3, <1>4 DEF CacheTyped
  <1>6. CASE builder' = builder
    <2>1. \A f : Written(f)' = Written(f)
      BY <1>1, <1>6, NothingWritten
    <2> QED BY <1>1, <1>5, <1>6, <2>1 DEF CacheInv, RequestFollows
  <1>7. CASE builder' = builder + 1
    <2>1. ~Written("voids.json")' /\ \A s \in Single : stamp'[s] # builder'
      BY <1>1, <1>2, <1>4, <1>7, CacheConstants DEF Written
    <2> QED BY <1>1, <1>5, <2>1 DEF CacheInv, RequestFollows
  <1> QED BY <1>1, <1>6, <1>7

LEMMA CacheStep == CacheInv /\ [Cache!Next]_cache => CacheInv'
  <1> SUFFICES ASSUME CacheInv, [Cache!Next]_cache PROVE CacheInv'
    OBVIOUS
  <1>1. CASE UNCHANGED cache
    <2>1. \A f : Written(f)' = Written(f)
      BY <1>1, NothingWritten DEF cache
    <2>2. \A r \in Viewers : RequestFollows(r)'
      <3> TAKE r \in Viewers
      <3>1. ask[r] \in Cache!Asks
        BY DEF CacheInv, CacheTyped, Cache!TypeOK
      <3> QED BY <1>1, <3>1, NothingWritten, OthersFollow DEF CacheInv, cache
    <2> QED BY <1>1, <2>1, <2>2 DEF CacheInv, CacheTyped, Cache!TypeOK, cache
  <1> QED BY <1>1, AskStep, LookStep, TakeStep, UnlinkStep, BeginStep, EndStep, LeaveStep, StampStep,
             ServeStep, FailStep, RestartStep DEF Cache!Next

LEMMA CacheHolds == CacheInv => Cache!TypeOK /\ Cache!ServedIsCurrent
  <1> SUFFICES ASSUME CacheInv PROVE Cache!TypeOK /\ Cache!ServedIsCurrent
    OBVIOUS
  <1>1. \A s \in Cache!Stamps \ {"voids"} : stamp[s] = builder => file[s] = builder
    BY CacheConstants DEF CacheInv, Written
  <1> QED BY <1>1 DEF CacheInv, CacheTyped, RequestFollows, Cache!ServedIsCurrent

-----------------------------------------------------------------------------
(* The cleanup.                                                            *)

Links == [is : {"own"}, bytes : Bytes] \cup [is : {"revision"}, of : Nat]
JobDirs == [hkl : Links, stripped : BOOLEAN, fcf : BOOLEAN]

\* A job's reflections are a file of its own or a revision's, never the
\* project's working file; what was taken out of its CIF is still in them.
JobKept(j) ==
  /\ jobs[j].hkl.is = "revision" => jobs[j].hkl.of \in 1..Len(revisions)
  /\ jobs[j].stripped => Clean!HklBytes(j) = wrote[j]

\* A plan deletes nothing of a job that was named before it was made.
PlanSpares ==
  plan # None => \A a \in plan : /\ a.job \in 1..Len(jobs)
                                 /\ a.kind = "link" => a.target \in 1..Len(revisions)
                                 /\ a.kind = "delete" => a.job \notin kept
                                 /\ a.kind \in {"link", "strip", "delete"}

CleanInv ==
  /\ work \in Bytes /\ revisions \in Seq(Bytes) /\ wrote \in Seq(Bytes)
  /\ jobs \in Seq(JobDirs) /\ Len(wrote) = Len(jobs)
  /\ named \subseteq 1..Len(jobs) /\ kept \subseteq named /\ turn \in BOOLEAN
  /\ \A j \in 1..Len(jobs) : JobKept(j)
  /\ \A j \in kept : jobs[j].fcf
  /\ PlanSpares

LEMMA CleanInit == Clean!Init => CleanInv
  <1> SUFFICES ASSUME Clean!Init PROVE CleanInv
    OBVIOUS
  <1>1. work \in Bytes /\ revisions = <<work>> /\ jobs = <<>> /\ wrote = <<>> /\ named = {}
        /\ turn = FALSE /\ plan = None /\ kept = {}
    BY DEF Clean!Init
  <1>2. revisions \in Seq(Bytes) /\ jobs \in Seq(JobDirs) /\ wrote \in Seq(Bytes)
        /\ Len(jobs) = 0 /\ Len(wrote) = 0
    BY <1>1, EmptySeq
  <1>3. 1..Len(jobs) = {}
    BY <1>2
  <1>4. PlanSpares
    BY <1>1 DEF PlanSpares
  <1> QED BY <1>1, <1>2, <1>3, <1>4 DEF CleanInv

\* The bytes of a job's reflections.
LEMMA BytesTyped ==
  ASSUME CleanInv, NEW j \in 1..Len(jobs)
  PROVE  /\ jobs[j] \in JobDirs /\ Clean!HklBytes(j) \in Bytes
         /\ Clean!HklBytes(j) = IF jobs[j].hkl.is = "own" THEN jobs[j].hkl.bytes
                                ELSE revisions[jobs[j].hkl.of]
  <1>1. jobs[j] \in JobDirs
    BY ElementOfSeq DEF CleanInv
  <1>2. jobs[j].hkl \in Links
    BY <1>1 DEF JobDirs
  <1>3. CASE jobs[j].hkl \in [is : {"own"}, bytes : Bytes]
    <2>1. jobs[j].hkl.is = "own" /\ jobs[j].hkl.bytes \in Bytes
      BY <1>3
    <2>2. Clean!HklBytes(j) = jobs[j].hkl.bytes
      BY <2>1 DEF Clean!HklBytes
    <2> QED BY <1>1, <2>1, <2>2
  <1>4. CASE jobs[j].hkl \in [is : {"revision"}, of : Nat]
    <2>1. jobs[j].hkl.is = "revision"
      BY <1>4
    <2>2. revisions[jobs[j].hkl.of] \in Bytes
      BY <2>1, ElementOfSeq DEF CleanInv, JobKept
    <2>3. Clean!HklBytes(j) = revisions[jobs[j].hkl.of]
      BY <2>1 DEF Clean!HklBytes
    <2> QED BY <1>1, <2>1, <2>2, <2>3
  <1> QED BY <1>2, <1>3, <1>4 DEF Links

\* The user's file changes; what jobs are made of does not.
LEMMA OutsideStep ==
  ASSUME CleanInv, work' \in Bytes, turn' \in BOOLEAN, UNCHANGED <<revisions, jobs, wrote, named, plan, kept>>
  PROVE  CleanInv'
  <1>1. \A j \in 1..Len(jobs) : Clean!HklBytes(j)' = Clean!HklBytes(j)
    <2> TAKE j \in 1..Len(jobs)
    <2>1. jobs[j] \in JobDirs
      BY BytesTyped
    <2> QED BY <2>1 DEF Clean!HklBytes, JobDirs, Links
  <1> QED BY <1>1 DEF CleanInv, JobKept, PlanSpares

LEMMA RevisionStep == CleanInv /\ Clean!NewRevision => CleanInv'
  <1> SUFFICES ASSUME CleanInv, Clean!NewRevision PROVE CleanInv'
    OBVIOUS
  <1>1. /\ revisions' = Append(revisions, work) /\ UNCHANGED <<work, jobs, wrote, named, turn, plan, kept>>
    BY DEF Clean!NewRevision
  <1>2. /\ revisions' \in Seq(Bytes) /\ Len(revisions) \in Nat /\ Len(revisions') = Len(revisions) + 1
        /\ \A r \in 1..Len(revisions) : revisions'[r] = revisions[r]
    BY <1>1, AppendProperties, LenProperties DEF CleanInv
  <1>3. 1..Len(revisions) \subseteq 1..Len(revisions')
    BY <1>2
  <1>4. \A j \in 1..Len(jobs) : JobKept(j)'
    <2> TAKE j \in 1..Len(jobs)
    <2>1. jobs[j] \in JobDirs /\ JobKept(j)
      BY BytesTyped DEF CleanInv
    <2>2. Clean!HklBytes(j)' = Clean!HklBytes(j)
      BY <1>1, <1>2, <2>1 DEF Clean!HklBytes, JobDirs, Links, JobKept
    <2> QED BY <1>1, <1>3, <2>1, <2>2 DEF JobKept
  <1> QED BY <1>1, <1>2, <1>3, <1>4 DEF CleanInv, PlanSpares

LEMMA ShelxlStep == CleanInv /\ Clean!RunShelxl => CleanInv'
  <1> SUFFICES ASSUME CleanInv, Clean!RunShelxl PROVE CleanInv'
    OBVIOUS
  <1>1. PICK hkl \in Clean!LinkOrCopy(work), block \in Bytes, stripped \in BOOLEAN :
          /\ stripped => Clean!CanStrip(work, block)
          /\ jobs' = Append(jobs, [hkl |-> hkl, stripped |-> stripped, fcf |-> TRUE])
          /\ wrote' = Append(wrote, block)
    BY DEF Clean!RunShelxl
  <1>2. UNCHANGED <<work, revisions, named, turn, plan, kept>>
    BY DEF Clean!RunShelxl
  <1>3. PICK d : d = [hkl |-> hkl, stripped |-> stripped, fcf |-> TRUE]
    OBVIOUS
  <1>4. \/ hkl = [is |-> "own", bytes |-> work]
        \/ \E r \in 1..Len(revisions) : hkl = [is |-> "revision", of |-> r] /\ revisions[r] = work
    BY DEF Clean!LinkOrCopy, Clean!Own, Clean!LinkTo, Clean!Revisions
  <1>5. hkl \in Links /\ (hkl.is = "revision" => hkl.of \in 1..Len(revisions))
    BY <1>4, LenProperties DEF CleanInv, Links
  <1>6. d \in JobDirs /\ d.hkl = hkl /\ d.stripped = stripped
    BY <1>3, <1>5 DEF JobDirs
  <1>7. /\ jobs' \in Seq(JobDirs) /\ Len(jobs) \in Nat /\ Len(jobs') = Len(jobs) + 1
        /\ jobs'[Len(jobs) + 1] = d /\ \A j \in 1..Len(jobs) : jobs'[j] = jobs[j]
    BY <1>1, <1>3, <1>6, AppendProperties, LenProperties DEF CleanInv
  <1>8. /\ wrote' \in Seq(Bytes) /\ Len(wrote') = Len(jobs) + 1
        /\ wrote'[Len(jobs) + 1] = block /\ \A j \in 1..Len(jobs) : wrote'[j] = wrote[j]
    BY <1>1, AppendProperties, LenProperties DEF CleanInv
  <1>9. ASSUME NEW j \in 1..Len(jobs') PROVE JobKept(j)'
    <2>1. CASE j \in 1..Len(jobs)
      <3>1. jobs[j] \in JobDirs /\ JobKept(j)
        BY <2>1, BytesTyped DEF CleanInv
      <3>2. Clean!HklBytes(j)' = Clean!HklBytes(j)
        BY <1>2, <1>7, <2>1, <3>1 DEF Clean!HklBytes, JobDirs, Links
      <3> QED BY <1>2, <1>7, <1>8, <2>1, <3>1, <3>2 DEF JobKept
    <2>2. CASE j = Len(jobs) + 1
      <3>1. Clean!HklBytes(j)' = work
        BY <1>2, <1>4, <1>6, <1>7, <2>2 DEF Clean!HklBytes
      <3> QED BY <1>1, <1>2, <1>5, <1>6, <1>7, <1>8, <2>2, <3>1 DEF JobKept, Clean!CanStrip
    <2> QED BY <1>7, <2>1, <2>2
  <1>10. 1..Len(jobs) \subseteq 1..Len(jobs')
    BY <1>7
  <1>11. \A j \in kept : jobs'[j] = jobs[j]
    BY <1>7 DEF CleanInv
  <1> QED BY <1>2, <1>7, <1>8, <1>9, <1>10, <1>11 DEF CleanInv, PlanSpares

LEMMA NameStep == ASSUME CleanInv, NEW j \in 1..MaxJobs, Clean!Name(j) PROVE CleanInv'
  <1>1. /\ j \in 1..Len(jobs) /\ named' = named \cup {j}
        /\ kept' = IF plan = None /\ jobs[j].fcf THEN kept \cup {j} ELSE kept
        /\ UNCHANGED <<work, revisions, jobs, wrote, turn, plan>>
    BY DEF Clean!Name, Clean!Jobs
  <1>2. \A i \in 1..Len(jobs) : Clean!HklBytes(i)' = Clean!HklBytes(i)
    BY <1>1 DEF Clean!HklBytes
  <1>3. PlanSpares'
    BY <1>1 DEF CleanInv, PlanSpares
  <1> QED BY <1>1, <1>2, <1>3 DEF CleanInv, JobKept

LEMMA PlanStep == CleanInv /\ Clean!PlanCleanup => CleanInv'
  <1> SUFFICES ASSUME CleanInv, Clean!PlanCleanup PROVE CleanInv'
    OBVIOUS
  <1>1. plan' = Clean!Plan /\ UNCHANGED <<work, revisions, jobs, wrote, named, turn, kept>>
    BY DEF Clean!PlanCleanup
  <1>2. \A i \in 1..Len(jobs) : Clean!HklBytes(i)' = Clean!HklBytes(i)
    BY <1>1 DEF Clean!HklBytes
  <1>3. ASSUME NEW a \in Clean!Plan
        PROVE  /\ a.job \in 1..Len(jobs)
               /\ a.kind = "link" => a.target \in 1..Len(revisions)
               /\ a.kind = "delete" => a.job \notin kept
               /\ a.kind \in {"link", "strip", "delete"}
    <2>0. \/ \E j \in 1..Len(jobs) : \E r \in 1..Len(revisions) : a = Clean!Action("link", j, r)
          \/ \E j \in 1..Len(jobs) : a = Clean!Action("strip", j, None)
          \/ \E j \in 1..Len(jobs) : j \notin named /\ a = Clean!Action("delete", j, None)
      <3>1. a \in Clean!Plan
        BY <1>3
      <3> QED BY <3>1 DEF Clean!Plan, Clean!Jobs, Clean!Revisions, Clean!Referenced
    <2>1. CASE \E j \in 1..Len(jobs), r \in 1..Len(revisions) : a = Clean!Action("link", j, r)
      BY <2>1 DEF Clean!Action
    <2>2. CASE \E j \in 1..Len(jobs) : a = Clean!Action("strip", j, None)
      BY <2>2 DEF Clean!Action
    <2>3. CASE \E j \in 1..Len(jobs) : j \notin named /\ a = Clean!Action("delete", j, None)
      BY <2>3 DEF CleanInv, Clean!Action
    <2> QED BY <2>0, <2>1, <2>2, <2>3
  <1> QED BY <1>1, <1>2, <1>3 DEF CleanInv, JobKept, PlanSpares

LEMMA ApplyStep == CleanInv /\ Clean!Apply => CleanInv'
  <1> SUFFICES ASSUME CleanInv, Clean!Apply PROVE CleanInv'
    OBVIOUS
  <1>1. PICK a \in plan :
          /\ plan' = IF plan = {a} THEN None ELSE plan \ {a}
          /\ jobs' = IF Clean!StillHolds(a) THEN [jobs EXCEPT ![a.job] = Clean!Done(a)] ELSE jobs
    BY DEF Clean!Apply
  <1>2. plan # None /\ UNCHANGED <<work, revisions, wrote, named, turn, kept>>
    BY DEF Clean!Apply
  <1>3. PICK j \in 1..Len(jobs) : j = a.job
    BY <1>1, <1>2 DEF CleanInv, PlanSpares
  <1>4. /\ a.kind = "link" => a.target \in 1..Len(revisions)
        /\ a.kind = "delete" => j \notin kept
        /\ a.kind \in {"link", "strip", "delete"}
    BY <1>1, <1>2, <1>3 DEF CleanInv, PlanSpares
  <1>5. jobs[j] \in JobDirs /\ JobKept(j)
    BY BytesTyped DEF CleanInv
  <1>6. PlanSpares' \/ Len(jobs') # Len(jobs)
    BY <1>1, <1>2 DEF CleanInv, PlanSpares
  <1>7. CASE ~Clean!StillHolds(a)
    <2>1. UNCHANGED jobs
      BY <1>1, <1>7
    <2>2. \A i \in 1..Len(jobs) : Clean!HklBytes(i)' = Clean!HklBytes(i)
      BY <1>2, <2>1 DEF Clean!HklBytes
    <2> QED BY <1>2, <1>6, <2>1, <2>2 DEF CleanInv, JobKept
  <1>8. CASE Clean!StillHolds(a)
    <2>1. PICK d : d = Clean!Done(a)
      OBVIOUS
    <2>2. /\ d \in JobDirs /\ (d.fcf = jobs[j].fcf \/ j \notin kept)
          /\ d.hkl.is = "revision" => d.hkl.of \in 1..Len(revisions)
          /\ (IF d.hkl.is = "own" THEN d.hkl.bytes ELSE revisions[d.hkl.of]) = Clean!HklBytes(j)
          /\ d.stripped => Clean!HklBytes(j) = wrote[j]
      <3>0. Clean!HklBytes(j) = IF jobs[j].hkl.is = "own" THEN jobs[j].hkl.bytes
                                 ELSE revisions[jobs[j].hkl.of]
        BY BytesTyped
      <3>1. CASE a.kind = "link"
        <4>1. PICK r \in 1..Len(revisions) : r = a.target
          BY <1>4, <3>1
        <4>2. d = [jobs[j] EXCEPT !.hkl = [is |-> "revision", of |-> r]]
          BY <1>3, <2>1, <3>1, <4>1 DEF Clean!Done, Clean!LinkTo
        <4>3. Clean!HklBytes(j) = revisions[r]
          BY <1>3, <1>8, <3>1, <4>1 DEF Clean!StillHolds
        <4>4. [is |-> "revision", of |-> r] \in Links
          BY DEF Links
        <4>5. /\ d \in JobDirs /\ d.hkl = [is |-> "revision", of |-> r]
              /\ d.fcf = jobs[j].fcf /\ d.stripped = jobs[j].stripped
          BY <1>5, <4>2, <4>4 DEF JobDirs
        <4> QED BY <1>5, <4>3, <4>5 DEF JobKept
      <3>2. CASE a.kind = "strip"
        <4>1. d = [jobs[j] EXCEPT !.stripped = TRUE]
          BY <1>3, <2>1, <3>2 DEF Clean!Done
        <4>2. Clean!HklBytes(j) = wrote[j]
          BY <1>3, <1>8, <3>2 DEF Clean!StillHolds, Clean!CanStrip
        <4>3. d \in JobDirs /\ d.hkl = jobs[j].hkl /\ d.fcf = jobs[j].fcf
          BY <1>5, <4>1 DEF JobDirs
        <4> QED BY <1>5, <3>0, <4>2, <4>3 DEF JobKept
      <3>3. CASE a.kind = "delete"
        <4>1. d = [jobs[j] EXCEPT !.fcf = FALSE]
          BY <1>3, <2>1, <3>3 DEF Clean!Done
        <4>2. d \in JobDirs /\ d.hkl = jobs[j].hkl /\ d.stripped = jobs[j].stripped
          BY <1>5, <4>1 DEF JobDirs
        <4> QED BY <1>4, <1>5, <3>0, <3>3, <4>2 DEF JobKept
      <3> QED BY <1>4, <3>1, <3>2, <3>3
    <2>3. jobs' = [jobs EXCEPT ![j] = d]
      BY <1>1, <1>3, <1>8, <2>1
    <2>4. /\ jobs' \in Seq(JobDirs) /\ Len(jobs') = Len(jobs)
          /\ \A i \in 1..Len(jobs) : jobs'[i] = IF i = j THEN d ELSE jobs[i]
      BY <2>2, <2>3, ExceptSeq DEF CleanInv
    <2>5. \A i \in 1..Len(jobs) : JobKept(i)'
      <3> TAKE i \in 1..Len(jobs)
      <3>1. jobs[i] \in JobDirs /\ JobKept(i)
        BY BytesTyped DEF CleanInv
      <3>2. CASE i = j
        <4>1. d.hkl.is \in {"own", "revision"}
          BY <2>2 DEF JobDirs, Links
        <4>2. Clean!HklBytes(i)' = Clean!HklBytes(j)
          BY <1>2, <2>2, <2>4, <3>2, <4>1 DEF Clean!HklBytes
        <4> QED BY <1>2, <2>2, <2>4, <3>2, <4>2 DEF JobKept
      <3>3. CASE i # j
        <4>1. Clean!HklBytes(i)' = Clean!HklBytes(i)
          BY <1>2, <2>4, <3>3 DEF Clean!HklBytes
        <4> QED BY <1>2, <2>4, <3>1, <3>3, <4>1 DEF JobKept
      <3> QED BY <3>2, <3>3
    <2>6. \A i \in kept : jobs'[i].fcf
      BY <2>2, <2>4 DEF CleanInv
    <2> QED BY <1>2, <1>6, <2>4, <2>5, <2>6 DEF CleanInv
  <1> QED BY <1>7, <1>8

LEMMA CleanStep == CleanInv /\ [Clean!Next]_cleanup => CleanInv'
  <1> SUFFICES ASSUME CleanInv, [Clean!Next]_cleanup PROVE CleanInv'
    OBVIOUS
  <1>1. CASE UNCHANGED cleanup
    BY <1>1, OutsideStep DEF cleanup, CleanInv
  <1>2. CASE \E bytes \in Bytes : Clean!EditInPlace(bytes)
    BY <1>2, OutsideStep DEF Clean!EditInPlace, CleanInv
  <1>3. CASE Clean!TurnBegins \/ Clean!TurnEnds
    BY <1>3, OutsideStep DEF Clean!TurnBegins, Clean!TurnEnds, CleanInv
  <1> QED BY <1>1, <1>2, <1>3, RevisionStep, ShelxlStep, NameStep, PlanStep, ApplyStep DEF Clean!Next

LEMMA CleanHolds ==
  CleanInv => Clean!TypeOK /\ Clean!RestoredIsOriginal /\ Clean!NamedJobsAreKept
  <1> SUFFICES ASSUME CleanInv
               PROVE  Clean!TypeOK /\ Clean!RestoredIsOriginal /\ Clean!NamedJobsAreKept
    OBVIOUS
  <1>1. \A j \in 1..Len(jobs) : Clean!HklBytes(j) \in Bytes /\ jobs[j].stripped \in BOOLEAN
    BY BytesTyped DEF JobDirs
  <1> QED BY <1>1 DEF CleanInv, JobKept, Clean!TypeOK, Clean!RestoredIsOriginal,
                      Clean!NamedJobsAreKept, Clean!Jobs

-----------------------------------------------------------------------------
(* Specialist turns.                                                       *)

Whys == {None, "failed", "cancelled", "timeout"}
Tasks == {"none", "workbench", "task"}
SupPlaces == {"snapshot", "wait", "look", "grace", "verdict", "record", "done"}

ConsultInv ==
  /\ Consult!TypeOK
  /\ sup \in [at : SupPlaces, why : Whys, task : Tasks]

LEMMA ConsultInit == Consult!Init => ConsultInv
  BY DEF Consult!Init, ConsultInv, Consult!TypeOK, Whys, Tasks, SupPlaces

LEMMA SupervisorStep == ASSUME ConsultInv, Consult!Supervisor PROVE ConsultInv'
  <1>1. PICK s : s = sup
    OBVIOUS
  <1>2. /\ s \in [at : SupPlaces, why : Whys, task : Tasks] /\ s.why \in Whys /\ s.task \in Tasks
        /\ s = [at |-> s.at, why |-> s.why, task |-> s.task]
    BY <1>1 DEF ConsultInv
  <1>3. runtime \in Tasks /\ Consult!WhyStop \in Whys
    BY DEF ConsultInv, Consult!TypeOK, Consult!WhyStop, Tasks, Whys
  <1> USE DEF Consult!outside, Consult!sdk
  <1>5. CASE Consult!Snapshot
    <2>1. CASE sup' = [sup EXCEPT !.at = "record", !.why = Consult!WhyStop] /\ UNCHANGED <<worker, consultation>>
      <3>1. PICK w : w = Consult!WhyStop
        OBVIOUS
      <3>2. sup' = [at |-> "record", why |-> w, task |-> s.task]
        BY <1>1, <1>2, <2>1, <3>1
      <3> QED BY <1>2, <1>3, <1>5, <2>1, <3>1, <3>2 DEF Consult!Snapshot, ConsultInv, Consult!TypeOK, SupPlaces
    <2>2. CASE sup' = [sup EXCEPT !.at = "record", !.why = "failed"] /\ UNCHANGED <<worker, consultation>>
      <3>1. sup' = [at |-> "record", why |-> "failed", task |-> s.task]
        BY <1>1, <1>2, <2>2
      <3> QED BY <1>2, <1>5, <2>2, <3>1 DEF Consult!Snapshot, ConsultInv, Consult!TypeOK, SupPlaces, Whys
    <2>3. CASE sup' = [sup EXCEPT !.at = "wait"] /\ consultation' = "running" /\ worker' = "build"
      <3>1. sup' = [at |-> "wait", why |-> s.why, task |-> s.task]
        BY <1>1, <1>2, <2>3
      <3> QED BY <1>2, <1>5, <2>3, <3>1 DEF Consult!Snapshot, ConsultInv, Consult!TypeOK, SupPlaces
    <2> QED BY <1>5, <2>1, <2>2, <2>3 DEF Consult!Snapshot
  <1>6. CASE Consult!Interrupt
    <2>1. PICK w : w = Consult!WhyStop
      OBVIOUS
    <2>2. sup' = [at |-> "look", why |-> w, task |-> s.task]
      BY <1>1, <1>2, <1>6, <2>1 DEF Consult!Interrupt
    <2> QED BY <1>2, <1>3, <1>6, <2>1, <2>2 DEF Consult!Interrupt, ConsultInv, Consult!TypeOK, SupPlaces
  <1>7. CASE Consult!LookAtRuntime
    <2>1. sup' = [at |-> "grace", why |-> s.why, task |-> runtime]
      BY <1>1, <1>2, <1>7 DEF Consult!LookAtRuntime
    <2> QED BY <1>2, <1>3, <1>7, <2>1 DEF Consult!LookAtRuntime, ConsultInv, Consult!TypeOK, SupPlaces
  <1>8. CASE Consult!GraceEnds
    <2>1. sup' = [at |-> "record", why |-> s.why, task |-> s.task]
      BY <1>1, <1>2, <1>8 DEF Consult!GraceEnds
    <2> QED BY <1>2, <1>8, <2>1 DEF Consult!GraceEnds, ConsultInv, Consult!TypeOK, SupPlaces
  <1>9. CASE Consult!TakeReply
    <2>1. PICK place : place = IF Consult!Stop \/ replies = "error" THEN "record" ELSE "verdict"
      OBVIOUS
    <2>2. PICK w : w = IF Consult!Stop THEN Consult!WhyStop
                       ELSE IF replies = "error" THEN "failed" ELSE None
      OBVIOUS
    <2>3. place \in SupPlaces /\ w \in Whys
      BY <1>3, <2>1, <2>2 DEF SupPlaces, Whys
    <2>4. sup' = [at |-> place, why |-> w, task |-> s.task]
      BY <1>1, <1>2, <1>9, <2>1, <2>2 DEF Consult!TakeReply
    <2>5. sup' \in [at : SupPlaces, why : Whys, task : Tasks] /\ sup'.at \in SupPlaces
      BY <1>2, <2>3, <2>4
    <2> QED BY <1>9, <2>5 DEF Consult!TakeReply, ConsultInv, Consult!TypeOK, SupPlaces
  <1>10. CASE Consult!Publish
    <2>1. CASE sup' = [sup EXCEPT !.at = "record", !.why = Consult!WhyStop] /\ UNCHANGED consultation
      <3>1. PICK w : w = Consult!WhyStop
        OBVIOUS
      <3>2. sup' = [at |-> "record", why |-> w, task |-> s.task]
        BY <1>1, <1>2, <2>1, <3>1
      <3> QED BY <1>2, <1>3, <1>10, <2>1, <3>1, <3>2 DEF Consult!Publish, ConsultInv, Consult!TypeOK, SupPlaces
    <2>2. CASE sup' = [sup EXCEPT !.at = "done"] /\ consultation' = "completed"
      <3>1. sup' = [at |-> "done", why |-> s.why, task |-> s.task]
        BY <1>1, <1>2, <2>2
      <3> QED BY <1>2, <1>10, <2>2, <3>1 DEF Consult!Publish, ConsultInv, Consult!TypeOK, SupPlaces
    <2> QED BY <1>10, <2>1, <2>2 DEF Consult!Publish
  <1>11. CASE Consult!Record
    <2>1. sup' = [at |-> "done", why |-> s.why, task |-> s.task] /\ consultation' = s.why
      BY <1>1, <1>2, <1>11 DEF Consult!Record
    <2> QED BY <1>2, <1>11, <2>1 DEF Consult!Record, ConsultInv, Consult!TypeOK, SupPlaces, Whys
  <1> QED BY <1>5, <1>6, <1>7, <1>8, <1>9, <1>10, <1>11 DEF Consult!Supervisor

LEMMA WorkerStep == ASSUME ConsultInv, Consult!Worker PROVE ConsultInv'
  <1>1. UNCHANGED <<sup, interrupted, closer, blocked, stopped, overdue, consultation>>
    BY DEF Consult!Worker, Consult!Build, Consult!Register, Consult!Enter, Consult!StartEngine,
           Consult!StartFails, Consult!NewTask, Consult!Turn, Consult!Leave, Consult!outside
  <1>2. /\ worker' \in {"none", "build", "register", "enter", "start", "task", "turn", "leave", "ended"}
        /\ engine' \in {"none", "built", "running", "closed"}
        /\ runtime' \in {"none", "workbench", "task"} /\ replies' \in {None, "verdict", "error"}
    BY DEF ConsultInv, Consult!TypeOK, Consult!Worker, Consult!Build, Consult!Register,
           Consult!Enter, Consult!StartEngine, Consult!StartFails, Consult!NewTask,
           Consult!Turn, Consult!Leave, Consult!Goes, Consult!Replies, Consult!outside
  <1> QED BY <1>1, <1>2 DEF ConsultInv, Consult!TypeOK

LEMMA ConsultStep == ConsultInv /\ [Consult!Next]_consult => ConsultInv'
  <1> SUFFICES ASSUME ConsultInv, [Consult!Next]_consult PROVE ConsultInv'
    OBVIOUS
  <1>1. CASE UNCHANGED consult
    BY <1>1 DEF ConsultInv, Consult!TypeOK, consult
  <1>2. CASE Consult!Closer
    BY <1>2 DEF ConsultInv, Consult!TypeOK, Consult!Closer, Consult!outside
  <1>3. CASE Consult!Block
    <2>1. PICK who \in {"worker", "closer"} : blocked' = blocked \cup {who}
      BY <1>3 DEF Consult!Block
    <2>2. UNCHANGED <<sup, worker, engine, runtime, replies, interrupted, closer, consultation>>
      BY <1>3 DEF Consult!Block, Consult!sdk
    <2>3. blocked' \subseteq {"worker", "closer"}
      BY <2>1 DEF ConsultInv, Consult!TypeOK
    <2> QED BY <2>2, <2>3 DEF ConsultInv, Consult!TypeOK
  <1>4. CASE Consult!Cancel
    <2>1. UNCHANGED <<sup, worker, engine, runtime, replies, closer, blocked, consultation>>
      BY <1>4 DEF Consult!Cancel, Consult!sdk
    <2> QED BY <2>1 DEF ConsultInv, Consult!TypeOK
  <1>5. CASE Consult!DeadlinePasses
    <2>1. UNCHANGED <<sup, worker, engine, runtime, replies, closer, blocked, consultation>>
      BY <1>5 DEF Consult!DeadlinePasses, Consult!sdk
    <2> QED BY <2>1 DEF ConsultInv, Consult!TypeOK
  <1> QED BY <1>1, <1>2, <1>3, <1>4, <1>5, SupervisorStep, WorkerStep DEF Consult!Next

-----------------------------------------------------------------------------
(* The version store, whose proofs are those of NodePublication_proofs: the *)
(* definitions of that instance are the ones of the instance in Artifacts.  *)

Store == INSTANCE NodePublication_proofs WITH
  MaxFaults <- MaxStoreFaults, MaxEdits <- MaxStoreEdits

LEMMA SameInit == Switch!Init = Store!Init
  BY Zenon DEF Switch!Init, Switch!NoOp, Switch!Empty, Switch!Nodes, Switch!Datas,
    Switch!Tokens, Store!Init, Store!NoOp, Store!Empty, Store!Nodes, Store!Datas,
    Store!Tokens

LEMMA SameSteps == Switch!Next = Store!Next
  BY Zenon DEF Switch!Next, Switch!WorkerStep, Switch!NothingPending, Switch!RecoverNode,
    Switch!RecoverData, Switch!RecoverCommitted, Switch!CheckAlias, Switch!ReplaceAlias,
    Switch!AliasesDone, Switch!Unlink, Switch!StageInput, Switch!StageModel,
    Switch!CancelBeforeMark, Switch!WriteMarker, Switch!PublishData, Switch!PublishNode,
    Switch!CancelBeforeSave, Switch!SaveState, Switch!PointNowhere, Switch!PointRefused,
    Switch!PointMark, Switch!PointSave, Switch!Touch, Switch!Begin, Switch!Crash,
    Switch!IOError, Switch!UserEdit, Switch!UserRestore, Switch!Requests, Switch!NoOp,
    Switch!Empty, Switch!Nodes, Switch!Return, Switch!Raise, Switch!Step,
    Switch!FirstStep, Switch!Recovered, Switch!Committed, Switch!WalkJournal,
    Switch!NodeToUndo, Switch!Verdict, Switch!NewTxn, Switch!Journal,
    Switch!StagedInputs, Switch!SessionExperiments, Switch!NodeInputs,
    Switch!CommittedState, Switch!TargetData, Switch!WantedInputs, Switch!PointedState,
    Switch!journalVars, Switch!diskVars, Switch!workVars, Switch!counters,
    Store!Next, Store!WorkerStep, Store!NothingPending, Store!RecoverNode,
    Store!RecoverData, Store!RecoverCommitted, Store!CheckAlias, Store!ReplaceAlias,
    Store!AliasesDone, Store!Unlink, Store!StageInput, Store!StageModel,
    Store!CancelBeforeMark, Store!WriteMarker, Store!PublishData, Store!PublishNode,
    Store!CancelBeforeSave, Store!SaveState, Store!PointNowhere, Store!PointRefused,
    Store!PointMark, Store!PointSave, Store!Touch, Store!Begin, Store!Crash,
    Store!IOError, Store!UserEdit, Store!UserRestore, Store!Requests, Store!NoOp,
    Store!Empty, Store!Nodes, Store!Return, Store!Raise, Store!Step,
    Store!FirstStep, Store!Recovered, Store!Committed, Store!WalkJournal,
    Store!NodeToUndo, Store!Verdict, Store!NewTxn, Store!Journal,
    Store!StagedInputs, Store!SessionExperiments, Store!NodeInputs,
    Store!CommittedState, Store!TargetData, Store!WantedInputs, Store!PointedState,
    Store!journalVars, Store!diskVars, Store!workVars, Store!counters

\* What the constants of Artifacts say of the store's.
LEMMA StoreAssumptions ==
  /\ MaxTxn \in Nat /\ MaxRev \in Nat /\ MaxStoreFaults \in Nat /\ MaxStoreEdits \in Nat
  /\ Hkl \in Names /\ Ctx \in Names /\ Hkl # Ctx
  /\ None \notin Nat \cup Edits \cup Names /\ None \notin Store!Markers
  <1>1. Switch!Markers = Store!Markers
    BY Zenon DEF Switch!Markers, Switch!Maybe, Switch!Nodes, Switch!Tokens, Switch!Datas,
      Store!Markers, Store!Maybe, Store!Nodes, Store!Tokens, Store!Datas
  <1> QED BY <1>1, BoundsAssumption, AliasAssumption, NoneAssumption

LEMMA SwitchInit == Switch!Init => Store!StoreInv /\ Store!DataInv
  BY SameInit, StoreAssumptions, Store!StoreInit, Store!DataInit

LEMMA SwitchStep ==
  Store!StoreInv /\ Store!DataInv /\ [Switch!Next]_switch => (Store!StoreInv /\ Store!DataInv)'
  <1>1. ASSUME UNCHANGED switch PROVE UNCHANGED Store!vars
    BY <1>1 DEF switch, Store!vars, Store!diskVars, Store!journalVars, Store!workVars,
                Store!counters
  <1> QED BY <1>1, SameSteps, StoreAssumptions, Store!StoreStep, Store!DataStep

LEMMA SwitchHolds == Store!StoreInv /\ Store!DataInv => Switch!WorkingDataIsActive
  <1>1. Switch!WorkingDataIsActive = Store!WorkingDataIsActive
    BY Zenon DEF Switch!WorkingDataIsActive, Switch!ActiveIsPublished,
                 Store!WorkingDataIsActive, Store!ActiveIsPublished
  <1> QED BY <1>1, StoreAssumptions, Store!DataHolds

-----------------------------------------------------------------------------
(* The whole.                                                              *)

\* A step of the whole is a step of each part, or leaves it as it is.
LEMMA PartsMove ==
  ASSUME [Next]_vars
  PROVE  /\ [Switch!Next]_switch /\ [Delivery!Next]_delivery /\ [Checkcif!Next]_checkcif
         /\ [Consult!Next]_consult /\ [Cache!Next]_cache /\ [Clean!Next]_cleanup
  BY Zenon DEF Next, vars, Switched, Delivered, Checked, Consulted, Cached, Cleaned

\* When nothing is pending the working crystal.hkl holds the reflections of the
\* data revision that the active node was bound to, or what the user put there,
\* over any number of transactions, undone ones and pointers from one data
\* revision to another (finish_aliases, pointer_aliases, InputStage.prepare).
THEOREM WorkingDataFollows == Spec => []WorkingDataIsActive
  <1> DEFINE Inv == Store!StoreInv /\ Store!DataInv
  <1>1. Init => Inv
    BY SwitchInit DEF Init
  <1>2. Inv /\ [Next]_vars => Inv'
    BY SwitchStep, PartsMove
  <1>3. Inv => WorkingDataIsActive
    BY SwitchHolds DEF WorkingDataIsActive
  <1> HIDE DEF Inv
  <1> QED BY <1>1, <1>2, <1>3, PTL DEF Spec

\* Nothing is vouched for too early, whatever is rewritten, checked again or
\* cut off in between: a delivery marked "final" was seen, as it is, by a
\* complete checkCIF run, with a reason for each alert and unresolved item
\* (finalize_delivery); a checkCIF report that is published has PLATON's last
\* block and nobody is left to write to it (run_platon), as long as PLATON is
\* never silent for STABLE_S while it has more to say; what is shown of a map,
\* a peak table or a void was computed by the running release (cached_fofc,
\* cached_peaks, cached_voids).
THEOREM EvidenceHasBeenEarned == Spec => []EvidenceIsEarned
  <1> DEFINE Inv == DeliveryInv /\ CheckcifInv /\ CacheInv
  <1>1. Init => Inv
    BY DeliveryInit, CheckcifInit, CacheInit DEF Init
  <1>2. Inv /\ [Next]_vars => Inv'
    BY DeliveryStep, CheckcifStep, CacheStep, PartsMove
  <1>3. Inv => EvidenceIsEarned
    BY CheckcifHolds, CacheHolds DEF DeliveryInv, EvidenceIsEarned
  <1> HIDE DEF Inv
  <1> QED BY <1>1, <1>2, <1>3, PTL DEF Spec

\* A job's reflection list can be put back as SHELXL read it after a cleanup
\* has replaced the list by a link and cut it out of the CIF, and a job that
\* was named before a plan was made keeps its structure factors
\* (plan_cleanup, apply_cleanup).
THEOREM FilesSurviveCleanups == Spec => []FilesSurvive
  <1>1. Init => CleanInv
    BY CleanInit DEF Init
  <1>2. CleanInv /\ [Next]_vars => CleanInv'
    BY CleanStep, PartsMove
  <1>3. CleanInv => FilesSurvive
    BY CleanHolds DEF FilesSurvive
  <1> QED BY <1>1, <1>2, <1>3, PTL DEF Spec

\* Every state of every component has its type; in particular what a
\* consultation has on record is one of its answers (ConsultSpecialist.run),
\* and nothing is written by a release that does not exist (build_fofc_ccp4).
THEOREM TypesHold == Spec => []TypeOK
  <1> DEFINE Inv == DeliveryInv /\ CheckcifInv /\ ConsultInv /\ CacheInv /\ CleanInv
  <1>1. Init => Inv
    BY DeliveryInit, CheckcifInit, ConsultInit, CacheInit, CleanInit DEF Init
  <1>2. Inv /\ [Next]_vars => Inv'
    BY DeliveryStep, CheckcifStep, ConsultStep, CacheStep, CleanStep, PartsMove
  <1>3. Inv => TypeOK
    BY CheckcifHolds, CacheHolds, CleanHolds DEF DeliveryInv, ConsultInv, TypeOK
  <1> HIDE DEF Inv
  <1> QED BY <1>1, <1>2, <1>3, PTL DEF Spec
=============================================================================
