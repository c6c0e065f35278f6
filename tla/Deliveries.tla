----------------------------- MODULE Deliveries -----------------------------
(* A delivery directory (crystalpilot/refine/tools_deliver.py and          *)
(* provenance.py): write_outputs fills it from the active node,            *)
(* run_checkcif validates its final.cif and finalize_delivery promotes it  *)
(* to "final" or seals it as "diagnostic".  The project lock admits one    *)
(* call at a time, but each call writes several files and may die, or      *)
(* raise, between any two of them.                                         *)
EXTENDS Naturals

CONSTANTS Nodes,
          MaxWrites,  \* bound: write_outputs calls that get as far as final.cif
          MaxChecks,  \* bound: checkCIF attempts
          MaxDeaths,  \* bound: calls that end between two of their files
          None

Items == {"alert", "unresolved"}  \* an A alert of checkCIF, an entry of REPORT.json

VARIABLES
  active,    \* the project's active node
  cif,       \* final.cif: its write, the status in its header; .proof is
             \* history: the check that its promotion went by
  fcf,       \* final.fcf: its write
  report,    \* REPORT.json; .write and .proof are history: the write_outputs
             \* that wrote it, the check it was sealed by
  manifest,  \* MANIFEST.json: the delivery revision and status it states
  check,     \* checkcif.json; .saw is history: the final.cif PLATON was given
  call,      \* the call under way
  writes, checks, deaths

vars == <<active, cif, fcf, report, manifest, check, call, writes, checks, deaths>>
bounds == <<writes, checks, deaths>>

Idle == [at |-> "none"]
NoSource == [kind |-> "file", node |-> None, revision |-> None]

Init ==
  /\ active \in Nodes
  /\ cif = None /\ fcf = None /\ report = None /\ manifest = None /\ check = None
  /\ call = Idle /\ writes = 0 /\ checks = 0 /\ deaths = 0

\* The state of the project moves on between two calls.
Checkout(n) ==
  /\ call = Idle /\ n # active /\ active' = n
  /\ UNCHANGED <<cif, fcf, report, manifest, check, call, bounds>>

-----------------------------------------------------------------------------
(* write_outputs.                                                           *)

\* Bug variant: the first delivery of a directory is number 0.
FromZero == IF report = None THEN 0 ELSE report.revision + 1

NextRevision == IF report = None THEN 1 ELSE report.revision + 1

\* "final" is written as "provisional"; only finalize_delivery grants it.
BeginWrite(asked) ==
  /\ call = Idle /\ writes < MaxWrites
  /\ call' = [at |-> "cif", node |-> active, revision |-> NextRevision,
              status |-> IF asked = "final" THEN "provisional" ELSE asked]
  /\ UNCHANGED <<active, cif, fcf, report, manifest, check, bounds>>

\* final.cif of a matching SHELXL job or of the node.  A matching job, or a
\* zero-cycle one, brings its final.fcf; without, an older one stays.
WriteCif ==
  /\ call.at = "cif"
  /\ writes' = writes + 1
  /\ cif' = [write |-> writes', header |-> "none", proof |-> None]
  /\ fcf' \in {writes', fcf}
  /\ call' = [call EXCEPT !.at = "header"]
  /\ UNCHANGED <<active, report, manifest, check, checks, deaths>>

\* final.res, .ins, .hkl, .fab and .p4p, then the status into the header.
WriteHeader ==
  /\ call.at = "header"
  /\ cif' = [cif EXCEPT !.header = call.status]
  /\ call' = [call EXCEPT !.at = "report"]
  /\ UNCHANGED <<active, fcf, report, manifest, check, bounds>>

WriteReport(unresolved, issues) ==
  /\ call.at = "report"
  /\ report' = [node |-> call.node, revision |-> call.revision, status |-> call.status,
                unresolved |-> unresolved, issues |-> issues,
                waived |-> None, proof |-> None, write |-> cif.write]
  /\ call' = [at |-> "manifest"]
  /\ UNCHANGED <<active, cif, fcf, manifest, check, bounds>>

WriteManifest ==
  /\ call.at = "manifest"
  /\ manifest' = [revision |-> report.revision, status |-> report.status]
  /\ call' = Idle
  /\ UNCHANGED <<active, cif, fcf, report, check, bounds>>

-----------------------------------------------------------------------------
(* run_checkcif(cif = "<dir>/final.cif", or another CIF of the directory).  *)

ValidationSource(final) ==
  IF ~final \/ report = None THEN NoSource
  ELSE [kind |-> "delivery", node |-> report.node, revision |-> report.revision]

\* An attempt does not replace a younger one's record.
Persist(record) ==
  check' = IF check # None /\ check.attempt > record.attempt THEN check ELSE record

BeginCheck(final) ==
  /\ call = Idle /\ cif # None /\ checks < MaxChecks
  /\ checks' = checks + 1
  /\ LET record == [attempt |-> checks', exec |-> "running", alert |-> None, final |-> final,
                    source |-> ValidationSource(final), saw |-> None] IN
     Persist(record) /\ call' = [at |-> "platon", record |-> record]
  /\ UNCHANGED <<active, cif, fcf, report, manifest, writes, deaths>>

\* Whatever is not a complete report leaves the alerts unknown.
EndCheck(exec, alert) ==
  /\ call.at = "platon"
  /\ (exec = "completed") = (alert # None)
  /\ Persist([call.record EXCEPT !.exec = exec, !.alert = alert,
                                 !.saw = IF call.record.final THEN cif.write ELSE None])
  /\ call' = Idle
  /\ UNCHANGED <<active, cif, fcf, report, manifest, bounds>>

-----------------------------------------------------------------------------
(* finalize_delivery.                                                       *)

ReportIssue == check.exec # "completed"

\* Bug variant: only the file is compared.
SourceOfTheFile == ~check.final

SourceIssue ==
  \/ ~check.final \/ check.source.kind # "delivery"
  \/ check.source.node # report.node \/ check.source.revision # report.revision

Diagnostic == report.status = "diagnostic"

\* What cannot be waived.  A diagnostic record may lack the check and the fcf.
Fatal == \/ ~Diagnostic /\ (fcf = None \/ check = None)
         \/ report.issues
         \/ check # None /\ (ReportIssue \/ SourceIssue)

Blocking == {i \in Items : \/ i = "alert" /\ check # None /\ check.alert = TRUE
                           \/ i = "unresolved" /\ report.unresolved}

\* A diagnostic seal needs an investigation on record or unmet_goals.
BeginFinalize(waivers, goalsKnown) ==
  /\ call = Idle /\ report # None /\ cif # None
  /\ ~Fatal /\ waivers \subseteq Blocking
  /\ IF Diagnostic THEN goalsKnown ELSE Blocking \subseteq waivers
  /\ call' = [at |-> "promote", waived |-> waivers,
              status |-> IF Diagnostic THEN "diagnostic" ELSE "final"]
  /\ UNCHANGED <<active, cif, fcf, report, manifest, check, bounds>>

Promote ==
  /\ call.at = "promote"
  /\ cif' = [cif EXCEPT !.header = call.status, !.proof = check]
  /\ call' = [call EXCEPT !.at = "seal"]
  /\ UNCHANGED <<active, fcf, report, manifest, check, bounds>>

Seal ==
  /\ call.at = "seal"
  /\ report' = [report EXCEPT !.status = call.status, !.waived = call.waived, !.proof = check]
  /\ call' = [at |-> "manifest"]
  /\ UNCHANGED <<active, cif, fcf, manifest, check, bounds>>

-----------------------------------------------------------------------------
Die ==
  /\ call # Idle /\ deaths < MaxDeaths
  /\ call' = Idle /\ deaths' = deaths + 1
  /\ UNCHANGED <<active, cif, fcf, report, manifest, check, writes, checks>>

Next ==
  \/ \E n \in Nodes : Checkout(n)
  \/ \E asked \in {"provisional", "diagnostic", "final"} : BeginWrite(asked)
  \/ WriteCif \/ WriteHeader \/ WriteManifest
  \/ \E u, i \in BOOLEAN : WriteReport(u, i)
  \/ \E final \in BOOLEAN : BeginCheck(final)
  \/ \E a \in BOOLEAN : EndCheck("completed", a)
  \/ \E e \in {"failed", "timeout", "cancelled"} : EndCheck(e, None)
  \/ \E w \in SUBSET Items, g \in BOOLEAN : BeginFinalize(w, g)
  \/ Promote \/ Seal \/ Die

Spec == Init /\ [][Next]_vars

-----------------------------------------------------------------------------
Statuses == {"none", "provisional", "diagnostic", "final"}
Revisions == 1 .. MaxWrites + 1
Sources == [kind : {"file", "delivery"}, node : Nodes \cup {None},
            revision : Revisions \cup {None}]
Checks == [attempt : 1 .. MaxChecks, alert : BOOLEAN \cup {None}, final : BOOLEAN,
           exec : {"running", "completed", "failed", "timeout", "cancelled"},
           source : Sources, saw : 1 .. MaxWrites \cup {None}]
Cifs == [write : 1 .. MaxWrites, header : Statuses, proof : Checks \cup {None}]
Reports == [node : Nodes, revision : Revisions, status : Statuses \ {"none"},
            unresolved : BOOLEAN, issues : BOOLEAN, waived : (SUBSET Items) \cup {None},
            proof : Checks \cup {None}, write : 1 .. MaxWrites]

TypeOK ==
  /\ active \in Nodes
  /\ cif \in Cifs \cup {None} /\ fcf \in 1 .. MaxWrites \cup {None}
  /\ report \in Reports \cup {None}
  /\ manifest \in [revision : Revisions, status : Statuses] \cup {None}
  /\ check \in Checks \cup {None}

\* REPORT.json describes the final.cif beside it (a write_outputs that died
\* between the two leaves the report of an earlier one).
Whole == cif # None /\ report # None /\ report.write = cif.write

\* "final" is earned, wherever it stands: a complete checkCIF run saw the very
\* final.cif that carries it, whatever was rewritten, checked again or cut off
\* in between, and each A alert and unresolved item was waived with a reason.
FinalIsEarned ==
  /\ Whole /\ cif.header = "final" => cif.proof.exec = "completed" /\ cif.proof.saw = cif.write
  /\ Whole /\ report.status = "final" =>
       /\ cif.header = "final"
       /\ report.proof.alert => "alert" \in report.waived
       /\ report.unresolved => "unresolved" \in report.waived

\* What delivery_audit says of "final": no checkCIF run that did not see this
\* final.cif, even when write_outputs died before REPORT.json.
FinalWasSeen == cif # None /\ cif.header = "final" => cif.proof.saw = cif.write

\* The structure factors of a final delivery are those of its final.cif.
FcfIsOfTheCif == Whole /\ report.status = "final" => fcf = cif.write
=============================================================================
