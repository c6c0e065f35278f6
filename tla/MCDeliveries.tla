---------------------------- MODULE MCDeliveries ----------------------------
(* Artifacts as TLC checks it, with the fairness of its components and what *)
(* must eventually happen.                                                  *)
EXTENDS Artifacts, TLC

\* The fairness of each component's own FairSpec (see MCServices).
FairSpec ==
  /\ Spec
  /\ WF_vars(Checked(Checkcif!Runner) \/ Consulted(Consult!Supervisor))
  /\ WF_vars(Checked(Checkcif!Sleep) \/ Consulted(Consult!Prompt))
  /\ WF_vars(Checked(Checkcif!Writing /\ Checkcif!Write) \/ Consulted(Consult!Closer))
  /\ WF_vars(Consulted(Consult!DeadlinePasses))

\* A checkCIF run ends whatever PLATON does, and a specialist's call whatever
\* its engine does, which is closed.
CallsEnd ==
  /\ part = "checkcif" => Checkcif!CheckEnds
  /\ part = "consult" => Consult!SpecialistEnds
=============================================================================
