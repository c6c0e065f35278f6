--------------------------- MODULE VersionHistory ---------------------------
(***************************************************************************)
(* What the project's version store promises: an append-only history of    *)
(* models, each bound to a revision of the reflections that is in the      *)
(* history too, and a pointer to the active one.  A version appears all at *)
(* once, with its data, and is the active one from then on; every change   *)
(* counts as a project revision.                                           *)
(***************************************************************************)
EXTENDS Integers

CONSTANTS NodeIds, DataIds, Packages, None

VARIABLES models,     \* node -> [package, data]
          datasets,   \* data revision -> package
          active, rev

vars == <<models, datasets, active, rev>>

Published(f, k, v) ==
  [x \in DOMAIN f \cup {k} |-> IF x = k THEN v ELSE f[x]]

Nothing == [x \in {} |-> None]

Init == models = Nothing /\ datasets = Nothing /\ active = None /\ rev = 0

(* A model on data that is already in the history, or on none.             *)
CommitModel(n, p, d) ==
  /\ n \notin DOMAIN models /\ (d = None \/ d \in DOMAIN datasets)
  /\ models' = Published(models, n, [package |-> p, data |-> d])
  /\ active' = n /\ rev' = rev + 1
  /\ UNCHANGED datasets

(* A model together with the new data it is bound to.                      *)
CommitData(n, p, d) ==
  /\ n \notin DOMAIN models /\ d \notin DOMAIN datasets
  /\ models' = Published(models, n, [package |-> p, data |-> d])
  /\ datasets' = Published(datasets, d, p)
  /\ active' = n /\ rev' = rev + 1

PointTo(n) ==
  /\ n \in DOMAIN models
  /\ active' = n /\ rev' = rev + 1
  /\ UNCHANGED <<models, datasets>>

Touch == rev' = rev + 1 /\ UNCHANGED <<models, datasets, active>>

Next ==
  \/ \E n \in NodeIds, p \in Packages :
       \/ \E d \in DataIds \cup {None} : CommitModel(n, p, d)
       \/ \E d \in DataIds : CommitData(n, p, d)
  \/ \E n \in NodeIds : PointTo(n)
  \/ Touch

Spec == Init /\ [][Next]_vars
=============================================================================
