---------------------------- MODULE DisplayCache ----------------------------
(* What a viewer is shown of one node: refine/scene.py (build_fofc_ccp4,   *)
(* cached_fofc, cached_peaks, build_void_ccp4, cached_voids) behind the    *)
(* routes map, peaks, voids and voidmap.  A node never changes once it is  *)
(* published, but its display products are files that outlive the server:  *)
(* each is rebuilt in place, under the project's lock, when its stamp is   *)
(* not of the release that runs.  Whether to build is decided before the   *)
(* lock is taken and not asked again under it.                             *)
(*                                                                         *)
(* A release stands for everything a stamp names besides the node; whether *)
(* it finds voids to draw is its own choice (`surface`).  prewarm_display_ *)
(* cache is one more requester.  Left out: scenes and data blocks, whose   *)
(* JSON is written beside and replaced, and is rebuilt when unreadable.    *)
EXTENDS Naturals, Sequences

CONSTANTS
  Requests,     \* requests a server handles at once
  MaxBuilder,   \* releases
  MaxFaults,    \* failed writes and deaths
  None

VARIABLES
  builder,   \* the release that runs
  wanted,    \* what the requests of this behaviour are for
  surface,   \* the releases that find voids to draw in this node
  file,      \* file -> the release that wrote it, 0: absent
  torn,      \* files whose writing has begun and not ended
  stamp,     \* stamp -> the release it names, 0: absent
  holder,    \* request in the project's lock
  at,        \* request -> where it is
  ask,       \* request -> what it is for
  todo,      \* request -> files still to write, or stamps
  got,       \* request -> what it was served: a release and whether the file was whole
  faults

vars == <<builder, wanted, surface, file, torn, stamp, holder, at, ask, todo, got, faults>>

Releases == 1..MaxBuilder
Asks == {"fofc", "2fofc", "peaks", "voids", "voidmap"}
\* Builds that share a file or a stamp; the others meet at the lock only.
Interests == {{"fofc", "peaks"}, {"2fofc", "peaks"}, {"voids", "voidmap"}}
Files == {"fofc", "2fofc", "peaks", "voids.json", "voids.ccp4"}
Stamps == {"fofc", "2fofc", "peaks", "voids"}

\* The file a request is answered from.
Answer(k) == CASE k = "voids" -> "voids.json" [] k = "voidmap" -> "voids.ccp4" [] OTHER -> k

TypeOK ==
  /\ builder \in Releases /\ wanted \in Interests /\ surface \subseteq Releases
  /\ file \in [Files -> 0..MaxBuilder] /\ torn \subseteq Files
  /\ stamp \in [Stamps -> 0..MaxBuilder]
  /\ holder \in Requests \cup {None}
  /\ at \in [Requests -> {"idle", "look", "wait", "build", "write", "stamp", "serve", "served"}]
  /\ ask \in [Requests -> Asks]
  /\ todo \in [Requests -> Seq(Files \cup Stamps \cup {"unlink"})]
  /\ got \in [Requests -> [by : 0..MaxBuilder, whole : BOOLEAN]]
  /\ faults \in 0..MaxFaults

Init ==
  /\ builder = 1 /\ wanted \in Interests /\ surface \in SUBSET Releases
  /\ file = [f \in Files |-> 0] /\ torn = {} /\ stamp = [s \in Stamps |-> 0]
  /\ holder = None
  /\ at = [r \in Requests |-> "idle"] /\ ask = [r \in Requests |-> "fofc"]
  /\ todo = [r \in Requests |-> <<>>]
  /\ got = [r \in Requests |-> [by |-> 0, whole |-> TRUE]]
  /\ faults = 0

Goes(r, place) == at' = [at EXCEPT ![r] = place]

-----------------------------------------------------------------------------
(* Asking.                                                                 *)

\* Bug variant: the recount of the void mask is not part of what makes an
\* entry stale.
FreshWithoutVersion(k) ==
  IF k \in {"voids", "voidmap"}
  THEN file["voids.json"] # 0 /\ "voids.json" \notin torn /\ stamp["voids"] # 0
  ELSE file[k] # 0 /\ stamp[k] = builder

\* A map or peak table is looked at for existence only; voids.json is read, so
\* that half a file counts as none, and says whether a surface goes with it.
Fresh(k) ==
  IF k \in {"voids", "voidmap"}
  THEN /\ file["voids.json"] = builder /\ "voids.json" \notin torn
       /\ file["voids.json"] \in surface => file["voids.ccp4"] # 0
       /\ stamp["voids"] # 0
  ELSE file[k] # 0 /\ stamp[k] = builder

Ask(r) ==
  /\ at[r] \in {"idle", "served"} /\ Goes(r, "look")
  /\ \E k \in wanted : ask' = [ask EXCEPT ![r] = k]
  /\ got' = [got EXCEPT ![r] = [by |-> 0, whole |-> TRUE]]
  /\ UNCHANGED <<builder, wanted, surface, file, torn, stamp, holder, todo, faults>>

Look(r) ==
  /\ at[r] = "look" /\ Goes(r, IF Fresh(ask[r]) THEN "serve" ELSE "wait")
  /\ UNCHANGED <<builder, wanted, surface, file, torn, stamp, holder, ask, todo, got, faults>>

-----------------------------------------------------------------------------
(* Building, one file after the other.                                     *)

\* Bug variant: a surface that is no longer found is left where it is.
ProductsKept(k) ==
  CASE k \in {"fofc", "peaks"} -> <<"fofc", "peaks">>
    [] k = "2fofc" -> <<"2fofc">>
    [] OTHER -> IF builder \in surface THEN <<"voids.ccp4", "voids.json">>
                ELSE <<"voids.json">>

\* One session, two products: the peak table rides along with the Fo-Fc map.
Products(k) ==
  CASE k \in {"fofc", "peaks"} -> <<"fofc", "peaks">>
    [] k = "2fofc" -> <<"2fofc">>
    [] OTHER -> IF builder \in surface THEN <<"voids.ccp4", "voids.json">>
                ELSE <<"unlink", "voids.json">>

\* Bug variant: every map stamps the peak table.
MarksOfAll(k) ==
  CASE k \in {"fofc", "2fofc"} -> <<k, "peaks">>
    [] k = "peaks" -> <<"peaks", "fofc">>
    [] OTHER -> <<"voids">>

Marks(k) ==
  CASE k = "fofc" -> <<"fofc", "peaks">>
    [] k = "peaks" -> <<"peaks", "fofc">>
    [] k = "2fofc" -> <<"2fofc">>
    [] OTHER -> <<"voids">>

Take(r) ==
  /\ at[r] = "wait" /\ holder = None
  /\ holder' = r /\ Goes(r, "build") /\ todo' = [todo EXCEPT ![r] = Products(ask[r])]
  /\ UNCHANGED <<builder, wanted, surface, file, torn, stamp, ask, got, faults>>

Unlink(r) ==
  /\ at[r] = "build" /\ todo[r] # <<>> /\ Head(todo[r]) = "unlink"
  /\ file' = [file EXCEPT !["voids.ccp4"] = 0] /\ torn' = torn \ {"voids.ccp4"}
  /\ todo' = [todo EXCEPT ![r] = Tail(@)]
  /\ UNCHANGED <<builder, wanted, surface, stamp, holder, at, ask, got, faults>>

BeginWrite(r) ==
  /\ at[r] = "build" /\ todo[r] # <<>> /\ Head(todo[r]) # "unlink"
  /\ file' = [file EXCEPT ![Head(todo[r])] = builder] /\ torn' = torn \cup {Head(todo[r])}
  /\ Goes(r, "write")
  /\ UNCHANGED <<builder, wanted, surface, stamp, holder, ask, todo, got, faults>>

EndWrite(r) ==
  /\ at[r] = "write" /\ Goes(r, "build")
  /\ torn' = torn \ {Head(todo[r])} /\ todo' = [todo EXCEPT ![r] = Tail(@)]
  /\ UNCHANGED <<builder, wanted, surface, file, stamp, holder, ask, got, faults>>

Leave(r) ==
  /\ at[r] = "build" /\ todo[r] = <<>>
  /\ holder' = None /\ Goes(r, "stamp") /\ todo' = [todo EXCEPT ![r] = Marks(ask[r])]
  /\ UNCHANGED <<builder, wanted, surface, file, torn, stamp, ask, got, faults>>

\* A stamp is replaced in one piece.
Stamp(r) ==
  /\ at[r] = "stamp" /\ todo[r] # <<>>
  /\ stamp' = [stamp EXCEPT ![Head(todo[r])] = builder]
  /\ todo' = [todo EXCEPT ![r] = Tail(@)]
  /\ Goes(r, IF Len(todo[r]) = 1 THEN "serve" ELSE "stamp")
  /\ UNCHANGED <<builder, wanted, surface, file, torn, holder, ask, got, faults>>

\* The answer is read after the cache was asked.  Half a JSON file, and a
\* surface that is not there, are refused.
Serve(r) ==
  LET f == Answer(ask[r])
      refused == \/ file[f] = 0
                 \/ ask[r] \in {"peaks", "voids"} /\ f \in torn
  IN /\ at[r] = "serve" /\ Goes(r, IF refused THEN "idle" ELSE "served")
     /\ IF refused THEN UNCHANGED got
        ELSE got' = [got EXCEPT ![r] = [by |-> file[f], whole |-> f \notin torn]]
     /\ UNCHANGED <<builder, wanted, surface, file, torn, stamp, holder, ask, todo, faults>>

-----------------------------------------------------------------------------
(* Faults.                                                                 *)

\* The session cannot be built or a write fails: the lock is released and
\* what was begun stays.
Fail(r) ==
  /\ faults < MaxFaults /\ holder = r
  /\ faults' = faults + 1 /\ holder' = None
  /\ Goes(r, "idle") /\ todo' = [todo EXCEPT ![r] = <<>>]
  /\ UNCHANGED <<builder, wanted, surface, file, torn, stamp, ask, got>>

\* The server stops at any step and is started again, perhaps in a newer release.
Restart ==
  /\ faults < MaxFaults /\ faults' = faults + 1
  /\ builder' \in {builder, builder + 1} \cap Releases
  /\ holder' = None
  /\ at' = [r \in Requests |-> "idle"] /\ todo' = [r \in Requests |-> <<>>]
  /\ ask' = [r \in Requests |-> "fofc"]
  /\ got' = [r \in Requests |-> [by |-> 0, whole |-> TRUE]]
  /\ UNCHANGED <<wanted, surface, file, torn, stamp>>

Next ==
  \/ \E r \in Requests : \/ Ask(r) \/ Look(r) \/ Take(r) \/ Unlink(r) \/ BeginWrite(r)
                         \/ EndWrite(r) \/ Leave(r) \/ Stamp(r) \/ Serve(r) \/ Fail(r)
  \/ Restart

Spec == Init /\ [][Next]_vars

-----------------------------------------------------------------------------
\* Nobody is shown a product of an earlier release as if this one had computed
\* it, and a product is there when its stamp says so: whatever was half built
\* when a server died, and however many requests build the same entry.
ServedIsCurrent ==
  /\ \A r \in Requests : at[r] = "served" => got[r].by = builder
  /\ \A s \in Stamps \ {"voids"} : stamp[s] = builder => file[s] = builder

\* No run's property, and not so: a request that decided to build before
\* another one finished rewrites the map in place under a stamp that is
\* already valid.  Who is served meanwhile gets half a map; if the rewrite
\* fails or the server dies, everybody does from then on.
ServedIsWhole == \A r \in Requests : at[r] = "served" => got[r].whole
=============================================================================
