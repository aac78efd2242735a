---------------------------- MODULE MCLodgeStore ----------------------------
(* Model checking of LodgeStore: processes, sessions and generation UUIDs  *)
(* are interchangeable.                                                    *)
EXTENDS LodgeStore, TLC

Symmetry == Permutations(Procs) \cup Permutations(Sessions) \cup Permutations(Gens)

(* Bound: without power cuts only imports are made, with every generation *)
(* in play.  With them, either only imports are made while two sessions    *)
(* race and two generations are in play, or at most one of each is; one    *)
(* manifest is retained by a restore.                                      *)
ImportsOnly ==
  /\ \A d \in after \cup {now} : d["main"].edits \subseteq {Managed}
  /\ \A p \in Procs : arg[p] \notin Edits \ {Managed}
InPlay(n) ==
  Cardinality({ g \in Gens : dir[g] # "none" \/ \E p \in Procs : gid[p] = g }) <= n
OneStory ==
  \/ ImportsOnly /\ ~cuts
  \/ /\ cuts /\ Cardinality(kept) <= 1
     /\ \/ ImportsOnly /\ InPlay(2)
        \/ InPlay(1) /\ Cardinality({ s \in Sessions : pinned[s] # None }) <= 1
=============================================================================
