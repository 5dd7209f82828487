--------------------------- MODULE MC_APItemStore ---------------------------
(* Two callers around the decision on an item awaiting approval. *)
EXTENDS APItemStore, TLC

MCInitStates == {"needs_approval", "ready_to_post"}
MCTargets == {"approved", "rejected", "posted_to_erp", "reversed"}
MCSymmetry == Permutations(Callers)
=============================================================================
