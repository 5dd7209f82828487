-------------------------- MODULE MC_DualApproval --------------------------
(* DualApproval on small instances; calls, requests and approvers are       *)
(* interchangeable.                                                         *)
EXTENDS DualApproval, TLC

MCSymmetry ==
  Permutations(Calls) \cup Permutations(Others)
    \cup Permutations(People \ {Requester})
=============================================================================
