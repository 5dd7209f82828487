------------------------- MODULE MC_PaymentTracking -------------------------
(* PaymentTracking on small instances; the calls are interchangeable.      *)
EXTENDS PaymentTracking, TLC

MCSymmetry == Permutations(Deliveries)
=============================================================================
