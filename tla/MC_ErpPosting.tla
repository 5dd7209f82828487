--------------------------- MODULE MC_ErpPosting ---------------------------
(* One invoice: two people and the retry queue. *)
EXTENDS ErpPosting

CONSTANTS k1, k2

\* Approve pressed on two surfaces, or by two people.
TwoDecisions == [c \in People |-> IF c = "click1" THEN k1 ELSE k2]
\* One click, delivered twice.
OneDecision == [c \in People |-> k1]
=============================================================================
