------------------------- MODULE MC_ApprovalDispatch -------------------------
(* ApprovalDispatch on small instances.                                    *)
EXTENDS ApprovalDispatch
=============================================================================
