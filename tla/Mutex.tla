------------------------------- MODULE Mutex -------------------------------
(***************************************************************************)
(* What the box lock promises: one process at a time is inside, it is the  *)
(* one the lock names, nobody takes a lock that is held, and only its      *)
(* holder lets it go.  A lock with nobody inside is free, so none leaks.   *)
(* ErpPosting, ApprovalDispatch and CoordinationEngine implement this.     *)
(***************************************************************************)
CONSTANTS Processes, Free

VARIABLES holder, inside

Init == holder = Free /\ inside = {}

Enter(p) == holder = Free /\ holder' = p    /\ inside' = inside \cup {p}
Exit(p)  == holder = p    /\ holder' = Free /\ inside' = inside \ {p}

Next == \E p \in Processes : Enter(p) \/ Exit(p)

Spec == Init /\ [][Next]_<<holder, inside>>
=============================================================================
