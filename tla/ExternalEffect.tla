--------------------------- MODULE ExternalEffect ---------------------------
(***************************************************************************)
(* What a component promises that makes one thing in a system it does not  *)
(* control: a bill in the ERP, an approval card in Slack.  A second one is *)
(* made only for one that was lost, that is, made or looked for without an *)
(* answer.  What the item knows of it names one that was made and is not   *)
(* forgotten, and success is claimed only of what is known.  ErpPosting    *)
(* and ApprovalDispatch implement this.                                    *)
(***************************************************************************)
EXTENDS Naturals

CONSTANT
  Looks      \* whether the component looks for one before it makes one

VARIABLES
  made,      \* how many were made
  lost,      \* answers lost: each may stand for one more
  known,     \* the one the item names, or 0
  claimed    \* the system says that it is done

Init == made = 0 /\ lost = 0 /\ known = 0 /\ claimed = FALSE

Make ==
  /\ Looks => made <= lost
  /\ made' = made + 1
  /\ UNCHANGED <<lost, known, claimed>>

Lose ==
  /\ lost' = lost + 1
  /\ made' \in {made, made + 1}
  /\ UNCHANGED <<known, claimed>>

\* Nothing replaces what is known unless something was lost.
Know(n) ==
  /\ n \in 1..made
  /\ Looks /\ known \notin {0, n} => lost > 0
  /\ known' = n
  /\ claimed' \in {claimed, TRUE}
  /\ UNCHANGED <<made, lost>>

Claim ==
  /\ known # 0
  /\ claimed' = TRUE
  /\ UNCHANGED <<made, lost, known>>

\* A claim can be taken back; what is known cannot.
Retract ==
  /\ claimed' = FALSE
  /\ UNCHANGED <<made, lost, known>>

Next == Make \/ Lose \/ Claim \/ Retract \/ \E n \in 1..made : Know(n)

Spec == Init /\ [][Next]_<<made, lost, known, claimed>>
=============================================================================
