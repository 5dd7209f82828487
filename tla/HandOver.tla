------------------------------ MODULE HandOver ------------------------------
(***************************************************************************)
(* What becomes of a message handed over through a queue.  Once accepted   *)
(* it is held, in the queue or by a consumer, until a consumer has         *)
(* finished it, and finished is final.  A message is lost only if a        *)
(* consumer has abandoned it, and when it is held nowhere else; and a      *)
(* producer that dies half way may leave it torn: its key is taken and     *)
(* nothing is held.  EventPipeline implements this.                        *)
(***************************************************************************)
CONSTANT Messages

VARIABLES
    status,       \* [Messages -> {"new", "held", "torn", "finished", "lost"}]
    abandoned     \* messages a consumer gave up

Init == status = [m \in Messages |-> "new"] /\ abandoned = {}

Becomes(m, from, to) ==
    /\ status[m] = from
    /\ status' = [status EXCEPT ![m] = to]

Accept(m) == Becomes(m, "new", "held") /\ UNCHANGED abandoned
Tear(m)   == Becomes(m, "new", "torn") /\ UNCHANGED abandoned
Finish(m) == Becomes(m, "held", "finished") /\ UNCHANGED abandoned

\* A consumer that has the message gives it up.
Abandon(m) ==
    /\ status[m] \in {"held", "finished"}
    /\ abandoned' = abandoned \cup {m}
    /\ UNCHANGED status \/ Becomes(m, "held", "lost")

\* The last of the other copies goes.
Lose(m) == m \in abandoned /\ Becomes(m, "held", "lost") /\ UNCHANGED abandoned

Next == \E m \in Messages :
          Accept(m) \/ Tear(m) \/ Finish(m) \/ Abandon(m) \/ Lose(m)

Spec == Init /\ [][Next]_<<status, abandoned>>
=============================================================================
