----------------------------- MODULE AtMostOnce -----------------------------
(***************************************************************************)
(* What a consumer promises that marks a message before it acts on it: no  *)
(* message is acted on twice, however often it is delivered, and one whose *)
(* consumer stops half way is lost for good.  PaymentTracking implements   *)
(* this, where EventPipeline implements HandOver.                          *)
(***************************************************************************)
CONSTANT Messages

VARIABLE status         \* [Messages -> {"new", "taken", "finished", "lost"}]

Init == status = [m \in Messages |-> "new"]

Moves(m, from, to) ==
  /\ status[m] = from
  /\ status' = [status EXCEPT ![m] = to]

Take(m)   == Moves(m, "new", "taken")
Finish(m) == Moves(m, "taken", "finished")
Lose(m)   == Moves(m, "taken", "lost")

Next == \E m \in Messages : Take(m) \/ Finish(m) \/ Lose(m)

Spec == Init /\ [][Next]_status
=============================================================================
