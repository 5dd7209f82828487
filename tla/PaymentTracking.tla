-------------------------- MODULE PaymentTracking --------------------------
(***************************************************************************)
(* "The bank says this bill was paid": services/payment_tracking.py, its   *)
(* ledger payment_confirmations and the callers of                         *)
(* record_payment_confirmation, for one posted bill.                       *)
(*                                                                         *)
(* ERP webhooks and pollers look a payment up in the ERP and deliver what  *)
(* they find, as often as the ERP likes; an operator types one in.  A      *)
(* delivery puts one row per (source, payment id) into the ledger, and the *)
(* delivery that put the row down, and no other, walks the item along the  *)
(* payment states, one update_ap_item at a time.  Around the deliveries    *)
(* the expiry of an override window and the payment poll close posted      *)
(* items.  A step reads or writes one row on one connection: the check of  *)
(* update_ap_item and its UPDATE, which nothing gates, are two.            *)
(***************************************************************************)
EXTENDS APStates, Naturals, Sequences

CONSTANTS
  Payments,     \* (source, external payment id) of the bill
  Manual,       \* those an operator types in, with the status he picks
  Deliveries,   \* calls of record_payment_confirmation, one each
  Closers,      \* tasks that close a posted item, one each
  MaxCrashes    \* bound on the calls that die half way

ASSUME PaymentsAssumption == Payments # {} /\ Manual \subseteq Payments
ASSUME MaxCrashesAssumption == MaxCrashes \in Nat

VARIABLES
  state,        \* the item's state
  bank,         \* [Payments -> what the ERP knows of the payment]
  ledger,       \* [Payments -> status of the row, "none" without one]
  blocked,      \* the vendor's sanctions_status is blocked
  call,         \* [Deliveries -> where the call is and what it holds]
  closing,      \* [Closers -> where the task is]
  crashes,
  dropped,      \* payments whose walk ended early: the call died, or the item
                \* moved under it (history)
  overtaken     \* an UPDATE landed on a state that its own does not follow: the
                \* item had moved since the check (history)

env  == <<bank, blocked, closing>>
item == <<state, overtaken>>
vars == <<item, env, ledger, call, crashes, dropped>>

Statuses == {"confirmed", "failed", "disputed"}
Terminal == {"closed", "reversed", "rejected"}
Places == {"idle", "check", "insert", "read", "walk", "done"}
Idle == [pay |-> CHOOSE p \in Payments : TRUE, status |-> "disputed",
         at |-> "idle", path |-> <<>>, checked |-> FALSE]

Init ==
  /\ state = "posted_to_erp"
  /\ bank = [p \in Payments |-> "none"]
  /\ ledger = [p \in Payments |-> "none"]
  /\ blocked \in BOOLEAN
  /\ call = [d \in Deliveries |-> Idle]
  /\ closing = [c \in Closers |-> "idle"]
  /\ crashes = 0 /\ dropped = {} /\ overtaken = FALSE

At(d, place) == call[d].at = place
Goto(d, place) == call' = [call EXCEPT ![d].at = place]
\* The call answers, or is gone.
Leave(d) == call' = [call EXCEPT ![d] = [Idle EXCEPT !.at = "done"]]

\* An UPDATE of the state, whatever the state is by then.
Update(t) ==
  /\ state' = t
  /\ overtaken' = (overtaken \/ (state # t /\ ~Legal(state, t)))

-----------------------------------------------------------------------------
(* The ERP, the vendor's screening and the tasks that close posted items.  *)

\* A payment of the bill is made or bounces; one that was made is voided later
\* and keeps its id.
Pay(p) ==
  /\ p \notin Manual
  /\ \E s \in {"confirmed", "failed"} :
       /\ <<bank[p], s>> \in {<<"none", "confirmed">>, <<"none", "failed">>,
                              <<"confirmed", "failed">>}
       /\ bank' = [bank EXCEPT ![p] = s]
  /\ UNCHANGED <<item, blocked, closing, ledger, call, crashes, dropped>>

\* A screening of the vendor, or the operator who clears it.
Screen ==
  /\ blocked' = ~blocked
  /\ UNCHANGED <<item, bank, closing, ledger, call, crashes, dropped>>

\* _transition_to_closed_safely and _poll_payment_statuses: the item is read
\* and found posted ...
FindPosted(c) ==
  /\ closing[c] = "idle" /\ state = "posted_to_erp"
  /\ closing' = [closing EXCEPT ![c] = "check"]
  /\ UNCHANGED <<item, bank, blocked, ledger, call, crashes, dropped>>

\* ... read again and checked, and the task gives up if the graph does not let
\* it be closed by then ...
CheckClose(c) ==
  /\ closing[c] = "check"
  /\ closing' = [closing EXCEPT ![c] = IF Legal(state, "closed") THEN "close" ELSE "done"]
  /\ UNCHANGED <<item, bank, blocked, ledger, call, crashes, dropped>>

\* ... and closed.
Close(c) ==
  /\ closing[c] = "close"
  /\ closing' = [closing EXCEPT ![c] = "done"]
  /\ Update("closed")
  /\ UNCHANGED <<bank, blocked, ledger, call, crashes, dropped>>

-----------------------------------------------------------------------------
(* record_payment_confirmation.                                            *)

\* The caller has fetched the payment from the ERP, or has the form.  A vendor
\* on the sanctions list ends the call with SanctionsBlockedError.
Deliver(d) ==
  /\ At(d, "idle")
  /\ \E p \in Payments, s \in Statuses :
       /\ p \in Manual \/ s = bank[p]
       /\ IF blocked THEN Leave(d)
          ELSE call' = [call EXCEPT ![d] = [@ EXCEPT !.pay = p, !.status = s,
                                                     !.at = "check"]]
  /\ UNCHANGED <<item, env, ledger, crashes, dropped>>

\* get_payment_confirmation_by_external_id: a payment on record is a duplicate,
\* whatever its status.
Check(d) ==
  /\ At(d, "check")
  /\ IF ledger[call[d].pay] = "none" THEN Goto(d, "insert") ELSE Leave(d)
  /\ UNCHANGED <<item, env, ledger, crashes, dropped>>

ConflictIgnored(d) == FALSE  \* mutant: no unique index
Conflict(d) == ledger[call[d].pay] # "none"

\* mutant: the call that loses the race goes on
InsertGoesOn(d) ==
  /\ At(d, "insert")
  /\ ledger' = IF Conflict(d) THEN ledger
                ELSE [ledger EXCEPT ![call[d].pay] = call[d].status]
  /\ Goto(d, "read")
  /\ UNCHANGED <<item, env, crashes, dropped>>

\* create_payment_confirmation; the unique index turns a second row into
\* PaymentConfirmationConflict and the call into a duplicate.
Insert(d) ==
  /\ At(d, "insert")
  /\ IF Conflict(d)
     THEN Leave(d) /\ UNCHANGED ledger
     ELSE /\ ledger' = [ledger EXCEPT ![call[d].pay] = call[d].status]
          /\ Goto(d, "read")
  /\ UNCHANGED <<item, env, crashes, dropped>>

\* _STATUS_TO_TARGET_STATE and _TRANSITION_PATHS
Target == [confirmed |-> "payment_executed", failed |-> "payment_failed"]

\* mutant: no retry after a failed attempt
PathWithoutRetry(from, to) ==
  CASE from = "posted_to_erp" -> <<"awaiting_payment", to>>
    [] from \in {"awaiting_payment", "payment_in_flight"} -> <<to>>
    [] OTHER -> <<>>
\* mutant: the bank's rail is a state of its own
PathInFlight(from, to) ==
  CASE from = "posted_to_erp" -> <<"awaiting_payment", "payment_in_flight", to>>
    [] from \in {"awaiting_payment", "payment_in_flight"} -> <<to>>
    [] OTHER -> <<>>
Path(from, to) ==
  CASE from = "posted_to_erp" \/ <<from, to>> = <<"payment_failed", "payment_executed">>
         -> <<"awaiting_payment", to>>
    [] from \in {"awaiting_payment", "payment_in_flight"} -> <<to>>
    [] OTHER -> <<>>

\* get_ap_item and the choice of the path.  No path is walked for a disputed
\* payment, for an item in a terminal state or at its target already, and
\* between states the table does not connect.
ReadItem(d) ==
  /\ At(d, "read")
  /\ call' = [call EXCEPT ![d].at = "walk", ![d].path =
       IF call[d].status = "disputed" \/ state \in Terminal THEN <<>>
       ELSE Path(state, Target[call[d].status])]
  /\ UNCHANGED <<item, env, ledger, crashes, dropped>>

\* A hop of the walk is one update_ap_item.  Its check, on a read of its own:
\* IllegalTransitionError stops the walk ...
CheckHop(d) ==
  /\ At(d, "walk") /\ call[d].path # <<>> /\ ~call[d].checked
  /\ IF Legal(state, Head(call[d].path))
     THEN /\ call' = [call EXCEPT ![d].checked = TRUE]
          /\ UNCHANGED dropped
     ELSE /\ call' = [call EXCEPT ![d].path = <<>>]
          /\ dropped' = dropped \cup {call[d].pay}
  /\ UNCHANGED <<item, env, ledger, crashes>>

\* ... and its UPDATE.
Hop(d) ==
  /\ call[d].checked
  /\ Update(Head(call[d].path))
  /\ call' = [call EXCEPT ![d].path = Tail(@), ![d].checked = FALSE]
  /\ UNCHANGED <<env, ledger, crashes, dropped>>

\* append_audit_event and the answer.
Answer(d) ==
  /\ At(d, "walk") /\ call[d].path = <<>>
  /\ Leave(d)
  /\ UNCHANGED <<item, env, ledger, crashes, dropped>>

\* The process dies, or an exception other than the two the function handles
\* ends the call; the webhook answers 200 all the same.
Crash(d) ==
  /\ call[d].at \in {"check", "insert", "read", "walk"} /\ crashes < MaxCrashes
  /\ Leave(d)
  /\ crashes' = crashes + 1
  /\ dropped' = IF call[d].at \in {"read", "walk"}
                THEN dropped \cup {call[d].pay} ELSE dropped
  /\ UNCHANGED <<item, env, ledger>>

Next ==
  \/ \E p \in Payments : Pay(p)
  \/ Screen
  \/ \E c \in Closers : FindPosted(c) \/ CheckClose(c) \/ Close(c)
  \/ \E d \in Deliveries :
       \/ Deliver(d) \/ Check(d) \/ Insert(d) \/ ReadItem(d)
       \/ CheckHop(d) \/ Hop(d) \/ Answer(d) \/ Crash(d)

Spec == Init /\ [][Next]_vars

-----------------------------------------------------------------------------
(* Properties.                                                             *)

\* What is left of a walk.
Paths == LET ends == {"payment_executed", "payment_failed"}
         IN  {<<>>} \cup {<<t>> : t \in ends}
                   \cup {<<"awaiting_payment", t>> : t \in ends}

\* Type invariant: of the states of an item, those from its post on, and of
\* those none that the payment rail would have to report.
TypeOK ==
  /\ state \in {"posted_to_erp", "awaiting_payment", "payment_executed",
                "payment_failed", "closed"}
  /\ bank \in [Payments -> {"none", "confirmed", "failed"}]
  /\ ledger \in [Payments -> Statuses \cup {"none"}]
  /\ blocked \in BOOLEAN
  /\ call \in [Deliveries -> [pay : Payments, status : Statuses,
                              at : Places, path : Paths, checked : BOOLEAN]]
  /\ closing \in [Closers -> {"idle", "check", "close", "done"}]
  /\ crashes \in 0..MaxCrashes
  /\ dropped \subseteq Payments /\ overtaken \in BOOLEAN

Recorded(status) == \E p \in Payments : ledger[p] = status

\* An item shows a payment as executed or as failed only with a row of that
\* status in the ledger, in whatever order deliveries, redeliveries, voids and
\* crashes come (record_payment_confirmation writes the row first).
StatesAreBacked ==
  /\ state = "payment_executed" => Recorded("confirmed")
  /\ state = "payment_failed" => Recorded("failed")

\* "a webhook redelivery is a no-op end-to-end": of the calls for one payment,
\* concurrent ones included, one at most gets past the ledger.
OneCallWalks ==
  \A d, e \in Deliveries :
    /\ call[d].at \in {"read", "walk"} /\ call[e].at \in {"read", "walk"}
    /\ call[d].pay = call[e].pay
    => d = e

AtRest == \A d \in Deliveries : call[d].at \in {"idle", "done"}
Settled == {"payment_executed", "closed"}

\* "Caller doesn't need to drive state transitions": once all calls have
\* answered, a bill with a confirmed payment on record is executed or closed,
\* whatever was tried and failed before and in between, unless the call that
\* recorded the payment died or found the item moved, or an UPDATE checked
\* against an earlier state was written over the item's.
ConfirmedItemsMove ==
  AtRest => \A p \in Payments :
    ledger[p] = "confirmed" => state \in Settled \/ p \in dropped \/ overtaken

\* A payment is a message to the ledger: new until a call has written its row,
\* taken while that call walks the item, and then finished or lost.
Taken(p) == \E d \in Deliveries : call[d].at \in {"read", "walk"} /\ call[d].pay = p

Status(p) == IF ledger[p] = "none" THEN "new"
             ELSE IF Taken(p) THEN "taken"
             ELSE IF p \in dropped THEN "lost" ELSE "finished"

Promise == INSTANCE AtMostOnce WITH
  Messages <- Payments, status <- [p \in Payments |-> Status(p)]

\* record_payment_confirmation marks a payment before it acts on it, so a
\* redelivery repeats nothing and a call that stops half way is not made up.
ImplementsAtMostOnce == Promise!Spec
=============================================================================
