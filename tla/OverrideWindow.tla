--------------------------- MODULE OverrideWindow ---------------------------
(***************************************************************************)
(* Undoing a post inside its override window: services/override_window.py  *)
(* with erp_router.reverse_bill, the store's conditional marks, and the    *)
(* reaper that expires windows nobody used.                                *)
(*                                                                         *)
(* One AP item, posted.  Its windows are opened by OverrideWindowObserver, *)
(* one for each delivery of the posted_to_erp event, by the outbox worker  *)
(* or by notify's inline fallback.  A reverser is a person's Undo, from    *)
(* the Slack card of any window or through the reverse_invoice_post        *)
(* intent; a reaper is a background loop or a Celery tick.  Each database  *)
(* call is one step.                                                       *)
(***************************************************************************)
EXTENDS APStates, Naturals, Sequences

CONSTANTS
  Reversers,   \* callers of attempt_reversal, one call at a time each
  Reapers,     \* callers of expire_window
  MaxWindows,  \* bound: deliveries of the posted_to_erp event
  MaxCrashes   \* bound: calls that die half-way

Callers == Reversers \cup Reapers

ASSUME CallersAssumption == Reversers \cap Reapers = {}
ASSUME WindowBounds == MaxWindows \in Nat /\ MaxCrashes \in Nat

VARIABLES
  state,    \* the item's state
  marker,   \* metadata.reversal_reference is set on the item
  windows,  \* override_windows rows in the order they were opened: state,
            \* and whether expires_at has passed
  audit,    \* the audit event under each window's key override_window:<id>
  bill,     \* the bill in the ERP: "posted" or "reversed"
  wire,     \* reversers whose request may still reach the ERP after they left
  target,   \* the window each caller works on
  pc,       \* where each caller is
  result,   \* what the call was answered, and answers
  crashes   \* how much of MaxCrashes is used

vars == <<state, marker, windows, audit, bill, wire, target, pc, result, crashes>>

WindowState == {"pending", "reversed", "expired", "failed"}
WindowRow == [state : WindowState, due : BOOLEAN]
Windows == 1..MaxWindows
PCs == {"idle", "load", "guards", "call", "reply", "audit", "persist", "mark",
        "item", "expire", "close", "closing"}
Results == {"none", "success", "already_reversed", "skipped", "error"}
AuditEvents == {"none", "succeeded", "already_reversed", "failed"}

Init ==
  /\ state = "posted_to_erp" /\ marker = FALSE
  /\ windows = <<>>
  /\ audit = [n \in Windows |-> "none"]
  /\ bill = "posted" /\ wire = {}
  /\ target = [c \in Callers |-> 0]
  /\ pc = [c \in Callers |-> "idle"]
  /\ result = [c \in Callers |-> "none"]
  /\ crashes = 0

erp == <<bill, wire>>
itemRow == <<state, marker>>

Goto(c, p) == pc' = [pc EXCEPT ![c] = p]
Answer(c, r, p) == result' = [result EXCEPT ![c] = r] /\ Goto(c, p)
Window(c) == windows[target[c]]

-----------------------------------------------------------------------------
(* The window's row.                                                       *)

\* open_window, on the posted_to_erp event.  Nothing makes a window unique.
Open ==
  /\ Len(windows) < MaxWindows
  /\ windows' = Append(windows, [state |-> "pending", due |-> FALSE])
  /\ UNCHANGED <<itemRow, audit, erp, target, pc, result, crashes>>

\* expires_at passes.
Elapse(n) ==
  /\ n \in DOMAIN windows /\ ~windows[n].due
  /\ windows' = [windows EXCEPT ![n].due = TRUE]
  /\ UNCHANGED <<itemRow, audit, erp, target, pc, result, crashes>>

MarkedAlways(n, s) == [windows EXCEPT ![n].state = s]  \* mutant: no guard

\* mark_override_window_reversed / _expired / _failed: UPDATE ... WHERE
\* state = 'pending'.
Marked(n, s) ==
  [windows EXCEPT ![n].state = IF @ = "pending" THEN s ELSE @]

-----------------------------------------------------------------------------
(* attempt_reversal, up to the ERP call.                                   *)

Begin(c, n) ==
  /\ c \in Reversers /\ pc[c] = "idle"
  /\ target' = [target EXCEPT ![c] = n]
  /\ Answer(c, "none", "load")
  /\ UNCHANGED <<itemRow, windows, audit, erp, crashes>>

\* The Undo button of a window's card: no look at the item.
Undo(c, n) == n \in DOMAIN windows /\ Begin(c, n)

NewestOffByOne == Len(windows) + 1  \* mutant
\* get_override_window_by_ap_item_id: the window opened last.
Newest == Len(windows)

\* The reverse_invoice_post intent: an item in posted_to_erp, its newest window.
Intent(c) ==
  /\ state = "posted_to_erp" /\ windows # <<>>
  /\ Begin(c, Newest)

\* A window that is no longer pending answers at once; one that is overdue is
\* finalised here.
Load(c) ==
  /\ pc[c] = "load"
  /\ CASE Window(c).state = "reversed" -> Answer(c, "already_reversed", "idle")
       [] Window(c).state \in {"expired", "failed"} -> Answer(c, "error", "idle")
       [] OTHER -> /\ Goto(c, IF Window(c).due THEN "expire" ELSE "guards")
                   /\ UNCHANGED result
  /\ UNCHANGED <<itemRow, windows, audit, erp, target, crashes>>

\* reverse_bill's two idempotency guards: the item's metadata, and a success
\* on record under this window's key.  A lookup of the key that fails is taken
\* for one that finds nothing.
Guards(c) ==
  /\ pc[c] = "guards"
  /\ \/ /\ marker \/ audit[target[c]] = "succeeded"
        /\ Answer(c, "already_reversed", "mark")
     \/ ~marker /\ Goto(c, "call") /\ UNCHANGED result
  /\ UNCHANGED <<itemRow, windows, audit, erp, target, crashes>>

-----------------------------------------------------------------------------
(* The ERP call.                                                           *)

\* No connection, or the rate limiter: reverse_bill returns before the call,
\* and before the audit event.
Skip(c) ==
  /\ pc[c] = "call"
  /\ Answer(c, "skipped", "mark")
  /\ UNCHANGED <<itemRow, windows, audit, erp, target, crashes>>

\* The ERP deletes, voids or cancels the bill.  Asked about a bill that is
\* gone, an adapter reports it as already reversed, or reports the error.
Reverse(c) ==
  /\ pc[c] = "call"
  /\ bill' = "reversed"
  /\ \E r \in IF bill = "posted" THEN {"success"} ELSE {"already_reversed", "error"} :
       Answer(c, r, "reply")
  /\ UNCHANGED <<itemRow, windows, audit, wire, target, crashes>>

Reply(c) ==
  /\ pc[c] = "reply"
  /\ Goto(c, "audit")
  /\ UNCHANGED <<itemRow, windows, audit, erp, target, result, crashes>>

\* The reply is lost: the adapter turns the exception into an error.
LoseReply(c) ==
  /\ pc[c] = "reply"
  /\ Answer(c, "error", "audit")
  /\ UNCHANGED <<itemRow, windows, audit, erp, target, crashes>>

\* The ERP refuses, or the client times out with the request on its way.
Refuse(c) ==
  /\ pc[c] = "call"
  /\ Answer(c, "error", "audit")
  /\ wire' \in {wire, wire \cup {c}}
  /\ UNCHANGED <<itemRow, windows, audit, bill, target, crashes>>

Land(c) ==
  /\ c \in wire
  /\ wire' = wire \ {c} /\ bill' = "reversed"
  /\ UNCHANGED <<itemRow, windows, audit, target, pc, result, crashes>>

-----------------------------------------------------------------------------
(* After the ERP call.                                                     *)

\* reverse_bill and attempt_reversal take two answers for a reversal.
ReversedOrSkipped(c) ==  \* mutant: a skipped call counts as one
  result[c] \in {"success", "already_reversed", "skipped"}
Reversed(c) == result[c] \in {"success", "already_reversed"}

\* One audit event under the window's key: the first writer's stays.  A write
\* that fails is logged as "non-fatal" and the call goes on; so in Persist.
Event(c) ==
  CASE result[c] = "success" -> "succeeded"
    [] result[c] = "already_reversed" -> "already_reversed"
    [] OTHER -> "failed"

Audit(c) ==
  /\ pc[c] = "audit"
  /\ \/ UNCHANGED audit
     \/ audit' = [audit EXCEPT ![target[c]] = IF @ = "none" THEN Event(c) ELSE @]
  /\ Goto(c, IF Reversed(c) THEN "persist" ELSE "mark")
  /\ UNCHANGED <<itemRow, windows, erp, target, result, crashes>>

Persist(c) ==
  /\ pc[c] = "persist"
  /\ marker' \in {marker, TRUE}
  /\ Goto(c, "mark")
  /\ UNCHANGED <<state, windows, audit, erp, target, result, crashes>>

\* The answer of the conditional mark is not looked at.
Mark(c) ==
  /\ pc[c] = "mark"
  /\ windows' = Marked(target[c], IF Reversed(c) THEN "reversed" ELSE "failed")
  /\ Goto(c, IF Reversed(c) THEN "item" ELSE "idle")
  /\ UNCHANGED <<itemRow, audit, erp, target, result, crashes>>

\* _transition_ap_item_to_reversed: the request carries metadata_update, which
\* update_ap_item refuses as an unknown column.  The ValueError is swallowed
\* and the item stays as it is.
ReverseItem(c) ==
  /\ pc[c] = "item"
  /\ Goto(c, "idle")
  /\ UNCHANGED <<itemRow, windows, audit, erp, target, result, crashes>>

-----------------------------------------------------------------------------
(* Expiry.                                                                 *)

OverdueOfPosted(n) ==  \* mutant: only windows of items still in posted_to_erp
  windows[n].state = "pending" /\ windows[n].due /\ state = "posted_to_erp"
\* list_expired_override_windows, and expire_window's own look.
Overdue(n) == windows[n].state = "pending" /\ windows[n].due

Reap(p, n) ==
  /\ p \in Reapers /\ pc[p] = "idle"
  /\ n \in DOMAIN windows /\ Overdue(n)
  /\ target' = [target EXCEPT ![p] = n]
  /\ Goto(p, "expire")
  /\ UNCHANGED <<itemRow, windows, audit, erp, result, crashes>>

\* The mark, by a reaper or by a reverser that came too late.  A reaper that
\* lost the race stops; a reverser goes on to close the item either way.
ExpireRegardless(c) ==  \* mutant: the reaper too
  /\ pc[c] = "expire"
  /\ windows' = Marked(target[c], "expired")
  /\ IF c \in Reversers THEN Answer(c, "error", "close")
     ELSE Goto(c, "close") /\ UNCHANGED result
  /\ UNCHANGED <<itemRow, audit, erp, target, crashes>>
Expire(c) ==
  /\ pc[c] = "expire"
  /\ windows' = Marked(target[c], "expired")
  /\ IF c \in Reversers THEN Answer(c, "error", "close")
     ELSE /\ Goto(c, IF Window(c).state = "pending" THEN "close" ELSE "idle")
          /\ UNCHANGED result
  /\ UNCHANGED <<itemRow, audit, erp, target, crashes>>

\* _transition_to_closed_safely reads the item ...
Close(c) ==
  /\ pc[c] = "close"
  /\ Goto(c, IF state = "posted_to_erp" THEN "closing" ELSE "idle")
  /\ UNCHANGED <<itemRow, windows, audit, erp, target, result, crashes>>

\* ... and asks for closed; the error of an illegal request is swallowed.
Closing(c) ==
  /\ pc[c] = "closing"
  /\ state' = IF Legal(state, "closed") THEN "closed" ELSE state
  /\ Goto(c, "idle")
  /\ UNCHANGED <<marker, windows, audit, erp, target, result, crashes>>

-----------------------------------------------------------------------------
(* Interference.                                                           *)

\* approve_invoice closes the item, or payment tracking takes it on.
MoveOn(t) ==
  /\ state = "posted_to_erp" /\ t \in {"closed", "awaiting_payment"}
  /\ state' = t
  /\ UNCHANGED <<marker, windows, audit, erp, target, pc, result, crashes>>

\* _update_ap_item_metadata, in a task that read the item before Persist, writes
\* the whole document back, without the reversal_reference.
Overwrite ==
  /\ marker /\ marker' = FALSE
  /\ UNCHANGED <<state, windows, audit, erp, target, pc, result, crashes>>

\* A call dies half-way; its request may still reach the ERP.
Crash(c) ==
  /\ pc[c] # "idle" /\ crashes < MaxCrashes
  /\ crashes' = crashes + 1
  /\ wire' = IF pc[c] = "call" THEN wire \cup {c} ELSE wire
  /\ Answer(c, "none", "idle")
  /\ UNCHANGED <<itemRow, windows, audit, bill, target>>

-----------------------------------------------------------------------------
Step(c) ==
  \/ Load(c) \/ Guards(c) \/ Skip(c) \/ Reverse(c) \/ Refuse(c)
  \/ Reply(c) \/ LoseReply(c) \/ Audit(c) \/ Persist(c) \/ Mark(c)
  \/ ReverseItem(c) \/ Expire(c) \/ Close(c) \/ Closing(c)

Next ==
  \/ Open
  \/ \E n \in Windows : Elapse(n)
  \/ \E c \in Callers, n \in Windows : Undo(c, n) \/ Reap(c, n)
  \/ \E c \in Callers : Intent(c) \/ Step(c) \/ Land(c) \/ Crash(c)
  \/ \E t \in APState : MoveOn(t)
  \/ Overwrite

\* Time passes, the reaper loops tick, and a call that has started goes on.
Fairness ==
  /\ \A n \in Windows : WF_vars(Elapse(n))
  /\ \A p \in Reapers, n \in Windows : WF_vars(Reap(p, n))
  /\ \A c \in Callers : WF_vars(Step(c))

Spec == Init /\ [][Next]_vars /\ Fairness

-----------------------------------------------------------------------------
(* Properties.                                                             *)

TypeOK ==
  /\ state \in APState /\ marker \in BOOLEAN
  /\ windows \in Seq(WindowRow)
  /\ Len(windows) <= MaxWindows
  /\ audit \in [Windows -> AuditEvents]
  /\ bill \in {"posted", "reversed"} /\ wire \subseteq Callers
  /\ target \in [Callers -> 0..MaxWindows]
  /\ pc \in [Callers -> PCs]
  /\ result \in [Callers -> Results]
  /\ crashes \in Nat

\* A reversal the system claims, on a window, in the item's metadata, in the
\* audit trail or in a call's own answer, is one the ERP has made, however
\* undos, retries, lost replies and the reaper interleave.
ReversalClaimsAreTrue ==
  (\/ marker
   \/ \E n \in DOMAIN windows : windows[n].state = "reversed"
   \/ \E n \in Windows : audit[n] \in {"succeeded", "already_reversed"}
   \/ \E c \in Callers : Reversed(c))
    => bill = "reversed"

\* The store's WHERE state = 'pending': of an undo and a reaper that both saw
\* the window pending, only one decides how it ends.
WindowEndsOnce ==
  [][\A n \in DOMAIN windows :
       windows[n].state # "pending" => windows'[n].state = windows[n].state]_vars

\* expire_window: a reaper that lost the race for the window does "NOT close
\* the AP item".
LosingReaperLeavesItem ==
  [][\A p \in Reapers :
       (pc[p] = "closing" /\ state' # state /\ pc'[p] # pc[p])
         => Window(p).state = "expired"]_vars

\* A window does not stay open: whatever happens to the item, to undos and to
\* reapers in between, it ends reversed, failed or expired.
WindowsEnd ==
  \A n \in Windows :
    (n \in DOMAIN windows) ~> (n \in DOMAIN windows /\ windows[n].state # "pending")
=============================================================================
