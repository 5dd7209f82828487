---------------------------- MODULE DualApproval ----------------------------
(***************************************************************************)
(* The two-person rule: services/dual_approval.py.  A first approval of a  *)
(* bill at or above the organization's threshold puts a first signature on *)
(* record (the item's metadata) and the item in needs_second_approval, a   *)
(* second one by somebody else approves it, a revocation takes the first   *)
(* one off again.                                                          *)
(*                                                                         *)
(* Each call reads the item, checks what it read, and later writes state   *)
(* and the whole metadata document through update_ap_item, without         *)
(* _expected_updated_at: the store checks on one connection that the new   *)
(* state follows from the one the row has by then, and its UPDATE goes out *)
(* on another, whatever the row is by then.  Around the calls the other    *)
(* surfaces decide on the item by the same two steps, and scribes write    *)
(* its metadata (ApprovalDispatch).  The audit events are left out.        *)
(***************************************************************************)
EXTENDS APStates, Naturals, FiniteSets

CONSTANTS
  People,
  Requester,    \* the item's user_id
  Nobody,       \* an absent signature
  Calls,        \* requests to the three endpoints, one each
  Others,       \* requests of the other surfaces, one at a time each
  Scribes       \* callers of _update_ap_item_metadata, one at a time each

ASSUME Signers == Requester \in People /\ Nobody \notin People

VARIABLES
  state,        \* the item's state
  signed,       \* metadata: [first, second], the signatures on record
  large,        \* the amount is at or above the threshold, as it is now
  call,         \* [Calls -> where the call is and what it has read]
  other,        \* [Others -> where the request is and what it is]
  copy,         \* [Scribes -> the signatures in the copy it read]
  standing,     \* who signed this round and did not withdraw (history)
  route,        \* what approved the item last (history)
  misled        \* whether, since the last round began, a route's UPDATE landed
                \* on an item no longer approved, a second signature on a row
                \* other than the one its call read, or a stale copy of the
                \* metadata was put back (history)

history == <<standing, route, misled>>
item == <<state, signed, history>>
vars == <<item, large, call, other, copy>>

Ops == {"first", "second", "revoke"}
Acts == {"click", "reject", "route", "revert"}
Signatures == [first : People \cup {Nobody}, second : People \cup {Nobody}]
Unsigned == [first |-> Nobody, second |-> Nobody]
Idle == [op |-> "first", who |-> Requester, at |-> "idle",
         read |-> Unsigned, large |-> FALSE]
Gone == [Idle EXCEPT !.at = "done"]
Away == [act |-> "click", at |-> "idle"]

Approved == state \in {"approved", "ready_to_post"}

Init ==
  /\ state = "needs_approval" /\ signed = Unsigned
  /\ large \in BOOLEAN
  /\ call = [c \in Calls |-> Idle]
  /\ other = [o \in Others |-> Away]
  /\ copy = [s \in Scribes |-> Unsigned]
  /\ standing = {} /\ route = "none" /\ misled = FALSE

-----------------------------------------------------------------------------
(* The three endpoints.                                                    *)

\* The checks of a call on the row it reads: nobody signs for his own bill,
\* nobody signs twice, and there is a first signature to act on.
SignsTwiceUnchecked(op, p) == FALSE  \* mutant: the signers are not compared
SignsTwice(op, p) == op = "second" /\ signed.first # Nobody /\ signed.first = p
NotPending(op)    == op # "first" /\ state # "needs_second_approval"
OwnBillOfFirst(op, p) ==  \* mutant: the second signer is not compared
  op = "first" /\ p = Requester
OwnBill(op, p)    == op # "revoke" /\ p = Requester
Refused(op, p)    == SignsTwice(op, p) \/ NotPending(op) \/ OwnBill(op, p)

\* get_ap_item and the checks; a call that is refused answers.
Read(c) ==
  /\ call[c].at = "idle"
  /\ \E op \in Ops, p \in People :
       /\ ~Refused(op, p)
       /\ call' = [call EXCEPT ![c] =
            [op |-> op, who |-> p, read |-> signed, large |-> FALSE,
             at |-> IF op = "first" THEN "policy" ELSE "check"]]
  /\ UNCHANGED <<item, large, other, copy>>

\* get_dual_approval_threshold, a read of its own.
ReadThreshold(c) ==
  /\ call[c].at = "policy"
  /\ call' = [call EXCEPT ![c].large = large, ![c].at = "check"]
  /\ UNCHANGED <<item, large, other, copy>>

Target(c) ==
  CASE call[c].op = "second" -> "approved"
    [] call[c].op = "revoke" -> "needs_approval"
    [] call[c].op = "first"  ->
         IF call[c].large THEN "needs_second_approval" ELSE "approved"

\* update_ap_item checks the graph against the row as it is now; the
\* IllegalTransitionError of a state that does not follow ends the call ...
Check(c) ==
  /\ call[c].at = "check"
  /\ call' = IF Legal(state, Target(c)) THEN [call EXCEPT ![c].at = "write"]
             ELSE [call EXCEPT ![c] = Gone]
  /\ UNCHANGED <<item, large, other, copy>>

\* ... and writes state and metadata, and the call answers.
Writes(c, op) ==
  /\ call[c].at = "write" /\ call[c].op = op
  /\ state' = Target(c)
  /\ call' = [call EXCEPT ![c] = Gone]
  /\ UNCHANGED <<large, other, copy>>

FirstSignedKept(c) == signed  \* mutant: the signature is not written
FirstSigned(c) == [call[c].read EXCEPT !.first = call[c].who]

\* first_approve: the first of two signatures.
SignFirst(c) ==
  /\ call[c].large
  /\ Writes(c, "first")
  /\ signed' = FirstSigned(c)
  /\ standing' = {call[c].who} /\ misled' = FALSE
  /\ UNCHANGED route

\* first_approve: the only signature a bill below the threshold needs.
ApproveSmall(c) ==
  /\ ~call[c].large
  /\ Writes(c, "first")
  /\ signed' = FirstSigned(c)
  /\ standing' = standing \cup {call[c].who} /\ route' = "single"
  /\ UNCHANGED misled

\* second_approve
SignSecond(c) ==
  /\ Writes(c, "second")
  /\ signed' = [call[c].read EXCEPT !.second = call[c].who]
  /\ standing' = standing \cup {call[c].who} /\ route' = "dual"
  /\ misled' = \/ misled \/ state # "needs_second_approval"
               \/ signed # call[c].read

WithdrawnAll(c) == [first |-> Nobody]  \* mutant: the document loses a key
Withdrawn(c) == [call[c].read EXCEPT !.first = Nobody]

\* revoke_first_signature: anybody may revoke.
Revoke(c) ==
  /\ Writes(c, "revoke")
  /\ signed' = Withdrawn(c)
  /\ standing' = {}
  /\ UNCHANGED <<route, misled>>

-----------------------------------------------------------------------------
(* Around the calls.                                                       *)

\* set_dual_approval_threshold, by an administrator.
SetThreshold ==
  /\ large' = ~large
  /\ UNCHANGED <<item, call, other, copy>>

\* The other surfaces: approve_invoice (Slack, Teams, Gmail), which knows no
\* threshold, reject_invoice, the route of an approved item to its post, and
\* attempt_approval_revert.
Goal == [click |-> "approved", reject |-> "rejected", route |-> "ready_to_post",
         revert |-> "needs_approval"]

\* approve_invoice and attempt_approval_revert answer at once if the item they
\* read is not in a state they take ...
Meets(act) ==
  \/ act = "click" /\ state = "needs_approval"
  \/ act = "revert" /\ state \in {"approved", "ready_to_post"}

ReadElsewhere(o) ==
  /\ other[o].at = "idle"
  /\ \E act \in Acts :
       /\ Meets(act)
       /\ other' = [other EXCEPT ![o] = [act |-> act, at |-> "check"]]
  /\ UNCHANGED <<item, large, call, copy>>

\* ... update_ap_item checks the graph, which is all that stands before a
\* rejection and a route ...
CheckElsewhere(o) ==
  /\ \E act \in Acts :
       /\ \/ other[o].at = "idle" /\ act \in {"reject", "route"}
          \/ other[o].at = "check" /\ act = other[o].act
       /\ other' = [other EXCEPT ![o] =
            IF Legal(state, Goal[act]) THEN [act |-> act, at |-> "write"] ELSE Away]
  /\ UNCHANGED <<item, large, call, copy>>

\* ... and writes: a click approves for somebody, and a revert takes all
\* approvals back but leaves the signatures on record.
WriteElsewhere(o) ==
  /\ other[o].at = "write"
  /\ state' = Goal[other[o].act]
  /\ CASE other[o].act = "click"  -> /\ \E p \in People : standing' = {p}
                                     /\ route' = "click" /\ UNCHANGED misled
       [] other[o].act = "revert" -> standing' = {} /\ UNCHANGED <<route, misled>>
       [] other[o].act = "reject" -> UNCHANGED history
       [] other[o].act = "route"  -> /\ misled' = (misled \/ ~Approved)
                                     /\ UNCHANGED <<standing, route>>
  /\ other' = [other EXCEPT ![o] = Away]
  /\ UNCHANGED <<signed, large, call, copy>>

\* _update_ap_item_metadata reads the document and writes it back, with other
\* keys changed, without a lock or a version.
ScribeReads(s) ==
  /\ copy' = [copy EXCEPT ![s] = signed]
  /\ UNCHANGED <<item, large, call, other>>

ScribeWrites(s) ==
  /\ signed' = copy[s]
  /\ misled' = (misled \/ copy[s] # signed)
  /\ UNCHANGED <<state, large, call, other, copy, standing, route>>

Next ==
  \/ \E c \in Calls : \/ Read(c) \/ ReadThreshold(c) \/ Check(c)
                      \/ SignFirst(c) \/ ApproveSmall(c)
                      \/ SignSecond(c) \/ Revoke(c)
  \/ \E o \in Others : ReadElsewhere(o) \/ CheckElsewhere(o) \/ WriteElsewhere(o)
  \/ \E s \in Scribes : ScribeReads(s) \/ ScribeWrites(s)
  \/ SetThreshold

Spec == Init /\ [][Next]_vars

-----------------------------------------------------------------------------
(* Properties.                                                             *)

\* Type invariant of the item, its signatures and the calls.
TypeOK ==
  /\ state \in APState /\ signed \in Signatures /\ large \in BOOLEAN
  /\ call \in [Calls -> [op : Ops, who : People, read : Signatures,
                         large : BOOLEAN,
                         at : {"idle", "policy", "check", "write", "done"}]]
  /\ other \in [Others -> [act : Acts, at : {"idle", "check", "write"}]]
  /\ copy \in [Scribes -> Signatures]
  /\ standing \subseteq People
  /\ route \in {"none", "single", "dual", "click"}
  /\ misled \in BOOLEAN

\* While a bill waits for its second signature the one on record is a
\* signature that stands, however often the item was signed, revoked, approved,
\* reverted and signed again, unless a stale copy of the metadata was written
\* back (first_approve, revoke_first_signature).
PendingHasItsSigner ==
  state = "needs_second_approval" => signed.first \in standing \/ misled

\* What is approved, or on its way to the post, is approved by somebody who has
\* not taken it back, and by two people if second_approve did it, however often
\* the bill was signed, revoked, approved elsewhere and reverted: unless
\* the route's UPDATE, which nothing gates, landed on an item that was sent back
\* after its check, the row moved between second_approve's read and its write, or
\* a stale copy of the metadata was put back.
ApprovalsStand ==
  Approved =>
    \/ misled
    \/ /\ standing # {}
       /\ route = "dual" => \E p, q \in standing : p # q

\* Nobody's signature is on record for his own bill, in either place, whatever
\* stale read or copy of the metadata is written back over it.
NobodySignsOwnBill == Requester \notin {signed.first, signed.second}

\* "requires two distinct approvers": a bill that second_approve approved has
\* the standing signatures of two people.
TwoPeopleApprove ==
  Approved /\ route = "dual" => \E p, q \in standing : p # q
=============================================================================
