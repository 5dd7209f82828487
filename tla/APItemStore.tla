---------------------------- MODULE APItemStore ----------------------------
(***************************************************************************)
(* One ap_items row, its state_transition audit rows and its box_outcomes  *)
(* row, under concurrent callers of APStore.update_ap_item.                *)
(*                                                                         *)
(* update_ap_item reads the row on one connection, checks the transition,  *)
(* and then runs UPDATE and the audit INSERT in one transaction on another *)
(* connection.  Between the read and the transaction any other caller may  *)
(* commit.  A caller that passes _expected_updated_at gates the UPDATE on  *)
(* the row not having moved since the caller's own read; a caller that     *)
(* does not writes unconditionally.                                        *)
(*                                                                         *)
(* The row's updated_at is a version number (every UPDATE stamps a fresh   *)
(* microsecond timestamp, so two writes never share one).  A fraud flag is *)
(* identified with the caller that raises it.                              *)
(***************************************************************************)
EXTENDS APStates, Naturals, Sequences

CONSTANTS
  Callers,       \* concurrent callers of the store
  InitStates,    \* states the row may be in when the callers arrive
  Targets,       \* states the callers ask for
  FlagAttempts,  \* _FRAUD_FLAG_CAS_ATTEMPTS
  MaxVersion     \* bound: no call starts once the row was written this often

ASSUME StatesAssumption == InitStates \subseteq APState /\ Targets \subseteq APState
ASSUME AttemptsAssumption == FlagAttempts \in Nat
ASSUME BoundAssumption == MaxVersion \in Nat

VARIABLES
  row,      \* the ap_items row: state, version (updated_at), fraud flags
  trail,    \* state_transition audit rows; "applied" records whether the
            \* UPDATE of the same transaction matched the row
  outcome,  \* box_outcomes row of the item, "none" until recorded
  call,     \* where each caller is, and the values it has read
  promised  \* what returned flag calls have told their callers (history)

vars == <<row, trail, outcome, call, promised>>

NoGate == 0
FlagStatus == {"absent", "open", "resolved"}
Flags == [Callers -> FlagStatus]

\* A caller between two calls.
Idle(c) == [pc |-> "idle", kind |-> "none", target |-> "none", flag |-> c,
            gate |-> NoGate, seen |-> [f \in Callers |-> "absent"],
            prev |-> "none", tries |-> 0]

Call ==
  [pc     : {"idle", "update", "write", "retry", "mirror"},
   kind   : {"none", "cas", "plain", "add", "resolve"},
   target : APState \cup {"none"},  \* state asked for
   flag   : Callers,                \* flag being added or resolved
   gate   : Nat,                    \* _expected_updated_at
   seen   : Flags,                  \* the caller's edited copy of the list
   prev   : APState \cup {"none"},  \* state update_ap_item itself read
   tries  : Nat]

AuditRow == [prev : APState, new : APState, applied : BOOLEAN]

Init ==
  /\ row \in [state : InitStates, version : {1},
              flags : {[f \in Callers |-> "absent"]}]
  /\ trail = <<>>
  /\ outcome = "none"
  /\ call = [c \in Callers |-> Idle(c)]
  /\ promised = [f \in Callers |-> "absent"]

-----------------------------------------------------------------------------
(* Opening a call.                                                         *)

Started(c) == call[c].pc = "idle" /\ row.version < MaxVersion

\* update_box_with_cas: snapshot the row and run the mutator on it.  A
\* mutator that changes nothing ends the call, so t differs from the state.
StartCas(c, t) ==
  /\ Started(c)
  /\ t # row.state
  /\ call' = [call EXCEPT ![c] = [Idle(c) EXCEPT !.pc = "update", !.kind = "cas",
                                    !.target = t, !.gate = row.version]]
  /\ UNCHANGED <<row, trail, outcome, promised>>

\* _transition_invoice_state -> update_invoice_status -> update_ap_item: a
\* request for the state already held is not sent on; no gate is passed.
StartPlain(c, t) ==
  /\ Started(c)
  /\ t # row.state
  /\ call' = [call EXCEPT ![c] = [Idle(c) EXCEPT !.pc = "update",
                                    !.kind = "plain", !.target = t]]
  /\ UNCHANGED <<row, trail, outcome, promised>>

\* The edit a flag call makes to its copy of the list.
Edited(kind, f, flags) ==
  [flags EXCEPT ![f] = IF kind = "add" /\ @ = "absent" THEN "open"
                       ELSE IF kind = "resolve" /\ @ = "open" THEN "resolved"
                       ELSE @]

\* add_fraud_flag reads the list and appends to its copy;
\* resolve_fraud_flag marks one open flag of its copy.
StartFlag(c, kind, f) ==
  /\ Started(c)
  /\ row.flags[f] = IF kind = "add" THEN "absent" ELSE "open"
  /\ kind = "add" => f = c
  /\ call' = [call EXCEPT ![c] = [Idle(c) EXCEPT !.pc = "write", !.kind = kind,
                                    !.flag = f, !.gate = row.version,
                                    !.seen = Edited(kind, f, row.flags),
                                    !.tries = 1]]
  /\ UNCHANGED <<row, trail, outcome, promised>>

\* An ungated update of other columns: one statement, which only moves
\* updated_at as far as this module is concerned.
TouchOtherColumns(c) ==
  /\ Started(c)
  /\ row' = [row EXCEPT !.version = @ + 1]
  /\ UNCHANGED <<trail, outcome, call, promised>>

-----------------------------------------------------------------------------
(* Inside update_ap_item.                                                  *)

\* The store's own read, and transition_or_raise on what it returned.  The
\* error of an illegal request goes to the caller: nothing is written.
Validate(c) ==
  /\ call[c].pc = "update"
  /\ call' = [call EXCEPT ![c] = IF Legal(row.state, @.target)
                                 THEN [@ EXCEPT !.pc = "write",
                                                !.prev = row.state]
                                 ELSE Idle(c)]
  /\ UNCHANGED <<row, trail, outcome, promised>>

\* The UPDATE's WHERE clause.
MatchesUngated(c) == call[c].gate <= row.version  \* mutant: no version clause
Matches(c) == call[c].gate \in {NoGate, row.version}

\* The audit row of the transaction.
AuditEntry(c) ==
  [prev |-> call[c].prev, new |-> call[c].target, applied |-> Matches(c)]

\* The states that go on to box_outcomes.
MirroredAlways(t) == t # "none"  \* mutant: every target is an outcome
Mirrored(t) == t \in OutcomeStates

\* The transaction: UPDATE, then the audit INSERT on the same cursor, then
\* commit.  The row count update_ap_item reads afterwards is the INSERT's, so
\* the call goes on as a success whether or not the UPDATE matched: the
\* target is mirrored into box_outcomes, and update_box_with_cas never sees
\* the conflict its retry loop waits for.
WriteState(c) ==
  /\ call[c].pc = "write" /\ call[c].kind \in {"cas", "plain"}
  /\ row' = IF Matches(c)
            THEN [row EXCEPT !.state = call[c].target, !.version = @ + 1]
            ELSE row
  /\ trail' = Append(trail, AuditEntry(c))
  /\ call' = [call EXCEPT ![c] = IF Mirrored(@.target)
                                 THEN [@ EXCEPT !.pc = "mirror"]
                                 ELSE Idle(c)]
  /\ UNCHANGED <<outcome, promised>>

\* A flag write names no state: no read, no audit row, the whole list gated.
\* Here the row count is the UPDATE's: a call that lost its gate tries again
\* until its budget is spent.
WriteFlags(c) ==
  /\ call[c].pc = "write" /\ call[c].kind \in {"add", "resolve"}
  /\ IF Matches(c)
     THEN /\ row' = [row EXCEPT !.flags = call[c].seen, !.version = @ + 1]
          /\ promised' = [promised EXCEPT
                            ![call[c].flag] = call[c].seen[call[c].flag]]
          /\ call' = [call EXCEPT ![c] = Idle(c)]
     ELSE /\ call' = [call EXCEPT ![c] = IF @.tries < FlagAttempts
                                         THEN [@ EXCEPT !.pc = "retry"]
                                         ELSE Idle(c)]
          /\ UNCHANGED <<row, promised>>
  /\ UNCHANGED <<trail, outcome>>

\* The next attempt of a flag call edits a fresh copy of the list.
Retry(c) ==
  /\ call[c].pc = "retry"
  /\ call' = [call EXCEPT ![c] = [@ EXCEPT !.pc = "write", !.gate = row.version,
                                    !.tries = call[c].tries + 1,
                                    !.seen = Edited(call[c].kind, call[c].flag,
                                                    row.flags)]]
  /\ UNCHANGED <<row, trail, outcome, promised>>

\* record_box_outcome: at most one row per item, the first writer's.
Mirror(c) ==
  /\ call[c].pc = "mirror"
  /\ outcome' = IF outcome = "none" THEN call[c].target ELSE outcome
  /\ call' = [call EXCEPT ![c] = Idle(c)]
  /\ UNCHANGED <<row, trail, promised>>

\* The caller's process dies between two of its steps.
Crash(c) ==
  /\ call[c].pc # "idle"
  /\ call' = [call EXCEPT ![c] = Idle(c)]
  /\ UNCHANGED <<row, trail, outcome, promised>>

Next ==
  \E c \in Callers :
    \/ \E t \in Targets : StartCas(c, t) \/ StartPlain(c, t)
    \/ \E f \in Callers, kind \in {"add", "resolve"} : StartFlag(c, kind, f)
    \/ TouchOtherColumns(c)
    \/ Validate(c)
    \/ WriteState(c)
    \/ WriteFlags(c)
    \/ Retry(c)
    \/ Mirror(c)
    \/ Crash(c)

Spec == Init /\ [][Next]_vars

-----------------------------------------------------------------------------
(* Properties.                                                             *)

TypeOK ==
  /\ row \in [state : APState, version : Nat \ {0}, flags : Flags]
  /\ trail \in Seq(AuditRow)
  /\ outcome \in OutcomeStates \cup {"none"}
  /\ call \in [Callers -> Call]
  /\ promised \in Flags

\* update_ap_item's section 11.2.5: when a caller that passed
\* _expected_updated_at changes the item's state, the change is an edge of
\* the state graph from the state the row really had, and the audit row of
\* the same transaction names that state, whatever ungated callers did
\* between the caller's read, the store's own read and the transaction.
GatedWritesAreLegal ==
  [][\A c \in Callers :
       (call[c].kind = "cas" /\ call'[c] # call[c] /\ row'.state # row.state)
         => /\ Legal(row.state, row'.state)
            /\ trail'[Len(trail')].prev = row.state]_vars

\* add_fraud_flag / resolve_fraud_flag: a flag (or a resolution) whose call
\* returned is in the row for good; no concurrent edit of the list, which is
\* always written whole, may drop it.
NoLostFlag ==
  \A f \in Callers :
    /\ promised[f] = "open" => row.flags[f] # "absent"
    /\ promised[f] = "resolved" => row.flags[f] = "resolved"

\* What the callers take the row for: one that every call changes in a single
\* step.  A caller without a gate may overwrite a state it has not seen.
AnyRow == INSTANCE AtomicRow WITH
  Follows <- ValidTransitions, Flags <- Callers, Gated <- FALSE,
  state <- row.state, flags <- row.flags, log <- trail

\* update_ap_item, update_box_with_cas and the flag calls implement that row:
\* their reads, retries and crashes do not show.
ImplementsRow == AnyRow!Spec

\* The same row where nobody overwrites ...
GatedRow == INSTANCE AtomicRow WITH
  Follows <- ValidTransitions, Flags <- Callers, Gated <- TRUE,
  state <- row.state, flags <- row.flags, log <- trail

\* ... and a row all of whose callers pass _expected_updated_at.
AllGated == \A c \in Callers : call[c].kind # "plain"
=============================================================================
