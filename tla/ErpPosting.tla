----------------------------- MODULE ErpPosting -----------------------------
(***************************************************************************)
(* Posting one approved AP item to the ERP: approve_invoice,               *)
(* resume_workflow and _post_to_erp of services/invoice_posting.py, with   *)
(* the box lock, the ERP behind erp_router.post_bill, and the durable      *)
(* retry job that resumes a failed post.                                   *)
(*                                                                         *)
(* The workers are the calls that can run at the same time, in any number  *)
(* of processes: people who approve the item or resume it by hand, and the *)
(* drains of the retry queue; other people revert the approval or reject   *)
(* the item meanwhile.  A step reads or writes one row on one connection.  *)
(* A change of the item's state takes three, as nothing gates it: the      *)
(* caller's read, update_ap_item's check on a read of its own, its UPDATE. *)
(* The item was not born in the ERP, its approval chain has one step, and  *)
(* the field-review, budget, PO and segregation gates let the calls        *)
(* through.                                                                *)
(***************************************************************************)
EXTENDS APStates, Naturals, Sequences, FiniteSets

CONSTANTS
  People,      \* one call each, of approve_invoice or of resume_workflow
  Drains,      \* workers that drain the retry queue
  Others,      \* people who revert the approval or reject the item
  Keys,        \* decision idempotency keys
  KeyOf,       \* the decision key of each click; a redelivered click shares it
  ResumeKey,   \* "resume:<item>:erp_post"
  InitStates,  \* states the item may be in when the calls arrive
  LooksUp,     \* the adapter looks the bill up by invoice number first
               \* (QuickBooks, NetSuite, SAP do, Xero does not)
  HonoursKey,  \* the ERP replays its answer to a key it has seen
               \* (QuickBooks requestid, Xero Idempotency-Key)
  MaxRetries,  \* max_retries of the retry job
  MaxSlips,    \* bound: failed lookups and locks, and requests that land late
  MaxEvents    \* bound: crashes, reverts, rejections, failed lookups and locks,
               \* and requests left behind by a time-out, together

Workers == People \cup Drains
NoWorker == "nobody"
PostKeys == Keys \cup {ResumeKey}

ASSUME WorkersAssumption ==
  People \cap Drains = {} /\ NoWorker \notin Workers
ASSUME KeysAssumption == KeyOf \in [People -> Keys] /\ ResumeKey \notin Keys
ASSUME PostingStatesAssumption ==
  InitStates \subseteq {"received", "validated", "needs_approval"}
ASSUME AdapterAssumption == LooksUp \in BOOLEAN /\ HonoursKey \in BOOLEAN
ASSUME BoundsAssumption == /\ MaxRetries \in Nat /\ MaxSlips \in Nat
                           /\ MaxEvents \in Nat

VARIABLES
  item,      \* ap_items row: state, erp_reference (an index into bills, or 0)
  update,    \* how far each worker is with a write of the item
  amend,     \* the state each of Others is about to write
  overtaken, \* an UPDATE landed on a state that its own does not follow: the
             \* item had moved since the check (history)
  bills,     \* bills in the ERP for this invoice: the key each came with
  wire,      \* workers whose request may still reach the ERP after they left
  slips,     \* lookups that failed, locks that could not be tried, and
             \* requests that landed late (history)
  lock,      \* holder of the box lock, or NoWorker
  keylock,   \* decision keys with an approval_action_lock audit row
  decision,  \* approval snapshot of each decision key
  job,       \* the erp_post_retry job of this item: status, retry_count
  call,      \* the call each worker runs or ran last: approve or resume
  pc,        \* where each worker is
  seen,      \* current_state, as each approve_invoice last read it
  result,    \* the status _post_to_erp gave the worker
  got,       \* the bill a successful reply named, or 0
  events     \* how much of MaxEvents is used

vars == <<item, update, amend, overtaken, bills, wire, slips, lock, keylock,
          decision, job, call, pc, seen, result, got, events>>

Key(w) == IF call[w] = "approve" THEN KeyOf[w] ELSE ResumeKey

PCs == {"idle", "lock", "append", "walk", "reread", "route", "snapshot",
        "resume", "reopen",
        "post", "check", "recheck", "find", "create", "reply", "unlock",
        "settle", "approved", "failed", "close", "job", "done", "raised"}
\* What the callers tell apart: "failed" stands for the refusals, the lock that
\* is held and the client's time-out, "unavailable" for what
\* classify_post_failure_recoverability takes as recoverable.
Results == {"none", "success", "already_posted", "failed", "unavailable"}

Init ==
  /\ item \in [state : InitStates, ref : {0}]
  /\ update = [w \in Workers |-> "none"] /\ amend = [o \in Others |-> "none"]
  /\ overtaken = FALSE
  /\ bills = <<>> /\ wire = {} /\ slips = 0
  /\ lock = NoWorker
  /\ keylock = {} /\ decision = [k \in Keys |-> "none"]
  /\ job = [status |-> "none", claims |-> 0]
  /\ call = [w \in Workers |-> IF w \in Drains THEN "resume" ELSE "none"]
  /\ pc = [w \in Workers |-> "idle"]
  /\ seen = [w \in Workers |-> "none"]
  /\ result = [w \in Workers |-> "none"]
  /\ got = [w \in Workers |-> 0]
  /\ events = 0

row == <<item, update, amend, overtaken>>
erp == <<bills, wire, slips>>
decisions == <<keylock, decision>>

Goto(w, p) == pc' = [pc EXCEPT ![w] = p]
\* A call is over.  The drain loop goes on to its next tick.
Rest(w) == IF w \in Drains THEN "idle" ELSE "done"
\* An answer is ready: the drain settles the job with it.
Over(w) == IF w \in Drains THEN "job" ELSE "done"

\* Something goes wrong, or somebody comes in between.
Happens == events < MaxEvents /\ events' = events + 1
Slip == Happens /\ slips < MaxSlips /\ slips' = slips + 1

\* What the call was told is of no more use.
Forget(w) == /\ result' = [result EXCEPT ![w] = "none"]
             /\ got' = [got EXCEPT ![w] = 0]

-----------------------------------------------------------------------------
(* approve_invoice, up to the post.                                        *)

\* The item row and the snapshot of this decision key are read; an answer
\* already on record, or an item already posted, ends the call.
Click(c) ==
  /\ c \in People /\ pc[c] = "idle"
  /\ call' = [call EXCEPT ![c] = "approve"]
  /\ seen' = [seen EXCEPT ![c] = item.state]
  /\ Goto(c, IF \/ decision[KeyOf[c]] # "none"
                \/ item.state \in {"posted_to_erp", "closed"}
                \/ item.ref # 0 /\ item.state \notin {"needs_approval", "validated"}
             THEN "done" ELSE "lock")
  /\ UNCHANGED <<row, erp, lock, decisions, job, result, got, events>>

\* The next state of the walk to approved.
WalkTo == [received |-> "validated", validated |-> "needs_approval",
           needs_approval |-> "approved", approved |-> "approved"]

\* The states it goes on from, once it has asked for one.
WalkOn == [validated |-> {"validated", "needs_approval", "approved"},
           needs_approval |-> {"needs_approval", "approved"},
           approved |-> {}]

\* Where approve_invoice goes from a state it read: on with the walk from
\* those of S, to ready_to_post, or to an error.
Onwards(s, S) == IF s \in S THEN "walk"
                 ELSE IF s \in {"approved", "ready_to_post"} THEN "route"
                 ELSE "done"

\* _acquire_decision_action_lock looks for the audit row of the key ...
LockKey(c) ==
  /\ pc[c] = "lock"
  /\ Goto(c, IF KeyOf[c] \in keylock THEN "done" ELSE "append")
  /\ UNCHANGED <<row, erp, lock, decisions, job, call, seen, result, got, events>>

\* ... and appends one.  append_audit_event answers a key another writer got
\* in first with that writer's row, so the call takes itself for the holder.
AppendKey(c) ==
  /\ pc[c] = "append"
  /\ keylock' = keylock \cup {KeyOf[c]}
  /\ Goto(c, Onwards(seen[c], DOMAIN WalkTo))
  /\ UNCHANGED <<row, erp, lock, decision, job, call, seen, result, got, events>>

Reread(c) ==
  /\ pc[c] = "reread"
  /\ seen' = [seen EXCEPT ![c] = item.state]
  /\ Goto(c, Onwards(item.state, WalkOn[WalkTo[seen[c]]]))
  /\ UNCHANGED <<row, erp, lock, decisions, job, call, result, got, events>>

\* The "processing" snapshot.
Snapshot(c) ==
  /\ pc[c] = "snapshot"
  /\ decision' = [decision EXCEPT ![KeyOf[c]] = "processing"]
  /\ Goto(c, "post")
  /\ UNCHANGED <<row, erp, lock, keylock, job, call, seen, result, got, events>>

-----------------------------------------------------------------------------
(* resume_workflow, up to the post: by the retry queue or by hand.         *)

\* claim_agent_retry_job: pending to running, one more attempt counted.
Claim(d) ==
  /\ d \in Drains /\ pc[d] \in {"idle", "raised"}
  /\ job.status = "pending"
  /\ job' = [status |-> "running", claims |-> job.claims + 1]
  /\ result' = [result EXCEPT ![d] = "none"]
  /\ Goto(d, "resume")
  /\ UNCHANGED <<row, erp, lock, decisions, call, seen, got, events>>

\* The governance sweep or the recovery intent resumes the item directly.
ResumeByHand(o) ==
  /\ o \in People /\ pc[o] = "idle"
  /\ call' = [call EXCEPT ![o] = "resume"]
  /\ Goto(o, "resume")
  /\ UNCHANGED <<row, erp, lock, decisions, job, seen, result, got, events>>

\* resume_workflow's own guard.  A call that cannot resume tells the drain,
\* which then settles the job.
Resume(w) ==
  /\ pc[w] = "resume"
  /\ Goto(w, CASE item.state = "failed_post" -> "reopen"
                [] item.state = "ready_to_post" -> "post"
                [] OTHER -> Over(w))
  /\ UNCHANGED <<row, erp, lock, decisions, job, call, seen, result, got, events>>

-----------------------------------------------------------------------------
(* _post_to_erp.                                                           *)

Answer(w, r, p) == result' = [result EXCEPT ![w] = r] /\ Goto(w, p)

\* mutant: the answer of acquire_box_lock is ignored.
AcquireIgnored(w) ==
  /\ pc[w] = "post"
  /\ lock' = w /\ Goto(w, "check")
  /\ UNCHANGED <<row, erp, decisions, job, call, seen, result, got, events>>

\* acquire_box_lock: a try-lock.
Acquire(w) ==
  /\ pc[w] = "post"
  /\ IF lock = NoWorker
     THEN lock' = w /\ Goto(w, "check") /\ UNCHANGED result
     ELSE Answer(w, "failed", "settle") /\ UNCHANGED lock
  /\ UNCHANGED <<row, erp, decisions, job, call, seen, got, events>>

\* acquire_box_lock has no connection to try the lock on and answers
\* "no_infra": the post goes ahead without the lock.
AcquireFails(w) ==
  /\ pc[w] = "post"
  /\ Slip
  /\ Goto(w, "check")
  /\ UNCHANGED <<row, bills, wire, lock, decisions, job, call, seen, result, got>>

\* mutant: a refusal returns without going through the finally clause.
CheckStateLeaky(w) ==
  /\ pc[w] = "check"
  /\ IF item.state = "ready_to_post"
     THEN Goto(w, "recheck") /\ UNCHANGED result
     ELSE Answer(w, "failed", "settle")
  /\ UNCHANGED <<row, erp, lock, decisions, job, call, seen, got, events>>

\* The state guard, re-read under the lock.
CheckState(w) ==
  /\ pc[w] = "check"
  /\ IF item.state = "ready_to_post"
     THEN Goto(w, "recheck") /\ UNCHANGED result
     ELSE Answer(w, "failed", "unlock")
  /\ UNCHANGED <<row, erp, lock, decisions, job, call, seen, got, events>>

\* post_bill's erp_reference guard and pre_post_validate, the last reads of
\* the item before the adapter.  The key check between them (H10) never
\* matches: the success event is written without its idempotency_key.
Recheck(w) ==
  /\ pc[w] = "recheck"
  /\ IF item.ref # 0
     THEN Answer(w, "already_posted", "unlock")
     ELSE IF item.state \in {"ready_to_post", "approved"}
     THEN Goto(w, "find") /\ UNCHANGED result
     ELSE Answer(w, "failed", "unlock")
  /\ UNCHANGED <<row, erp, lock, decisions, job, call, seen, got, events>>

\* mutant: the adapter does not look before it makes the bill.
FindSkipped(w) ==
  /\ pc[w] = "find"
  /\ Goto(w, "create")
  /\ UNCHANGED <<row, erp, lock, decisions, job, call, seen, result, got, events>>

\* The adapter's find_bill_* pre-check, where it has one.
Find(w) ==
  /\ pc[w] = "find"
  /\ IF LooksUp /\ bills # <<>>
     THEN Answer(w, "already_posted", "unlock")
     ELSE Goto(w, "create") /\ UNCHANGED result
  /\ UNCHANGED <<row, erp, lock, decisions, job, call, seen, got, events>>

\* The lookup fails: the adapter goes on as if there were no bill.
FindFails(w) ==
  /\ pc[w] = "find" /\ LooksUp
  /\ Slip
  /\ Goto(w, "create")
  /\ UNCHANGED <<row, bills, wire, lock, decisions, job, call, seen, result, got>>

\* What the ERP does with a create request that carries key k.
WithBill(k) == IF HonoursKey /\ \E i \in 1..Len(bills) : bills[i] = k
               THEN bills ELSE Append(bills, k)

Create(w) ==
  /\ pc[w] = "create"
  /\ bills' = WithBill(Key(w))
  /\ got' = [got EXCEPT ![w] =
               IF bills' = bills THEN CHOOSE i \in 1..Len(bills) : bills[i] = Key(w)
               ELSE Len(bills')]
  /\ Goto(w, "reply")
  /\ UNCHANGED <<row, wire, slips, lock, decisions, job, call, seen, result, events>>

Reply(w) ==
  /\ pc[w] = "reply"
  /\ Answer(w, "success", "unlock")
  /\ UNCHANGED <<row, erp, lock, decisions, job, call, seen, got, events>>

\* The reply is lost: the client times out on a bill the ERP has, or a
\* gateway answers in the ERP's place.
LoseReply(w) ==
  /\ pc[w] = "reply"
  /\ \E r \in {"failed", "unavailable"} : Answer(w, r, "unlock")
  /\ got' = [got EXCEPT ![w] = 0]
  /\ UNCHANGED <<row, erp, lock, decisions, job, call, seen, events>>

\* The vendor is not in the ERP, the ERP turns the bill down, or the limiter
\* or a gateway does.
Refuse(w) ==
  /\ pc[w] = "create"
  /\ \E r \in {"failed", "unavailable"} : Answer(w, r, "unlock")
  /\ UNCHANGED <<row, erp, lock, decisions, job, call, seen, got, events>>

\* Requests of workers that stopped waiting can still reach the ERP.
LeavesRequest(w) == pc[w] = "create" /\ slips + Cardinality(wire) < MaxSlips

\* The client or a gateway times out before the ERP acted, or the ERP takes
\* the request for later; the request may be on its way.
GiveUp(w) ==
  /\ pc[w] = "create"
  /\ \E r \in {"failed", "unavailable"} : Answer(w, r, "unlock")
  /\ \/ UNCHANGED <<wire, events>>
     \/ LeavesRequest(w) /\ Happens /\ wire' = wire \cup {w}
  /\ UNCHANGED <<row, bills, slips, lock, decisions, job, call, seen, got>>

Land(w) ==
  /\ w \in wire
  /\ wire' = wire \ {w}
  /\ bills' = WithBill(Key(w))
  /\ slips' = slips + 1
  /\ UNCHANGED <<row, lock, decisions, job, pc, call, seen, result, got, events>>

\* The result is audited and the finally clause releases the lock, if the call
\* has it; only then does the caller write the outcome to the item.
Unlock(w) ==
  /\ pc[w] = "unlock"
  /\ lock' = IF lock = w THEN NoWorker ELSE lock
  /\ Goto(w, "settle")
  /\ UNCHANGED <<row, erp, decisions, job, call, seen, result, got, events>>

\* Only "success" counts; any other status sends the item to failed_post.
WonOrUnknown(w) == result[w] \in {"success", "unavailable"}  \* mutant
Won(w) == result[w] = "success"

-----------------------------------------------------------------------------
(* A write of the item by a call: _transition_invoice_state.               *)

\* The places of a call that ask for a state, the state each asks for, and
\* where the call goes on.
Asking == {"walk", "route", "reopen", "settle", "close"}

Target(w) ==
  CASE pc[w] = "walk" -> WalkTo[seen[w]]
    [] pc[w] \in {"route", "reopen"} -> "ready_to_post"
    [] pc[w] = "settle" -> IF Won(w) THEN "posted_to_erp" ELSE "failed_post"
    [] pc[w] = "close" -> "closed"

After(w) ==
  CASE pc[w] = "walk" -> "reread"
    [] pc[w] = "route" -> "snapshot"
    [] pc[w] = "reopen" -> "post"
    [] pc[w] = "settle" -> IF call[w] = "approve"
                           THEN IF Won(w) THEN "approved" ELSE "failed"
                           ELSE IF Won(w) THEN "close" ELSE Over(w)
    [] pc[w] = "close" -> Over(w)

Update(w, u) == update' = [update EXCEPT ![w] = u]

\* A write of the other columns matters here if it names a bill.
NamesBill(w) == pc[w] = "settle" /\ Won(w)

\* The caller reads the row.  For the state already held it writes the other
\* columns only.
Request(w) ==
  /\ pc[w] \in Asking /\ update[w] = "none"
  /\ IF item.state = Target(w) /\ ~NamesBill(w)
     THEN Goto(w, After(w)) /\ UNCHANGED update
     ELSE /\ Update(w, IF item.state = Target(w) THEN "columns" ELSE "check")
          /\ UNCHANGED pc
  /\ UNCHANGED <<item, amend, overtaken, erp, lock, decisions, job, call, seen,
                 result, got, events>>

\* update_ap_item reads it again; an illegal edge raises out of the call,
\* except from its attempt to close the item, which swallows the error.
Validate(w) ==
  /\ update[w] = "check"
  /\ IF Legal(item.state, Target(w))
     THEN Update(w, "state") /\ UNCHANGED pc
     ELSE Update(w, "none") /\ Goto(w, IF pc[w] = "close" THEN After(w) ELSE "raised")
  /\ UNCHANGED <<item, amend, overtaken, erp, lock, decisions, job, call, seen,
                 result, got, events>>

\* An UPDATE to t takes the item out of a state that t does not follow.
Overtakes(t) == item.state # t /\ ~Legal(item.state, t)

\* The UPDATE, whatever the state is by then.  The outcome of a post that
\* succeeded names the bill in the same statement.
Write(w) ==
  /\ update[w] \in {"columns", "state"}
  /\ LET t == IF update[w] = "state" THEN Target(w) ELSE item.state
     IN  /\ item' = [state |-> t, ref |-> IF NamesBill(w) THEN got[w] ELSE item.ref]
         /\ overtaken' = (overtaken \/ Overtakes(t))
  /\ Update(w, "none")
  /\ Goto(w, After(w))
  /\ UNCHANGED <<amend, erp, lock, decisions, job, call, seen, result, got, events>>

-----------------------------------------------------------------------------
(* What a call records once the item is settled.                           *)

RecordApproved(c) ==
  /\ pc[c] = "approved"
  /\ decision' = [decision EXCEPT ![KeyOf[c]] = "approved"]
  /\ Forget(c) /\ Goto(c, "close")
  /\ UNCHANGED <<row, erp, lock, keylock, job, call, seen, events>>

\* classify_post_failure_recoverability: the limiter's refusal, a gateway's 502,
\* 503 or 504 and NetSuite's unfinished task can be tried again.  What the adapters
\* make of a time-out of the client, bill_posting_failed, cannot.
Recoverable(r) == r = "unavailable"

\* The "failed" snapshot and, for a failure classified as recoverable, the
\* retry job.  The job's key is the item's: an existing job is returned as it
\* is, whatever its status.
RecordFailed(c) ==
  /\ pc[c] = "failed"
  /\ decision' = [decision EXCEPT ![KeyOf[c]] = "failed"]
  /\ job' = IF Recoverable(result[c]) /\ job.status = "none"
            THEN [job EXCEPT !.status = "pending"] ELSE job
  /\ Forget(c) /\ Goto(c, "done")
  /\ UNCHANGED <<row, erp, lock, keylock, call, seen, events>>

\* The drain writes the outcome back: "recovered" completes the job, a post
\* that still fails is rescheduled while attempts remain, the rest is dead.
\* An attempt that could not resume the item carries no result.
JobOutcomeMisspelt(d) ==  \* mutant: the outbox's word for a dead job
  IF Won(d) THEN "completed"
  ELSE IF result[d] # "none" /\ job.claims < MaxRetries
  THEN "pending" ELSE "dead"
JobOutcomeKind(d) ==  \* mutant: a bill found in the ERP counts as recovered
  IF result[d] \in {"success", "already_posted"} THEN "completed"
  ELSE IF result[d] # "none" /\ job.claims < MaxRetries
  THEN "pending" ELSE "dead_letter"
JobOutcome(d) ==
  IF Won(d) THEN "completed"
  ELSE IF result[d] # "none" /\ job.claims < MaxRetries
  THEN "pending" ELSE "dead_letter"

EndJob(d) ==
  /\ pc[d] = "job"
  /\ job' = [job EXCEPT !.status = JobOutcome(d)]
  /\ Forget(d) /\ Goto(d, "idle")
  /\ UNCHANGED <<row, erp, lock, decisions, call, seen, events>>

-----------------------------------------------------------------------------
(* Interference.                                                           *)

\* A call that is waiting for the ERP leaves its request behind.
Abandon(w) ==
  /\ lock' = IF lock = w THEN NoWorker ELSE lock
  /\ wire' = IF LeavesRequest(w) THEN wire \cup {w} ELSE wire

\* asyncio.wait_for cancels a resume that takes too long: the finally clause
\* releases the lock and the drain dead-letters the job.
CancelResume(d) ==
  /\ d \in Drains /\ pc[d] \in {"find", "create", "reply"}
  /\ Abandon(d)
  /\ job' = [job EXCEPT !.status = "dead_letter"]
  /\ Forget(d) /\ Goto(d, "idle")
  /\ UNCHANGED <<row, bills, slips, decisions, call, seen, events>>

\* The process dies: its advisory lock goes with its connection, a claimed
\* job stays as it is.
Crash(w) ==
  /\ pc[w] \notin {"idle", "done", "raised"}
  /\ Happens
  /\ Abandon(w)
  /\ Update(w, "none")
  /\ Forget(w) /\ Goto(w, Rest(w))
  /\ UNCHANGED <<item, amend, overtaken, bills, slips, decisions, job, call, seen>>

\* attempt_approval_revert, inside its window, reads and checks the state; it
\* takes no box lock.  (What update_ap_item reads before it checks again is
\* revertible or illegal.)
Revert(o) ==
  /\ amend[o] = "none" /\ Happens
  /\ item.state \in {"approved", "ready_to_post"}
  /\ amend' = [amend EXCEPT ![o] = "needs_approval"]
  /\ UNCHANGED <<item, update, overtaken, erp, lock, decisions, job, pc, call, seen,
                 result, got>>

\* reject_invoice by another person, whose decision key no click shares.
Reject(o) ==
  /\ amend[o] = "none" /\ Happens
  /\ Legal(item.state, "rejected")
  /\ amend' = [amend EXCEPT ![o] = "rejected"]
  /\ UNCHANGED <<item, update, overtaken, erp, lock, decisions, job, pc, call, seen,
                 result, got>>

\* The UPDATE of either, whatever the state is by then.
Amend(o) ==
  /\ amend[o] # "none"
  /\ item' = [item EXCEPT !.state = amend[o]]
  /\ overtaken' = (overtaken \/ Overtakes(amend[o]))
  /\ amend' = [amend EXCEPT ![o] = "none"]
  /\ UNCHANGED <<update, erp, lock, decisions, job, pc, call, seen, result, got, events>>

-----------------------------------------------------------------------------
\* What a running call does next, whatever the ERP answers.
Step(w) ==
  \/ LockKey(w) \/ AppendKey(w) \/ Reread(w) \/ Snapshot(w) \/ Resume(w)
  \/ Request(w) \/ Validate(w) \/ Write(w) \/ Acquire(w) \/ AcquireFails(w)
  \/ CheckState(w) \/ Recheck(w) \/ Find(w) \/ FindFails(w)
  \/ Create(w) \/ Refuse(w) \/ GiveUp(w) \/ Reply(w) \/ LoseReply(w)
  \/ Unlock(w) \/ RecordApproved(w) \/ RecordFailed(w) \/ EndJob(w)

Next ==
  \/ \E w \in Workers : Step(w) \/ Click(w) \/ Claim(w) \/ ResumeByHand(w)
                        \/ Land(w) \/ CancelResume(w) \/ Crash(w)
  \/ \E o \in Others : Revert(o) \/ Reject(o) \/ Amend(o)

\* A call that has started goes on (the HTTP clients time out, so an ERP
\* call ends one way or another), and the drains keep ticking.  Nobody has
\* to click, and no request has to land.
Fairness == \A w \in Workers : WF_vars(Step(w)) /\ WF_vars(Claim(w))

Spec == Init /\ [][Next]_vars /\ Fairness
-----------------------------------------------------------------------------
(* Properties.                                                             *)

TypeOK ==
  /\ item \in [state : APState, ref : Nat]
  /\ update \in [Workers -> {"none", "check", "columns", "state"}]
  /\ amend \in [Others -> {"none", "needs_approval", "rejected"}]
  /\ overtaken \in BOOLEAN
  /\ bills \in Seq(PostKeys)
  /\ wire \subseteq Workers /\ slips \in Nat
  /\ lock \in Workers \cup {NoWorker}
  /\ keylock \subseteq Keys
  /\ decision \in [Keys -> {"none", "processing", "approved", "failed"}]
  /\ job \in [status : {"none", "pending", "running", "completed", "dead_letter"},
             claims : Nat]
  /\ call \in [Workers -> {"none", "approve", "resume"}]
  /\ pc \in [Workers -> PCs]
  /\ seen \in [Workers -> APState \cup {"none"}]
  /\ result \in [Workers -> Results]
  /\ got \in [Workers -> Nat]
  /\ events \in Nat

\* _post_to_erp's box lock and the adapter's lookup: however clicks, drains
\* and operators interleave, crash or time out, every bill beyond the first
\* goes back to a lookup that failed, a lock that could not be tried, or a
\* request that landed after its caller had left.
ExtraBillsNeedASlip == LooksUp => Len(bills) <= 1 + slips

\* posted_to_erp means the bill is there: an item in posted_to_erp or closed
\* carries the reference of a bill the ERP holds.
PostedHasBill ==
  item.state \in {"posted_to_erp", "closed"} => item.ref \in 1..Len(bills)

\* What the system tells people afterwards: an approved snapshot, with which
\* a repeated click is answered, or a completed retry job is on record only
\* for an item that names a bill the ERP holds, whatever was written over the
\* item since; and the item is posted, unless such a write has taken it out
\* of that state.
SuccessClaimsAreTrue ==
  (job.status = "completed" \/ \E k \in Keys : decision[k] = "approved")
    => /\ item.ref \in 1..Len(bills)
       /\ item.state \in {"posted_to_erp", "closed"} \/ overtaken

\* The payment is tracked by erp_reference: once written, it changes only
\* after a slip has put a second bill into the ERP.
ReferenceIsFinal ==
  [][(LooksUp /\ item.ref # 0 /\ item'.ref # item.ref) => slips > 0]_vars

\* The item, the retry job or a snapshot says that the bill is posted.
SuccessIsClaimed ==
  \/ item.state \in {"posted_to_erp", "closed"}
  \/ job.status = "completed"
  \/ \E k \in Keys : decision[k] = "approved"

\* The promise of a component that makes something it does not control: the
\* adapter looks a bill up before it makes one.
Bill == INSTANCE ExternalEffect WITH
  Looks <- LooksUp,
  made <- Len(bills), lost <- slips, known <- item.ref,
  claimed <- SuccessIsClaimed

\* _post_to_erp and what its callers write after it keep that promise.
ImplementsExternalEffect == Bill!Spec

\* The part of _post_to_erp between acquire_box_lock and the end of its
\* finally clause.
Locked == {"check", "recheck", "find", "create", "reply", "unlock"}

\* The workers in that part with the lock are the processes inside a mutex;
\* those that acquire_box_lock let through without it are not.
BoxLock == INSTANCE Mutex WITH
  Processes <- Workers, Free <- NoWorker, holder <- lock,
  inside <- {w \in Workers : pc[w] \in Locked /\ lock = w}

\* acquire_box_lock and the finally clause, as every guard, ERP answer,
\* cancellation or crash leaves them, are the two steps of that mutex.
ImplementsMutex == BoxLock!Spec

\* The finally clause of _post_to_erp: no worker keeps the box lock for
\* ever, whichever guard, ERP answer, cancellation or crash ends its post.
BoxLockIsReleased == \A w \in Workers : lock = w ~> lock # w

\* resume_workflow: "a duplicate network call never double-posts to the ERP".
AtMostOneBill == Len(bills) <= 1
=============================================================================
