# Solden AP: formal models

TLA+ models of the accounts-payable core of Solden (Clearledgr-AP), the
configurations that check them with TLC, and theorems about them proved with
TLAPS. Line numbers and quotes refer to the sources under `src/solden/`.
`PROJECT.json` maps every definition to the lines it stands for.

## The system

Invoices come in by mail, become AP *items* (rows of `ap_items`, also called
boxes), are validated, approved in Slack, Teams or Gmail, posted as bills to an
ERP (QuickBooks, Xero, NetSuite, SAP), and closed or paid. Web processes,
background loops and Celery workers run the same Python code against one
Postgres database; the only mutual exclusion between them is what the database
and a few advisory locks give.

| Part | State | Operations | Talks to |
|---|---|---|---|
| State graph `core/ap_states.py` | none | validate, transition_or_raise | every writer of `ap_items.state` |
| AP store `core/stores/ap_store.py` | `ap_items`, `audit_events`, `agent_retry_jobs` | update_ap_item (optionally gated by `updated_at`), append_audit_event, job claims | everything |
| Compare-and-swap `services/box_cas.py`, fraud flags | none | read, mutate, gated write, retry | store |
| Box lifecycle `core/stores/box_lifecycle_store.py` | `box_outcomes`, `box_exceptions` | record_box_outcome (first writer) | written by the store after its commit |
| Box lock `core/box_lock.py` | Postgres advisory locks | try-lock, release | posting, dispatch, plans |
| Posting `services/invoice_posting.py` | items, approval snapshots, decision-lock audit rows | approve, reject, resume, post | store, router, lock |
| ERP router and adapters `integrations/` | the ERP's bills | post_bill, reverse_bill, lookups, keys | ERPs over HTTP |
| Retry queue `services/agent_retry_jobs.py` | `agent_retry_jobs` | claim, resume, reschedule, dead-letter | posting |
| Approval revert `services/approval_revert.py` | items | back to needs_approval inside a window | store |
| Override windows `services/override_window.py` | `override_windows` | open, undo, expire | router, store, reaper loop |
| Approval dispatch `services/invoice_workflow.py` | `metadata.approval_dispatch` | deliver one Slack card | lock, store, Slack |
| Event queue `core/event_queue.py`, `services/celery_tasks.py` | two Redis streams, a pending list, dedup keys, Celery messages | enqueue, drain (claim, dispatch, ack), reclaim, run, retry | webhooks, callbacks, timers; coordination engine |
| Workspace semaphore `services/workspace_semaphore.py` | a Redis counter per workspace | acquire, release | the task that runs an event |
| Planning engine, coordination engine `core/coordination_engine.py` | `waiting_condition`, `pending_plan`, the timeline | execute, wait, resume, time out | lock, store, posting, skills |
| Dual approval `services/dual_approval.py` | signatures in the item's metadata | first and second approval, revocation | store |
| Payments `services/payment_tracking.py` | `payment_confirmations` | record a confirmation, walk the item | ERP webhooks and pollers, operators; store |
| Outbox and observers `services/outbox.py` | `outbox_events` | enqueue, claim, retry | observers; no code starts its worker |
| Bank-detail freeze, vendor onboarding, webhooks | their own tables | their own state graphs | store |

What is hard in it: a check on one connection and a write on another; locks
released before the outcome is written; replies from the ERP that are lost
after the ERP acted; a person, a retry and a governance sweep working on the
same item; marks that are conditional but whose answer nobody reads; processes
that die between a claim and its outcome. `PROJECT.json` lists these hazards by
line.

What makes each part correct: the store, that states move along the graph, flags
are not lost and the trail tells what happened; posting, that an invoice gets
one bill and the item knows it; the retry queue, that a due job is settled;
windows, that a reversal that is claimed was made and that each window ends
once and does end; dispatch, one card per approval round; the event queue, that
an event is held until it has run, that a priority is not starved and that a
workspace's limit holds; plans, that
an action is on record before it runs, runs once however its plan is paused and
resumed, and that a box is worked on by one task at a time; dual approval, that
two people really sign; payments, that a confirmed payment moves the item once.

## Modules

| Module | Stands for |
|---|---|
| `APStates` | states, `VALID_TRANSITIONS`, outcome states |
| `APItemStore` | one row under concurrent `update_ap_item` calls |
| `ErpPosting` | approve, post, resume, retry one item against an ERP |
| `OverrideWindow` | undoing a post against the reaper |
| `ApprovalDispatch` | asking for approval once, and recovering a dispatch that failed half-way |
| `Mutex` | what the box lock promises: one holder, who alone lets it go |
| `ExternalEffect` | what a component promises that makes one bill or one card in a system it does not control |
| `AtomicRow` | the row that the store's callers believe in: each change one step |
| `HandOver` | what becomes of a message handed over through a queue: held until it has run, lost only after a consumer has abandoned it |
| `AtMostOnce` | what a consumer promises that marks a message before it acts on it |
| `EventPipeline` | the way of an event from its producer to the engine; implements `HandOver` |
| `CoordinationEngine` | the tasks that run, pause and resume the plans of one box |
| `DualApproval` | the two-person rule under concurrent calls |
| `PaymentTracking` | payment confirmations delivered again and again, and the walk of the item |
| `*_proofs` | inductive invariants and theorems of the module they extend |
| `MC_*` | values of constants for TLC |

`ErpPosting`, `OverrideWindow`, `ApprovalDispatch`, `DualApproval` and
`PaymentTracking` share `APStates`. `update_ap_item` reads the item and checks
the edge on one connection (`ap_store.py:352-362`) and sends its UPDATE on
another (397-399), which nothing gates unless the caller passes
`_expected_updated_at`. What that does to the store itself is `APItemStore`'s
subject; `ErpPosting`, `DualApproval` and `PaymentTracking`, whose writers move
one item at the same time, have the check and the UPDATE as two steps as well,
and the caller's own read as a third. `OverrideWindow` and `ApprovalDispatch`
take one store call as one step: the only state the calls of the first bring the
item into is the reaper's closed, which it asks for when the window has ended and
nothing else waits for, and the second's properties are about cards, the thread
and the dispatch record, which no state check guards.

The modules follow an item on its way: `ApprovalDispatch` takes it to
needs_approval, `DualApproval` from there to approved where two people have to
sign, `ErpPosting` from the click to `posted_to_erp`, where a window opens
(`OverrideWindow`) and payments arrive (`PaymentTracking`). `EventPipeline` ends
where `CoordinationEngine` begins: the Run of a task message is the execute of a
plan, and a task message the pipeline delivers twice is a redelivery there.
Five small modules say what the others promise, and the others implement them:

| Abstract | Implemented by | As |
|---|---|---|
| `Mutex` | `ErpPosting`, `ApprovalDispatch`, `CoordinationEngine` | `ImplementsMutex` |
| `ExternalEffect` | `ErpPosting`, `ApprovalDispatch` | `ImplementsExternalEffect` |
| `AtomicRow` | `APItemStore` | `ImplementsRow`, and `GatedRow!Spec` where every writer gates |
| `HandOver` | `EventPipeline` | `HeldUntilRunOrAbandoned` |
| `AtMostOnce` | `PaymentTracking` | `ImplementsAtMostOnce` |

The box lock is one primitive with three users, so its three uses are shown
against one `Mutex`. A bill and an approval card are the same problem, a thing
made in another system whose answer may be lost, so both are shown against one
`ExternalEffect`: what is `known` of the thing (the item's reference, the row's
Slack thread) names one that was made and is not forgotten, a further one is made
only for one that was lost, and success is claimed only of what is known. A claim
may be taken back: a state that says posted can be overwritten by a write checked
before it.
A definition marked "mutant" in a comment is a plausible bug of its neighbour,
kept to show that each checked property can fail.

### APItemStore

State: `row` (state, a version for `updated_at`, fraud flags), `trail`
(state_transition audit rows, with a bit that tells whether the UPDATE of the
same transaction matched), `outcome` (the `box_outcomes` row), `call` (each
caller's place and what it has read), `promised` (what returned flag calls told
their callers). Actions: `StartCas` (`update_box_with_cas`), `StartPlain`
(`_transition_invoice_state`), `StartFlag`/`Retry` (the flag loops),
`TouchOtherColumns`, `Validate` (the store's read and check), `WriteState`,
`WriteFlags` (its transaction), `Mirror`, `Crash`. The gap between `Validate`
and `WriteState` is the gap between the two connections in the code. A timestamp
is a version number: each UPDATE stamps a fresh microsecond time, taken to be
unique. The store's answer after a state change comes from the audit INSERT's
row count (`ap_store.py:484`), so `WriteState` goes on as a success either way.

### ErpPosting

State: `item` (state, reference), `update` (how far each worker is with a write
of the item) and `amend` (what each of the `Others` is about to write), `bills`
in the ERP with the key each came with, `wire` (requests that may land after
their caller left), `lock`, `keylock` and `decision` (decision-lock rows and
snapshots), `job` (the retry job), and per worker `call`, `pc`, `seen`, `result`,
`got`; `slips` and `overtaken` are history. Workers are people (one call each of
approve_invoice or resume_workflow) and drains of the retry queue. One action per
database or ERP call: click, decision lock, state walk, snapshot; resume and
reopen; box lock, two state checks, lookup, create, answer, unlock; then the
outcome: state, snapshot, job, close. Wherever a call asks for a state
(`Asking`), `_transition_invoice_state` is three actions: `Request` reads the row
(and writes only the other columns, or nothing, if the state is there already),
`Validate` is the store's check, whose illegal edge raises out of the call except
from the attempt to close, and `Write` the UPDATE, whatever the state is by then.
`Others` revert the approval or reject the item by the same gap (`Revert`,
`Reject`, then `Amend`). `overtaken` is set by an UPDATE whose state does not
follow from the one it overwrites: a click that met the lock held and validated
failed_post, say, and writes it over the holder's posted_to_erp. `LooksUp` and
`HonoursKey` tell the adapters apart: QuickBooks, NetSuite and SAP look the bill
up first; Xero only replays keys. `slips` counts failed lookups, late
requests and locks that could not be tried (`AcquireFails`, the "no_infra" answer
after which the code goes ahead), the three events that defeat the lookup. A
retry job is made for what `classify_post_failure_recoverability` takes as
recoverable (`Recoverable`: the limiter's refusal, a gateway's 502 to 504), not
for a time-out of the client, which the adapters report as bill_posting_failed.

### OverrideWindow

State: `windows` in the order they were opened (state, whether overdue), the
item's `state` and its `reversal_reference` `marker`, the `audit` row under each
window's key, the ERP's `bill`, `wire`, and per caller `target`, `pc`, `result`.
Reversers come from the Slack card of any window or the intent that picks the
newest; reapers list overdue windows. `Load`, `Guards`, the ERP call, `Audit`,
`Persist`, `Mark`, `ReverseItem` and `Expire`, `Close`, `Closing` follow
`attempt_reversal`, `reverse_bill` and `expire_window` call by call.
`ReverseItem` changes nothing: the request carries a column the store refuses and
the error is swallowed. The writes of the audit event and of the marker may fail
as well and are swallowed (`Audit` and `Persist` may leave things as they are),
and `Overwrite` is a writer of the whole metadata document that takes the marker
away again.

### ApprovalDispatch

State: the item's `state`, the dispatch `record` in its metadata (status and the
card it names), the row's Slack columns `thread`, the `cards` people have got
and which of them went out without a thread_ts (`dms`), `slips` (cards the
system lost track of before it saved them), the box `lock`, `bare` (the calls
that could not try the lock and went ahead without it, `AcquireFails`), and per
worker `pc` and `held`, which ends with the call. Dispatchers follow
`_send_for_approval`: a look at the record before and under the lock, the state,
the thread, `Pending`, `Deliver`, then `Save`, `Settle`, `Flip`, or `Orphan`
when one of them fails. The reaper lists orphans (`Reap`), takes the lock
(`Acquire`) and repeats the writes (`Resave`, `Restate`, `Merge`). Scribes are
the many callers of `_update_ap_item_metadata`: they read the document
(`ScribeReads`) and write all of it back later (`ScribeWrites`), an old dispatch
record included. `MoveOn` is people and the rest of the workflow. A card counts
as one delivery; the copy that goes to the channel beside a direct message is
the same card. Slack's DM failure followed by the channel, and the webhook's
followed by the bot, are both `LoseReply` back to the delivery.

### EventPipeline

State: the two streams `high` and `standard`, the entries read and not
acknowledged (`pel`), the deduplication `keys`, the producers' places between
SET NX and XADD (`adding`), the Celery messages (`broker`), what each worker
process does (`slot`), the semaphore's `count`; `adds`, `dispatched`, `drift`,
`slips`, `ran` and `abandoned` are history. `TakeKey`, `AddToStream`,
`ProducerDies` are `enqueue`; `BeatDrain` and `TakeTask` are Celery; `ReadHigh`,
`ReadStandard`, `ReadFails`, `DispatchClaimed`, `AckClaimed`, `DrainDies` follow
`drain_event_stream` and `claim_next` one Redis or broker call at a time;
`ReclaimStale` is the sweep of entries idle for a minute; `Acquire`, `GiveBack`,
`AcquireFailsOpen`, `Run`, `Release`, `ReleaseFails`, `ResetCounter`,
`KeyExpires` and `WorkerDies` are `process_agent_event` with its semaphore.
`XREADGROUP` with `block=0` waits for ever, so the reads have the non-empty
stream as their guard. `slips` counts the events that a Redis error or a counter
set to 0 let past the limit, and nothing else. `ran` has the events whose
`_dispatch_event` has ended, `abandoned` those a task ended for without running
them: its retries ran out while the workspace was over its limit, or its child
process was killed, which makes Celery acknowledge the message
(`task_reject_on_worker_lost` is not set). The refinement of `HandOver` computes
a message's status from where the event is: in a stream, pending, in a message,
in a worker; run; or, abandoned and nowhere else, lost.

### CoordinationEngine

State: the box (`exists`, `waiting`, `pending`), its advisory `lock`, and per
delivery a `task` with its stack of plans (a resumed plan runs nested in the plan
that resumed it), its context and its place; `opened` and `closed` are the
timeline's "executing" and result rows; `ran`, `acted`, `excused` are history.
`Dispatch`, `AcquireLock`, `LockHeld`, `NoLockInfra` begin `execute`; `PreWrite`,
`Act`, `PostWrite`, `SaveWait`, `Complete` and their failures are one turn of
`_execute_body`; `ResumePlan` and `Return` are `_handle_resume_plan`;
`ResumeTimesOut`, `BodyRaises` and `Crash` are the ways out. `PostBill` goes well
with the lock held by another as well as without it: an item that is posted
already is not posted again. A plan is a suffix of
the plan of its event, as `remaining_from` makes it. The planning engine appears
as the table `Actions`, with every run of actions that neither wait nor touch the
saved plan folded into "plain". AP states are left out: an action's stage move
may be illegal, which is one of the reasons behind "abort". The box is worked on
for five kinds of event; label changes, rejections and bank-detail events have
plans of plain actions only and would run as "reply" does.

### DualApproval

State: the item's `state`, the signatures on record (`signed`), whether the
amount is over the threshold (`large`), each `call` with the row it read, each
scribe's `copy` of the metadata; `standing`, `route` and `misled` are history.
`Read` and `ReadThreshold` are the reads of the three endpoints with their checks,
`Check` is the store's own check of the edge, `SignFirst`, `ApproveSmall`,
`SignSecond` and `Revoke` the ungated UPDATE of state and metadata. Around them:
`SetThreshold`, the scribes of `ApprovalDispatch`, and requests of the other
surfaces (`other`): a click of approve_invoice, a rejection, the route to
ready_to_post and attempt_approval_revert, each with its read (`ReadElsewhere`,
where it has one that matters), the store's check (`CheckElsewhere`) and its
UPDATE (`WriteElsewhere`). `misled` names the three gaps that falsify what the
properties say otherwise: a route's UPDATE that lands on an item sent back after
its check, a second signature on a row other than the one its call read, and a
stale copy of the metadata put back.

### PaymentTracking

State: the item's `state`, what the ERP knows of each payment (`bank`), the
`ledger`, whether the vendor is `blocked`, each delivery's `call` and each
closer's place (`closing`); `dropped` and `overtaken` are history. `Deliver`,
`Check`, `Insert`, `ReadItem`, `CheckHop`, `Hop`, `Answer` follow
`record_payment_confirmation`: a hop of the walk is the store's check and then
its UPDATE. `Crash` ends a call anywhere, which the webhook answers with 200 all
the same. `Pay` and `Screen` are the world; `FindPosted`, `CheckClose` and
`Close` are the expiry of a window and the payment poll, which close posted
items. `dropped` has the payments whose walk ended early (the call died, or an
IllegalTransitionError stopped it), `overtaken` is set by an UPDATE whose state
does not follow from the one it overwrites: of two walks, each may check a hop
before the other's UPDATE and land on it, and nothing raises.

## Runs

Passing runs:

- **store**: two callers of every kind, crashes, up to four versions. No flag or
  resolution whose call returned is lost (`NoLostFlag`); gated state changes are
  edges from the state the row really has (`GatedWritesAreLegal`). Symmetric in
  the callers; deadlock is off because callers stop at the version bound.
- **posting**: two people with their own decision keys, one drain, a third person
  who reverts or rejects, an ERP with lookup, one slip, and one crash, revert or
  rejection. More than one bill needs a slip (`ExtraBillsNeedASlip`), a posted
  item has a bill (`PostedHasBill`), an approved snapshot or a completed job is
  backed by a bill the item names, and by a posted item unless an UPDATE checked
  against an earlier state was written over it (`SuccessClaimsAreTrue`), every
  step is one of `ExternalEffect` or does not show there
  (`ImplementsExternalEffect`, which has the reference stay as long as nothing
  slipped), the box lock is let go (`BoxLockIsReleased`). Deadlock is off: the
  calls end.
- **override**: two undos, a reaper, one window, lost replies, late requests and
  one crash. Claims of a reversal are true (`ReversalClaimsAreTrue`), a window
  ends once (`WindowEndsOnce`) and does end (`WindowsEnd`), a reaper that lost
  the race leaves the item alone (`LosingReaperLeavesItem`).

- **dispatch**: two dispatchers, the reaper, one scribe, two failures (a crash,
  a read or write that fails, a lost Slack reply, a lock that cannot be tried).
  One card, and one more only for a card lost before it was saved or a call
  without the lock (`ExtraCardsNeedASlip`); a row with a thread gets no card
  while every call could try the lock (`RoutedItemsGetNoCard`); "dispatched"
  names a card that is out and the row has a thread (`DispatchedHasThread`),
  though a scribe can put any old record back; an orphan that has a thread_ts
  does not stay one (`OrphansAreRecovered`).

- **pipeline**: a high-priority event, a standard one and one that does not
  parse, two worker processes, a limit of one, one crash or Redis error. An
  accepted event is held somewhere until it has run, and is lost only after a
  task gave it up and with its last copy (`HeldUntilRunOrAbandoned`, the
  refinement of `HandOver`), an event has one stream entry (`StreamEntryOnce`),
  the semaphore's books balance (`SlotConservation`), the limit holds but for
  what faults let past it (`ConcurrencyBounded`), and high-priority events are
  read unless every worker hangs in the other stream (`HighEventsRead`).
  Deadlock is off because that is how the system can stop.
- **engine**: a mail, a goods receipt, the poll for it, an approval and the ERP's
  recheck, in three deliveries on two workers, one fault. An action is on the
  timeline before it runs (`RecordedBeforeRun`), the actions planned for an event
  run in order and at most once across pauses, time-outs and resumptions
  (`ActionsRunOnce`), no row stays "executing" (`ExecutingRowsAreClosed`), of two
  tasks on one box one runs without its lock (`EnginesTakeTurns`), and the lock is
  free again and again (`LockIsReleased`). Deadlock is off: deliveries end.
- **dual**: three calls of any kind by the requester and two approvers, two
  requests of the other surfaces at a time, a scribe. A pending bill has the
  standing signature of its first signer (`PendingHasItsSigner`); a bill that is
  approved or on its way to the post has a standing approval, and two if
  second_approve approved it (`ApprovalsStand`), each unless `misled`; the
  requester's signature is never on record, whatever stale row or copy is written
  back (`NobodySignsOwnBill`, without exception). Symmetric in calls, requests
  and approvers.
- **payment**: two payments from the ERP and one typed in, three interchangeable
  deliveries, a task that closes the item, one crash. The item's payment states
  are backed by the ledger (`StatesAreBacked`), one delivery of a payment walks
  the item (`OneCallWalks`), a confirmed payment moves it unless its walk was cut
  short or an UPDATE landed on a state it does not follow (`ConfirmedItemsMove`),
  and each payment goes its way through `AtMostOnce` (`ImplementsAtMostOnce`).

Runs that end in a counterexample, each against a sentence of the repository
(quoted in `PROJECT.json`, "findings"):

- **posting_twice**: on Xero, a resume between a post's unlock and its outcome
  posts a second bill under another key.
- **pipeline_standard**: without any fault a standard event is never read: the
  drain waits in the blocking read of the high-priority stream.
- **engine_self**: a post inside a plan meets the box lock that its own plan
  holds, and takes it for another worker's.
- **dual_one**: with the three endpoints alone, a revocation between
  second_approve's read and its write leaves a bill approved with one signature
  that stands.

The models reach more than these four. Some of it contradicts a sentence of the
repository; it is on the list of hazards, and the property nearest to it excuses
it by name or stops short of it:

- `APItemStore`: a gated state write that matched nothing passes for a success,
  with an audit row and an outcome of a move that was not made.
  `ap_store.py:285-288` says that such an update returns False and the caller
  must read again, and the retry of `box_cas.py:32-38` is built on that. No
  property relates the trail to the row.
- `OverrideWindow`: an undo that answers "reversed" leaves the item in
  posted_to_erp; `override_window.py:301-303` says that it moves to reversed.
- `ApprovalDispatch`: the reaper of orphaned dispatches takes an approval back;
  `agent_background.py:374-377` says that the state machine refuses that.
- `EventPipeline`: an event whose child process was killed, or whose task was
  refused a slot until its retries ran out, is gone without having run.
  `celery_app.py:64` has a task survive a worker's crash, `event_queue.py:29`
  events not be lost, `workspace_semaphore.py:4-6` events over the limit be
  queued. `HeldUntilRunOrAbandoned` calls them abandoned.
- `PaymentTracking`: a walk overtaken between its check and its UPDATE lands all
  the same; `payment_tracking.py:239-243` takes it that an IllegalTransitionError
  stops it. `ConfirmedItemsMove` excuses it (`overtaken`).

The rest contradicts no sentence that we found: two ungated store writers who
leave the graph together (`APItemStore`), a posted item written over by a post
that failed before it and a retry job that stays running after its drain died
(`ErpPosting`), an approval that survives the revert that overtook its route
(`DualApproval`), a window that expires under an undo that waits for the ERP
(`OverrideWindow`), a box that waits for a saved plan that is gone
(`CoordinationEngine`).

### Bounds

Two actors of each contended kind reach every pairwise race; the drain or the
reaper adds a third party. `MaxVersion = 4` lets a caller lose its gate, retry,
and lose again. `FlagAttempts = 2` (5 in the code) reaches both a retry and an
exhausted budget. `MaxSlips = 1` shows a second bill and that it needs the slip;
`MaxEvents = 1` puts one crash, revert, rejection, failed lookup, failed lock or
late request at every step (they share the bound). One of `Others` is enough to
write over an item that moved after its check; the workers do it to each other
without any event.
`MaxRetries = 2` gives one reschedule and one dead letter. One window with two
undos covers the races on a row; with two windows and one undo the invariants
hold as well, and two of each is out of reach. In `ApprovalDispatch` two calls
race or follow one another, and two failures put a second one into the recovery
from the first; a sequence of two lost cards needs the same two.

`EventPipeline`: three events give the high stream one entry and the standard
stream two, one of which does not parse: the read of it ends the tick and leaves
the entry pending. Two workers let one run while the other
drains, retries or reclaims; `Limit = 1`, `MaxRetries = 1` and `Batch = 2` reach a
refusal, a retry, an exhausted retry and a second turn of a drain; `MaxDispatch =
2` lets one event be in two messages, `MaxFaults = 1` puts one fault at every
step. `CoordinationEngine`: one event of each kind that behaves differently,
three deliveries (a pause, the event that resumes it, and a third party or a
redelivery), two workers, one fault, one more try of an action that timed out.
`DualApproval`: three calls are a signature, its revocation and a second
signature that read before it; every call picks its kind and person. Two requests
of the other surfaces at a time are a revert between the check and the UPDATE of
a route; one scribe can hold one stale copy.
`PaymentTracking`: three deliveries are two of one payment and one of another, or
the failure, the retry and the success of a bill; two of them and the closer
overlap in their checks and UPDATEs.

The theorems have none of these bounds but the ones that are constants of a
module, for which they hold for every value.

### Fairness

- `ErpPosting`: weak fairness of each worker's `Step` and of `Claim`: a running
  coroutine goes on, since HTTP clients time out, and the drain loop ticks.
  Nothing is assumed of clicks, crashes, reverts or late requests.
- `OverrideWindow`: weak fairness of each call's step, of the reaper on each
  window (its loop, or the Celery beat, lists every overdue window), and of
  time.
- `ApprovalDispatch`: weak fairness of each worker's step and of the reaper's
  sweep, which the Celery beat repeats. Scribes, people and new dispatches are
  under no fairness; failures are bounded by `MaxEvents`, so the reaper gets
  through in the end.
- `EventPipeline`: weak fairness of the beat that queues drains and of each
  worker process (taking a message, its next step): Celery's scheduler and
  prefork children go on. A blocked read is not enabled and so owes nothing.
  Producers, faults and the sweep of pending entries are under no fairness.
- `CoordinationEngine`: weak fairness of each task's `Step` once it has been taken
  up; every handler has a time-out. Enqueueing and dispatching are under none.
- `APItemStore`, `DualApproval` and `PaymentTracking` have only safety properties
  and no fairness.

## Proofs

Each `*_proofs` module proves `Spec => []IInv` for an inductive `IInv` and draws
the theorems from it, one step per action of `Next`.

- `APItemStore_proofs`: `IInv` adds to `TypeOK` that a call's place fits its kind
  (`CallsFit`) and that while a gate still matches the version, what the caller
  has read is what the row holds (`GatesHold`). That is what makes a gated write
  safe: the copy of the flags, and the state the store validated, are current
  whenever the WHERE clause matches.
  Each write is then one step of `AtomicRow` and no other
  step shows there (`StoreImplementsRow`); while all callers gate their writes,
  `GatesHold` turns the steps that overwrite a state into moves along the graph
  (`GatedCallersSeeAnAtomicRow`).
- `ErpPosting_proofs`: `LockFits` says that the holder of the lock is inside
  `_post_to_erp`, and not the converse: a post whose lock could not be tried is
  there without it. `UnguardedFits` counts those posts (`Unguarded`) and finds a
  slip for each. `LookupFits` is the heart of `ExtraBillsNeedASlip`: the bills
  that exist and the posts that looked, found none and are about to make one
  (`Creating`) are together no more than one and the slips. A post starts to
  create with no bill in the ERP, or with a slip of its own; the others that are
  creating with it are inside without the lock or hold it, so there is at most
  one more of them than there are slips. `UpdatesFit` says what a call that
  has been checked may still write: it is at a place that asks for a state, and a
  write of the other columns alone is one that names a bill. `BillsFit`
  (references and answers name bills that exist) and `PostedFits` (whoever is past
  a successful post left the item naming its bill, and posted or overtaken) carry
  the claims: the reference survives every UPDATE, checked against whatever
  state, because only an UPDATE that names another bill writes it, and
  `WriteKeepsPosted` says that the one other thing an UPDATE can do to a posted
  item is to overtake it. From the same invariant: how far posts overlap
  (`OverlapIsPaidFor`), one bill when nothing slips (`OneBillWithoutSlips`,
  whose promise `posting_twice` breaks on Xero), and the two refinements
  (`PostingImplementsMutex`, `PostingImplementsEffect`). `JobFits` gives the
  retry queue's part (`RetriesAreOneAtATimeAndBounded`).
- `OverrideWindow_proofs`: `CallsPlaced` says at each place what the caller may
  hold: a window number it has really opened, an answer that fits the place, and
  for a closing reaper an expired window. `ReversalClaimsAreTrue` is inductive with
  it, whichever of the audit event, the marker and the mark fail or are taken back.

- `ApprovalDispatch_proofs`: `LockFits` (the holder of the lock is past it),
  `UnguardedFits` (the workers past it without the lock are no more than `bare`),
  `RecordsFit` (the record and every scribe's copy of it name a card that is out
  and, if dispatched, a row with a thread: cards and thread are never taken back,
  so an old copy stays true), `HeldFits` (so does what a worker carries) and
  `CardsFit`, which counts two sets of workers. While the row has no thread, every
  card out is a slip or in the hands of a worker about to save it (`Saving`); so
  when a worker finds no thread and joins those that may send (`Sending`), cards
  and senders together are at most the slips and the workers past the lock, and
  those are one and `bare` (`SendersArePaidFor`). That gives
  `ExtraCardsNeedASlip`; with `bare = 0` the workers past the lock are one
  (`Exclusion`), which gives `RoutedItemsGetNoCard`. `MisfortunesPayForCards`
  bounds both counters by the failures; `DispatchImplementsMutex` and
  `DispatchImplementsEffect` are the refinements.

- `EventPipeline_proofs`: `Placed` (a worker holds an event exactly where it
  needs one), `Streams` (an event with a free key has left no trace; an unread
  one is held by nobody else), `Drains` (of two drains one holds an event; it is
  pending until it has been dispatched) and `Books` (the counter is the slots
  taken plus the drift; what runs is within the limit plus the slips). From
  `Queue`, which is their first three with the types, follows the refinement:
  every action is an `Accept`, a `Tear`, a `Finish`, an `Abandon`, a `Lose` or a
  stutter of `HandOver` (`ImplementsHandOver`): a step that takes an event from
  where it is leaves it somewhere else or ends its task (`HeldKept`).
  `LeaksArePaidFor` goes back from the books to the faults: each leaks at most
  one slot, and before the first the counter is exact.
- `CoordinationEngine_proofs`: `Fitting` (types, and what a task holds at each
  place: at the bottom of its stack the plan of its own delivery, above it only a
  plan of a delivery that is over), `Rows` (the action a task is about to run has
  its timeline row, and every row without a result belongs to an action under way
  or to a fault) and `Rests` (what ran of a plan lies below the first action its
  holder may still run; a plan is held by one task or saved on the box, not both).
  Each action is first reduced to how it moves its task (`Exits`, `Stays`,
  `Advances`, `Pushes`, `Pops`), and the invariants are shown per move.
  `ActionsRunOnce` rests on `_cas_clear_pending_plan` handing a saved plan out
  once, which is `Rests`. A further try of an action that timed out counts as the
  same run of it, since the code means to repeat it. `EngineImplementsMutex` adds
  `Held`, that a task has the lock exactly where it believes so.
- `DualApproval_proofs`: `PendingHasItsSigner` and `ApprovalsStand` themselves,
  with `Checked` (a second signer about to write differs from the first signer he
  has read). The proof of `ApprovalStands` is that every UPDATE which approves
  brings its approver, that a second signature written on the row its call read
  joins the first one, which stands, and that whatever takes approvals back also
  takes the item out of the approved states; only a route checked before a revert
  can bring it back, which is `misled`. `OwnBillUnsigned` needs more: no
  stale row or copy of the metadata carries the requester's signature either
  (`CopiesNotOwn`).
- `PaymentTracking_proofs`: a call past the ledger holds a row nobody else put
  down (`HoldsRow`), its path leads to the status of that row (`RightWay`), and a
  confirmed payment on record has settled the item, is known as dropped, was
  overtaken, or is still in the hands of a call (`Arrived`, `InHand`). An UPDATE
  takes a settled item out of that state only if its own does not follow, and is
  noted then (`SettledStays`). Every step of a call moves one payment's status
  along `AtMostOnce` or none (`TrackingImplementsAtMostOnce`).

Assumptions are the named `ASSUME`s of the modules: callers of different kinds
are different, initial states are states of the graph, bounds are naturals, and
the resume key is no decision key. No bound on the number of callers, keys,
windows, dispatches, retries, crashes, events, workers, signers or payments is
assumed. Two theorems have a hypothesis more: `OneBillWithoutSlips` is about an
adapter with a lookup and a bound of no slips, `GatedCallersSeeAnAtomicRow` about
behaviours in which no ungated call is made.

`Mutex`, `AtomicRow` and the theorems whose statement is no property of a run were
model-checked on the bounds of the module's run before they were proved; they are
left out of the runs because the proof says more.

Only model-checked: `BoxLockIsReleased`, `WindowsEnd`, `OrphansAreRecovered`,
`HighEventsRead`, `LockIsReleased` (liveness, which the proof system does not
do), and the counterexamples.

## Not modelled, and the plan

Left out by nature: document extraction, matching and confidence arithmetic,
message rendering, the browser extension, SDKs and dashboards, OAuth flows. The
gates of approve_invoice that return before any state change (field review,
budget, purchase order, segregation of duties) are taken as passed, and the
approval chain as the single step the code creates today.

Left out of the modelled parts: the in-memory queue of a process without Redis
and the expiry of deduplication keys after a day (an event offered again then is
a new event); `nack_and_requeue`, which nothing calls; plans for rejections,
label changes and bank-detail events; the audit events of dual approval and
payments.

Not modelled: the outbox, since no code starts `OutboxWorker` (its rows are
written and stay); vendor onboarding, whose graph is checked by the same store
pattern and whose writers are one at a time; the audit chain and projections,
which are database triggers and rebuilt views.

What comes next, in this order:

1. `BankDetailFreeze`: the freeze of a vendor's bank details against posts and
   payments that read the vendor before it.
2. `TokenRefresh`: the router's shared refresh, with breakers and semaphores.
3. Webhook delivery and API idempotency.
4. The composition of `CoordinationEngine` with `ErpPosting`, for posts inside
   plans against posts from a click.
