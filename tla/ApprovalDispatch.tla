--------------------------- MODULE ApprovalDispatch ---------------------------
(***************************************************************************)
(* Asking people for an approval: _send_for_approval of                    *)
(* services/invoice_workflow.py with its dispatch record in the item's     *)
(* metadata, and the reaper of orphaned dispatches.                        *)
(*                                                                         *)
(* A dispatcher is a caller of _send_for_approval: intake, an intent or    *)
(* the planner, in any process.  A scribe is any of the many callers of    *)
(* _update_ap_item_metadata, which reads the whole metadata document and   *)
(* later writes it back without a lock or a version.  A dispatcher's own   *)
(* merges are one step: the lock keeps other dispatchers out, and a scribe *)
(* between its read and its write only loses the scribe's write.  A        *)
(* request for a state is one step; APItemStore opens the gap inside it.   *)
(***************************************************************************)
EXTENDS APStates, Naturals

CONSTANTS
  Dispatchers,  \* callers of _send_for_approval, one call at a time each
  Reapers,      \* runs of reap_orphan_approval_dispatches
  Scribes,      \* writers of other keys of the item's metadata
  MaxCalls,     \* bound: dispatches started
  MaxEvents     \* bound: crashes, database failures, lost Slack replies and
                \* locks that cannot be tried

Workers == Dispatchers \cup Reapers
NoWorker == "nobody"

ASSUME DispatchActors ==
  Dispatchers \cap Reapers = {} /\ NoWorker \notin Workers
ASSUME DispatchBounds == MaxCalls \in Nat /\ MaxEvents \in Nat

VARIABLES
  state,   \* the item's state
  record,  \* metadata.approval_dispatch: status, and the card it names or 0
  thread,  \* the card in the row's Slack columns, or 0
  cards,   \* approval cards people have got
  dms,     \* cards delivered as a direct message or by webhook: no thread_ts
  slips,   \* cards the system lost track of before it saved them (history)
  lock,    \* holder of the box lock, or NoWorker
  bare,    \* calls that went ahead without the lock (history)
  pc,      \* where each worker is
  held,    \* the card a worker has in hand
  copy,    \* the record in each scribe's copy of the metadata
  calls,   \* how much of MaxCalls is used
  events   \* how much of MaxEvents is used

vars == <<state, record, thread, cards, dms, slips, lock, bare, pc, held,
          copy, calls, events>>

Record == [status : {"none", "pending", "dispatched", "failed", "orphan"},
           card : Nat]
NoRecord == [status |-> "none", card |-> 0]
PCs == {"idle", "read", "lock", "recheck", "look", "validate", "thread",
        "rejoin", "route", "pending", "deliver", "failed", "save", "settle",
        "flip", "orphan", "claim", "resave", "restate", "merge", "release"}

Init ==
  /\ state \in {"received", "validated"}
  /\ record = NoRecord /\ thread = 0
  /\ cards = 0 /\ dms = {} /\ slips = 0
  /\ lock = NoWorker /\ bare = 0
  /\ pc = [w \in Workers |-> "idle"]
  /\ held = [w \in Workers |-> 0]
  /\ copy = [s \in Scribes |-> NoRecord]
  /\ calls = 0 /\ events = 0

slack == <<cards, dms, slips>>
locks == <<lock, bare>>
bounds == <<calls, events>>

Goto(w, p) == pc' = [pc EXCEPT ![w] = p]
\* A call ends, and what it had in hand goes with it.
End(w) == Goto(w, "idle") /\ held' = [held EXCEPT ![w] = 0]
\* A crash, a failed write, a lost reply or lock uses up one of MaxEvents.
Misfortune == events < MaxEvents /\ events' = events + 1

\* _transition_invoice_state: a request for the state already held applies
\* the other columns only; an illegal one raises.
Reaches(t) == state = t \/ Legal(state, t)
\* The step asks for state t and goes on, or raises and goes to p.
Request(w, t, next, p) ==
  IF Reaches(t) THEN state' = t /\ Goto(w, next)
  ELSE Goto(w, p) /\ UNCHANGED state

-----------------------------------------------------------------------------
(* _send_for_approval, up to the card.                                     *)

\* The callers' own precheck.
Route(d) ==
  /\ d \in Dispatchers /\ pc[d] = "idle" /\ calls < MaxCalls
  /\ state \in {"received", "validated"}
  /\ calls' = calls + 1
  /\ Goto(d, "read")
  /\ UNCHANGED <<state, record, thread, slack, locks, held, copy, events>>

\* A dispatch on record ends the call, before the lock ...
Read(d) ==
  /\ pc[d] = "read"
  /\ Goto(d, IF record.status = "dispatched" THEN "idle" ELSE "lock")
  /\ UNCHANGED <<state, record, thread, slack, locks, held, copy, bounds>>

AcquireIgnored(w) ==  \* mutant: the answer of acquire_box_lock is ignored
  /\ pc[w] \in {"lock", "claim"}
  /\ lock' = w /\ Goto(w, IF w \in Reapers THEN "resave" ELSE "recheck")
  /\ UNCHANGED <<state, record, thread, slack, bare, held, copy, bounds>>
\* acquire_box_lock, a try-lock: a held lock ends the call, or the reaper's
\* work on this item.
Acquire(w) ==
  /\ pc[w] \in {"lock", "claim"}
  /\ IF lock = NoWorker
     THEN /\ lock' = w /\ Goto(w, IF w \in Reapers THEN "resave" ELSE "recheck")
          /\ UNCHANGED held
     ELSE End(w) /\ UNCHANGED lock
  /\ UNCHANGED <<state, record, thread, slack, bare, copy, bounds>>

\* acquire_box_lock has no connection to try the lock on ("no_infra"): a
\* dispatcher and a reaper both go ahead without it.
AcquireFails(w) ==
  /\ pc[w] \in {"lock", "claim"} /\ Misfortune
  /\ bare' = bare + 1
  /\ Goto(w, IF w \in Reapers THEN "resave" ELSE "recheck")
  /\ UNCHANGED <<state, record, thread, slack, lock, held, copy, calls>>

\* ... and again under it.
Recheck(d) ==
  /\ pc[d] = "recheck"
  /\ Goto(d, IF record.status = "dispatched" THEN "release" ELSE "look")
  /\ UNCHANGED <<state, record, thread, slack, locks, held, copy, bounds>>

\* _read_approval_dispatch answers "no record" when it cannot read.
ReadFails(d) ==
  /\ pc[d] \in {"read", "recheck"} /\ Misfortune
  /\ Goto(d, IF pc[d] = "read" THEN "lock" ELSE "look")
  /\ UNCHANGED <<state, record, thread, slack, locks, held, copy, calls>>

Look(d) ==
  /\ pc[d] = "look"
  /\ Goto(d, IF state = "received" THEN "validate" ELSE "thread")
  /\ UNCHANGED <<state, record, thread, slack, locks, held, copy, bounds>>

Validate(d) ==
  /\ pc[d] = "validate"
  /\ Request(d, "validated", "thread", "release")
  /\ UNCHANGED <<record, thread, slack, locks, held, copy, bounds>>

RejoinsNever == FALSE  \* mutant: no look at the Slack columns
\* A card is already out, whatever the record says.
Rejoins == thread # 0

Thread(d) ==
  /\ pc[d] = "thread"
  /\ Goto(d, IF Rejoins THEN "rejoin" ELSE "route")
  /\ UNCHANGED <<state, record, thread, slack, locks, held, copy, bounds>>

\* The item goes to needs_approval with the card it has; a Teams card and the
\* waiting condition follow.  The record is not touched.
Rejoin(d) ==
  /\ pc[d] = "rejoin"
  /\ Request(d, "needs_approval", "release", "release")
  /\ UNCHANGED <<record, thread, slack, locks, held, copy, bounds>>

ToApproval(d) ==
  /\ pc[d] = "route"
  /\ Request(d, "needs_approval", "pending", "release")
  /\ UNCHANGED <<record, thread, slack, locks, held, copy, bounds>>

\* The record is written before the card goes out.
Pending(d) ==
  /\ pc[d] = "pending"
  /\ record' = [status |-> "pending", card |-> 0]
  /\ Goto(d, "deliver")
  /\ UNCHANGED <<state, thread, slack, locks, held, copy, bounds>>

-----------------------------------------------------------------------------
(* The card, and what is on record of it.                                  *)

\* deliver_approval_with_routing: to a person, to the channel, or to both.
Deliver(d) ==
  /\ pc[d] = "deliver"
  /\ cards' = cards + 1
  /\ held' = [held EXCEPT ![d] = cards']
  /\ dms' \in {dms, dms \cup {cards'}}
  /\ Goto(d, "save")
  /\ UNCHANGED <<state, record, thread, slips, locks, copy, bounds>>

\* Slack's reply is lost: after a direct message the channel is tried next
\* (here, the delivery again), after a channel message it has failed.
LoseReply(d) ==
  /\ pc[d] = "deliver" /\ Misfortune
  /\ cards' = cards + 1 /\ slips' = slips + 1
  /\ \E p \in {"deliver", "failed"} : Goto(d, p)
  /\ UNCHANGED <<state, record, thread, dms, locks, held, copy, calls>>

\* Slack is not connected or turns the message down.
Refuse(d) ==
  /\ pc[d] = "deliver"
  /\ Goto(d, "failed")
  /\ UNCHANGED <<state, record, thread, slack, locks, held, copy, bounds>>

Failed(d) ==
  /\ pc[d] = "failed"
  /\ record' = [status |-> "failed", card |-> 0]
  /\ Goto(d, "release")
  /\ UNCHANGED <<state, thread, slack, locks, held, copy, bounds>>

\* save_slack_thread
Save(d) ==
  /\ pc[d] = "save"
  /\ thread' = held[d]
  /\ Goto(d, "settle")
  /\ UNCHANGED <<state, record, slack, locks, held, copy, bounds>>

SaveFailsSwallowed(d) ==  \* mutant: the exception does not reach the caller
  /\ pc[d] = "save" /\ Misfortune
  /\ slips' = slips + 1
  /\ Goto(d, "settle")
  /\ UNCHANGED <<state, record, thread, cards, dms, locks, held, copy, calls>>
\* A write after the delivery fails.  The card is lost track of if the row
\* does not have it yet.
SaveFails(d) ==
  /\ pc[d] \in {"save", "settle"} /\ Misfortune
  /\ slips' = IF pc[d] = "save" THEN slips + 1 ELSE slips
  /\ Goto(d, "orphan")
  /\ UNCHANGED <<state, record, thread, cards, dms, locks, held, copy, calls>>

\* needs_approval again, now with the thread's id.
Settle(d) ==
  /\ pc[d] = "settle"
  /\ Request(d, "needs_approval", "flip", "orphan")
  /\ UNCHANGED <<record, thread, slack, locks, held, copy, bounds>>

DispatchedMisspelt(w) ==  \* mutant: the reaper's own word
  [status |-> "recovered", card |-> held[w]]
Dispatched(w) == [status |-> "dispatched", card |-> held[w]]

Flip(d) ==
  /\ pc[d] = "flip"
  /\ record' = Dispatched(d)
  /\ Goto(d, "release")
  /\ UNCHANGED <<state, thread, slack, locks, held, copy, bounds>>

Orphan(d) ==
  /\ pc[d] = "orphan"
  /\ record' = [status |-> "orphan", card |-> held[d]]
  /\ Goto(d, "release")
  /\ UNCHANGED <<state, thread, slack, locks, held, copy, bounds>>

\* _write_approval_dispatch swallows the error of a record it cannot write.
WriteFails(d) ==
  /\ pc[d] \in {"pending", "failed", "flip", "orphan"} /\ Misfortune
  /\ Goto(d, IF pc[d] = "pending" THEN "deliver" ELSE "release")
  /\ UNCHANGED <<state, record, thread, slack, locks, held, copy, calls>>

\* The finally clause, of a dispatcher and of a reaper: a call that has the
\* lock releases it.
Release(w) ==
  /\ pc[w] = "release"
  /\ lock' = IF lock = w THEN NoWorker ELSE lock
  /\ End(w)
  /\ UNCHANGED <<state, record, thread, slack, bare, copy, bounds>>

-----------------------------------------------------------------------------
(* reap_orphan_approval_dispatches.                                        *)

OrphanedUnrouted ==  \* mutant: only items that are not routed yet
  /\ record.status = "orphan" /\ record.card \notin dms
  /\ state = "validated"
\* An orphan that has a thread_ts to save.
Orphaned == record.status = "orphan" /\ record.card \notin dms

\* The listing, and its copy of the record: not read again under the lock.
Reap(r) ==
  /\ r \in Reapers /\ pc[r] = "idle"
  /\ Orphaned
  /\ held' = [held EXCEPT ![r] = record.card]
  /\ Goto(r, "claim")
  /\ UNCHANGED <<state, record, thread, slack, locks, copy, bounds>>

Resave(r) ==
  /\ pc[r] = "resave"
  /\ thread' = held[r]
  /\ Goto(r, "restate")
  /\ UNCHANGED <<state, record, slack, locks, held, copy, bounds>>

\* update_invoice_status asks the store for needs_approval; a refusal is
\* swallowed.
Restate(r) ==
  /\ pc[r] = "restate"
  /\ state' = IF Legal(state, "needs_approval") THEN "needs_approval" ELSE state
  /\ Goto(r, "merge")
  /\ UNCHANGED <<record, thread, slack, locks, held, copy, bounds>>

\* update_ap_item_metadata_merge, under a row lock.
Merge(r) ==
  /\ pc[r] = "merge"
  /\ record' = Dispatched(r)
  /\ Goto(r, "release")
  /\ UNCHANGED <<state, thread, slack, locks, held, copy, bounds>>

\* A write of the reaper fails: the row is left for the next sweep.
ReapFails(r) ==
  /\ pc[r] \in {"resave", "merge"} /\ Misfortune
  /\ Goto(r, "release")
  /\ UNCHANGED <<state, record, thread, slack, locks, held, copy, calls>>

-----------------------------------------------------------------------------
(* Interference.                                                           *)

\* _update_ap_item_metadata by another caller: the read ...
ScribeReads(s) ==
  /\ copy' = [copy EXCEPT ![s] = record]
  /\ UNCHANGED <<state, record, thread, slack, locks, pc, held, bounds>>

\* ... and the write of the whole document.
ScribeWrites(s) ==
  /\ record' = copy[s]
  /\ UNCHANGED <<state, thread, slack, locks, pc, held, copy, bounds>>

\* People and the rest of the workflow move the item along.
Decided == {"needs_info", "validated", "needs_approval", "approved",
            "rejected", "ready_to_post", "posted_to_erp"}
MoveOn(t) ==
  /\ t \in Decided /\ Legal(state, t)
  /\ state' = t
  /\ UNCHANGED <<record, thread, slack, locks, pc, held, copy, bounds>>

\* The process dies, and its advisory lock with its connection.
Crash(w) ==
  /\ pc[w] # "idle" /\ Misfortune
  /\ slips' = IF pc[w] = "save" THEN slips + 1 ELSE slips
  /\ lock' = IF lock = w THEN NoWorker ELSE lock
  /\ End(w)
  /\ UNCHANGED <<state, record, thread, cards, dms, bare, copy, calls>>

-----------------------------------------------------------------------------
Step(w) ==
  \/ Read(w) \/ Acquire(w) \/ AcquireFails(w) \/ Recheck(w) \/ ReadFails(w)
  \/ Look(w) \/ Validate(w) \/ Thread(w) \/ Rejoin(w) \/ ToApproval(w) \/ Pending(w)
  \/ Deliver(w) \/ LoseReply(w) \/ Refuse(w) \/ Failed(w)
  \/ Save(w) \/ SaveFails(w) \/ Settle(w) \/ Flip(w) \/ Orphan(w)
  \/ WriteFails(w) \/ Resave(w) \/ Restate(w) \/ Merge(w) \/ ReapFails(w)
  \/ Release(w)

Next ==
  \/ \E w \in Workers : Route(w) \/ Reap(w) \/ Step(w) \/ Crash(w)
  \/ \E s \in Scribes : ScribeReads(s) \/ ScribeWrites(s)
  \/ \E t \in APState : MoveOn(t)

\* A call that has started goes on, and the reaper's beat ticks.
Fairness == \A w \in Workers : WF_vars(Step(w)) /\ WF_vars(Reap(w))

Spec == Init /\ [][Next]_vars /\ Fairness

-----------------------------------------------------------------------------
(* Properties.                                                             *)

TypeOK ==
  /\ state \in APState
  /\ record \in Record /\ thread \in Nat
  /\ cards \in Nat /\ dms \subseteq Nat /\ slips \in Nat
  /\ lock \in Workers \cup {NoWorker} /\ bare \in Nat
  /\ pc \in [Workers -> PCs]
  /\ held \in [Workers -> Nat]
  /\ copy \in [Scribes -> Record]
  /\ calls \in Nat /\ events \in Nat

\* The per-box lock and the two looks at what is out: however dispatches
\* overlap and fail, people get one card, and one more for each card the
\* system lost before it could save where it is and for each call that could
\* not try the lock.
ExtraCardsNeedASlip == cards <= 1 + slips + bare

\* Once a card is saved on the row, no dispatch sends another, also when a
\* write of the metadata has put an old dispatch record back: the look at the
\* Slack columns is under the lock, and only a call that went ahead without it
\* can come in between.
RoutedItemsGetNoCard == [][cards' # cards => thread = 0 \/ bare > 0]_vars

\* A second call after "dispatched" is answered with the cached thread: that
\* record names a card people have got, and the row has a thread to answer
\* with, whoever wrote the record last.
DispatchedHasThread ==
  record.status = "dispatched" => record.card \in 1..cards /\ thread # 0

\* The promise of a component that makes something it does not control: the
\* dispatch looks for a card before it sends one.  A record that says
\* "dispatched" is a claim that later writers of the metadata may take back.
Card == INSTANCE ExternalEffect WITH
  Looks <- TRUE,
  made <- cards, lost <- slips + bare, known <- thread,
  claimed <- record.status = "dispatched"

\* _send_for_approval, the reaper and every writer of the metadata keep it.
ImplementsExternalEffect == Card!Spec

\* Where a worker does not have the box lock: before it asks for it, and
\* after it let it go.
Unlocked == {"idle", "read", "lock", "claim"}

\* The workers past the lock that have it are the processes inside a mutex;
\* those that went ahead without it are not.
BoxLock == INSTANCE Mutex WITH
  Processes <- Workers, Free <- NoWorker, holder <- lock,
  inside <- {w \in Workers : pc[w] \notin Unlocked /\ lock = w}

\* acquire_box_lock and the finally clauses of dispatchers and reapers are the
\* two steps of that mutex, crashes included.
ImplementsMutex == BoxLock!Spec

\* The reaper "closes the loop": an orphan it can recover does not stay one.
OrphansAreRecovered ==
  (record.status = "orphan" /\ record.card \notin dms)
    ~> (record.status # "orphan" \/ record.card \in dms)
=============================================================================
