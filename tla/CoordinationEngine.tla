------------------------- MODULE CoordinationEngine -------------------------
(***************************************************************************)
(* CoordinationEngine.execute: the Celery tasks that run the plans of one   *)
(* box.  A task plans its event from the state of the box, takes the box's  *)
(* advisory lock, and runs the plan an action at a time: an "executing" row *)
(* of the timeline, the action, its result row.  An action that has to wait *)
(* saves the rest of the plan on the box (waiting_condition, pending_plan); *)
(* a later event may resume it, nested in its own plan.                     *)
(*                                                                          *)
(* A plan is a suffix of the plan of the event it was made for, so that     *)
(* remaining_from is arithmetic on its first action.  Actions that neither  *)
(* wait, nor touch the box's wait or saved plan, are "plain": a run of them *)
(* is one action here.  The AP state of the box is left out (APStates): a   *)
(* stage move may be illegal, which aborts the plan.                        *)
(* Bounds: MaxDeliveries of all events, MaxFaults crashes, failed writes    *)
(* and missing locks in all, MaxTries retries of an action that timed out. *)
(***************************************************************************)
EXTENDS Integers, Sequences, FiniteSets

CONSTANTS
    Events,             \* by correlation_id, all of one box
    KindOf,             \* [Events -> Kinds]
    MaxDeliveries,      \* task messages, redeliveries included
    MaxRedeliveries,
    None,
    Workers,            \* tasks that run at a time (EventPipeline's slots)
    MaxTries, MaxFaults

Kinds == {"email", "reply", "approved", "grn_confirmed", "grn_check",
          "erp_recheck"}

ASSUME EngineAssumption ==
    /\ KindOf \in [Events -> Kinds]
    /\ None \notin Events /\ None \notin Nat
    /\ MaxDeliveries \in Nat /\ MaxRedeliveries \in Nat /\ Workers \in Nat \ {0}
    /\ MaxTries \in Nat /\ MaxFaults \in Nat

VARIABLES
    exists,             \* the box has been created
    waiting,            \* type of waiting_condition, or None
    pending,            \* pending_plan, or None
    lock,               \* the task that holds the box's advisory lock
    task,               \* [Deliveries -> the task]
    opened, closed,     \* timeline: actions with an "executing" row, and with
                        \* a result row
    ran,                \* [Deliveries -> actions of its plan run] (history)
    acted,              \* keys of the actions run on the box (history)
    excused,            \* keys whose result row a fault lost (history)
    faults

boxVars  == <<exists, waiting, pending>>
histVars == <<ran, acted, excused>>
rows     == <<opened, closed>>
vars == <<boxVars, lock, task, rows, histVars, faults>>

Deliveries == 1..MaxDeliveries

Waits   == {"grn", "approval", "dependency"}
Results == Waits \cup {"ok", "stop", "abort", "held"}
Body    == {"pre", "act", "post", "save", "return"}

(***************************************************************************)
(* Plans.                                                                  *)
(***************************************************************************)

Actions(kind) ==
    CASE kind = "email" ->
           <<"classify", "create_box", "lookup_po", "lookup_grn", "match",
             "plain", "send_approval", "set_waiting">>
      [] kind = "reply"         -> <<"plain">>
      [] kind = "approved"      -> <<"clear_waiting", "pre_post_validate",
                                     "post_bill", "plain">>
      [] kind = "grn_confirmed" -> <<"clear_waiting", "resume">>
      [] kind = "grn_check"     -> <<"lookup_grn", "evaluate_grn">>
      [] kind = "erp_recheck"   -> <<"check_erp", "evaluate_erp">>

\* The plan that starts at action number from (counted from 0) of the plan
\* made for delivery of.
Plan(d, kind, from) == [of |-> d, kind |-> kind, from |-> from]
StepCount(p) == Len(Actions(p.kind)) - p.from

RemainingFromStep(p, step) == [p EXCEPT !.from = @ + step - 1]  \* mutant: off by one
RemainingFrom(p, step) == [p EXCEPT !.from = @ + step]

Frame(p) == [plan |-> p, step |-> 0]

Top(d)    == task[d].stack[Len(task[d].stack)]
Nested(d) == Len(task[d].stack) = 2
AtEnd(f)  == f.step >= StepCount(f.plan)
Action(f) == Actions(f.plan.kind)[f.plan.from + f.step + 1]
Key(f)    == <<task[f.plan.of].event, f.step, Action(f)>>

Idle == [at |-> "idle", event |-> None, stack |-> <<>>, ctx |-> {},
         locked |-> FALSE, named |-> FALSE, result |-> "ok", tries |-> 0]

Init ==
    /\ exists = FALSE /\ waiting = None /\ pending = None /\ lock = None
    /\ task = [d \in Deliveries |-> Idle]
    /\ opened = {} /\ closed = {} /\ acted = {} /\ excused = {}
    /\ ran = [d \in Deliveries |-> <<>>]
    /\ faults = 0

Fault == faults < MaxFaults /\ faults' = faults + 1
Go(d, place) == task' = [task EXCEPT ![d].at = place]

\* A task that has left the loop over its plan's actions: a resumed plan
\* returns to the plan that resumed it, execute releases its lock.
Finished(t) == [Idle EXCEPT !.at = "done", !.event = t.event]
Left(t) ==
    IF Len(t.stack) = 2 THEN [t EXCEPT !.at = "return"]
    ELSE IF t.locked THEN [Finished(t) EXCEPT !.at = "unlock", !.locked = TRUE]
    ELSE Finished(t)
Leave(d) == task' = [task EXCEPT ![d] = Left(@)]

(***************************************************************************)
(* A task arrives, is planned, and takes the lock.                          *)
(***************************************************************************)

Delivered(e) == \E d \in Deliveries : task[d].event = e
Redeliveries ==
    Cardinality({d \in Deliveries : task[d].event # None})
    - Cardinality({e \in Events : Delivered(e)})

Offered(e) ==
    \/ KindOf[e] = "email" /\ ~Delivered(e)
    \/ KindOf[e] = "approved" /\ exists
    \/ KindOf[e] \in {"grn_confirmed", "grn_check"} /\ waiting = "grn"
    \/ KindOf[e] = "erp_recheck" /\ waiting = "dependency"
    \/ Delivered(e) /\ Redeliveries < MaxRedeliveries

\* A person, a poll or a timer enqueues an event, or the queue delivers one
\* that it delivered before.
Enqueue(e) ==
    /\ Offered(e)
    /\ \E d \in Deliveries :
         /\ task[d].at = "idle" /\ \A u \in 1..(d - 1) : task[u].at # "idle"
         /\ task' = [task EXCEPT ![d].at = "queued", ![d].event = e]
    /\ UNCHANGED <<boxVars, lock, rows, histVars, faults>>

\* _dispatch_event: an email on a thread that has a box continues it; one
\* without a box runs without a lock.
Dispatch(d) ==
    LET sent  == KindOf[task[d].event]
        kind  == IF sent = "email" /\ exists THEN "reply" ELSE sent
        named == exists \/ sent # "email" IN
    /\ task[d].at = "queued"
    /\ Cardinality({u \in Deliveries :
                      task[u].at \notin {"idle", "queued", "done"}}) < Workers
    /\ task' = [task EXCEPT ![d].at = IF named THEN "lock" ELSE "pre",
                            ![d].named = named,
                            ![d].stack = <<Frame(Plan(d, kind, 0))>>]
    /\ UNCHANGED <<boxVars, lock, rows, histVars, faults>>

LockFreeIgnored == TRUE  \* mutant: "held" is not looked at
LockFree == lock = None

AcquireLock(d) ==
    /\ task[d].at = "lock" /\ LockFree
    /\ lock' = d
    /\ task' = [task EXCEPT ![d].at = "pre", ![d].locked = TRUE]
    /\ UNCHANGED <<boxVars, rows, histVars, faults>>

\* "lock_held" is returned as the event's result: it is not tried again.
LockHeld(d) ==
    /\ task[d].at = "lock" /\ ~LockFree
    /\ task' = [task EXCEPT ![d] = Finished(@)]
    /\ UNCHANGED <<boxVars, lock, rows, histVars, faults>>

NoLockInfra(d) ==
    /\ task[d].at = "lock" /\ Fault
    /\ Go(d, "pre")
    /\ UNCHANGED <<boxVars, lock, rows, histVars>>

(***************************************************************************)
(* Rule 1: the timeline row before an action.                               *)
(***************************************************************************)

\* Rows are written for a task that knows its box.
Row(d) == IF task[d].named THEN {Key(Top(d))} ELSE {}

PreWrite(d) ==
    /\ task[d].at = "pre" /\ ~AtEnd(Top(d))
    /\ opened' = opened \cup Row(d)
    /\ Go(d, "act")
    /\ UNCHANGED <<boxVars, lock, closed, histVars, faults>>

AfterFailedPreWriteOpen(t) == [t EXCEPT !.at = "act"]  \* mutant: fails open
AfterFailedPreWrite(t) == Left(t)

\* Three attempts failed: the action is not run, the plan ends.
PreWriteFails(d) ==
    /\ task[d].at = "pre" /\ ~AtEnd(Top(d)) /\ task[d].named /\ Fault
    /\ task' = [task EXCEPT ![d] = AfterFailedPreWrite(@)]
    /\ UNCHANGED <<boxVars, lock, rows, histVars>>

(***************************************************************************)
(* The actions.  "abort": it raised, or timed out on every attempt; the     *)
(* lookups catch what they raise and do not await.                          *)
(***************************************************************************)

At(d, action) ==
    /\ task[d].at = "act" /\ Action(Top(d)) = action

Did(d, result, ctx) ==
    LET f == Top(d) IN
    /\ result \in Results
    /\ task' = [task EXCEPT ![d].at = "post", ![d].result = result,
                            ![d].ctx = ctx,
                            ![d].named = @ \/ (result = "ok" /\ Action(f) = "create_box")]
    /\ ran' = [ran EXCEPT ![f.plan.of] = Append(@, f.plan.from + f.step)]
    /\ acted' = IF task[d].named THEN acted \cup {Key(f)} ELSE acted
    /\ UNCHANGED <<lock, rows, excused, faults>>

\* How the actions end that change nothing here.
Ends(action) ==
    CASE action = "classify"          -> {"ok", "stop", "abort"}
      [] action = "match"             -> {"ok", "stop", "abort"}
      [] action = "plain"             -> {"ok", "abort"}
      [] action = "pre_post_validate" -> {"ok", "abort", "dependency"}
      [] action = "send_approval"     -> {"approval", "abort"}
      [] action = "set_waiting"       -> {"approval"}
      [] OTHER                        -> {}

RunPlain(d) ==
    /\ task[d].at = "act"
    /\ \E result \in Ends(Action(Top(d))) : Did(d, result, task[d].ctx)
    /\ UNCHANGED boxVars

\* The index on (organization, thread) refuses a second box; an insert that
\* lands after its time-out leaves a box the plan does not know of.
CreateBox(d) ==
    /\ At(d, "create_box")
    /\ \/ ~exists /\ exists' = TRUE /\ Did(d, "ok", task[d].ctx)
       \/ exists' \in {exists, TRUE} /\ Did(d, "abort", task[d].ctx)
    /\ UNCHANGED <<waiting, pending>>

LookupPo(d) ==
    /\ At(d, "lookup_po")
    /\ \/ Did(d, "ok", task[d].ctx \cup {"po"})
       \/ Did(d, "ok", task[d].ctx)
    /\ UNCHANGED boxVars

\* Only a purchase order the same plan looked up has goods receipts.
LookupGrn(d) ==
    /\ At(d, "lookup_grn")
    /\ \/ Did(d, "ok", task[d].ctx \ {"grn"})
       \/ "po" \in task[d].ctx /\ Did(d, "ok", task[d].ctx \cup {"grn"})
       \/ "po" \in task[d].ctx /\ Did(d, "grn", task[d].ctx)
    /\ UNCHANGED boxVars

\* Without receipts: wait on, or stop when the invoice is due within 48 h.
EvaluateGrn(d) ==
    /\ At(d, "evaluate_grn")
    /\ IF "grn" \in task[d].ctx
       THEN waiting' = None /\ Did(d, "ok", task[d].ctx)
       ELSE /\ \E result \in {"grn", "stop", "abort"} : Did(d, result, task[d].ctx)
            /\ UNCHANGED waiting
    /\ UNCHANGED <<exists, pending>>

CheckErp(d) ==
    /\ At(d, "check_erp")
    /\ \/ Did(d, "ok", task[d].ctx \cup {"erp"})
       \/ Did(d, "ok", task[d].ctx \ {"erp"})
    /\ UNCHANGED boxVars

EvaluateErp(d) ==
    /\ At(d, "evaluate_erp")
    /\ IF "erp" \in task[d].ctx
       THEN waiting' = None /\ Did(d, "ok", task[d].ctx)
       ELSE /\ \E result \in {"dependency", "abort"} : Did(d, result, task[d].ctx)
            /\ UNCHANGED waiting
    /\ UNCHANGED <<exists, pending>>

ClearWaiting(d) ==
    /\ At(d, "clear_waiting")
    /\ \/ waiting' = None /\ Did(d, "ok", task[d].ctx)
       \/ UNCHANGED waiting /\ Did(d, "abort", task[d].ctx)
    /\ UNCHANGED <<exists, pending>>

\* The governance gate may block it; _post_to_erp tries the box's lock, which
\* the task itself may hold, and takes "held" for another worker's post.  It goes
\* well also under a lock: a bill that is posted already is not posted again, and
\* without lock infrastructure the post goes ahead unguarded.
PostBill(d) ==
    /\ At(d, "post_bill")
    /\ \/ Did(d, "abort", task[d].ctx)
       \/ lock # None /\ Did(d, "held", task[d].ctx)
       \/ Did(d, "ok", task[d].ctx)
    /\ UNCHANGED boxVars

ClearedNot == pending  \* mutant: read without clearing
Cleared == None

\* _handle_resume_plan: one statement reads and clears the saved plan, which
\* is then run nested, under the same lock, from an empty context.
ResumePlan(d) ==
    LET f == Top(d) IN
    /\ At(d, "resume")
    /\ pending' = Cleared
    /\ ran' = IF task[d].tries = 0
              THEN [ran EXCEPT ![f.plan.of] = Append(@, f.plan.from + f.step)]
              ELSE ran
    /\ acted' = acted \cup {Key(f)}
    /\ \/ /\ pending = None
          /\ task' = [task EXCEPT ![d].at = "post", ![d].result = "ok"]
       \/ /\ pending # None
          /\ task' = [task EXCEPT ![d].at = "pre", ![d].ctx = {},
                                  ![d].stack = Append(@, Frame(pending))]
    /\ UNCHANGED <<exists, waiting, lock, rows, excused, faults>>

Act(d) ==
    \/ RunPlain(d) \/ CreateBox(d) \/ LookupPo(d) \/ LookupGrn(d)
    \/ EvaluateGrn(d) \/ CheckErp(d) \/ EvaluateErp(d) \/ ClearWaiting(d)
    \/ PostBill(d) \/ ResumePlan(d)

(***************************************************************************)
(* After the action: its result row, then the next action, the wait, or the *)
(* end of the plan.                                                         *)
(***************************************************************************)

\* A stop leaves the loop as the last action does; an abort moves the box to
\* its exception state and ends the plan.
Continue(d) ==
    LET n == Len(task[d].stack) IN
    \/ task[d].result \in {"abort", "held"} /\ Leave(d)
    \/ task[d].result \in Waits /\ Go(d, "save")
    \/ /\ task[d].result = "stop"
       /\ task' = [task EXCEPT ![d].at = "pre",
                               ![d].stack[n].step = StepCount(Top(d).plan)]
    \/ /\ task[d].result = "ok"
       /\ task' = [task EXCEPT ![d].at = "pre", ![d].stack[n].step = @ + 1,
                               ![d].tries = IF n = 1 THEN 0 ELSE @]

PostWrite(d) ==
    /\ task[d].at = "post"
    /\ closed' = closed \cup Row(d)
    /\ Continue(d)
    /\ UNCHANGED <<boxVars, lock, opened, histVars, faults>>

\* A failed result row is only logged.
PostWriteFails(d) ==
    /\ task[d].at = "post" /\ task[d].named /\ Fault
    /\ excused' = excused \cup {Key(Top(d))}
    /\ Continue(d)
    /\ UNCHANGED <<boxVars, lock, rows, ran, acted>>

\* One update saves the wait and what is left of the plan; with nothing left
\* the saved plan of an earlier wait stays.
SavedWait(d) ==
    LET f    == Top(d)
        rest == RemainingFrom(f.plan, f.step + 1) IN
    /\ waiting' = task[d].result
    /\ pending' = IF StepCount(rest) > 0 THEN rest ELSE pending

SaveWait(d) ==
    /\ task[d].at = "save"
    /\ SavedWait(d)
    /\ Leave(d)
    /\ UNCHANGED <<exists, lock, rows, histVars, faults>>

\* Step 7: a plan that ran to its end clears the saved plan of its box,
\* whichever plan that is.  A failure of that update is swallowed.
Complete(d) ==
    /\ task[d].at = "pre" /\ AtEnd(Top(d))
    /\ \/ /\ pending' = IF task[d].named THEN None ELSE pending
          /\ UNCHANGED faults
       \/ task[d].named /\ Fault /\ UNCHANGED pending
    /\ Leave(d)
    /\ UNCHANGED <<exists, waiting, lock, rows, histVars>>

Pop(d) == SubSeq(task[d].stack, 1, 1)

\* However a resumed plan ended, the action that resumed it succeeded.
Return(d) ==
    /\ task[d].at = "return"
    /\ task' = [task EXCEPT ![d].at = "post", ![d].result = "ok",
                            ![d].stack = Pop(d)]
    /\ UNCHANGED <<boxVars, lock, rows, histVars, faults>>

KeptLock(d) == lock  \* mutant: the finally is gone
ReleasedLock(d) == None

Unlock(d) ==
    /\ task[d].at = "unlock"
    /\ lock' = ReleasedLock(d)
    /\ task' = [task EXCEPT ![d] = Finished(@)]
    /\ UNCHANGED <<boxVars, rows, histVars, faults>>

(***************************************************************************)
(* Time-outs, exceptions and crashes.                                       *)
(***************************************************************************)

TriesLeftByOne(d) == task[d].tries <= MaxTries  \* mutant: off by one
TriesLeft(d) == task[d].tries < MaxTries

\* An exception leaves the frame: the action that resumed it is tried again,
\* or fails; at the top it leaves execute, whose finally releases the lock.
Unwind(d) ==
    \/ /\ Nested(d) /\ TriesLeft(d)
       /\ task' = [task EXCEPT ![d].at = "act", ![d].stack = Pop(d),
                               ![d].tries = @ + 1]
    \/ /\ Nested(d)
       /\ task' = [task EXCEPT ![d].at = "post", ![d].stack = Pop(d),
                               ![d].result = "abort"]
    \/ ~Nested(d) /\ Leave(d)

CancelledUnrecorded(d) == {}  \* mutant: no cleanup on cancellation
Cancelled(d) == Row(d)

\* wait_for ends the action that resumed a plan, and with it the plan.  Its
\* action is recorded as cancelled; a write that was under way may still land.
ResumeTimesOut(d) ==
    /\ task[d].at \in Body /\ Nested(d)
    /\ \/ /\ task[d].at = "act"
          /\ closed' = closed \cup Cancelled(d)
          /\ UNCHANGED <<waiting, pending, opened, excused>>
       \/ /\ task[d].at = "pre" /\ ~AtEnd(Top(d))
          /\ \/ /\ opened' = opened \cup Row(d)
                /\ excused' = excused \cup Row(d)
             \/ UNCHANGED <<opened, excused>>
          /\ UNCHANGED <<waiting, pending, closed>>
       \/ /\ task[d].at = "pre" /\ AtEnd(Top(d))
          /\ pending' \in {pending, None}
          /\ UNCHANGED <<waiting, rows, excused>>
       \/ /\ task[d].at = "post"
          /\ closed' = closed \cup Row(d)
          /\ UNCHANGED <<waiting, pending, opened, excused>>
       \/ /\ task[d].at = "save"
          /\ SavedWait(d) \/ UNCHANGED <<waiting, pending>>
          /\ UNCHANGED <<rows, excused>>
       \/ /\ task[d].at = "return"
          /\ UNCHANGED <<waiting, pending, rows, excused>>
    /\ Unwind(d)
    /\ UNCHANGED <<exists, lock, ran, acted, faults>>

\* The governance gate raises, or the update that saves the wait fails.
BodyRaises(d) ==
    /\ At(d, "post_bill") \/ task[d].at = "save"
    /\ Fault
    /\ excused' = IF task[d].at = "act" THEN excused \cup {Key(Top(d))} ELSE excused
    /\ Unwind(d)
    /\ UNCHANGED <<boxVars, lock, rows, ran, acted>>

\* The worker dies; Postgres ends its session, and with it the lock.
Crash(d) ==
    /\ task[d].at \in Body \cup {"lock", "unlock"} /\ Fault
    /\ task' = [task EXCEPT ![d] = Finished(@)]
    /\ lock' = IF task[d].locked THEN None ELSE lock
    /\ excused' = excused \cup
         {Key(task[d].stack[i]) : i \in {j \in DOMAIN task[d].stack :
                                           ~AtEnd(task[d].stack[j])}}
    /\ UNCHANGED <<boxVars, rows, ran, acted>>

Step(d) ==
    \/ AcquireLock(d) \/ LockHeld(d) \/ PreWrite(d) \/ Act(d) \/ PostWrite(d)
    \/ SaveWait(d) \/ Complete(d) \/ Return(d) \/ Unlock(d)

Next ==
    \/ \E e \in Events : Enqueue(e)
    \/ \E d \in Deliveries :
       \/ Dispatch(d) \/ Step(d) \/ ResumeTimesOut(d)
       \/ NoLockInfra(d) \/ PreWriteFails(d) \/ PostWriteFails(d)
       \/ BodyRaises(d) \/ Crash(d)

\* A task that was taken up goes on: every handler has a time-out.  Nothing
\* obliges an event to be enqueued or delivered.
Spec == Init /\ [][Next]_vars /\ \A d \in Deliveries : WF_vars(Step(d))

(***************************************************************************)
(* Properties.                                                             *)
(***************************************************************************)

Suffixes ==
    {Plan(d, k, i) : d \in Deliveries, k \in Kinds, i \in 0..7}
Keys ==
    Events \X (0..7) \X
    UNION {{Actions(k)[i] : i \in DOMAIN Actions(k)} : k \in Kinds}

\* Type invariant of the box, its timeline and the tasks.
TypeOK ==
    /\ exists \in BOOLEAN /\ waiting \in Waits \cup {None}
    /\ pending \in Suffixes \cup {None}
    /\ lock \in Deliveries \cup {None}
    /\ \A d \in Deliveries :
         /\ task[d].at \in {"idle", "queued", "lock", "unlock", "done"} \cup Body
         /\ task[d].event \in Events \cup {None}
         /\ Len(task[d].stack) <= 2
         /\ \A i \in DOMAIN task[d].stack : task[d].stack[i].plan \in Suffixes
         /\ task[d].result \in Results /\ task[d].tries \in 0..MaxTries
    /\ opened \subseteq Keys /\ closed \subseteq Keys
    /\ acted \subseteq Keys /\ excused \subseteq Keys
    /\ faults \in 0..MaxFaults

\* Rule 1: no action of a plan runs on a box before its "executing" row is on
\* the timeline, nested plans and tries after a time-out included
\* (_pre_write, which fails closed).
RecordedBeforeRun == acted \subseteq opened

\* The actions planned for a delivery run in the order of the plan and each at
\* most once, however the plan is paused, saved, taken up by other tasks, timed
\* out and taken up again: what is saved begins after the last action that ran
\* and is handed out once (remaining_from, _cas_clear_pending_plan).
ActionsRunOnce ==
    \A d \in Deliveries : \A i \in 1..(Len(ran[d]) - 1) : ran[d][i] < ran[d][i + 1]

\* An action that is under way in a task.
UnderWay(k) ==
    \E d \in Deliveries : \E i \in DOMAIN task[d].stack :
       LET f == task[d].stack[i] IN
       /\ task[d].at \in Body /\ ~AtEnd(f) /\ Key(f) = k
       /\ i = Len(task[d].stack) => task[d].at \in {"act", "post"}

\* No row stays "executing": its action is under way, or has a result row,
\* also when a time-out cancelled it, unless the worker died, the result row
\* failed, the governance gate raised or the cancellation met the row itself
\* (_execute_body).
ExecutingRowsAreClosed ==
    \A k \in opened : UnderWay(k) \/ k \in closed \cup excused

\* Of two tasks that run plans of the box, one runs without the lock: its
\* event came before the box, or the lock infrastructure was missing (execute).
EnginesTakeTurns ==
    \A d, u \in Deliveries :
      d # u /\ task[d].at \in Body /\ task[u].at \in Body
        => ~task[d].locked \/ ~task[u].locked

\* The advisory lock of the box, on the tasks that hold it: a task that runs
\* without it (NoLockInfra, an email that has no box yet) is not inside.
BoxLock == INSTANCE Mutex WITH
    Processes <- Deliveries, Free <- None, holder <- lock,
    inside <- {d \in Deliveries : task[d].locked}

\* However a plan ends, in place, at its time-out or with its worker, its task
\* gives back the lock it took, and no task takes a lock that another holds
\* (execute, its finally, and the end of the Postgres session).
ImplementsMutex == BoxLock!Spec

\* No task keeps the box for ever: time and again its lock is free, however the
\* plans end (the finally of execute).
LockIsReleased == []<>(lock = None)

\* "Another worker is already mid-post on this AP item": a post that finds the
\* box's lock held leaves the item to somebody else (_post_to_erp as
\* _handle_post_bill calls it).
HeldByAnother ==
    \A d \in Deliveries :
      task[d].at = "post" /\ task[d].result = "held" => lock # d
=============================================================================
