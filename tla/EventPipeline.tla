--------------------------- MODULE EventPipeline ---------------------------
(***************************************************************************)
(* The way of an agent event from its producer to the coordination engine: *)
(* RedisEventQueue (two streams read by one consumer group, a deduplication *)
(* key per event), the Celery worker slots that drain the streams and run   *)
(* process_agent_event, and the WorkspaceSemaphore that bounds how many     *)
(* events of one workspace run at a time.  Processes, Redis commands and    *)
(* task hand-overs interleave; a process may die between any two of them.   *)
(*                                                                          *)
(* Bounds: a pending event is reclaimed while it has fewer than MaxDispatch *)
(* task messages; MaxFaults crashes, Redis errors and expiries in all.      *)
(* Time is not modelled: an entry may be found idle for 60 s, and the       *)
(* semaphore's key may expire, at any moment.                               *)
(***************************************************************************)
EXTENDS Integers, Sequences, FiniteSets

CONSTANTS
    Events,             \* by idempotency key, all of one workspace
    HighEvents,         \* those with priority "high_priority"
    PoisonEvents,       \* those AgentEvent.from_dict refuses
    Producers,          \* webhook, callback and timer processes
    Slots,              \* worker processes (celery -c)
    NoEvent,
    Limit,              \* slots of the workspace
    MaxRetries,         \* max_retries of process_agent_event
    Batch,              \* entries a drain tick takes at most
    MaxDispatch, MaxFaults

ASSUME PipelineAssumption ==
    /\ HighEvents \subseteq Events /\ PoisonEvents \subseteq Events
    /\ NoEvent \notin Events /\ IsFiniteSet(Slots)
    /\ Limit \in Nat \ {0} /\ MaxRetries \in Nat /\ Batch \in Nat \ {0}
    /\ MaxDispatch \in Nat /\ MaxFaults \in Nat

VARIABLES
    keys,               \* deduplication keys set in Redis
    adding,             \* [Producers -> event whose XADD is next]
    adds,               \* [Events -> number of XADDs] (history)
    high, standard,     \* entries no consumer has read, oldest first
    pel,                \* entries read and not acknowledged
    broker,             \* task messages of the Celery queue, oldest first
    dispatched,         \* [Events -> number of .delay calls] (history)
    slot,               \* [Slots -> what the worker process is doing]
    count,              \* the semaphore's counter
    drift,              \* slots leaked less slots lost by faults (history)
    slips,              \* events faults let past the limit (history)
    ran,                \* events _dispatch_event ended for (history)
    abandoned,          \* events a task ended for without running them: its
                        \* retries were spent or its process killed (history)
    faults

streamVars == <<keys, adding, adds, high, standard, pel>>
taskVars   == <<broker, dispatched, ran, abandoned>>
semVars    == <<count, drift, slips>>
vars == <<streamVars, taskVars, semVars, slot, faults>>

Elems(s) == {s[i] : i \in DOMAIN s}

DrainTask        == [job |-> "drain", ev |-> NoEvent, tries |-> 0]
EventTask(e, n)  == [job |-> "event", ev |-> e, tries |-> n]
Idle             == [at |-> "idle", ev |-> NoEvent, n |-> 0]

\* "high" and "standard": in XREADGROUP of that stream; "delay" and "ack":
\* between the drain's calls; "acquire" to "reset": process_agent_event.
DrainPlaces == {"high", "standard", "delay", "ack"}
EventPlaces == {"acquire", "over", "run", "release", "reset"}

Running  == {w \in Slots : slot[w].at \in {"run", "release"}}
Occupied == Running \cup {w \in Slots : slot[w].at = "over"}

\* A counter that may be negative: AtMost(x) of what a SET 0 or an expiry wipes.
Positive(x) == IF x > 0 THEN x ELSE 0

Init ==
    /\ keys = {} /\ adding = [p \in Producers |-> NoEvent]
    /\ adds = [e \in Events |-> 0]
    /\ high = <<>> /\ standard = <<>> /\ pel = {}
    /\ broker = <<>> /\ dispatched = [e \in Events |-> 0]
    /\ ran = {} /\ abandoned = {}
    /\ slot = [w \in Slots |-> Idle]
    /\ count = 0 /\ drift = 0 /\ slips = 0 /\ faults = 0

Fault == faults < MaxFaults /\ faults' = faults + 1
Go(w, place) == slot' = [slot EXCEPT ![w].at = place]

(***************************************************************************)
(* Producers.                                                              *)
(***************************************************************************)

KeyIgnored(e) == TRUE  \* mutant: SET without NX
KeyIsFree(e) == e \notin keys

\* enqueue: SET NX of the deduplication key; a taken key answers "duplicate".
TakeKey(p, e) ==
    /\ adding[p] = NoEvent
    /\ KeyIsFree(e)
    /\ keys' = keys \cup {e}
    /\ adding' = [adding EXCEPT ![p] = e]
    /\ UNCHANGED <<adds, high, standard, pel, taskVars, semVars, slot, faults>>

\* enqueue: XADD to the stream of the event's priority.
AddToStream(p) ==
    LET e == adding[p] IN
    /\ e # NoEvent
    /\ adding' = [adding EXCEPT ![p] = NoEvent]
    /\ adds' = [adds EXCEPT ![e] = @ + 1]
    /\ IF e \in HighEvents
       THEN high' = Append(high, e) /\ UNCHANGED standard
       ELSE standard' = Append(standard, e) /\ UNCHANGED high
    /\ UNCHANGED <<keys, pel, taskVars, semVars, slot, faults>>

\* The producer dies, or its XADD fails, after the key was taken.
ProducerDies(p) ==
    /\ adding[p] # NoEvent /\ Fault
    /\ adding' = [adding EXCEPT ![p] = NoEvent]
    /\ UNCHANGED <<keys, adds, high, standard, pel, taskVars, semVars, slot>>

(***************************************************************************)
(* Celery: Beat queues a drain every two seconds, a free slot takes the     *)
(* oldest message.                                                          *)
(***************************************************************************)

DrainIsSingle ==  \* mutant: no drain while one runs
    DrainTask \notin Elems(broker) /\ \A w \in Slots : slot[w].at \notin DrainPlaces
DrainIsDue == DrainTask \notin Elems(broker)

BeatDrain ==
    /\ DrainIsDue
    /\ broker' = Append(broker, DrainTask)
    /\ UNCHANGED <<streamVars, dispatched, ran, abandoned, semVars, slot, faults>>

TakeTask(w) ==
    /\ slot[w] = Idle /\ broker # <<>>
    /\ LET t == Head(broker) IN
       slot' = [slot EXCEPT ![w] =
                  [at |-> IF t.job = "drain" THEN "high" ELSE "acquire",
                   ev |-> t.ev,
                   n  |-> IF t.job = "drain" THEN 0 ELSE t.tries]]
    /\ broker' = Tail(broker)
    /\ UNCHANGED <<streamVars, dispatched, ran, abandoned, semVars, faults>>

Delay(e) ==
    /\ dispatched' = [dispatched EXCEPT ![e] = @ + 1]
    /\ broker' = Append(broker, EventTask(e, 0))

(***************************************************************************)
(* drain_event_stream: claim_next, .delay, ack, up to Batch times.          *)
(***************************************************************************)

ClaimUnpending(w, e, skip) ==  \* mutant: XREADGROUP with NOACK
    /\ pel' = pel
    /\ IF e \in PoisonEvents
       THEN slot' = [slot EXCEPT ![w] = skip]
       ELSE slot' = [slot EXCEPT ![w].at = "delay", ![w].ev = e]

\* What a read of an entry does: it is pending now, and one that does not
\* parse is skipped with a warning.
Claim(w, e, skip) ==
    /\ pel' = pel \cup {e}
    /\ IF e \in PoisonEvents
       THEN slot' = [slot EXCEPT ![w] = skip]
       ELSE slot' = [slot EXCEPT ![w].at = "delay", ![w].ev = e]

\* XREADGROUP of the high stream blocks while it is empty (block=0).
ReadHigh(w) ==
    /\ slot[w].at = "high" /\ high # <<>>
    /\ high' = Tail(high)
    /\ Claim(w, Head(high), [slot[w] EXCEPT !.at = "standard"])
    /\ UNCHANGED <<keys, adding, adds, standard, taskVars, semVars, faults>>

\* The drain passes block_ms=0, so the standard stream blocks as well; an
\* entry that does not parse makes claim_next answer None, which ends the tick.
ReadStandard(w) ==
    /\ slot[w].at = "standard" /\ standard # <<>>
    /\ standard' = Tail(standard)
    /\ Claim(w, Head(standard), Idle)
    /\ UNCHANGED <<keys, adding, adds, high, taskVars, semVars, faults>>

\* A Redis error in claim_next is logged: on to the next stream, or to None.
ReadFails(w) ==
    /\ slot[w].at \in {"high", "standard"} /\ Fault
    /\ slot' = [slot EXCEPT ![w] = IF @.at = "high"
                                   THEN [@ EXCEPT !.at = "standard"] ELSE Idle]
    /\ UNCHANGED <<streamVars, taskVars, semVars>>

DispatchClaimed(w) ==
    /\ slot[w].at = "delay"
    /\ Delay(slot[w].ev)
    /\ Go(w, "ack")
    /\ UNCHANGED <<streamVars, ran, abandoned, semVars, faults>>

AckClaimed(w) ==
    /\ slot[w].at = "ack"
    /\ pel' = pel \ {slot[w].ev}
    /\ slot' = [slot EXCEPT ![w] =
                  IF @.n + 1 < Batch
                  THEN [at |-> "high", ev |-> NoEvent, n |-> @.n + 1]
                  ELSE Idle]
    /\ UNCHANGED <<keys, adding, adds, high, standard, taskVars, semVars, faults>>

\* The drain dies, or the broker or Redis refuses its call: what it had
\* claimed stays pending.
DrainDies(w) ==
    /\ slot[w].at \in DrainPlaces /\ Fault
    /\ slot' = [slot EXCEPT ![w] = Idle]
    /\ UNCHANGED <<streamVars, taskVars, semVars>>

\* reclaim_stale_events: a free slot claims a pending entry that was idle
\* for a minute and dispatches it again.  It never acknowledges it.
ReclaimStale(e) ==
    /\ \E w \in Slots : slot[w] = Idle
    /\ e \in pel \ PoisonEvents
    /\ dispatched[e] < MaxDispatch
    /\ Delay(e)
    /\ UNCHANGED <<streamVars, ran, abandoned, semVars, slot, faults>>

(***************************************************************************)
(* process_agent_event and the semaphore.                                   *)
(***************************************************************************)

OverLimitByOne(n) == n > Limit + 1  \* mutant: off by one
OverLimit(n) == n > Limit

\* acquire: INCR and EXPIRE in one transaction.
Acquire(w) ==
    /\ slot[w].at = "acquire"
    /\ count' = count + 1
    /\ Go(w, IF OverLimit(count') THEN "over" ELSE "run")
    /\ UNCHANGED <<streamVars, taskVars, drift, slips, faults>>

RefusedKeepsSlot == count  \* mutant: no DECR on refusal
Refused == count - 1

RetryLeftByOne(n) == n <= MaxRetries  \* mutant: off by one
RetryLeft(n) == n < MaxRetries

\* acquire over the limit: DECR, then self.retry, or the end of the retries.
GiveBack(w) ==
    LET e == slot[w].ev IN
    /\ slot[w].at = "over"
    /\ count' = Refused
    /\ slot' = [slot EXCEPT ![w] = Idle]
    /\ IF RetryLeft(slot[w].n)
       THEN /\ broker' = Append(broker, EventTask(e, slot[w].n + 1))
            /\ UNCHANGED abandoned
       ELSE /\ abandoned' = abandoned \cup {e}
            /\ UNCHANGED broker
    /\ UNCHANGED <<streamVars, dispatched, ran, drift, slips, faults>>

\* A Redis error in acquire lets the event through: before the INCR it runs
\* uncounted, at the DECR it runs although the workspace is full.
AcquireFailsOpen(w) ==
    /\ slot[w].at \in {"acquire", "over"} /\ Fault
    /\ Go(w, "run")
    /\ drift' = IF slot[w].at = "acquire" THEN drift - 1 ELSE drift
    /\ slips' = slips + 1
    /\ UNCHANGED <<streamVars, taskVars, count>>

\* _dispatch_event ends; an exception of it is logged and swallowed.
Run(w) ==
    /\ slot[w].at = "run"
    /\ ran' = ran \cup {slot[w].ev}
    /\ Go(w, "release")
    /\ UNCHANGED <<streamVars, broker, dispatched, abandoned, semVars, faults>>

\* release: DECR; a negative counter is then set to 0, in a second command.
Release(w) ==
    /\ slot[w].at = "release"
    /\ count' = count - 1
    /\ slot' = [slot EXCEPT ![w] = IF count' < 0
                                   THEN [@ EXCEPT !.at = "reset"] ELSE Idle]
    /\ UNCHANGED <<streamVars, taskVars, drift, slips, faults>>

ReleaseFails(w) ==
    /\ slot[w].at = "release" /\ Fault
    /\ slot' = [slot EXCEPT ![w] = Idle]
    /\ drift' = drift + 1
    /\ UNCHANGED <<streamVars, taskVars, count, slips>>

ResetCounter(w) ==
    /\ slot[w].at = "reset"
    /\ count' = 0
    /\ drift' = drift - count
    /\ slips' = slips + Positive(count)
    /\ slot' = [slot EXCEPT ![w] = Idle]
    /\ UNCHANGED <<streamVars, taskVars, faults>>

\* The key's 900 s pass without an attempt to refresh it.
KeyExpires ==
    /\ count # 0 /\ Fault
    /\ count' = 0
    /\ drift' = drift - count
    /\ slips' = slips + Positive(count)
    /\ UNCHANGED <<streamVars, taskVars, slot>>

\* The worker dies with an event task.  acks_late: the broker delivers the
\* message again when the whole worker is gone; Celery acknowledges it when
\* only the child process was killed.
WorkerDies(w) ==
    LET e == slot[w].ev IN
    /\ slot[w].at \in EventPlaces /\ Fault
    /\ slot' = [slot EXCEPT ![w] = Idle]
    /\ drift' = IF w \in Occupied THEN drift + 1 ELSE drift
    /\ \/ broker' = Append(broker, EventTask(e, slot[w].n)) /\ UNCHANGED abandoned
       \/ abandoned' = abandoned \cup {e} /\ UNCHANGED broker
    /\ UNCHANGED <<streamVars, dispatched, ran, count, slips>>

DrainStep(w) ==
    ReadHigh(w) \/ ReadStandard(w) \/ DispatchClaimed(w) \/ AckClaimed(w)
TaskStep(w) ==
    Acquire(w) \/ GiveBack(w) \/ Run(w) \/ Release(w) \/ ResetCounter(w)
SlotFault(w) ==
    \/ ReadFails(w) \/ DrainDies(w) \/ AcquireFailsOpen(w)
    \/ ReleaseFails(w) \/ WorkerDies(w)

Next ==
    \/ \E p \in Producers : \/ \E e \in Events : TakeKey(p, e)
                            \/ AddToStream(p) \/ ProducerDies(p)
    \/ BeatDrain \/ KeyExpires
    \/ \E e \in Events : ReclaimStale(e)
    \/ \E w \in Slots : TakeTask(w) \/ DrainStep(w) \/ TaskStep(w) \/ SlotFault(w)

\* Beat keeps ticking, a worker process goes on with what it is doing and
\* takes the next message when it is free.  Nothing obliges a producer to
\* offer an event, a fault to happen or a pending entry to be reclaimed.
Fairness ==
    /\ WF_vars(BeatDrain)
    /\ \A w \in Slots : WF_vars(TakeTask(w) \/ DrainStep(w) \/ TaskStep(w))

Spec == Init /\ [][Next]_vars /\ Fairness
(***************************************************************************)
(* Properties.                                                             *)
(***************************************************************************)

\* Type invariant of the queue, the task messages and the semaphore.
TypeOK ==
    /\ keys \subseteq Events /\ pel \subseteq Events
    /\ adding \in [Producers -> Events \cup {NoEvent}]
    /\ adds \in [Events -> Nat] /\ dispatched \in [Events -> 0..(MaxDispatch + 1)]
    /\ high \in Seq(HighEvents) /\ standard \in Seq(Events \ HighEvents)
    /\ broker \in Seq({DrainTask} \cup
                      {EventTask(e, n) : e \in Events, n \in 0..MaxRetries})
    /\ slot \in [Slots -> [at : {"idle"} \cup DrainPlaces \cup EventPlaces,
                           ev : Events \cup {NoEvent}, n : Nat]]
    /\ count \in Int /\ drift \in Int /\ slips \in Nat
    /\ ran \subseteq Events /\ abandoned \subseteq Events
    /\ faults \in 0..MaxFaults

\* The event is in a stream, pending, in a task message or in a worker.
HeldSomewhere(e) ==
    \/ e \in Elems(high) \cup Elems(standard) \cup pel
    \/ \E t \in Elems(broker) : t.ev = e
    \/ \E w \in Slots : slot[w].ev = e

Status(e) ==
    IF e \in ran THEN "finished"
    ELSE IF HeldSomewhere(e) THEN "held"
    ELSE IF e \in abandoned THEN "lost"
    ELSE IF e \in keys /\ \A p \in Producers : adding[p] # e THEN "torn"
    ELSE "new"

Promise == INSTANCE HandOver WITH
    Messages <- Events, status <- [e \in Events |-> Status(e)]

\* The queue implements HandOver: whatever process dies between two Redis or
\* broker calls, an event once added to its stream is unread, pending, in a
\* task message or in a worker until it has run, or until a task ended for it
\* without running it, killed with its process or refused once too often, and
\* no other copy of it is left.  Only a producer that dies between its SET NX
\* and its XADD leaves an event that is nowhere (enqueue, claim_next,
\* drain_event_stream, reclaim_stale, process_agent_event).
HeldUntilRunOrAbandoned == Promise!Spec

\* However many producers offer it, an event gets at most one stream entry
\* (the deduplication key of enqueue).
StreamEntryOnce == \A e \in Events : adds[e] <= 1

\* The semaphore's counter is the number of slots taken, but for what crashes
\* leaked and lost keys forgot: every other path of process_agent_event,
\* refusals and failed events included, returns exactly what it took.
SlotConservation == count = Cardinality(Occupied) + drift

\* No more events of a workspace run at a time than its limit, but for those a
\* Redis error or a lost or overwritten counter let through
\* (WorkspaceSemaphore.acquire, release).
ConcurrencyBounded == Cardinality(Running) <= Limit + slips

\* A fault (a crash, a Redis error, the expiry of the counter's key) leaks at
\* most one slot of the workspace, and before the first one the
\* counter is exact and the limit is kept: nothing that acquire, the retries and
\* release do by themselves leaks a slot or lets an event past the limit.
FaultsPayForLeaks ==
    /\ count <= Cardinality(Occupied) + faults
    /\ faults = 0 => /\ count = Cardinality(Occupied)
                     /\ Cardinality(Running) <= Limit

\* A high-priority event is eventually read, unless every worker process waits
\* in the blocking read of the standard stream (claim_next).
HighEventsRead ==
    \A e \in HighEvents :
      e \in Elems(high) ~> \/ e \notin Elems(high)
                           \/ \A w \in Slots : slot[w].at = "standard"

\* "Workers poll high_priority first, fall back to standard if empty": a
\* standard event is eventually read, also while there is no high-priority
\* traffic (claim_next as drain_event_stream calls it).
StandardEventsRead ==
    \A e \in Events \ HighEvents :
      e \in Elems(standard) ~> e \notin Elems(standard)
=============================================================================
