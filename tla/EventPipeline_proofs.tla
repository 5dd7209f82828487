------------------------ MODULE EventPipeline_proofs ------------------------
(***************************************************************************)
(* Proofs about EventPipeline, for any events, producers and worker        *)
(* processes, any limit, batch and number of retries, and any number of    *)
(* faults: the semaphore's books, and that the queue implements HandOver.  *)
(***************************************************************************)
EXTENDS EventPipeline, FiniteSetTheorems, TLAPS

-----------------------------------------------------------------------------
(* The inductive invariant.                                                *)

Message == {DrainTask} \cup {EventTask(e, n) : e \in Events, n \in 0..MaxRetries}
SlotRow == [at : {"idle"} \cup DrainPlaces \cup EventPlaces,
            ev : Events \cup {NoEvent}, n : Nat]

\* A worker has an event exactly in the places that need one.
Placed ==
  \A w \in Slots :
    /\ slot[w].at \in {"idle", "high", "standard"} <=> slot[w].ev = NoEvent
    /\ slot[w].at \in EventPlaces => slot[w].n <= MaxRetries

Unread    == Elems(high) \cup Elems(standard)
Ended     == ran \cup abandoned
Queued(e) == \E t \in Elems(broker) : t.ev = e

\* Nobody has read the event.
Fresh(e) ==
  /\ e \notin pel /\ e \notin Ended /\ dispatched[e] = 0
  /\ ~Queued(e) /\ \A w \in Slots : slot[w].ev # e

\* A task for the event has ended, is queued or is in a worker.
Tasked(e) ==
  \/ e \in Ended \/ Queued(e)
  \/ \E w \in Slots : slot[w].at \in EventPlaces /\ slot[w].ev = e

\* A sequence without repetitions.
Once(s) == \A i, j \in DOMAIN s : s[i] = s[j] => i = j

\* The streams hold what one producer put in and nobody has read.
Streams ==
  /\ Once(high) /\ Once(standard)
  /\ \A e \in Events :
       /\ adds[e] <= 1
       /\ e \notin keys => Fresh(e) /\ e \notin Unread /\ adds[e] = 0
                           /\ \A p \in Producers : adding[p] # e
       /\ e \in Unread => Fresh(e)
       /\ \A p \in Producers : adding[p] = e =>
            /\ Fresh(e) /\ e \notin Unread /\ adds[e] = 0
            /\ \A q \in Producers : adding[q] = e => q = p

\* A drain that holds an event is alone with it; the event is pending until it
\* has been dispatched.
Drains ==
  \A w \in Slots :
    /\ slot[w].at = "delay" =>
         slot[w].ev \in pel /\ dispatched[slot[w].ev] <= MaxDispatch
    /\ slot[w].at = "ack" => Tasked(slot[w].ev)
    /\ slot[w].at \in {"delay", "ack"} =>
         \A v \in Slots : slot[v].at \in {"delay", "ack"} /\ slot[v].ev = slot[w].ev
                            => v = w
    /\ slot[w].at \in {"release", "reset"} => slot[w].ev \in Ended

Queue == TypeOK /\ Placed /\ Streams /\ Drains

-----------------------------------------------------------------------------
(* Lemmas about sequences.                                                 *)

LEMMA AppendElems ==
  ASSUME NEW S, NEW s \in Seq(S), NEW x \in S
  PROVE  /\ Elems(Append(s, x)) = Elems(s) \cup {x}
         /\ Append(s, x) \in Seq(S)
         /\ Once(s) /\ x \notin Elems(s) => Once(Append(s, x))
<1>1. /\ Append(s, x) \in Seq(S) /\ Len(Append(s, x)) = Len(s) + 1
      /\ \A i \in 1..Len(s) : Append(s, x)[i] = s[i]
      /\ Append(s, x)[Len(s) + 1] = x
  OBVIOUS
<1>2. DOMAIN s = 1..Len(s) /\ DOMAIN Append(s, x) = 1..(Len(s) + 1) /\ Len(s) \in Nat
  BY <1>1
<1> DEFINE t == Append(s, x)
<1>3. Len(t) = Len(s) + 1 /\ \A i \in 1..Len(s) : t[i] = s[i] /\ t[Len(s) + 1] = x
  BY <1>1
<1>4. Elems(t) = Elems(s) \cup {x}
  <2>1. \A i \in DOMAIN t : t[i] \in Elems(s) \cup {x}
    BY <1>1, <1>2 DEF Elems
  <2>2. \A i \in DOMAIN s : s[i] \in Elems(t)
    BY <1>1, <1>2 DEF Elems
  <2>3. x \in Elems(t)
    BY <1>1, <1>2 DEF Elems
  <2> QED
    BY <2>1, <2>2, <2>3 DEF Elems
<1>5. ASSUME Once(s), x \notin Elems(s) PROVE Once(t)
  BY <1>1, <1>2, <1>5 DEF Once, Elems
<1> QED
  BY <1>1, <1>4, <1>5

LEMMA TailElems ==
  ASSUME NEW S, NEW s \in Seq(S), s # <<>>
  PROVE  /\ Head(s) \in S /\ Tail(s) \in Seq(S) /\ Head(s) \in Elems(s)
         /\ Elems(s) = {Head(s)} \cup Elems(Tail(s)) /\ Tail(s) # s
         /\ Once(s) => Once(Tail(s)) /\ Head(s) \notin Elems(Tail(s))
<1>1. /\ Head(s) \in S /\ Tail(s) \in Seq(S)
      /\ Head(s) = s[1] /\ Len(Tail(s)) = Len(s) - 1 /\ Len(s) \in Nat \ {0}
      /\ \A i \in 1..(Len(s) - 1) : Tail(s)[i] = s[i + 1]
  OBVIOUS
<1>2. DOMAIN s = 1..Len(s) /\ DOMAIN Tail(s) = 1..(Len(s) - 1)
  BY <1>1
<1>3. Head(s) \in Elems(s)
  BY <1>1, <1>2 DEF Elems
<1>4. Elems(s) = {Head(s)} \cup Elems(Tail(s))
  <2>1. \A i \in DOMAIN s : s[i] \in {Head(s)} \cup Elems(Tail(s))
    <3> SUFFICES ASSUME NEW i \in DOMAIN s, i # 1 PROVE s[i] \in Elems(Tail(s))
      BY <1>1
    <3>1. i - 1 \in 1..(Len(s) - 1) /\ s[(i - 1) + 1] = s[i]
      BY <1>1, <1>2
    <3> QED
      BY <3>1, <1>1, <1>2 DEF Elems
  <2>2. \A i \in DOMAIN Tail(s) : Tail(s)[i] \in Elems(s)
    BY <1>1, <1>2 DEF Elems
  <2> QED
    BY <2>1, <2>2, <1>3 DEF Elems
<1>5. Once(s) => Once(Tail(s)) /\ Head(s) \notin Elems(Tail(s))
  <2> SUFFICES ASSUME Once(s) PROVE Once(Tail(s)) /\ Head(s) \notin Elems(Tail(s))
    OBVIOUS
  <2>1. \A i \in DOMAIN Tail(s) : i + 1 \in DOMAIN s /\ Tail(s)[i] = s[i + 1] /\ i + 1 # 1
    BY <1>1, <1>2
  <2>2. Head(s) \notin Elems(Tail(s))
    BY <2>1, <1>1, <1>2 DEF Once, Elems
  <2>3. Once(Tail(s))
    <3> SUFFICES ASSUME NEW i \in DOMAIN Tail(s), NEW j \in DOMAIN Tail(s),
                        Tail(s)[i] = Tail(s)[j]
                 PROVE  i = j
      BY DEF Once
    <3>1. i + 1 = j + 1
      BY <2>1 DEF Once
    <3> QED
      BY <3>1, <1>2, <1>1
  <2> QED
    BY <2>2, <2>3
<1>6. Tail(s) # s
  <2>1. Len(s) \in DOMAIN s /\ Len(s) \notin DOMAIN Tail(s)
    <3> DEFINE n == Len(s)
    <3>1. n \in Nat \ {0} /\ DOMAIN s = 1..n /\ DOMAIN Tail(s) = 1..(n - 1)
      BY <1>1, <1>2
    <3> HIDE DEF n
    <3>2. n \in 1..n /\ n \notin 1..(n - 1)
      BY <3>1
    <3>3. n \in DOMAIN s /\ n \notin DOMAIN Tail(s)
      BY <3>1, <3>2
    <3> QED
      BY <3>3 DEF n
  <2> QED
    BY <2>1
<1> QED
  BY <1>1, <1>3, <1>4, <1>5, <1>6

-----------------------------------------------------------------------------
(* Types and places.                                                       *)

LEMMA Messages ==
  /\ DrainTask \in Message /\ DrainTask.ev = NoEvent /\ DrainTask.job = "drain"
  /\ \A e \in Events, n \in 0..MaxRetries :
       /\ EventTask(e, n) \in Message /\ EventTask(e, n).ev = e
       /\ EventTask(e, n).tries = n /\ EventTask(e, n).job = "event"
  /\ \A t \in Message :
       /\ t.ev \in Events \cup {NoEvent} /\ t.tries \in 0..MaxRetries
       /\ t.job = "drain" <=> t.ev = NoEvent
<1>1. DrainTask \in Message /\ DrainTask.ev = NoEvent /\ DrainTask.job = "drain"
      /\ DrainTask.tries = 0
  BY DEF Message, DrainTask
<1>2. ASSUME NEW e \in Events, NEW n \in 0..MaxRetries
      PROVE  /\ EventTask(e, n) \in Message /\ EventTask(e, n).ev = e
             /\ EventTask(e, n).tries = n /\ EventTask(e, n).job = "event"
  BY DEF Message, EventTask
<1>3. ASSUME NEW t \in Message
      PROVE  /\ t.ev \in Events \cup {NoEvent} /\ t.tries \in 0..MaxRetries
             /\ t.job = "drain" <=> t.ev = NoEvent
  <2>1. CASE t = DrainTask
    BY <2>1, <1>1, PipelineAssumption
  <2>2. CASE \E e \in Events, n \in 0..MaxRetries : t = EventTask(e, n)
    BY <2>2, <1>2, PipelineAssumption
  <2> QED
    BY <2>1, <2>2 DEF Message
<1> QED
  BY <1>1, <1>2, <1>3

\* A step that gives worker w the row r.
LEMMA SlotTyped ==
  ASSUME TypeOK, Placed, NEW w \in Slots, NEW r \in SlotRow,
         slot' = [slot EXCEPT ![w] = r],
         r.at \in {"idle", "high", "standard"} <=> r.ev = NoEvent,
         r.at \in EventPlaces => r.n <= MaxRetries
  PROVE  /\ slot' \in [Slots -> SlotRow] /\ Placed'
         /\ slot'[w] = r /\ \A v \in Slots \ {w} : slot'[v] = slot[v]
<1>1. slot \in [Slots -> SlotRow]
  BY DEF TypeOK, SlotRow
<1>2. /\ slot' \in [Slots -> SlotRow]
      /\ slot'[w] = r /\ \A v \in Slots \ {w} : slot'[v] = slot[v]
  BY <1>1
<1>3. Placed'
  BY <1>2 DEF Placed
<1> QED
  BY <1>2, <1>3

\* What is left to show of a step's types once the slots' are.
RestTyped ==
  /\ keys \subseteq Events /\ pel \subseteq Events
  /\ adding \in [Producers -> Events \cup {NoEvent}]
  /\ adds \in [Events -> Nat] /\ dispatched \in [Events -> 0..(MaxDispatch + 1)]
  /\ high \in Seq(HighEvents) /\ standard \in Seq(Events \ HighEvents)
  /\ broker \in Seq(Message)
  /\ count \in Int /\ drift \in Int /\ slips \in Nat
  /\ ran \subseteq Events /\ abandoned \subseteq Events
  /\ faults \in 0..MaxFaults

LEMMA TypesSplit == TypeOK <=> RestTyped /\ slot \in [Slots -> SlotRow]
BY DEF TypeOK, RestTyped, Message, SlotRow

LEMMA TypesSplitNext == TypeOK' <=> RestTyped' /\ (slot \in [Slots -> SlotRow])'
BY DEF TypeOK, RestTyped, Message, SlotRow

LEMMA Typed ==
  ASSUME Queue, [Next]_vars
  PROVE  TypeOK' /\ Placed'
<1> USE PipelineAssumption DEF Fault, Go
<1>t. RestTyped /\ slot \in [Slots -> SlotRow] /\ TypeOK /\ Placed
  BY TypesSplit DEF Queue
<1>s. ASSUME RestTyped', slot' \in [Slots -> SlotRow], Placed'
      PROVE  TypeOK' /\ Placed'
  BY <1>s, TypesSplitNext
<1>u. ASSUME slot' = slot, RestTyped' PROVE TypeOK' /\ Placed'
  BY <1>u, <1>s, <1>t DEF Placed
<1>f. ASSUME faults < MaxFaults, faults' = faults + 1 PROVE faults' \in 0..MaxFaults
  BY <1>f, <1>t DEF RestTyped
<1>1. CASE UNCHANGED vars
  <2>1. RestTyped'
    BY <1>1, <1>t DEF RestTyped, vars, streamVars, taskVars, semVars
  <2> QED
    BY <1>1, <2>1, <1>u DEF vars
<1>2. ASSUME NEW p \in Producers, NEW e \in Events, TakeKey(p, e)
      PROVE  TypeOK' /\ Placed'
  <2>1. RestTyped'
    BY <1>2, <1>t DEF TakeKey, RestTyped, taskVars, semVars
  <2> QED
    BY <1>2, <2>1, <1>u DEF TakeKey
<1>3. ASSUME NEW p \in Producers, AddToStream(p) PROVE TypeOK' /\ Placed'
  <2>1. adding[p] \in Events
    BY <1>3, <1>t DEF AddToStream, RestTyped
  <2>2. high' \in Seq(HighEvents) /\ standard' \in Seq(Events \ HighEvents)
    <3>1. CASE adding[p] \in HighEvents
      <4>1. high' = Append(high, adding[p]) /\ standard' = standard
        BY <1>3, <3>1 DEF AddToStream
      <4> QED
        BY <4>1, <3>1, <1>t, AppendElems DEF RestTyped
    <3>2. CASE adding[p] \notin HighEvents
      <4>1. standard' = Append(standard, adding[p]) /\ high' = high
        BY <1>3, <3>2 DEF AddToStream
      <4> QED
        BY <4>1, <3>2, <2>1, <1>t, AppendElems DEF RestTyped
    <3> QED
      BY <3>1, <3>2
  <2>3. RestTyped'
    <3>1. adds' = [adds EXCEPT ![adding[p]] = adds[adding[p]] + 1]
          /\ adding' = [adding EXCEPT ![p] = NoEvent]
          /\ UNCHANGED <<keys, pel, taskVars, semVars, faults>>
      BY <1>3 DEF AddToStream
    <3>2. adds' \in [Events -> Nat] /\ adding' \in [Producers -> Events \cup {NoEvent}]
      BY <3>1, <2>1, <1>t DEF RestTyped
    <3> QED
      BY <3>1, <3>2, <2>2, <1>t DEF RestTyped, taskVars, semVars
  <2> QED
    BY <1>3, <2>3, <1>u DEF AddToStream
<1>4. ASSUME NEW p \in Producers, ProducerDies(p) PROVE TypeOK' /\ Placed'
  <2>1. RestTyped'
    BY <1>4, <1>f, <1>t DEF ProducerDies, RestTyped, taskVars, semVars
  <2> QED
    BY <1>4, <2>1, <1>u DEF ProducerDies
<1>5. CASE BeatDrain
  <2>1. broker' \in Seq(Message)
    BY <1>5, <1>t, Messages, AppendElems DEF BeatDrain, RestTyped
  <2>2. RestTyped'
    BY <1>5, <2>1, <1>t DEF BeatDrain, RestTyped, streamVars, semVars
  <2> QED
    BY <1>5, <2>2, <1>u DEF BeatDrain
<1>6. CASE KeyExpires
  <2>1. RestTyped'
    BY <1>6, <1>f, <1>t DEF KeyExpires, RestTyped, streamVars, taskVars, Positive
  <2> QED
    BY <1>6, <2>1, <1>u DEF KeyExpires
<1>d. ASSUME NEW e \in Events, dispatched[e] <= MaxDispatch, Delay(e)
      PROVE  /\ dispatched' \in [Events -> 0..(MaxDispatch + 1)]
             /\ broker' \in Seq(Message)
  <2>1. broker' \in Seq(Message)
    BY <1>d, <1>t, Messages, AppendElems DEF Delay, RestTyped
  <2>2. dispatched' \in [Events -> 0..(MaxDispatch + 1)]
    BY <1>d, <1>t DEF Delay, RestTyped
  <2> QED
    BY <2>1, <2>2
<1>7. ASSUME NEW e \in Events, ReclaimStale(e) PROVE TypeOK' /\ Placed'
  <2>1. /\ dispatched' \in [Events -> 0..(MaxDispatch + 1)]
        /\ broker' \in Seq(Message)
    BY <1>7, <1>d, <1>t DEF ReclaimStale, RestTyped
  <2>2. RestTyped'
    BY <1>7, <2>1, <1>t DEF ReclaimStale, RestTyped, streamVars, semVars
  <2> QED
    BY <1>7, <2>2, <1>u DEF ReclaimStale
<1>w. ASSUME NEW w \in Slots, NEW r \in SlotRow, slot' = [slot EXCEPT ![w] = r],
             r.at \in {"idle", "high", "standard"} <=> r.ev = NoEvent,
             r.at \in EventPlaces => r.n <= MaxRetries,
             RestTyped'
      PROVE  TypeOK' /\ Placed'
  BY <1>w, <1>s, <1>t, SlotTyped
<1>i. Idle \in SlotRow /\ Idle.at = "idle" /\ Idle.ev = NoEvent
  BY DEF Idle, SlotRow
<1>r. ASSUME NEW w \in Slots
      PROVE  /\ slot[w] \in SlotRow
             /\ slot[w].at \in {"idle", "high", "standard"} <=> slot[w].ev = NoEvent
             /\ slot[w].at \in EventPlaces => slot[w].n <= MaxRetries
             /\ slot[w].at \in {"idle", "high", "standard"} \cup {"delay", "ack"} \cup EventPlaces
             /\ slot[w].ev \in Events \cup {NoEvent} /\ slot[w].n \in Nat
  BY <1>t DEF Placed, SlotRow, DrainPlaces
<1>8. ASSUME NEW w \in Slots, TakeTask(w) PROVE TypeOK' /\ Placed'
  <2> DEFINE t == Head(broker)
             r == [at |-> IF t.job = "drain" THEN "high" ELSE "acquire",
                   ev |-> t.ev, n  |-> IF t.job = "drain" THEN 0 ELSE t.tries]
  <2>1. t \in Message /\ Tail(broker) \in Seq(Message)
    BY <1>8, <1>t, TailElems DEF TakeTask, RestTyped
  <2>2. /\ r \in SlotRow
        /\ r.at \in {"idle", "high", "standard"} <=> r.ev = NoEvent
        /\ r.at \in EventPlaces => r.n <= MaxRetries
    BY <2>1, Messages DEF SlotRow, DrainPlaces, EventPlaces
  <2>3. slot' = [slot EXCEPT ![w] = r]
    BY <1>8 DEF TakeTask
  <2>4. RestTyped'
    BY <1>8, <2>1, <1>t DEF TakeTask, RestTyped, streamVars, semVars
  <2> HIDE DEF r
  <2> QED
    BY <2>2, <2>3, <2>4, <1>w
<1>9. ASSUME NEW w \in Slots, ReadHigh(w) \/ ReadStandard(w) PROVE TypeOK' /\ Placed'
  <2>1. CASE ReadHigh(w)
    <3> DEFINE e == Head(high)
               r == IF e \in PoisonEvents THEN [slot[w] EXCEPT !.at = "standard"]
                    ELSE [slot[w] EXCEPT !.at = "delay", !.ev = e]
    <3>1. e \in Events /\ Tail(high) \in Seq(HighEvents)
      BY <2>1, <1>t, TailElems DEF ReadHigh, RestTyped
    <3>2. slot' = [slot EXCEPT ![w] = r] /\ pel' = pel \cup {e}
      BY <2>1, <1>t DEF ReadHigh, Claim
    <3>3. /\ r \in SlotRow
          /\ r.at \in {"idle", "high", "standard"} <=> r.ev = NoEvent
          /\ r.at \in EventPlaces => r.n <= MaxRetries
      BY <2>1, <3>1, <1>r DEF ReadHigh, SlotRow, DrainPlaces, EventPlaces
    <3>4. RestTyped'
      BY <2>1, <3>1, <3>2, <1>t DEF ReadHigh, RestTyped, taskVars, semVars
    <3> HIDE DEF r
    <3> QED
      BY <3>2, <3>3, <3>4, <1>w
  <2>2. CASE ReadStandard(w)
    <3> DEFINE e == Head(standard)
               r == IF e \in PoisonEvents THEN Idle
                    ELSE [slot[w] EXCEPT !.at = "delay", !.ev = e]
    <3>1. e \in Events /\ Tail(standard) \in Seq(Events \ HighEvents)
      BY <2>2, <1>t, TailElems DEF ReadStandard, RestTyped
    <3>2. slot' = [slot EXCEPT ![w] = r] /\ pel' = pel \cup {e}
      BY <2>2, <1>t DEF ReadStandard, Claim
    <3>3. /\ r \in SlotRow
          /\ r.at \in {"idle", "high", "standard"} <=> r.ev = NoEvent
          /\ r.at \in EventPlaces => r.n <= MaxRetries
      BY <3>1, <1>r, <1>i DEF SlotRow, DrainPlaces, EventPlaces
    <3>4. RestTyped'
      BY <2>2, <3>1, <3>2, <1>t DEF ReadStandard, RestTyped, taskVars, semVars
    <3> HIDE DEF r
    <3> QED
      BY <3>2, <3>3, <3>4, <1>w
  <2> QED
    BY <1>9, <2>1, <2>2
<1>10. ASSUME NEW w \in Slots, DispatchClaimed(w) PROVE TypeOK' /\ Placed'
  <2> DEFINE r == [slot[w] EXCEPT !.at = "ack"]
  <2>1. slot[w].at = "delay" /\ slot[w].ev \in Events /\ dispatched[slot[w].ev] <= MaxDispatch
    BY <1>10, <1>r DEF DispatchClaimed, Queue, Drains
  <2>2. /\ dispatched' \in [Events -> 0..(MaxDispatch + 1)]
        /\ broker' \in Seq(Message)
    BY <1>10, <1>d, <2>1 DEF DispatchClaimed
  <2>3. slot' = [slot EXCEPT ![w] = r]
    BY <1>10, <1>t DEF DispatchClaimed
  <2>4. /\ r \in SlotRow
        /\ r.at \in {"idle", "high", "standard"} <=> r.ev = NoEvent
        /\ r.at \in EventPlaces => r.n <= MaxRetries
    BY <2>1, <1>r DEF SlotRow, DrainPlaces, EventPlaces
  <2>5. RestTyped'
    BY <1>10, <2>2, <1>t DEF DispatchClaimed, RestTyped, streamVars, semVars
  <2> HIDE DEF r
  <2> QED
    BY <2>3, <2>4, <2>5, <1>w
<1>11. ASSUME NEW w \in Slots, AckClaimed(w) PROVE TypeOK' /\ Placed'
  <2> DEFINE r == IF slot[w].n + 1 < Batch
                  THEN [at |-> "high", ev |-> NoEvent, n |-> slot[w].n + 1]
                  ELSE Idle
  <2>1. slot' = [slot EXCEPT ![w] = r]
    BY <1>11, <1>t DEF AckClaimed
  <2>2. /\ r \in SlotRow
        /\ r.at \in {"idle", "high", "standard"} <=> r.ev = NoEvent
        /\ r.at \in EventPlaces => r.n <= MaxRetries
    BY <1>r, <1>i DEF SlotRow, DrainPlaces, EventPlaces
  <2>3. RestTyped'
    BY <1>11, <1>t DEF AckClaimed, RestTyped, taskVars, semVars
  <2> HIDE DEF r
  <2> QED
    BY <2>1, <2>2, <2>3, <1>w
<1>12. ASSUME NEW w \in Slots, TaskStep(w) PROVE TypeOK' /\ Placed'
  <2> DEFINE r(place) == [slot[w] EXCEPT !.at = place]
  <2>1. ASSUME slot[w].at \in EventPlaces, NEW place \in EventPlaces
        PROVE  /\ r(place) \in SlotRow
               /\ r(place).at \in {"idle", "high", "standard"} <=> r(place).ev = NoEvent
               /\ r(place).at \in EventPlaces => r(place).n <= MaxRetries
    BY <2>1, <1>r DEF SlotRow, DrainPlaces, EventPlaces
  <2>2. CASE Acquire(w)
    <3>1. PICK place \in {"over", "run"} : slot' = [slot EXCEPT ![w] = r(place)]
      BY <2>2, <1>t DEF Acquire
    <3>2. RestTyped'
      BY <2>2, <1>t DEF Acquire, RestTyped, streamVars, taskVars
    <3>3. slot[w].at \in EventPlaces /\ place \in EventPlaces
      BY <2>2 DEF Acquire, EventPlaces
    <3> HIDE DEF r
    <3> QED
      BY <3>1, <3>2, <3>3, <2>1, <1>w
  <2>3. CASE GiveBack(w)
    <3>1. /\ slot' = [slot EXCEPT ![w] = Idle]
          /\ slot[w].at = "over" /\ slot[w].ev \in Events
      BY <2>3, <1>r DEF GiveBack, EventPlaces
    <3>2. broker' \in Seq(Message) /\ ran' = ran /\ abandoned' \subseteq Events
      <4>1. CASE RetryLeft(slot[w].n)
        <5>1. slot[w].n + 1 \in 0..MaxRetries
          BY <4>1, <1>r DEF RetryLeft
        <5>2. /\ broker' = Append(broker, EventTask(slot[w].ev, slot[w].n + 1))
              /\ ran' = ran /\ abandoned' = abandoned
          BY <2>3, <4>1 DEF GiveBack
        <5> QED
          BY <5>1, <5>2, <3>1, <1>t, Messages, AppendElems DEF RestTyped
      <4>2. CASE ~RetryLeft(slot[w].n)
        BY <2>3, <4>2, <3>1, <1>t DEF GiveBack, RestTyped
      <4> QED
        BY <4>1, <4>2
    <3>3. RestTyped'
      BY <2>3, <3>2, <1>t DEF GiveBack, Refused, RestTyped, streamVars
    <3> QED
      BY <3>1, <3>3, <1>i, <1>w DEF EventPlaces
  <2>4. CASE Run(w)
    <3>1. slot' = [slot EXCEPT ![w] = r("release")]
      BY <2>4, <1>t DEF Run
    <3>2. slot[w].at \in EventPlaces /\ "release" \in EventPlaces /\ slot[w].ev \in Events
      BY <2>4, <1>r DEF Run, EventPlaces
    <3>3. RestTyped'
      BY <2>4, <3>2, <1>t DEF Run, RestTyped, streamVars, semVars
    <3> HIDE DEF r
    <3> QED
      BY <3>1, <3>2, <3>3, <2>1, <1>w
  <2>5. CASE Release(w)
    <3>1. slot' = [slot EXCEPT ![w] = r("reset")] \/ slot' = [slot EXCEPT ![w] = Idle]
      BY <2>5, <1>t DEF Release
    <3>2. slot[w].at \in EventPlaces /\ "reset" \in EventPlaces
      BY <2>5 DEF Release, EventPlaces
    <3>3. RestTyped'
      BY <2>5, <1>t DEF Release, RestTyped, streamVars, taskVars
    <3> HIDE DEF r
    <3> QED
      BY <3>1, <3>2, <3>3, <2>1, <1>i, <1>w DEF EventPlaces
  <2>6. CASE ResetCounter(w)
    <3>1. slot' = [slot EXCEPT ![w] = Idle]
      BY <2>6 DEF ResetCounter
    <3>2. RestTyped'
      BY <2>6, <1>t DEF ResetCounter, RestTyped, streamVars, taskVars, Positive
    <3> QED
      BY <3>1, <3>2, <1>i, <1>w DEF EventPlaces
  <2> QED
    BY <1>12, <2>2, <2>3, <2>4, <2>5, <2>6 DEF TaskStep
<1>13. ASSUME NEW w \in Slots, SlotFault(w) PROVE TypeOK' /\ Placed'
  <2>1. CASE ReadFails(w)
    <3> DEFINE r == IF slot[w].at = "high" THEN [slot[w] EXCEPT !.at = "standard"] ELSE Idle
    <3>1. slot' = [slot EXCEPT ![w] = r]
      BY <2>1, <1>t DEF ReadFails
    <3>2. /\ r \in SlotRow
          /\ r.at \in {"idle", "high", "standard"} <=> r.ev = NoEvent
          /\ r.at \in EventPlaces => r.n <= MaxRetries
      BY <1>r, <1>i DEF SlotRow, DrainPlaces, EventPlaces
    <3>3. RestTyped'
      BY <2>1, <1>f, <1>t DEF ReadFails, RestTyped, streamVars, taskVars, semVars
    <3> HIDE DEF r
    <3> QED
      BY <3>1, <3>2, <3>3, <1>w
  <2>2. CASE DrainDies(w)
    <3>1. slot' = [slot EXCEPT ![w] = Idle]
      BY <2>2 DEF DrainDies
    <3>2. RestTyped'
      BY <2>2, <1>f, <1>t DEF DrainDies, RestTyped, streamVars, taskVars, semVars
    <3> QED
      BY <3>1, <3>2, <1>i, <1>w DEF EventPlaces
  <2>3. CASE AcquireFailsOpen(w)
    <3> DEFINE r == [slot[w] EXCEPT !.at = "run"]
    <3>1. slot' = [slot EXCEPT ![w] = r]
      BY <2>3, <1>t DEF AcquireFailsOpen
    <3>2. /\ r \in SlotRow
          /\ r.at \in {"idle", "high", "standard"} <=> r.ev = NoEvent
          /\ r.at \in EventPlaces => r.n <= MaxRetries
      BY <2>3, <1>r DEF AcquireFailsOpen, SlotRow, DrainPlaces, EventPlaces
    <3>3. RestTyped'
      <4>1. /\ faults < MaxFaults /\ faults' = faults + 1
            /\ drift' = IF slot[w].at = "acquire" THEN drift - 1 ELSE drift
            /\ slips' = slips + 1
            /\ UNCHANGED <<streamVars, taskVars, count>>
        BY <2>3 DEF AcquireFailsOpen
      <4>2. drift' \in Int /\ slips' \in Nat
        BY <4>1, <1>t DEF RestTyped
      <4>3. faults' \in 0..MaxFaults
        BY <4>1, <1>f
      <4> QED
        BY <4>1, <4>2, <4>3, <1>t DEF RestTyped, streamVars, taskVars
    <3> HIDE DEF r
    <3> QED
      BY <3>1, <3>2, <3>3, <1>w
  <2>4. CASE ReleaseFails(w)
    <3>1. slot' = [slot EXCEPT ![w] = Idle]
      BY <2>4 DEF ReleaseFails
    <3>2. RestTyped'
      BY <2>4, <1>f, <1>t DEF ReleaseFails, RestTyped, streamVars, taskVars
    <3> QED
      BY <3>1, <3>2, <1>i, <1>w DEF EventPlaces
  <2>5. CASE WorkerDies(w)
    <3>1. slot' = [slot EXCEPT ![w] = Idle]
      BY <2>5 DEF WorkerDies
    <3>2. slot[w].ev \in Events /\ slot[w].n \in 0..MaxRetries
      BY <2>5, <1>r DEF WorkerDies, EventPlaces
    <3>3. broker' \in Seq(Message) /\ ran' = ran /\ abandoned' \subseteq Events
      <4>1. CASE /\ broker' = Append(broker, EventTask(slot[w].ev, slot[w].n))
                 /\ UNCHANGED <<ran, abandoned>>
        BY <4>1, <3>2, <1>t, Messages, AppendElems DEF RestTyped
      <4>2. CASE /\ abandoned' = abandoned \cup {slot[w].ev}
                 /\ UNCHANGED <<ran, broker>>
        BY <4>2, <3>2, <1>t DEF RestTyped
      <4> QED
        BY <2>5, <4>1, <4>2 DEF WorkerDies
    <3>4. RestTyped'
      <4>1. /\ faults < MaxFaults /\ faults' = faults + 1
            /\ drift' = IF w \in Occupied THEN drift + 1 ELSE drift
            /\ UNCHANGED <<streamVars, dispatched, count, slips>>
        BY <2>5 DEF WorkerDies
      <4>2. drift' \in Int
        BY <4>1, <1>t DEF RestTyped
      <4>3. faults' \in 0..MaxFaults
        BY <4>1, <1>f
      <4> QED
        BY <4>1, <4>2, <4>3, <3>3, <1>t DEF RestTyped, streamVars
    <3> QED
      BY <3>1, <3>4, <1>i, <1>w DEF EventPlaces
  <2> QED
    BY <1>13, <2>1, <2>2, <2>3, <2>4, <2>5 DEF SlotFault
<1> QED
  BY <1>1, <1>2, <1>3, <1>4, <1>5, <1>6, <1>7, <1>8, <1>9, <1>10, <1>11, <1>12, <1>13
     DEF Next, DrainStep

-----------------------------------------------------------------------------
(* The semaphore's books.                                                  *)

\* Events that faults let past the limit have a slip each.
Books == SlotConservation /\ ConcurrencyBounded /\ drift + slips >= 0

One(b) == IF b THEN 1 ELSE 0
TakesSlot(r) == r.at \in {"run", "release", "over"}
Runs(r)      == r.at \in {"run", "release"}

LEMMA Counting ==
  ASSUME NEW S, IsFiniteSet(S), NEW A \in SUBSET S, NEW B \in SUBSET S, NEW w,
         A \ {w} = B \ {w}
  PROVE  /\ Cardinality(A) \in Nat /\ Cardinality(B) \in Nat
         /\ Cardinality(B) = Cardinality(A) - One(w \in A) + One(w \in B)
<1> DEFINE C == A \ {w}
<1>1. IsFiniteSet(A) /\ IsFiniteSet(B) /\ IsFiniteSet(C)
  BY FS_Subset
<1>2. Cardinality(A) \in Nat /\ Cardinality(B) \in Nat /\ Cardinality(C) \in Nat
  BY <1>1, FS_CardinalityType
<1>3. Cardinality(C \cup {w}) = Cardinality(C) + 1
  BY <1>1, FS_AddElement
<1>5. Cardinality(A) = Cardinality(C) + One(w \in A)
  <2>1. CASE w \in A
    <3>1. A = C \cup {w}
      BY <2>1
    <3> QED
      BY <1>3, <2>1, <3>1 DEF One
  <2>2. CASE w \notin A
    <3>1. A = C
      BY <2>2
    <3> QED
      BY <1>2, <2>2, <3>1 DEF One
  <2> QED
    BY <2>1, <2>2
<1>6. Cardinality(B) = Cardinality(C) + One(w \in B)
  <2>1. CASE w \in B
    <3>1. B = C \cup {w}
      BY <2>1
    <3> QED
      BY <1>3, <2>1, <3>1 DEF One
  <2>2. CASE w \notin B
    <3>1. B = C
      BY <2>2
    <3> QED
      BY <1>2, <2>2, <3>1 DEF One
  <2> QED
    BY <2>1, <2>2
<1> QED
  BY <1>2, <1>5, <1>6 DEF One

\* The running and the occupied slots when one worker moves.
LEMMA SlotMoves ==
  ASSUME NEW w \in Slots, \A v \in Slots \ {w} : slot'[v] = slot[v]
  PROVE  /\ Cardinality(Occupied) \in Nat /\ Cardinality(Running) \in Nat
         /\ Cardinality(Occupied) >= Cardinality(Running)
         /\ Cardinality(Occupied') = Cardinality(Occupied)
              - One(TakesSlot(slot[w])) + One(TakesSlot(slot'[w]))
         /\ Cardinality(Running') = Cardinality(Running)
              - One(Runs(slot[w])) + One(Runs(slot'[w]))
<1> USE PipelineAssumption
<1>1. Cardinality(Occupied) \in Nat
      /\ Cardinality(Occupied') = Cardinality(Occupied)
           - One(w \in Occupied) + One(w \in Occupied')
  <2>1. Occupied \in SUBSET Slots /\ Occupied' \in SUBSET Slots
        /\ Occupied \ {w} = Occupied' \ {w}
    BY DEF Occupied, Running
  <2> QED
    BY <2>1, Counting
<1>2. Cardinality(Running) \in Nat
      /\ Cardinality(Running') = Cardinality(Running)
           - One(w \in Running) + One(w \in Running')
  <2>1. Running \in SUBSET Slots /\ Running' \in SUBSET Slots
        /\ Running \ {w} = Running' \ {w}
    BY DEF Running
  <2> QED
    BY <2>1, Counting
<1>3. /\ w \in Occupied <=> TakesSlot(slot[w])
      /\ w \in Occupied' <=> TakesSlot(slot'[w])
      /\ w \in Running <=> Runs(slot[w])
      /\ w \in Running' <=> Runs(slot'[w])
  BY DEF Occupied, Running, TakesSlot, Runs
<1>4. Cardinality(Occupied) >= Cardinality(Running)
  <2>1. Running \subseteq Occupied /\ IsFiniteSet(Occupied)
    BY FS_Subset DEF Occupied, Running
  <2> QED
    BY <2>1, <1>1, <1>2, FS_Subset
<1>5. /\ One(w \in Occupied) = One(TakesSlot(slot[w]))
      /\ One(w \in Occupied') = One(TakesSlot(slot'[w]))
      /\ One(w \in Running) = One(Runs(slot[w]))
      /\ One(w \in Running') = One(Runs(slot'[w]))
  BY <1>3 DEF One
<1> QED
  BY <1>1, <1>2, <1>4, <1>5

LEMMA BooksKept ==
  ASSUME Queue, Queue', Books, [Next]_vars
  PROVE  Books'
<1> USE DEF Fault, Go
<1>t. /\ slot \in [Slots -> SlotRow]
      /\ count \in Int /\ drift \in Int /\ slips \in Nat
      /\ count' \in Int /\ drift' \in Int /\ slips' \in Nat
  BY TypesSplit, TypesSplitNext DEF Queue, RestTyped
<1>b. /\ count = Cardinality(Occupied) + drift
      /\ Cardinality(Running) <= Limit + slips
      /\ drift + slips >= 0 /\ Limit \in Nat
  BY PipelineAssumption DEF Books, SlotConservation, ConcurrencyBounded
\* No slot's taking changes.
<1>s. ASSUME UNCHANGED <<count, drift, slips>>,
             \/ UNCHANGED slot
             \/ \E w \in Slots :
                  /\ \A v \in Slots \ {w} : slot'[v] = slot[v]
                  /\ ~TakesSlot(slot[w]) /\ ~TakesSlot(slot'[w])
                  /\ ~Runs(slot[w]) /\ ~Runs(slot'[w])
      PROVE  Books'
  <2>1. CASE UNCHANGED slot
    BY <1>s, <2>1, <1>b DEF Books, SlotConservation, ConcurrencyBounded, Occupied, Running
  <2>2. ASSUME NEW w \in Slots, \A v \in Slots \ {w} : slot'[v] = slot[v],
               ~TakesSlot(slot[w]), ~TakesSlot(slot'[w]),
               ~Runs(slot[w]), ~Runs(slot'[w])
        PROVE  Books'
    <3>1. Cardinality(Occupied') = Cardinality(Occupied)
          /\ Cardinality(Running') = Cardinality(Running)
      BY <2>2, SlotMoves DEF One
    <3> QED
      BY <1>s, <3>1, <1>b DEF Books, SlotConservation, ConcurrencyBounded
  <2> QED
    BY <1>s, <2>1, <2>2
\* A worker moves and the books follow.
<1>m. ASSUME NEW w \in Slots, NEW place, NEW after,
             slot[w].at = place, slot'[w].at = after,
             \A v \in Slots \ {w} : slot'[v] = slot[v],
             count' - drift' = count - drift - One(place \in {"run", "release", "over"})
                               + One(after \in {"run", "release", "over"}),
             drift' + slips' >= 0,
             \/ /\ place \notin {"run", "release"} /\ after \in {"run", "release"}
                /\ \/ slips' = slips + 1
                   \/ /\ place = "acquire" /\ count' <= Limit
                      /\ drift' = drift /\ slips' = slips
             \/ /\ after \notin {"run", "release"} \/ place \in {"run", "release"}
                /\ slips' >= slips
      PROVE  Books'
  <2>1. /\ Cardinality(Occupied) \in Nat /\ Cardinality(Running) \in Nat
        /\ Cardinality(Occupied') = Cardinality(Occupied)
              - One(place \in {"run", "release", "over"})
              + One(after \in {"run", "release", "over"})
        /\ Cardinality(Running') = Cardinality(Running)
              - One(place \in {"run", "release"}) + One(after \in {"run", "release"})
    BY <1>m, SlotMoves DEF TakesSlot, Runs
  <2>2. Cardinality(Occupied) >= Cardinality(Running)
    BY <1>m, SlotMoves
  <2>3. count' = Cardinality(Occupied') + drift'
    BY <1>m, <1>b, <1>t, <2>1 DEF One
  <2>4. Cardinality(Running') <= Limit + slips'
    <3>1. CASE place \notin {"run", "release"} /\ after \in {"run", "release"}
               /\ slips' = slips + 1
      BY <3>1, <1>b, <1>t, <2>1 DEF One
    <3>2. CASE place = "acquire" /\ after \in {"run", "release"}
               /\ count' <= Limit /\ drift' = drift /\ slips' = slips
      <4>1. Cardinality(Running') = Cardinality(Running) + 1
            /\ Cardinality(Occupied') = Cardinality(Occupied) + 1
        BY <3>2, <2>1 DEF One
      <4> QED
        BY <3>2, <4>1, <1>b, <1>t, <2>1, <2>2, <2>3
    <3>3. CASE (after \notin {"run", "release"} \/ place \in {"run", "release"})
               /\ slips' >= slips
      BY <3>3, <1>b, <1>t, <2>1 DEF One
    <3> QED
      BY <1>m, <3>1, <3>2, <3>3
  <2> QED
    BY <1>m, <2>3, <2>4 DEF Books, SlotConservation, ConcurrencyBounded
<1>1. CASE UNCHANGED vars
  BY <1>1, <1>s DEF vars, semVars
<1>2. CASE \/ BeatDrain \/ \E e \in Events : ReclaimStale(e)
           \/ \E p \in Producers : \/ AddToStream(p) \/ ProducerDies(p)
                                   \/ \E e \in Events : TakeKey(p, e)
  <2>1. UNCHANGED <<slot, semVars>>
    BY <1>2 DEF BeatDrain, ReclaimStale, AddToStream, ProducerDies, TakeKey
  <2> QED
    BY <2>1, <1>s DEF semVars
<1>3. CASE KeyExpires
  <2>1. /\ slot' = slot /\ count' = 0 /\ drift' = drift - count
        /\ slips' = slips + Positive(count)
    BY <1>3 DEF KeyExpires
  <2>2. Positive(count) >= count /\ Positive(count) \in Nat
    BY <1>t DEF Positive
  <2>3. Cardinality(Running) \in Nat
    <3>1. IsFiniteSet(Running)
      BY FS_Subset, PipelineAssumption DEF Running
    <3> QED
      BY <3>1, FS_CardinalityType
  <2>4. Occupied' = Occupied /\ Running' = Running
    BY <2>1 DEF Occupied, Running
  <2>5. Cardinality(Occupied) = count - drift
    <3>1. Cardinality(Occupied) \in Nat
      <4>1. IsFiniteSet(Occupied)
        BY FS_Subset, PipelineAssumption DEF Occupied, Running
      <4> QED
        BY <4>1, FS_CardinalityType
    <3> QED
      BY <3>1, <1>b, <1>t
  <2>6. /\ count' = Cardinality(Occupied') + drift'
        /\ Cardinality(Running') <= Limit + slips'
        /\ drift' + slips' >= 0
    BY <2>1, <2>2, <2>3, <2>4, <2>5, <1>b, <1>t
  <2> QED
    BY <2>6 DEF Books, SlotConservation, ConcurrencyBounded
<1>r. ASSUME NEW w \in Slots, NEW r, slot' = [slot EXCEPT ![w] = r]
      PROVE  slot'[w] = r /\ \A v \in Slots \ {w} : slot'[v] = slot[v]
  BY <1>r, <1>t
<1>g. ASSUME NEW w \in Slots, NEW place, slot' = [slot EXCEPT ![w].at = place]
      PROVE  slot'[w].at = place /\ \A v \in Slots \ {w} : slot'[v] = slot[v]
  BY <1>g, <1>t DEF SlotRow
<1>i. Idle.at = "idle"
  BY DEF Idle
<1>4. ASSUME NEW w \in Slots,
             TakeTask(w) \/ DrainStep(w) \/ ReadFails(w) \/ DrainDies(w)
      PROVE  Books'
  <2>1. UNCHANGED <<count, drift, slips>>
    BY <1>4 DEF TakeTask, DrainStep, ReadHigh, ReadStandard, DispatchClaimed,
       AckClaimed, ReadFails, DrainDies, semVars
  <2>2. slot[w].at \in {"idle"} \cup DrainPlaces
    <3>1. CASE TakeTask(w)
      BY <3>1, <1>i DEF TakeTask
    <3>2. CASE DrainStep(w)
      BY <3>2 DEF DrainStep, ReadHigh, ReadStandard, DispatchClaimed, AckClaimed, DrainPlaces
    <3>3. CASE ReadFails(w) \/ DrainDies(w)
      BY <3>3 DEF ReadFails, DrainDies, DrainPlaces
    <3> QED
      BY <1>4, <3>1, <3>2, <3>3
  <2>3. /\ \A v \in Slots \ {w} : slot'[v] = slot[v]
        /\ slot'[w].at \in {"idle", "acquire"} \cup DrainPlaces
    <3>1. CASE TakeTask(w)
      BY <3>1, <1>t DEF TakeTask, DrainPlaces
    <3>2. CASE ReadHigh(w)
      BY <3>2, <1>t DEF ReadHigh, Claim, SlotRow, DrainPlaces
    <3>3. CASE ReadStandard(w)
      BY <3>3, <1>t, <1>i DEF ReadStandard, Claim, SlotRow, DrainPlaces
    <3>4. CASE DispatchClaimed(w)
      BY <3>4, <1>g DEF DispatchClaimed, DrainPlaces
    <3>5. CASE AckClaimed(w)
      BY <3>5, <1>t, <1>i DEF AckClaimed, DrainPlaces
    <3>6. CASE ReadFails(w)
      BY <3>6, <1>t, <1>i DEF ReadFails, SlotRow, DrainPlaces
    <3>7. CASE DrainDies(w)
      BY <3>7, <1>t, <1>i DEF DrainDies
    <3> QED
      BY <1>4, <3>1, <3>2, <3>3, <3>4, <3>5, <3>6, <3>7 DEF DrainStep
  <2> QED
    BY <2>1, <2>2, <2>3, <1>s DEF DrainPlaces, TakesSlot, Runs
<1>5. ASSUME NEW w \in Slots, Acquire(w) PROVE Books'
  <2>1. CASE OverLimit(count')
    <3>1. slot[w].at = "acquire" /\ slot' = [slot EXCEPT ![w].at = "over"]
          /\ count' = count + 1 /\ UNCHANGED <<drift, slips>>
      BY <1>5, <2>1 DEF Acquire
    <3> QED
      BY <3>1, <1>g, <1>b, <1>t, <1>m DEF One
  <2>2. CASE ~OverLimit(count')
    <3>1. slot[w].at = "acquire" /\ slot' = [slot EXCEPT ![w].at = "run"]
          /\ count' = count + 1 /\ UNCHANGED <<drift, slips>>
      BY <1>5, <2>2 DEF Acquire
    <3>2. count' <= Limit
      BY <2>2, <1>b, <1>t DEF OverLimit
    <3> QED
      BY <3>1, <3>2, <1>g, <1>b, <1>t, <1>m DEF One
  <2> QED
    BY <2>1, <2>2
<1>6. ASSUME NEW w \in Slots, GiveBack(w) PROVE Books'
  <2>1. slot[w].at = "over" /\ slot' = [slot EXCEPT ![w] = Idle]
        /\ count' = count - 1 /\ UNCHANGED <<drift, slips>>
    BY <1>6 DEF GiveBack, Refused
  <2> QED
    BY <2>1, <1>r, <1>i, <1>b, <1>t, <1>m DEF One
<1>7. ASSUME NEW w \in Slots, Run(w) PROVE Books'
  <2>1. slot[w].at = "run" /\ slot' = [slot EXCEPT ![w].at = "release"]
        /\ UNCHANGED <<count, drift, slips>>
    BY <1>7 DEF Run, semVars
  <2> QED
    BY <2>1, <1>g, <1>b, <1>t, <1>m DEF One
<1>8. ASSUME NEW w \in Slots, Release(w) PROVE Books'
  <2>1. slot[w].at = "release" /\ count' = count - 1 /\ UNCHANGED <<drift, slips>>
    BY <1>8 DEF Release
  <2>2. PICK place \in {"reset", "idle"} :
          slot'[w].at = place /\ \A v \in Slots \ {w} : slot'[v] = slot[v]
    BY <1>8, <1>t, <1>i DEF Release, SlotRow
  <2> QED
    BY <2>1, <2>2, <1>b, <1>t, <1>m DEF One
<1>9. ASSUME NEW w \in Slots, ResetCounter(w) PROVE Books'
  <2>1. slot[w].at = "reset" /\ slot' = [slot EXCEPT ![w] = Idle]
        /\ count' = 0 /\ drift' = drift - count /\ slips' = slips + Positive(count)
    BY <1>9 DEF ResetCounter
  <2>2. Positive(count) >= count /\ Positive(count) \in Nat
    BY <1>t DEF Positive
  <2>3. count' - drift' = count - drift /\ drift' + slips' >= 0 /\ slips' >= slips
    BY <2>1, <2>2, <1>b, <1>t
  <2> QED
    BY <2>1, <2>3, <1>r, <1>i, <1>t, <1>m DEF One
<1>10. ASSUME NEW w \in Slots, AcquireFailsOpen(w) PROVE Books'
  <2>1. slot[w].at \in {"acquire", "over"} /\ slot' = [slot EXCEPT ![w].at = "run"]
        /\ count' = count /\ slips' = slips + 1
        /\ drift' = IF slot[w].at = "acquire" THEN drift - 1 ELSE drift
    BY <1>10 DEF AcquireFailsOpen
  <2>2. CASE slot[w].at = "acquire"
    BY <2>1, <2>2, <1>g, <1>b, <1>t, <1>m DEF One
  <2>3. CASE slot[w].at = "over"
    BY <2>1, <2>3, <1>g, <1>b, <1>t, <1>m DEF One
  <2> QED
    BY <2>1, <2>2, <2>3
<1>11. ASSUME NEW w \in Slots, ReleaseFails(w) PROVE Books'
  <2>1. slot[w].at = "release" /\ slot' = [slot EXCEPT ![w] = Idle]
        /\ drift' = drift + 1 /\ UNCHANGED <<count, slips>>
    BY <1>11 DEF ReleaseFails
  <2> QED
    BY <2>1, <1>r, <1>i, <1>b, <1>t, <1>m DEF One
<1>12. ASSUME NEW w \in Slots, WorkerDies(w) PROVE Books'
  <2>1. slot[w].at \in EventPlaces /\ slot' = [slot EXCEPT ![w] = Idle]
        /\ drift' = (IF w \in Occupied THEN drift + 1 ELSE drift)
        /\ UNCHANGED <<count, slips>>
    BY <1>12 DEF WorkerDies
  <2>2. w \in Occupied <=> slot[w].at \in {"run", "release", "over"}
    BY DEF Occupied, Running
  <2>3. slot'[w].at = "idle" /\ \A v \in Slots \ {w} : slot'[v] = slot[v]
    BY <2>1, <1>r, <1>i
  <2>4. CASE slot[w].at \in {"run", "release", "over"}
    <3>1. drift' = drift + 1
      BY <2>1, <2>2, <2>4
    <3> QED
      BY <2>1, <3>1, <2>3, <2>4, <1>b, <1>t, <1>m DEF One
  <2>5. CASE slot[w].at \notin {"run", "release", "over"}
    <3>1. drift' = drift
      BY <2>1, <2>2, <2>5
    <3> QED
      BY <2>1, <3>1, <2>3, <2>5, <1>s DEF TakesSlot, Runs
  <2> QED
    BY <2>4, <2>5
<1> QED
  BY <1>1, <1>2, <1>3, <1>4, <1>5, <1>6, <1>7, <1>8, <1>9, <1>10, <1>11, <1>12
     DEF Next, TaskStep, SlotFault

-----------------------------------------------------------------------------
(* The streams and the drains.                                             *)

LEMMA QueuedSteps ==
  ASSUME TypeOK
  PROVE  /\ \A t \in Message : broker' = Append(broker, t) =>
              \A e : Queued(e)' <=> Queued(e) \/ t.ev = e
         /\ broker # <<>> /\ broker' = Tail(broker) =>
              \A e : Queued(e) <=> Queued(e)' \/ Head(broker).ev = e
<1>1. broker \in Seq(Message)
  BY TypesSplit DEF RestTyped
<1>2. ASSUME NEW t \in Message, broker' = Append(broker, t)
      PROVE  \A e : Queued(e)' <=> Queued(e) \/ t.ev = e
  <2>1. Elems(broker') = Elems(broker) \cup {t}
    BY <1>1, <1>2, AppendElems
  <2> QED
    BY <2>1 DEF Queued
<1>3. ASSUME broker # <<>>, broker' = Tail(broker)
      PROVE  \A e : Queued(e) <=> Queued(e)' \/ Head(broker).ev = e
  <2>1. Elems(broker) = {Head(broker)} \cup Elems(broker')
    BY <1>1, <1>3, TailElems
  <2> QED
    BY <2>1 DEF Queued
<1> QED
  BY <1>2, <1>3

\* What one step of a worker, or a tick, does to the tasks.
SlotStep(w) == TakeTask(w) \/ DrainStep(w) \/ TaskStep(w) \/ SlotFault(w)

\* The steps of the streams' side.
ProducerStep ==
  \E p \in Producers : \/ AddToStream(p) \/ ProducerDies(p)
                       \/ \E e \in Events : TakeKey(p, e)

\* How a worker's step changes its row, its task and what is pending: w goes
\* from one place to another, with an event or without.
Shape(w) ==
  \* a message is taken
  \/ /\ slot[w].ev = NoEvent /\ broker # <<>> /\ broker' = Tail(broker)
     /\ slot'[w].ev = Head(broker).ev
     /\ slot'[w].at = IF Head(broker).job = "drain" THEN "high" ELSE "acquire"
     /\ UNCHANGED <<high, standard, pel, dispatched, Ended>>
  \* an entry is read
  \/ /\ \/ high # <<>> /\ high' = Tail(high) /\ standard' = standard
           /\ pel' = pel \cup {Head(high)} /\ slot'[w].ev \in {NoEvent, Head(high)}
        \/ standard # <<>> /\ standard' = Tail(standard) /\ high' = high
           /\ pel' = pel \cup {Head(standard)} /\ slot'[w].ev \in {NoEvent, Head(standard)}
     /\ slot[w].ev = NoEvent
     /\ slot'[w].at = "delay" \/ slot'[w].ev = NoEvent
     /\ slot'[w].at \in {"delay", "standard", "idle"}
     /\ UNCHANGED <<broker, dispatched, Ended>>
  \* a read entry is dispatched
  \/ /\ slot[w].at = "delay" /\ slot'[w].at = "ack" /\ slot'[w].ev = slot[w].ev
     /\ Delay(slot[w].ev)
     /\ UNCHANGED <<high, standard, pel, Ended>>
  \* and acknowledged
  \/ /\ slot[w].at = "ack" /\ slot'[w].ev = NoEvent /\ slot'[w].at \in {"high", "idle"}
     /\ pel' = pel \ {slot[w].ev}
     /\ UNCHANGED <<high, standard, broker, dispatched, Ended>>
  \* an event goes on to its next place before its end
  \/ /\ slot[w].at \in EventPlaces /\ slot'[w].ev = slot[w].ev
     /\ slot'[w].at \in {"over", "run"}
     /\ UNCHANGED <<high, standard, pel, broker, dispatched, Ended>>
  \* it ends in the worker
  \/ /\ slot[w].at \in EventPlaces /\ slot'[w].ev = slot[w].ev
     /\ slot'[w].at = "release" /\ Ended' = Ended \cup {slot[w].ev}
     /\ UNCHANGED <<high, standard, pel, broker, dispatched>>
  \* it goes back to the broker, or ends with the worker
  \/ /\ slot[w].at \in EventPlaces /\ slot'[w].ev = NoEvent /\ slot'[w].at = "idle"
     /\ \/ \E n \in 0..MaxRetries : broker' = Append(broker, EventTask(slot[w].ev, n))
           /\ UNCHANGED Ended
        \/ Ended' = Ended \cup {slot[w].ev} /\ UNCHANGED broker
     /\ UNCHANGED <<high, standard, pel, dispatched>>
  \* the slot of an ended event is returned
  \/ /\ slot[w].at \in {"release", "reset"}
     /\ \/ slot'[w].ev = NoEvent /\ slot'[w].at = "idle"
        \/ slot'[w].ev = slot[w].ev /\ slot'[w].at = "reset"
     /\ UNCHANGED <<high, standard, pel, broker, dispatched, Ended>>
  \* a drain that reads goes on to the standard stream, or a drain ends
  \/ /\ slot[w].at \in DrainPlaces /\ slot'[w].ev = NoEvent
     /\ slot'[w].at \in {"standard", "idle"}
     /\ UNCHANGED <<high, standard, pel, broker, dispatched, Ended>>

LEMMA Shapes ==
  ASSUME Queue, NEW w \in Slots, SlotStep(w)
  PROVE  /\ Shape(w) /\ UNCHANGED <<keys, adding, adds>>
         /\ \A v \in Slots \ {w} : slot'[v] = slot[v]
<1> USE DEF Go, Ended
<1>t. /\ slot \in [Slots -> SlotRow] /\ TypeOK /\ Placed
      /\ broker \in Seq(Message)
  BY TypesSplit DEF Queue, RestTyped
<1>i. Idle.at = "idle" /\ Idle.ev = NoEvent
  BY DEF Idle
<1>r. /\ slot[w].at \in {"idle", "high", "standard"} <=> slot[w].ev = NoEvent
      /\ slot[w].at \in EventPlaces => slot[w].n \in 0..MaxRetries
      /\ slot[w].ev \in Events \cup {NoEvent}
  BY <1>t, PipelineAssumption DEF Placed, SlotRow
<1>g. ASSUME NEW place, slot' = [slot EXCEPT ![w].at = place]
      PROVE  /\ slot'[w].at = place /\ slot'[w].ev = slot[w].ev
             /\ \A v \in Slots \ {w} : slot'[v] = slot[v]
  BY <1>g, <1>t DEF SlotRow
<1>e. ASSUME slot' = [slot EXCEPT ![w] = Idle]
      PROVE  /\ slot'[w].at = "idle" /\ slot'[w].ev = NoEvent
             /\ \A v \in Slots \ {w} : slot'[v] = slot[v]
  BY <1>e, <1>i, <1>t
<1>1. CASE TakeTask(w)
  <2>1. /\ slot[w] = Idle /\ broker # <<>> /\ broker' = Tail(broker)
        /\ slot'[w].ev = Head(broker).ev
        /\ slot'[w].at = (IF Head(broker).job = "drain" THEN "high" ELSE "acquire")
        /\ \A v \in Slots \ {w} : slot'[v] = slot[v]
        /\ UNCHANGED <<streamVars, dispatched, Ended>>
    BY <1>1, <1>t DEF TakeTask
  <2> QED
    BY <2>1, <1>i DEF Shape, streamVars
<1>2. CASE ReadHigh(w)
  <2>1. /\ slot[w].at = "high" /\ slot[w].ev = NoEvent
        /\ high # <<>> /\ high' = Tail(high) /\ standard' = standard
        /\ pel' = pel \cup {Head(high)}
        /\ UNCHANGED <<keys, adding, adds, broker, dispatched, Ended>>
    BY <1>2, <1>r DEF ReadHigh, Claim, taskVars
  <2>2. /\ slot'[w].ev \in {NoEvent, Head(high)}
        /\ slot'[w].at = "delay" \/ slot'[w].ev = NoEvent
        /\ slot'[w].at \in {"delay", "standard", "idle"}
        /\ \A v \in Slots \ {w} : slot'[v] = slot[v]
    BY <1>2, <2>1, <1>t DEF ReadHigh, Claim, SlotRow
  <2> QED
    BY <2>1, <2>2 DEF Shape
<1>3. CASE ReadStandard(w)
  <2>1. /\ slot[w].at = "standard" /\ slot[w].ev = NoEvent
        /\ standard # <<>> /\ standard' = Tail(standard) /\ high' = high
        /\ pel' = pel \cup {Head(standard)}
        /\ UNCHANGED <<keys, adding, adds, broker, dispatched, Ended>>
    BY <1>3, <1>r DEF ReadStandard, Claim, taskVars
  <2>2. /\ slot'[w].ev \in {NoEvent, Head(standard)}
        /\ slot'[w].at = "delay" \/ slot'[w].ev = NoEvent
        /\ slot'[w].at \in {"delay", "standard", "idle"}
        /\ \A v \in Slots \ {w} : slot'[v] = slot[v]
    BY <1>3, <2>1, <1>t, <1>i DEF ReadStandard, Claim, SlotRow
  <2> QED
    BY <2>1, <2>2 DEF Shape
<1>4. CASE DispatchClaimed(w)
  <2>1. /\ slot[w].at = "delay" /\ Delay(slot[w].ev)
        /\ slot' = [slot EXCEPT ![w].at = "ack"]
        /\ UNCHANGED <<streamVars, Ended>>
    BY <1>4 DEF DispatchClaimed
  <2> QED
    BY <2>1, <1>g DEF Shape, streamVars
<1>5. CASE AckClaimed(w)
  <2>1. /\ slot[w].at = "ack" /\ pel' = pel \ {slot[w].ev}
        /\ UNCHANGED <<keys, adding, adds, high, standard, broker, dispatched, Ended>>
    BY <1>5 DEF AckClaimed, taskVars
  <2>2. /\ slot'[w].ev = NoEvent /\ slot'[w].at \in {"high", "idle"}
        /\ \A v \in Slots \ {w} : slot'[v] = slot[v]
    BY <1>5, <1>t, <1>i DEF AckClaimed
  <2> QED
    BY <2>1, <2>2 DEF Shape
<1>6. CASE Acquire(w) \/ AcquireFailsOpen(w)
  <2>1. /\ slot[w].at \in EventPlaces /\ UNCHANGED <<streamVars, taskVars>>
        /\ \E place \in {"over", "run"} : slot' = [slot EXCEPT ![w].at = place]
    BY <1>6 DEF Acquire, AcquireFailsOpen, EventPlaces
  <2> QED
    BY <2>1, <1>g DEF Shape, streamVars, taskVars
<1>7. CASE GiveBack(w)
  <2>1. /\ slot[w].at = "over" /\ slot' = [slot EXCEPT ![w] = Idle]
        /\ UNCHANGED <<streamVars, dispatched>>
    BY <1>7 DEF GiveBack
  <2>2. \/ \E n \in 0..MaxRetries : broker' = Append(broker, EventTask(slot[w].ev, n))
           /\ UNCHANGED Ended
        \/ Ended' = Ended \cup {slot[w].ev} /\ UNCHANGED broker
    <3>1. CASE RetryLeft(slot[w].n)
      <4>1. slot[w].n + 1 \in 0..MaxRetries
        BY <2>1, <3>1, <1>r, PipelineAssumption DEF RetryLeft, EventPlaces
      <4>2. broker' = Append(broker, EventTask(slot[w].ev, slot[w].n + 1))
            /\ UNCHANGED Ended
        BY <1>7, <3>1 DEF GiveBack
      <4> QED
        BY <4>1, <4>2
    <3>2. CASE ~RetryLeft(slot[w].n)
      BY <1>7, <3>2 DEF GiveBack
    <3> QED
      BY <3>1, <3>2
  <2> QED
    BY <2>1, <2>2, <1>e DEF Shape, streamVars, EventPlaces
<1>8. CASE Run(w)
  <2>1. /\ slot[w].at = "run" /\ Ended' = Ended \cup {slot[w].ev}
        /\ slot' = [slot EXCEPT ![w].at = "release"]
        /\ UNCHANGED <<streamVars, broker, dispatched>>
    BY <1>8 DEF Run
  <2> QED
    BY <2>1, <1>g DEF Shape, streamVars, EventPlaces
<1>9. CASE Release(w) \/ ReleaseFails(w) \/ ResetCounter(w)
  <2>1. /\ slot[w].at \in {"release", "reset"} /\ UNCHANGED <<streamVars, taskVars>>
        /\ slot' = [slot EXCEPT ![w].at = "reset"] \/ slot' = [slot EXCEPT ![w] = Idle]
    <3>1. CASE Release(w)
      BY <3>1, <1>t DEF Release
    <3>2. CASE ReleaseFails(w) \/ ResetCounter(w)
      BY <3>2 DEF ReleaseFails, ResetCounter
    <3> QED
      BY <1>9, <3>1, <3>2
  <2>2. CASE slot' = [slot EXCEPT ![w].at = "reset"]
    BY <2>1, <2>2, <1>g DEF Shape, streamVars, taskVars
  <2>3. CASE slot' = [slot EXCEPT ![w] = Idle]
    BY <2>1, <2>3, <1>e DEF Shape, streamVars, taskVars
  <2> QED
    BY <2>1, <2>2, <2>3
<1>10. CASE ReadFails(w) \/ DrainDies(w)
  <2>1. slot[w].at \in DrainPlaces /\ UNCHANGED <<streamVars, taskVars>>
    BY <1>10 DEF ReadFails, DrainDies, DrainPlaces
  <2>2. /\ slot'[w].ev = NoEvent /\ slot'[w].at \in {"standard", "idle"}
        /\ \A v \in Slots \ {w} : slot'[v] = slot[v]
    <3>1. CASE ReadFails(w)
      BY <3>1, <1>t, <1>i, <1>r DEF ReadFails, SlotRow
    <3>2. CASE DrainDies(w)
      BY <3>2, <1>e DEF DrainDies
    <3> QED
      BY <1>10, <3>1, <3>2
  <2> QED
    BY <2>1, <2>2 DEF Shape, streamVars, taskVars
<1>11. CASE WorkerDies(w)
  <2>1. /\ slot[w].at \in EventPlaces /\ slot' = [slot EXCEPT ![w] = Idle]
        /\ UNCHANGED <<streamVars, dispatched>>
    BY <1>11 DEF WorkerDies
  <2>2. \/ \E n \in 0..MaxRetries : broker' = Append(broker, EventTask(slot[w].ev, n))
           /\ UNCHANGED Ended
        \/ Ended' = Ended \cup {slot[w].ev} /\ UNCHANGED broker
    BY <1>11, <2>1, <1>r DEF WorkerDies
  <2> QED
    BY <2>1, <2>2, <1>e DEF Shape, streamVars
<1> QED
  BY <1>1, <1>2, <1>3, <1>4, <1>5, <1>6, <1>7, <1>8, <1>9, <1>10, <1>11
     DEF SlotStep, DrainStep, TaskStep, SlotFault

\* The head of a stream that is read.
ReadNow(e) ==
  \/ high # <<>> /\ high' = Tail(high) /\ e = Head(high)
  \/ standard # <<>> /\ standard' = Tail(standard) /\ e = Head(standard)

\* An event that nobody has read stays so until it is at the head that is read.
LEMMA FreshKept ==
  ASSUME Queue, NEW w \in Slots, Shape(w), \A v \in Slots \ {w} : slot'[v] = slot[v],
         NEW e \in Events, Fresh(e), ~ReadNow(e)
  PROVE  Fresh(e)'
<1>f. /\ e \notin pel /\ e \notin Ended /\ dispatched[e] = 0
      /\ ~Queued(e) /\ \A v \in Slots : slot[v].ev # e
  BY DEF Fresh
<1>n. e # NoEvent /\ TypeOK
  BY PipelineAssumption DEF Queue
<1>s. ASSUME e \notin pel', e \notin Ended', dispatched'[e] = 0,
             ~Queued(e)', slot'[w].ev # e
      PROVE  Fresh(e)'
  BY <1>s, <1>f DEF Fresh
<1>q. ASSUME UNCHANGED broker PROVE ~Queued(e)'
  BY <1>q, <1>f DEF Queued
<1>a. ASSUME NEW o \in Events, o # e, NEW n \in 0..MaxRetries,
             broker' = Append(broker, EventTask(o, n))
      PROVE  ~Queued(e)'
  BY <1>a, <1>f, <1>n, QueuedSteps, Messages
<1>o. /\ slot[w].ev \in Events \cup {NoEvent} /\ slot[w].ev # e
      /\ slot[w].ev = NoEvent => slot[w].at \in {"idle", "high", "standard"}
  BY <1>f, <1>n DEF TypeOK, Queue, Placed
<1>d. dispatched \in [Events -> 0..(MaxDispatch + 1)]
  BY <1>n DEF TypeOK
<1>1. CASE slot[w].ev = NoEvent /\ broker # <<>> /\ broker' = Tail(broker)
           /\ slot'[w].ev = Head(broker).ev /\ UNCHANGED <<pel, dispatched, Ended>>
  BY <1>1, <1>n, <1>f, <1>s, QueuedSteps
<1>2. CASE /\ \/ high # <<>> /\ high' = Tail(high)
                 /\ pel' = pel \cup {Head(high)} /\ slot'[w].ev \in {NoEvent, Head(high)}
              \/ standard # <<>> /\ standard' = Tail(standard)
                 /\ pel' = pel \cup {Head(standard)}
                 /\ slot'[w].ev \in {NoEvent, Head(standard)}
           /\ UNCHANGED <<broker, dispatched, Ended>>
  <2>1. e \notin pel' /\ slot'[w].ev # e
    BY <1>2, <1>f, <1>n DEF ReadNow
  <2> QED
    BY <2>1, <1>2, <1>q, <1>s, <1>f
<1>3. CASE slot[w].at = "delay" /\ Delay(slot[w].ev) /\ slot'[w].ev = slot[w].ev
           /\ UNCHANGED <<pel, Ended>>
  <2>1. slot[w].ev \in Events
    BY <1>3, <1>o
  <2>2. ~Queued(e)'
    BY <1>3, <2>1, <1>o, <1>a, PipelineAssumption DEF Delay
  <2>3. dispatched'[e] = 0
    BY <1>3, <1>o, <1>d, <1>f DEF Delay
  <2> QED
    BY <1>3, <2>2, <2>3, <1>o, <1>f, <1>s
<1>4. CASE /\ pel' \subseteq pel
           /\ slot'[w].ev \in {NoEvent, slot[w].ev}
           /\ Ended' \in {Ended, Ended \cup {slot[w].ev}}
           /\ UNCHANGED <<broker, dispatched>>
  BY <1>4, <1>q, <1>o, <1>n, <1>f, <1>s
<1>5. CASE /\ slot[w].at \in EventPlaces
           /\ slot'[w].ev = NoEvent /\ UNCHANGED <<pel, dispatched, Ended>>
           /\ \E n \in 0..MaxRetries : broker' = Append(broker, EventTask(slot[w].ev, n))
  <2>1. slot[w].ev \in Events
    BY <1>5, <1>o DEF EventPlaces
  <2>2. ~Queued(e)'
    BY <1>5, <2>1, <1>o, <1>a
  <2> QED
    BY <1>5, <2>2, <1>n, <1>f, <1>s
<1> QED
  BY <1>1, <1>2, <1>3, <1>4, <1>5 DEF Shape

\* A dispatched event stays tasked.
LEMMA TaskedKept ==
  ASSUME Queue, NEW w \in Slots, Shape(w), \A v \in Slots \ {w} : slot'[v] = slot[v],
         NEW e \in Events, Tasked(e)
  PROVE  Tasked(e)'
<1>n. e # NoEvent /\ TypeOK
  BY PipelineAssumption DEF Queue
<1>o. /\ slot[w].ev \in Events \cup {NoEvent}
      /\ slot[w].ev = NoEvent => slot[w].at \in {"idle", "high", "standard"}
  BY <1>n DEF TypeOK, Queue, Placed
<1>g. broker # <<>> => Head(broker) \in Message
  <2>1. broker \in Seq(Message)
    BY <1>n, TypesSplit DEF RestTyped
  <2> QED
    BY <2>1
<1>f. Ended \subseteq Ended'
  BY DEF Shape
<1>1. CASE e \in Ended
  BY <1>1, <1>f DEF Tasked
<1>2. CASE Queued(e)
  <2>1. CASE UNCHANGED broker
    BY <2>1, <1>2 DEF Tasked, Queued
  <2>2. CASE \E o \in Events, n \in 0..MaxRetries : broker' = Append(broker, EventTask(o, n))
    BY <2>2, <1>2, <1>n, QueuedSteps, Messages DEF Tasked
  <2>3. CASE /\ broker # <<>> /\ broker' = Tail(broker) /\ slot'[w].ev = Head(broker).ev
             /\ slot'[w].at = IF Head(broker).job = "drain" THEN "high" ELSE "acquire"
    <3>1. CASE Queued(e)'
      BY <3>1 DEF Tasked
    <3>2. CASE Head(broker).ev = e
      <4>1. slot'[w].at = "acquire" /\ slot'[w].ev = e
        BY <2>3, <3>2, <1>g, <1>n, Messages
      <4> QED
        BY <4>1 DEF Tasked, EventPlaces
    <3> QED
      BY <1>2, <2>3, <1>n, <3>1, <3>2, QueuedSteps
  <2>4. slot[w].at \in EventPlaces \cup {"delay"} => slot[w].ev \in Events
    BY <1>o DEF EventPlaces
  <2>5. ASSUME slot[w].at = "delay", Delay(slot[w].ev)
        PROVE  \E o \in Events, n \in 0..MaxRetries : broker' = Append(broker, EventTask(o, n))
    BY <2>4, <2>5, PipelineAssumption DEF Delay
  <2> QED
    BY <2>1, <2>2, <2>3, <2>4, <2>5 DEF Shape
<1>3. ASSUME NEW v \in Slots, slot[v].at \in EventPlaces, slot[v].ev = e
      PROVE  Tasked(e)'
  <2>1. CASE v # w
    <3>1. slot'[v] = slot[v]
      BY <2>1
    <3> QED
      BY <3>1, <1>3 DEF Tasked
  <2>2. CASE v = w
    <3>1. slot[w].at \in EventPlaces /\ slot[w].ev = e
      BY <1>3, <2>2
    <3>2. CASE slot'[w].ev = e /\ slot'[w].at \in EventPlaces
      BY <3>2 DEF Tasked
    <3>3. CASE e \in Ended'
      BY <3>3 DEF Tasked
    <3>4. CASE \E n \in 0..MaxRetries : broker' = Append(broker, EventTask(e, n))
      BY <3>4, <1>n, QueuedSteps, Messages DEF Tasked
    <3>5. slot[w].at \in {"release", "reset"} => e \in Ended'
      BY <3>1, <1>f DEF Queue, Drains
    <3>6. slot[w].at \notin DrainPlaces /\ slot[w].ev # NoEvent
      BY <3>1, <1>n DEF EventPlaces, DrainPlaces
    <3> QED
      BY <3>1, <3>2, <3>3, <3>4, <3>5, <3>6 DEF Shape, EventPlaces, DrainPlaces
  <2> QED
    BY <2>1, <2>2
<1> QED
  BY <1>1, <1>2, <1>3 DEF Tasked
\* A step that reads no entry, adds none and keeps unread events fresh.
LEMMA StreamsSame ==
  ASSUME Queue, UNCHANGED <<keys, adding, adds, high, standard>>,
         \A e \in Events : Fresh(e) => Fresh(e)'
  PROVE  Streams'
BY DEF Queue, Streams, Unread, Once, Elems

LEMMA StreamsOfSlot ==
  ASSUME Queue, NEW w \in Slots, SlotStep(w)
  PROVE  Streams'
<1>1. /\ Shape(w) /\ UNCHANGED <<keys, adding, adds>>
      /\ \A v \in Slots \ {w} : slot'[v] = slot[v]
  BY Shapes
<1>2. \A e \in Events : Fresh(e) /\ ~ReadNow(e) => Fresh(e)'
  BY <1>1, FreshKept
<1>t. /\ high \in Seq(HighEvents) /\ standard \in Seq(Events \ HighEvents)
      /\ Once(high) /\ Once(standard)
  BY TypesSplit DEF Queue, RestTyped, Streams
<1>s. ASSUME NEW h \in Unread \cap Events, Once(high'), Once(standard'),
             Unread' = Unread \ {h}, \A e : ReadNow(e) => e = h
      PROVE  Streams'
  <2>1. \A e \in Events : Fresh(e) /\ e # h => Fresh(e)'
    BY <1>2, <1>s
  <2>2. \A e \in Events :
          /\ adds[e] <= 1
          /\ e \notin keys => Fresh(e) /\ e \notin Unread /\ adds[e] = 0
                              /\ \A p \in Producers : adding[p] # e
          /\ e \in Unread => Fresh(e)
          /\ \A p \in Producers : adding[p] = e =>
               /\ Fresh(e) /\ e \notin Unread /\ adds[e] = 0
               /\ \A q \in Producers : adding[q] = e => q = p
    BY DEF Queue, Streams
  <2> QED
    BY <2>1, <2>2, <1>s, <1>1 DEF Streams
<1>3. CASE UNCHANGED <<high, standard>>
  <2>1. high # <<>> => Tail(high) # high
    BY <1>t, TailElems
  <2>2. standard # <<>> => Tail(standard) # standard
    BY <1>t, TailElems
  <2>3. \A e \in Events : Fresh(e) => Fresh(e)'
    BY <1>2, <1>3, <2>1, <2>2 DEF ReadNow
  <2> QED
    BY <1>1, <1>3, <2>3, StreamsSame
<1>4. CASE high # <<>> /\ high' = Tail(high) /\ standard' = standard
  <2>1. /\ Head(high) \in HighEvents /\ Once(high') /\ Head(high) \in Elems(high)
        /\ Elems(high') = Elems(high) \ {Head(high)}
    BY <1>4, <1>t, TailElems
  <2>2. Elems(standard) \subseteq Events \ HighEvents
    BY <1>t DEF Elems
  <2>3. standard # <<>> => standard' # Tail(standard)
    BY <1>t, <1>4, TailElems
  <2>4. Head(high) \in Unread \cap Events /\ Unread' = Unread \ {Head(high)}
    <3>1. Elems(standard') = Elems(standard)
      BY <1>4
    <3> QED
      BY <3>1, <2>1, <2>2, PipelineAssumption DEF Unread
  <2>5. \A e : ReadNow(e) => e = Head(high)
    BY <2>3 DEF ReadNow
  <2> QED
    BY <1>4, <2>1, <2>4, <2>5, <1>t, <1>s
<1>5. CASE standard # <<>> /\ standard' = Tail(standard) /\ high' = high
  <2>1. /\ Head(standard) \in Events \ HighEvents /\ Once(standard')
        /\ Head(standard) \in Elems(standard)
        /\ Elems(standard') = Elems(standard) \ {Head(standard)}
    BY <1>5, <1>t, TailElems
  <2>2. Elems(high) \subseteq HighEvents
    BY <1>t DEF Elems
  <2>3. high # <<>> => high' # Tail(high)
    BY <1>t, <1>5, TailElems
  <2>4. Head(standard) \in Unread \cap Events /\ Unread' = Unread \ {Head(standard)}
    <3>1. Elems(high') = Elems(high)
      BY <1>5
    <3> QED
      BY <3>1, <2>1, <2>2, PipelineAssumption DEF Unread
  <2>5. \A e : ReadNow(e) => e = Head(standard)
    BY <2>3 DEF ReadNow
  <2> QED
    BY <1>5, <2>1, <2>4, <2>5, <1>t, <1>s
<1> QED
  BY <1>1, <1>3, <1>4, <1>5 DEF Shape

LEMMA StreamsOfProducer ==
  ASSUME Queue, ProducerStep
  PROVE  Streams'
<1>1. UNCHANGED <<pel, taskVars, slot>>
  BY DEF ProducerStep, TakeKey, AddToStream, ProducerDies
<1>2. \A e \in Events : Fresh(e)' = Fresh(e)
  BY <1>1 DEF Fresh, Queued, taskVars, Ended
<1>t. /\ high \in Seq(HighEvents) /\ standard \in Seq(Events \ HighEvents)
      /\ adding \in [Producers -> Events \cup {NoEvent}] /\ adds \in [Events -> Nat]
      /\ Once(high) /\ Once(standard)
  BY TypesSplit DEF Queue, RestTyped, Streams
<1>s. \A e \in Events :
        /\ adds[e] <= 1
        /\ e \notin keys => Fresh(e) /\ e \notin Unread /\ adds[e] = 0
                            /\ \A p \in Producers : adding[p] # e
        /\ e \in Unread => Fresh(e)
        /\ \A p \in Producers : adding[p] = e =>
             /\ Fresh(e) /\ e \notin Unread /\ adds[e] = 0
             /\ \A q \in Producers : adding[q] = e => q = p
  BY DEF Queue, Streams
<1>u. ASSUME UNCHANGED <<high, standard>>
      PROVE  Unread' = Unread /\ Once(high') /\ Once(standard')
  BY <1>u, <1>t DEF Unread
<1>3. ASSUME NEW p \in Producers, NEW o \in Events, TakeKey(p, o)
      PROVE  Streams'
  <2>1. /\ o \notin keys /\ keys' = keys \cup {o} /\ adds' = adds
        /\ adding' = [adding EXCEPT ![p] = o] /\ UNCHANGED <<high, standard>>
    BY <1>3 DEF TakeKey, KeyIsFree
  <2>2. adding'[p] = o /\ \A q \in Producers \ {p} : adding'[q] = adding[q]
    BY <2>1, <1>t
  <2>3. Fresh(o) /\ o \notin Unread /\ adds[o] = 0
        /\ \A q \in Producers : adding[q] # o
    BY <2>1, <1>s
  <2>4. \A e \in Events \ {o} : \A q \in Producers : adding'[q] = e => adding[q] = e
    BY <2>2
  <2> QED
    BY <2>1, <2>2, <2>3, <2>4, <1>s, <1>u, <1>2 DEF Streams
<1>4. ASSUME NEW p \in Producers, ProducerDies(p)
      PROVE  Streams'
  <2>1. /\ keys' = keys /\ adds' = adds
        /\ adding' = [adding EXCEPT ![p] = NoEvent] /\ UNCHANGED <<high, standard>>
    BY <1>4 DEF ProducerDies
  <2>2. \A e \in Events : \A q \in Producers : adding'[q] = e => adding[q] = e
    BY <2>1, <1>t, PipelineAssumption
  <2> QED
    BY <2>1, <2>2, <1>s, <1>u, <1>2 DEF Streams
<1>5. ASSUME NEW p \in Producers, AddToStream(p)
      PROVE  Streams'
  <2> DEFINE o == adding[p]
  <2>1. /\ o # NoEvent /\ keys' = keys /\ adds' = [adds EXCEPT ![o] = adds[o] + 1]
        /\ adding' = [adding EXCEPT ![p] = NoEvent]
        /\ o \in Events
    BY <1>5, <1>t DEF AddToStream
  <2>2. /\ Fresh(o) /\ o \notin Unread /\ adds[o] = 0
        /\ \A q \in Producers : adding[q] = o => q = p
        /\ o \in keys
    BY <2>1, <1>s
  <2>3. /\ Once(high') /\ Once(standard') /\ Unread' = Unread \cup {o}
    <3>1. CASE o \in HighEvents
      <4>1. high' = Append(high, o) /\ standard' = standard
        BY <1>5, <3>1 DEF AddToStream
      <4>2. Once(high') /\ Elems(high') = Elems(high) \cup {o}
        BY <4>1, <3>1, <2>2, <1>t, AppendElems DEF Unread
      <4> QED
        BY <4>1, <4>2, <1>t DEF Unread
    <3>2. CASE o \notin HighEvents
      <4>1. standard' = Append(standard, o) /\ high' = high
        BY <1>5, <3>2 DEF AddToStream
      <4>2. Once(standard') /\ Elems(standard') = Elems(standard) \cup {o}
        BY <4>1, <3>2, <2>1, <2>2, <1>t, AppendElems DEF Unread
      <4> QED
        BY <4>1, <4>2, <1>t DEF Unread
    <3> QED
      BY <3>1, <3>2
  <2>4. \A e \in Events : \A q \in Producers : adding'[q] = e => adding[q] = e /\ e # o
    BY <2>1, <2>2, <1>t, PipelineAssumption
  <2>5. adds'[o] = 1 /\ \A e \in Events \ {o} : adds'[e] = adds[e]
    BY <2>1, <2>2, <1>t
  <2> HIDE DEF o
  <2> QED
    BY <2>1, <2>2, <2>3, <2>4, <2>5, <1>s, <1>2 DEF Streams
<1> QED
  BY <1>3, <1>4, <1>5 DEF ProducerStep

\* The steps of the clock: a tick of Beat, of the reclaimer, of Redis.
LEMMA FreshThroughTicks ==
  ASSUME Queue, BeatDrain \/ KeyExpires \/ \E o \in Events : ReclaimStale(o)
  PROVE  /\ UNCHANGED <<streamVars, slot, Ended>>
         /\ \A e \in Events : Fresh(e) => Fresh(e)'
         /\ \A e \in Events : Tasked(e) => Tasked(e)'
<1>n. NoEvent \notin Events /\ TypeOK /\ 0 \in 0..MaxRetries
      /\ dispatched \in [Events -> 0..(MaxDispatch + 1)]
  BY PipelineAssumption DEF Queue, TypeOK
<1>1. UNCHANGED <<streamVars, slot, Ended>>
  BY DEF BeatDrain, KeyExpires, ReclaimStale, taskVars, Ended
<1>2. ASSUME NEW e \in Events, \A f \in Events : Queued(f) => Queued(f)', Tasked(e)
      PROVE  Tasked(e)'
  BY <1>1, <1>2 DEF Tasked
<1>3. CASE BeatDrain
  <2>1. broker' = Append(broker, DrainTask) /\ dispatched' = dispatched
    BY <1>3 DEF BeatDrain
  <2>2. \A e \in Events : Queued(e)' <=> Queued(e)
    BY <2>1, <1>n, QueuedSteps, Messages
  <2> QED
    BY <1>1, <1>2, <2>1, <2>2 DEF Fresh, streamVars
<1>4. CASE KeyExpires
  <2>1. broker' = broker /\ dispatched' = dispatched
    BY <1>4 DEF KeyExpires, taskVars
  <2>2. \A e \in Events : Queued(e)' <=> Queued(e)
    BY <2>1 DEF Queued
  <2> QED
    BY <1>1, <1>2, <2>1, <2>2 DEF Fresh, streamVars
<1>5. ASSUME NEW o \in Events, ReclaimStale(o)
      PROVE  /\ \A e \in Events : Fresh(e) => Fresh(e)'
             /\ \A e \in Events : Tasked(e) => Tasked(e)'
  <2>1. /\ o \in pel /\ broker' = Append(broker, EventTask(o, 0))
        /\ dispatched' = [dispatched EXCEPT ![o] = dispatched[o] + 1]
    BY <1>5 DEF ReclaimStale, Delay
  <2>2. \A e \in Events : Queued(e)' <=> Queued(e) \/ e = o
    BY <2>1, <1>n, QueuedSteps, Messages
  <2>3. \A e \in Events \ {o} : dispatched'[e] = dispatched[e]
    BY <2>1, <1>n
  <2> QED
    BY <1>1, <1>2, <2>1, <2>2, <2>3 DEF Fresh, streamVars
<1> QED
  BY <1>1, <1>3, <1>4, <1>5
LEMMA DrainsOfSlot ==
  ASSUME Queue, NEW w \in Slots, SlotStep(w)
  PROVE  Drains'
<1>1. /\ Shape(w) /\ UNCHANGED <<keys, adding, adds>>
      /\ \A v \in Slots \ {w} : slot'[v] = slot[v]
  BY Shapes
<1>2. \A e \in Events : Tasked(e) => Tasked(e)'
  BY <1>1, TaskedKept
<1>t. /\ \A v \in Slots : slot[v] \in SlotRow /\ slot[v].ev \in Events \cup {NoEvent}
      /\ \A v \in Slots : slot[v].at \notin {"idle", "high", "standard"} => slot[v].ev \in Events
      /\ dispatched \in [Events -> 0..(MaxDispatch + 1)]
      /\ high \in Seq(HighEvents) /\ standard \in Seq(Events \ HighEvents)
      /\ TypeOK /\ MaxDispatch \in Nat /\ 0 \in 0..MaxRetries /\ NoEvent \notin Events
  <2>1. RestTyped /\ slot \in [Slots -> SlotRow] /\ Placed /\ TypeOK
    BY TypesSplit DEF Queue
  <2>2. \A v \in Slots : slot[v] \in SlotRow /\ slot[v].ev \in Events \cup {NoEvent}
    BY <2>1 DEF SlotRow
  <2>3. \A v \in Slots : slot[v].at \notin {"idle", "high", "standard"} => slot[v].ev \in Events
    BY <2>1, <2>2 DEF Placed
  <2> QED
    BY <2>1, <2>2, <2>3, PipelineAssumption DEF RestTyped
<1>d. \A v \in Slots :
        /\ slot[v].at = "delay" =>
             slot[v].ev \in pel /\ dispatched[slot[v].ev] <= MaxDispatch
        /\ slot[v].at = "ack" => Tasked(slot[v].ev)
        /\ slot[v].at \in {"delay", "ack"} =>
             \A u \in Slots : slot[u].at \in {"delay", "ack"} /\ slot[u].ev = slot[v].ev
                                => u = v
        /\ slot[v].at \in {"release", "reset"} => slot[v].ev \in Ended
  BY DEF Queue, Drains
<1>f. Ended \subseteq Ended'
  BY <1>1 DEF Shape
\* The other workers.
<1>3. ASSUME NEW v \in Slots \ {w}, slot[v].at = "delay"
      PROVE  slot[v].ev \in pel' /\ dispatched'[slot[v].ev] <= MaxDispatch
  <2>1. slot[v].ev \in Events /\ slot[v].ev \in pel /\ dispatched[slot[v].ev] <= MaxDispatch
    BY <1>3, <1>d, <1>t
  <2>2. slot[w].at \in {"delay", "ack"} => slot[w].ev # slot[v].ev
    BY <1>3, <1>d
  <2>3. slot[v].ev \in pel'
    BY <2>1, <2>2, <1>1 DEF Shape
  <2>4. dispatched'[slot[v].ev] = dispatched[slot[v].ev]
    BY <2>1, <2>2, <1>1, <1>t DEF Shape, Delay
  <2> QED
    BY <2>1, <2>3, <2>4
<1>4. ASSUME NEW v \in Slots \ {w}, slot[v].at = "ack"
      PROVE  Tasked(slot[v].ev)'
  <2>1. Tasked(slot[v].ev) /\ slot[v].ev \in Events
    BY <1>4, <1>d, <1>t
  <2>2. slot'[v] = slot[v]
    BY <1>1
  <2> DEFINE e == slot[v].ev
  <2>3. slot'[v].ev = e
    BY <2>2
  <2>4. Tasked(e)'
    BY <2>1, <2>3, <1>2
  <2> QED
    BY <2>4
\* The worker of the step.
<1>5. slot'[w].at = "delay" =>
        \E h \in Events : slot'[w].ev = h /\ Fresh(h) /\ h \in pel' /\ UNCHANGED dispatched
  <2> SUFFICES ASSUME slot'[w].at = "delay"
               PROVE  \E h \in Events : slot'[w].ev = h /\ Fresh(h) /\ h \in pel'
                                        /\ UNCHANGED dispatched
    OBVIOUS
  <2>1. /\ \/ high # <<>> /\ pel' = pel \cup {Head(high)} /\ slot'[w].ev \in {NoEvent, Head(high)}
           \/ standard # <<>> /\ pel' = pel \cup {Head(standard)}
              /\ slot'[w].ev \in {NoEvent, Head(standard)}
        /\ UNCHANGED dispatched
    BY <1>1 DEF Shape, EventPlaces
  <2>2. slot'[w].ev # NoEvent
    <3>1. Placed'
      BY Typed DEF SlotStep, Next
    <3> QED
      BY <3>1 DEF Placed
  <2>3. ASSUME NEW s, s # <<>>, \/ s = high /\ s \in Seq(HighEvents)
                                \/ s = standard /\ s \in Seq(Events \ HighEvents)
        PROVE  Head(s) \in Events /\ Fresh(Head(s))
    <3>1. Head(s) \in Events /\ Head(s) \in Elems(s)
      BY <2>3, TailElems, PipelineAssumption
    <3> QED
      BY <3>1, <2>3 DEF Queue, Streams, Unread
  <2> QED
    BY <2>1, <2>2, <2>3, <1>t
<1>6. slot'[w].at = "ack" =>
        slot[w].at = "delay" /\ slot'[w].ev = slot[w].ev /\ Delay(slot[w].ev)
  BY <1>1 DEF Shape, EventPlaces
<1>7. slot'[w].at \in {"release", "reset"} => slot'[w].ev \in Ended'
  <2>1. slot[w].at \in {"release", "reset"} => slot[w].ev \in Ended'
    BY <1>d, <1>f
  <2> QED
    BY <2>1, <1>1 DEF Shape, EventPlaces
<1>8. ASSUME slot'[w].at = "ack" PROVE Tasked(slot[w].ev)'
  <2>1. PICK e \in Events : e = slot[w].ev
    BY <1>6, <1>8, <1>t
  <2>2. slot'[w].ev = e /\ broker' = Append(broker, EventTask(e, 0))
    BY <1>6, <1>8, <2>1 DEF Delay
  <2>3. EventTask(e, 0) \in Message /\ EventTask(e, 0).ev = e
    BY <1>t, Messages
  <2>4. Queued(e)'
    BY <2>2, <2>3, <1>t, QueuedSteps
  <2>5. Tasked(e)'
    BY <2>4 DEF Tasked
  <2> QED
    BY <2>2, <2>5
<1>9. ASSUME NEW v \in Slots, slot'[v].at \in {"delay", "ack"},
             NEW u \in Slots, slot'[u].at \in {"delay", "ack"}, slot'[u].ev = slot'[v].ev
      PROVE  u = v
  <2>1. CASE u # w /\ v # w
    BY <2>1, <1>9, <1>1, <1>d
  <2>2. ASSUME NEW x \in Slots \ {w}, slot'[x].at \in {"delay", "ack"},
               slot'[w].at \in {"delay", "ack"}, slot'[x].ev = slot'[w].ev
        PROVE  FALSE
    <3>1. slot[x].at \in {"delay", "ack"} /\ slot[x].ev = slot'[w].ev
      BY <2>2, <1>1
    <3>2. CASE slot'[w].at = "delay"
      BY <3>1, <3>2, <1>5 DEF Fresh
    <3>3. CASE slot'[w].at = "ack"
      BY <3>1, <3>3, <1>6, <1>d
    <3> QED
      BY <2>2, <3>2, <3>3
  <2> QED
    BY <2>1, <2>2, <1>9
<1>10. ASSUME NEW v \in Slots
       PROVE  /\ slot'[v].at = "delay" =>
                   slot'[v].ev \in pel' /\ dispatched'[slot'[v].ev] <= MaxDispatch
              /\ slot'[v].at = "ack" => Tasked(slot[v].ev)'
              /\ slot'[v].at \in {"release", "reset"} => slot'[v].ev \in Ended'
  <2>1. CASE v # w
    BY <2>1, <1>1, <1>3, <1>4, <1>d, <1>f
  <2>2. CASE v = w
    <3>1. slot'[w].at = "delay" => dispatched'[slot'[w].ev] <= MaxDispatch
      BY <1>5, <1>t DEF Fresh
    <3>2. slot'[w].at = "ack" => Tasked(slot[w].ev)'
      BY <1>8
    <3> QED
      BY <2>2, <3>1, <3>2, <1>5, <1>7
  <2> QED
    BY <2>1, <2>2
<1> QED
  BY <1>9, <1>10 DEF Drains
LEMMA DrainsThroughTicks ==
  ASSUME Queue, BeatDrain \/ KeyExpires \/ \E o \in Events : ReclaimStale(o)
  PROVE  Drains'
<1>1. /\ UNCHANGED <<streamVars, slot, Ended>>
      /\ \A e \in Events : Tasked(e) => Tasked(e)'
  BY FreshThroughTicks
<1>t. /\ \A v \in Slots : slot[v].at \in {"delay", "ack"} => slot[v].ev \in Events
      /\ dispatched \in [Events -> 0..(MaxDispatch + 1)] /\ MaxDispatch \in Nat
  <2>1. RestTyped /\ slot \in [Slots -> SlotRow] /\ Placed
    BY TypesSplit DEF Queue
  <2>2. \A v \in Slots : slot[v].ev \in Events \cup {NoEvent}
    BY <2>1 DEF SlotRow
  <2> QED
    BY <2>1, <2>2, PipelineAssumption DEF Placed, RestTyped
<1>2. \A e \in Events : dispatched[e] <= MaxDispatch => dispatched'[e] <= MaxDispatch
  <2>1. CASE BeatDrain \/ KeyExpires
    BY <2>1 DEF BeatDrain, KeyExpires, taskVars
  <2>2. ASSUME NEW o \in Events, ReclaimStale(o)
        PROVE  \A e \in Events : dispatched[e] <= MaxDispatch => dispatched'[e] <= MaxDispatch
    <3>1. dispatched[o] < MaxDispatch
          /\ dispatched' = [dispatched EXCEPT ![o] = dispatched[o] + 1]
      BY <2>2 DEF ReclaimStale, Delay
    <3> QED
      BY <3>1, <1>t
  <2> QED
    BY <2>1, <2>2
<1>3. \A v \in Slots : slot[v].at = "ack" => Tasked(slot[v].ev)'
  <2> SUFFICES ASSUME NEW v \in Slots, slot[v].at = "ack" PROVE Tasked(slot[v].ev)'
    OBVIOUS
  <2>1. PICK e \in Events : e = slot[v].ev
    BY <1>t
  <2>2. Tasked(e)'
    BY <2>1, <1>1 DEF Queue, Drains
  <2>3. slot'[v].ev = e
    BY <2>1, <1>1
  <2> QED
    BY <2>2, <2>3
<1>4. slot' = slot /\ pel' = pel /\ Ended' = Ended
  BY <1>1 DEF streamVars
<1> QED
  BY <1>2, <1>3, <1>4, <1>t DEF Queue, Drains

LEMMA QueueKept == Queue /\ [Next]_vars => Queue'
<1> SUFFICES ASSUME Queue, [Next]_vars PROVE Queue'
  OBVIOUS
<1>1. TypeOK' /\ Placed'
  BY Typed
<1>2. CASE UNCHANGED vars
  <2>1. UNCHANGED <<keys, adding, adds, high, standard, pel, broker, dispatched,
                    Ended, slot>>
    BY <1>2 DEF vars, streamVars, taskVars, Ended
  <2>2. \A e : Queued(e)' <=> Queued(e)
    BY <2>1 DEF Queued
  <2>3. \A e : Fresh(e)' <=> Fresh(e)
    BY <2>1, <2>2 DEF Fresh
  <2>4. \A e : Tasked(e)' <=> Tasked(e)
    BY <2>1, <2>2 DEF Tasked
  <2>5. Streams'
    BY <2>1, <2>3, StreamsSame
  <2>6. \A v \in Slots : slot[v].at = "ack" => Tasked(slot[v].ev)'
    BY <2>1, <2>4 DEF Queue, Drains, Tasked, Queued
  <2>7. Drains'
    BY <2>1, <2>6 DEF Queue, Drains
  <2> QED
    BY <1>1, <2>5, <2>7 DEF Queue
<1>3. CASE ProducerStep
  <2>1. UNCHANGED <<pel, broker, dispatched, Ended, slot>>
    BY <1>3 DEF ProducerStep, TakeKey, AddToStream, ProducerDies, taskVars, Ended
  <2>2. \A v \in Slots : slot[v].at = "ack" => Tasked(slot[v].ev)'
    BY <2>1 DEF Queue, Drains, Tasked, Queued
  <2>3. Drains'
    BY <2>1, <2>2 DEF Queue, Drains
  <2> QED
    BY <1>1, <1>3, <2>3, StreamsOfProducer DEF Queue
<1>4. CASE BeatDrain \/ KeyExpires \/ \E o \in Events : ReclaimStale(o)
  <2>1. UNCHANGED <<keys, adding, adds, high, standard>>
        /\ \A e \in Events : Fresh(e) => Fresh(e)'
    BY <1>4, FreshThroughTicks DEF streamVars
  <2>2. Streams'
    BY <2>1, StreamsSame
  <2> QED
    BY <1>1, <1>4, <2>2, DrainsThroughTicks DEF Queue
<1>5. ASSUME NEW w \in Slots, SlotStep(w) PROVE Queue'
  BY <1>1, <1>5, StreamsOfSlot, DrainsOfSlot DEF Queue
<1> QED
  BY <1>2, <1>3, <1>4, <1>5 DEF Next, ProducerStep, SlotStep

LEMMA Initially == Init => Queue /\ Books
<1> SUFFICES ASSUME Init PROVE Queue /\ Books
  OBVIOUS
<1>1. /\ Elems(high) = {} /\ Elems(standard) = {} /\ Elems(broker) = {}
      /\ Once(high) /\ Once(standard)
  BY DEF Init, Elems, Once
<1>2. TypeOK
  <2>1. /\ high \in Seq(HighEvents) /\ standard \in Seq(Events \ HighEvents)
        /\ broker \in Seq(Message)
    BY DEF Init
  <2>2. slot \in [Slots -> SlotRow]
    BY DEF Init, Idle, SlotRow
  <2>3. RestTyped
    BY <2>1, PipelineAssumption DEF Init, RestTyped
  <2> QED
    BY <2>2, <2>3, TypesSplit
<1>3. \A w \in Slots : slot[w].at = "idle" /\ slot[w].ev = NoEvent
  BY DEF Init, Idle
<1>4. Placed /\ Drains
  BY <1>3 DEF Placed, Drains, EventPlaces
<1>5. \A e \in Events : Fresh(e) /\ e \notin Unread
  BY <1>1, <1>3, PipelineAssumption DEF Init, Fresh, Queued, Unread, Ended
<1>6. Streams
  BY <1>1, <1>5, PipelineAssumption DEF Init, Streams
<1>7. Running = {} /\ Occupied = {}
  BY <1>3 DEF Running, Occupied
<1>8. Books
  BY <1>7, FS_EmptySet, PipelineAssumption DEF Init, Books, SlotConservation, ConcurrencyBounded
<1> QED
  BY <1>2, <1>4, <1>6, <1>8 DEF Queue

LEMMA Invariance == Spec => [](Queue /\ Books)
<1>1. Queue /\ Books /\ [Next]_vars => (Queue /\ Books)'
  BY QueueKept, BooksKept
<1> QED
  BY <1>1, Initially, PTL DEF Spec

\* The queue, the task messages and the semaphore keep their types: in
\* particular an event is dispatched at most once by a drain, on top of what
\* reclaim_stale_events adds, and retried at most MaxRetries times.
THEOREM TypeCorrect == Spec => []TypeOK
<1>1. Queue => TypeOK
  BY DEF Queue
<1> QED
  BY <1>1, Invariance, PTL

\* An event gets at most one stream entry, however many producers offer it and
\* whatever dies (the deduplication key of RedisEventQueue.enqueue).
THEOREM StreamEntries == Spec => []StreamEntryOnce
<1>1. Queue => StreamEntryOnce
  BY DEF Queue, Streams, StreamEntryOnce
<1> QED
  BY <1>1, Invariance, PTL

\* The semaphore's counter is the number of slots taken but for what faults
\* leaked or lost (WorkspaceSemaphore.acquire and release in
\* process_agent_event).
THEOREM SemaphoreBooks == Spec => []SlotConservation
<1>1. Books => SlotConservation
  BY DEF Books
<1> QED
  BY <1>1, Invariance, PTL

\* No more events of a workspace run than its limit, but for those that faults
\* let through (WorkspaceSemaphore.acquire).
THEOREM Bounded == Spec => []ConcurrencyBounded
<1>1. Books => ConcurrencyBounded
  BY DEF Books
<1> QED
  BY <1>1, Invariance, PTL

\* What faults leak, and what they never did before the first of them.
Leaks ==
  /\ drift <= faults
  /\ faults = 0 => drift = 0 /\ slips = 0 /\ \A w \in Slots : slot[w].at # "reset"

LEMMA LeaksKept ==
  ASSUME Queue, Queue', Books, Books', Leaks, [Next]_vars
  PROVE  Leaks'
<1>t. /\ slot \in [Slots -> SlotRow] /\ faults \in Nat /\ faults' \in Nat
      /\ count \in Int /\ drift \in Int /\ slips \in Nat
      /\ count' \in Int /\ drift' \in Int /\ slips' \in Nat
  BY TypesSplit, TypesSplitNext DEF Queue, RestTyped
<1>b. /\ count = Cardinality(Occupied) + drift /\ Cardinality(Occupied) \in Nat
  <2>1. Occupied \subseteq Slots
    BY DEF Occupied, Running
  <2>2. IsFiniteSet(Occupied)
    BY <2>1, FS_Subset, PipelineAssumption
  <2> QED
    BY <2>2, FS_CardinalityType DEF Books, SlotConservation
\* A step that is no fault and leaves the books alone.
<1>q. ASSUME UNCHANGED <<drift, slips, faults>>,
             \A w \in Slots : slot'[w].at = "reset" => slot[w].at = "reset"
      PROVE  Leaks'
  BY <1>q DEF Leaks
\* A fault.
<1>f. ASSUME Fault, drift' <= drift + 1 PROVE Leaks'
  BY <1>f, <1>t DEF Leaks, Fault
<1>1. CASE UNCHANGED vars
  BY <1>1, <1>q DEF vars, semVars
<1>2. ASSUME NEW p \in Producers, (\E e \in Events : TakeKey(p, e)) \/ AddToStream(p)
      PROVE  Leaks'
  BY <1>2, <1>q DEF TakeKey, AddToStream, semVars
<1>3. ASSUME NEW p \in Producers, ProducerDies(p) PROVE Leaks'
  BY <1>3, <1>f, <1>t DEF ProducerDies, semVars
<1>4. CASE BeatDrain \/ \E e \in Events : ReclaimStale(e)
  BY <1>4, <1>q DEF BeatDrain, ReclaimStale, semVars
<1>5. CASE KeyExpires
  <2>1. drift' <= 0 /\ 0 <= faults'
    BY <1>5, <1>b, <1>t DEF KeyExpires
  <2>2. faults' # 0
    BY <1>5, <1>t DEF KeyExpires, Fault
  <2> QED
    BY <1>t, <2>1, <2>2 DEF Leaks
<1>6. ASSUME NEW w \in Slots, TakeTask(w) \/ DrainStep(w) PROVE Leaks'
  <2>1. UNCHANGED <<drift, slips, faults>>
    BY <1>6 DEF TakeTask, DrainStep, ReadHigh, ReadStandard, DispatchClaimed,
       AckClaimed, semVars
  <2>2. \A v \in Slots \ {w} : slot'[v] = slot[v]
    BY <1>6, <1>t DEF TakeTask, DrainStep, ReadHigh, ReadStandard, DispatchClaimed,
       AckClaimed, Claim, Go
  <2>3. slot'[w].at # "reset"
    <3>1. CASE TakeTask(w)
      BY <3>1, <1>t DEF TakeTask
    <3>2. CASE ReadHigh(w)
      BY <3>2, <1>t DEF ReadHigh, Claim, SlotRow
    <3>3. CASE ReadStandard(w)
      BY <3>3, <1>t DEF ReadStandard, Claim, SlotRow, Idle
    <3>4. CASE DispatchClaimed(w)
      BY <3>4, <1>t DEF DispatchClaimed, Go, SlotRow
    <3>5. CASE AckClaimed(w)
      BY <3>5, <1>t DEF AckClaimed, SlotRow, Idle
    <3> QED
      BY <1>6, <3>1, <3>2, <3>3, <3>4, <3>5 DEF DrainStep
  <2> QED
    BY <1>q, <2>1, <2>2, <2>3
<1>7. ASSUME NEW w \in Slots, Acquire(w) \/ GiveBack(w) \/ Run(w) PROVE Leaks'
  <2>1. UNCHANGED <<drift, slips, faults>>
    BY <1>7 DEF Acquire, GiveBack, Run, semVars
  <2>2. \A v \in Slots \ {w} : slot'[v] = slot[v]
    BY <1>7, <1>t DEF Acquire, GiveBack, Run, Go
  <2>3. slot'[w].at # "reset"
    BY <1>7, <1>t DEF Acquire, GiveBack, Run, Go, SlotRow, Idle
  <2> QED
    BY <1>q, <2>1, <2>2, <2>3
\* Without a fault a release finds its own slot in the counter.
<1>8. ASSUME NEW w \in Slots, Release(w) PROVE Leaks'
  <2>1. /\ UNCHANGED <<drift, slips, faults>> /\ count' = count - 1
        /\ \A v \in Slots \ {w} : slot'[v] = slot[v]
        /\ slot'[w].at = "reset" => count' < 0
    BY <1>8, <1>t DEF Release, Idle
  <2>2. Cardinality(Occupied) > 0
    <3>1. w \in Occupied /\ IsFiniteSet(Occupied)
      <4>1. Occupied \subseteq Slots
        BY DEF Occupied, Running
      <4> QED
        BY <1>8, <4>1, FS_Subset, PipelineAssumption DEF Occupied, Running, Release
    <3>2. Cardinality(Occupied) # 0
      BY <3>1, FS_EmptySet
    <3> QED
      BY <1>b, <3>2
  <2>3. faults = 0 => count' >= 0
    BY <1>b, <1>t, <2>1, <2>2 DEF Leaks
  <2>4. ASSUME faults = 0, NEW v \in Slots PROVE slot'[v].at # "reset"
    <3>1. CASE v = w
      BY <1>t, <2>1, <2>3, <2>4, <3>1
    <3>2. CASE v # w
      BY <2>1, <2>4, <3>2 DEF Leaks
    <3> QED
      BY <3>1, <3>2
  <2>5. drift' = drift /\ slips' = slips /\ faults' = faults
    BY <2>1
  <2> QED
    BY <2>4, <2>5 DEF Leaks
<1>9. ASSUME NEW w \in Slots, ResetCounter(w) PROVE Leaks'
  <2>1. drift' <= 0 /\ faults' = faults /\ faults # 0
    BY <1>9, <1>b, <1>t DEF ResetCounter, Leaks
  <2> QED
    BY <1>t, <2>1 DEF Leaks
<1>10. ASSUME NEW w \in Slots, SlotFault(w) PROVE Leaks'
  <2>1. Fault
    BY <1>10 DEF SlotFault, ReadFails, DrainDies, AcquireFailsOpen, ReleaseFails, WorkerDies
  <2>2. drift' <= drift + 1
    BY <1>10, <1>t DEF SlotFault, ReadFails, DrainDies, AcquireFailsOpen, ReleaseFails,
       WorkerDies, semVars
  <2> QED
    BY <1>f, <2>1, <2>2
<1> QED
  BY <1>1, <1>2, <1>3, <1>4, <1>5, <1>6, <1>7, <1>8, <1>9, <1>10 DEF Next, TaskStep

\* A fault costs the workspace one slot at most, and until the first the counter
\* is exact and the limit kept, whatever refusals, retries, failed events and
\* drains interleave (WorkspaceSemaphore.acquire and release).
THEOREM LeaksArePaidFor == Spec => []FaultsPayForLeaks
<1>1. Init => Leaks
  BY DEF Init, Leaks, Idle
<1>2. Queue /\ Queue' /\ Books /\ Books' /\ Leaks /\ [Next]_vars => Leaks'
  BY LeaksKept
<1>3. Queue /\ Books /\ Leaks => FaultsPayForLeaks
  <2> SUFFICES ASSUME Queue, Books, Leaks PROVE FaultsPayForLeaks
    OBVIOUS
  <2>1. Occupied \subseteq Slots /\ Running \subseteq Slots
    BY DEF Occupied, Running
  <2>2. Cardinality(Occupied) \in Nat /\ Cardinality(Running) \in Nat
    BY <2>1, FS_Subset, FS_CardinalityType, PipelineAssumption
  <2>3. drift \in Int /\ faults \in Nat /\ slips \in Nat
    BY TypesSplit DEF Queue, RestTyped
  <2> QED
    BY <2>2, <2>3, PipelineAssumption
       DEF Books, SlotConservation, ConcurrencyBounded, Leaks, FaultsPayForLeaks
<1> QED
  BY <1>1, <1>2, <1>3, Invariance, PTL DEF Spec

-----------------------------------------------------------------------------
(* The refinement.                                                         *)

\* Every event keeps its status, or one event changes it as HandOver allows.
StatusStep ==
  \/ UNCHANGED abandoned /\ \A e \in Events : Status(e)' = Status(e)
  \/ \E m \in Events :
       /\ \A e \in Events \ {m} : Status(e)' = Status(e)
       /\ \/ /\ UNCHANGED abandoned
             /\ \/ Status(m) = "new"  /\ Status(m)' = "held"
                \/ Status(m) = "new"  /\ Status(m)' = "torn"
                \/ Status(m) = "held" /\ Status(m)' = "finished"
                \/ m \in abandoned /\ Status(m) = "held" /\ Status(m)' = "lost"
          \/ /\ abandoned' = abandoned \cup {m}
             /\ \/ Status(m) \in {"held", "finished"} /\ Status(m)' = Status(m)
                \/ Status(m) = "held" /\ Status(m)' = "lost"

LEMMA StatusSteps ==
  ASSUME StatusStep
  PROVE  [Promise!Next]_(<<[e \in Events |-> Status(e)], abandoned>>)
<1> DEFINE st == [e \in Events |-> Status(e)]
<1>1. CASE UNCHANGED abandoned /\ \A e \in Events : Status(e)' = Status(e)
  BY <1>1
<1>2. ASSUME NEW m \in Events, \A e \in Events \ {m} : Status(e)' = Status(e)
      PROVE  /\ st' = [st EXCEPT ![m] = Status(m)'] /\ st[m] = Status(m)
             /\ Status(m)' = Status(m) => st' = st
  BY <1>2
<1>3. ASSUME NEW m \in Events, \A e \in Events \ {m} : Status(e)' = Status(e),
             UNCHANGED abandoned,
             \/ Status(m) = "new"  /\ Status(m)' = "held"
             \/ Status(m) = "new"  /\ Status(m)' = "torn"
             \/ Status(m) = "held" /\ Status(m)' = "finished"
             \/ m \in abandoned /\ Status(m) = "held" /\ Status(m)' = "lost"
      PROVE  Promise!Next
  <2>1. st' = [st EXCEPT ![m] = Status(m)'] /\ st[m] = Status(m)
    BY <1>2, <1>3
  <2>2. \/ Promise!Accept(m) \/ Promise!Tear(m) \/ Promise!Finish(m) \/ Promise!Lose(m)
    BY <2>1, <1>3
       DEF Promise!Accept, Promise!Tear, Promise!Finish, Promise!Lose, Promise!Becomes
  <2> QED
    BY <2>2 DEF Promise!Next
<1>4. ASSUME NEW m \in Events, \A e \in Events \ {m} : Status(e)' = Status(e),
             abandoned' = abandoned \cup {m},
             \/ Status(m) \in {"held", "finished"} /\ Status(m)' = Status(m)
             \/ Status(m) = "held" /\ Status(m)' = "lost"
      PROVE  Promise!Next
  <2>1. /\ st' = [st EXCEPT ![m] = Status(m)'] /\ st[m] = Status(m)
        /\ Status(m)' = Status(m) => st' = st
    BY <1>2, <1>4
  <2>2. Promise!Abandon(m)
    BY <2>1, <1>4 DEF Promise!Abandon, Promise!Becomes
  <2> QED
    BY <2>2 DEF Promise!Next
<1> QED
  BY <1>1, <1>3, <1>4 DEF StatusStep

\* How a worker's step ends a task: it ran its event, it abandoned it, or neither.
LEMMA Endings ==
  ASSUME Queue, NEW w \in Slots, SlotStep(w)
  PROVE  \/ UNCHANGED <<ran, abandoned>>
         \/ /\ slot[w].ev \in Events /\ ran' = ran \cup {slot[w].ev}
            /\ UNCHANGED abandoned
         \/ /\ slot[w].ev \in Events /\ abandoned' = abandoned \cup {slot[w].ev}
            /\ UNCHANGED ran
<1>1. slot[w].at \in EventPlaces => slot[w].ev \in Events
  <2>1. slot \in [Slots -> SlotRow] /\ Placed
    BY TypesSplit DEF Queue
  <2> QED
    BY <2>1 DEF Placed, SlotRow, EventPlaces
<1>2. CASE TakeTask(w) \/ DrainStep(w)
  BY <1>2 DEF TakeTask, DrainStep, ReadHigh, ReadStandard, DispatchClaimed, AckClaimed, taskVars
<1>3. CASE TaskStep(w)
  <2>1. CASE GiveBack(w)
    BY <2>1, <1>1 DEF GiveBack, EventPlaces
  <2>2. CASE Run(w)
    BY <2>2, <1>1 DEF Run, EventPlaces
  <2>3. CASE Acquire(w) \/ Release(w) \/ ResetCounter(w)
    BY <2>3 DEF Acquire, Release, ResetCounter, taskVars
  <2> QED
    BY <1>3, <2>1, <2>2, <2>3 DEF TaskStep
<1>4. CASE SlotFault(w)
  <2>1. CASE WorkerDies(w)
    BY <2>1, <1>1 DEF WorkerDies
  <2>2. CASE ReadFails(w) \/ DrainDies(w) \/ AcquireFailsOpen(w) \/ ReleaseFails(w)
    BY <2>2 DEF ReadFails, DrainDies, AcquireFailsOpen, ReleaseFails, taskVars
  <2> QED
    BY <1>4, <2>1, <2>2 DEF SlotFault
<1> QED
  BY <1>2, <1>3, <1>4 DEF SlotStep

\* A worker's step loses no event but its own.
LEMMA OthersHeld ==
  ASSUME Queue, NEW w \in Slots, Shape(w), \A v \in Slots \ {w} : slot'[v] = slot[v],
         NEW e \in Events, e # slot[w].ev, HeldSomewhere(e)
  PROVE  HeldSomewhere(e)'
<1>n. /\ e # NoEvent /\ TypeOK /\ 0 \in 0..MaxRetries
      /\ high \in Seq(HighEvents) /\ standard \in Seq(Events \ HighEvents)
      /\ broker \in Seq(Message)
      /\ slot[w].at \in EventPlaces \cup {"delay"} => slot[w].ev \in Events
  <2>1. RestTyped /\ slot \in [Slots -> SlotRow] /\ Placed /\ TypeOK
    BY TypesSplit DEF Queue
  <2>2. slot[w].at \in EventPlaces \cup {"delay"} => slot[w].ev \in Events
    BY <2>1 DEF Placed, SlotRow, EventPlaces
  <2> QED
    BY <2>1, <2>2, PipelineAssumption DEF RestTyped
<1>1. CASE e \in Unread
  <2>1. CASE UNCHANGED <<high, standard>>
    BY <1>1, <2>1 DEF HeldSomewhere, Unread
  <2>2. CASE /\ high # <<>> /\ high' = Tail(high) /\ standard' = standard
             /\ pel' = pel \cup {Head(high)}
    <3>1. Elems(high) = {Head(high)} \cup Elems(high')
      BY <1>n, <2>2, TailElems
    <3>2. Elems(standard') = Elems(standard)
      BY <2>2
    <3> QED
      BY <3>1, <3>2, <2>2, <1>1 DEF HeldSomewhere, Unread
  <2>3. CASE /\ standard # <<>> /\ standard' = Tail(standard) /\ high' = high
             /\ pel' = pel \cup {Head(standard)}
    <3>1. Elems(standard) = {Head(standard)} \cup Elems(standard')
      BY <1>n, <2>3, TailElems
    <3>2. Elems(high') = Elems(high)
      BY <2>3
    <3> QED
      BY <3>1, <3>2, <2>3, <1>1 DEF HeldSomewhere, Unread
  <2> QED
    BY <2>1, <2>2, <2>3 DEF Shape
<1>2. CASE e \in pel
  <2>1. e \in pel'
    BY <1>2 DEF Shape
  <2> QED
    BY <2>1 DEF HeldSomewhere
<1>3. CASE Queued(e)
  <2>1. CASE UNCHANGED broker
    BY <2>1, <1>3 DEF HeldSomewhere, Queued
  <2>2. CASE broker # <<>> /\ broker' = Tail(broker) /\ slot'[w].ev = Head(broker).ev
    <3>1. Elems(broker) = {Head(broker)} \cup Elems(broker')
      BY <2>2, <1>n, TailElems
    <3> QED
      BY <3>1, <2>2, <1>3 DEF HeldSomewhere, Queued
  <2>3. ASSUME slot[w].ev \in Events, NEW n \in 0..MaxRetries,
               broker' = Append(broker, EventTask(slot[w].ev, n))
        PROVE  HeldSomewhere(e)'
    <3>1. Elems(broker) \subseteq Elems(broker')
      BY <2>3, <1>n, Messages, AppendElems
    <3> QED
      BY <3>1, <1>3 DEF HeldSomewhere, Queued
  <2> QED
    BY <2>1, <2>2, <2>3, <1>n DEF Shape, Delay
<1>4. ASSUME NEW v \in Slots, slot[v].ev = e
      PROVE  HeldSomewhere(e)'
  BY <1>4 DEF HeldSomewhere
<1> QED
  BY <1>1, <1>2, <1>3, <1>4 DEF HeldSomewhere, Unread, Queued

\* What a worker's step does to an event that is held, and to one that is not.
LEMMA HeldKept ==
  ASSUME Queue, NEW w \in Slots, Shape(w), \A v \in Slots \ {w} : slot'[v] = slot[v],
         NEW e \in Events, HeldSomewhere(e)
  PROVE  HeldSomewhere(e)' \/ e \in Ended'
<1>n. e # NoEvent
  BY PipelineAssumption
<1>1. ASSUME Tasked(e) PROVE HeldSomewhere(e)' \/ e \in Ended'
  <2>1. Tasked(e)'
    BY <1>1, TaskedKept
  <2> QED
    BY <2>1 DEF Tasked, HeldSomewhere, Queued
<1>2. ASSUME e \in pel PROVE HeldSomewhere(e)' \/ e \in Ended'
  <2>1. CASE e \in pel'
    BY <2>1 DEF HeldSomewhere
  <2>2. CASE slot[w].at = "ack" /\ slot[w].ev = e
    BY <2>2, <1>1 DEF Queue, Drains
  <2>3. \/ pel' = pel \ {slot[w].ev} /\ slot[w].at = "ack"
        \/ pel \subseteq pel'
    BY DEF Shape
  <2> QED
    BY <1>2, <2>1, <2>2, <2>3
<1>3. ASSUME e \in Unread PROVE HeldSomewhere(e)'
  <2>1. high \in Seq(HighEvents) /\ standard \in Seq(Events \ HighEvents)
    BY TypesSplit DEF Queue, RestTyped
  <2>2. CASE UNCHANGED <<high, standard>>
    BY <1>3, <2>2 DEF HeldSomewhere, Unread
  <2>3. CASE /\ high # <<>> /\ high' = Tail(high) /\ standard' = standard
             /\ pel' = pel \cup {Head(high)}
    <3>1. Elems(high) = {Head(high)} \cup Elems(high')
      BY <2>1, <2>3, TailElems
    <3>2. Elems(standard') = Elems(standard)
      BY <2>3
    <3> QED
      BY <3>1, <3>2, <2>3, <1>3 DEF HeldSomewhere, Unread
  <2>4. CASE /\ standard # <<>> /\ standard' = Tail(standard) /\ high' = high
             /\ pel' = pel \cup {Head(standard)}
    <3>1. Elems(standard) = {Head(standard)} \cup Elems(standard')
      BY <2>1, <2>4, TailElems
    <3>2. Elems(high') = Elems(high)
      BY <2>4
    <3> QED
      BY <3>1, <3>2, <2>4, <1>3 DEF HeldSomewhere, Unread
  <2> QED
    BY <2>2, <2>3, <2>4 DEF Shape
<1>4. ASSUME NEW v \in Slots, slot[v].ev = e
      PROVE  Tasked(e) \/ e \in pel
  <2>1. slot[v].at \in {"delay", "ack"} \cup EventPlaces
    BY <1>4, <1>n DEF Queue, TypeOK, Placed, DrainPlaces
  <2> QED
    BY <1>4, <2>1 DEF Queue, Drains, Tasked
<1>5. e \in Unread \/ e \in pel \/ Queued(e) \/ \E v \in Slots : slot[v].ev = e
  BY DEF HeldSomewhere, Unread, Queued
<1> QED
  BY <1>1, <1>2, <1>3, <1>4, <1>5 DEF Tasked

LEMMA HeldFrom ==
  ASSUME Queue, NEW w \in Slots, Shape(w), \A v \in Slots \ {w} : slot'[v] = slot[v],
         NEW e \in Events
  PROVE  /\ HeldSomewhere(e)' => HeldSomewhere(e)
         /\ e \in Ended' \ Ended => e = slot[w].ev
         /\ e \in Ended => e \in Ended'
<1>n. e # NoEvent /\ TypeOK
  BY PipelineAssumption DEF Queue
<1>f. /\ e \in Ended' \ Ended => e = slot[w].ev
      /\ e \in Ended => e \in Ended'
  BY DEF Shape
<1>t. /\ high \in Seq(HighEvents) /\ standard \in Seq(Events \ HighEvents)
      /\ slot[w].ev \in Events \cup {NoEvent} /\ 0 \in 0..MaxRetries
      /\ slot[w].at \in EventPlaces \cup {"delay"} => slot[w].ev \in Events
  <2>1. RestTyped /\ slot \in [Slots -> SlotRow] /\ Placed
    BY TypesSplit DEF Queue
  <2>2. slot[w].ev \in Events \cup {NoEvent}
    BY <2>1 DEF SlotRow
  <2>3. slot[w].at \in EventPlaces \cup {"delay"} => slot[w].ev # NoEvent
    BY <2>1 DEF Placed, EventPlaces
  <2>4. high \in Seq(HighEvents) /\ standard \in Seq(Events \ HighEvents)
    BY <2>1 DEF RestTyped
  <2> QED
    BY <2>2, <2>3, <2>4, PipelineAssumption
<1>h. ASSUME e \in Unread \/ e \in pel \/ Queued(e) \/ \E v \in Slots : slot[v].ev = e
      PROVE  HeldSomewhere(e)
  BY <1>h DEF HeldSomewhere, Unread, Queued
<1>1. /\ high # <<>> => Head(high) \in Elems(high) /\ Elems(Tail(high)) \subseteq Elems(high)
      /\ standard # <<>> => /\ Head(standard) \in Elems(standard)
                            /\ Elems(Tail(standard)) \subseteq Elems(standard)
  BY <1>t, TailElems
<1>2. ASSUME e \in Unread' PROVE e \in Unread
  <2>1. Elems(high') \subseteq Elems(high)
    BY <1>1 DEF Shape
  <2>2. Elems(standard') \subseteq Elems(standard)
    BY <1>1 DEF Shape
  <2> QED
    BY <1>2, <2>1, <2>2 DEF Unread
<1>3. ASSUME e \in pel' PROVE e \in Unread \/ e \in pel
  BY <1>3, <1>1 DEF Shape, Unread
<1>4. ASSUME Queued(e)' PROVE Queued(e) \/ slot[w].ev = e
  <2>1. CASE UNCHANGED broker
    BY <2>1, <1>4 DEF Queued
  <2>2. CASE broker # <<>> /\ broker' = Tail(broker)
    BY <2>2, <1>4, <1>n, QueuedSteps
  <2>3. ASSUME slot[w].ev \in Events, NEW n \in 0..MaxRetries,
               broker' = Append(broker, EventTask(slot[w].ev, n))
        PROVE  Queued(e) \/ slot[w].ev = e
    <3>1. EventTask(slot[w].ev, n) \in Message /\ EventTask(slot[w].ev, n).ev = slot[w].ev
      BY <2>3, Messages
    <3> QED
      BY <3>1, <2>3, <1>4, <1>n, QueuedSteps
  <2> QED
    BY <2>1, <2>2, <2>3, <1>t DEF Shape, Delay
<1>5. ASSUME NEW v \in Slots, slot'[v].ev = e
      PROVE  e \in Unread \/ Queued(e) \/ \E u \in Slots : slot[u].ev = e
  <2>1. CASE v # w
    BY <2>1, <1>5
  <2>2. CASE v = w
    <3>1. broker # <<>> => Queued(Head(broker).ev)
      <4>1. broker \in Seq(Message)
        BY <1>n, TypesSplit DEF RestTyped
      <4> QED
        BY <4>1, TailElems DEF Queued
    <3> QED
      BY <2>2, <3>1, <1>1, <1>5, <1>n DEF Shape, Unread
  <2> QED
    BY <2>1, <2>2
<1>6. HeldSomewhere(e)' => \/ e \in Unread' \/ e \in pel' \/ Queued(e)'
                           \/ \E v \in Slots : slot'[v].ev = e
  BY DEF HeldSomewhere, Unread, Queued
<1> QED
  BY <1>2, <1>3, <1>4, <1>5, <1>6, <1>f, <1>h

\* A worker's step ends at most its own event, and loses it only if it is abandoned.
LEMMA StatusOfSlot ==
  ASSUME Queue, NEW w \in Slots, SlotStep(w)
  PROVE  StatusStep
<1>m. PICK m : m = slot[w].ev
  OBVIOUS
<1>1. /\ Shape(w) /\ UNCHANGED <<keys, adding, adds>>
      /\ \A v \in Slots \ {w} : slot'[v] = slot[v]
  BY Shapes
<1>2. ASSUME NEW e \in Events, HeldSomewhere(e)' <=> HeldSomewhere(e),
             e \in ran' <=> e \in ran, e \in abandoned' <=> e \in abandoned
      PROVE  Status(e)' = Status(e)
  BY <1>2, <1>1 DEF Status
<1>3. \A e \in Events : HeldSomewhere(e)' => HeldSomewhere(e)
  BY <1>1, HeldFrom
<1>4. \A e \in Events \ {m} : Status(e)' = Status(e)
  <2> SUFFICES ASSUME NEW e \in Events \ {m} PROVE Status(e)' = Status(e)
    OBVIOUS
  <2>1. HeldSomewhere(e)' <=> HeldSomewhere(e)
    BY <1>m, <1>1, <1>3, OthersHeld
  <2>2. (e \in ran' <=> e \in ran) /\ (e \in abandoned' <=> e \in abandoned)
    BY <1>m, Endings
  <2> QED
    BY <2>1, <2>2, <1>2
<1>5. ASSUME m \in Events, HeldSomewhere(m)
      PROVE  HeldSomewhere(m)' \/ m \in ran' \/ m \in abandoned'
  BY <1>1, <1>5, HeldKept DEF Ended
<1>6. CASE UNCHANGED <<ran, abandoned>>
  <2>1. CASE m \notin Events
    BY <1>4, <1>6, <2>1 DEF StatusStep
  <2>2. CASE m \in Events /\ (m \in ran \/ (HeldSomewhere(m) <=> HeldSomewhere(m)'))
    <3>1. Status(m)' = Status(m)
      BY <2>2, <1>6, <1>2 DEF Status
    <3> QED
      BY <3>1, <1>4, <1>6 DEF StatusStep
  <2>3. CASE m \in Events /\ m \notin ran /\ ~(HeldSomewhere(m) <=> HeldSomewhere(m)')
    <3>1. HeldSomewhere(m) /\ ~HeldSomewhere(m)'
      BY <2>3, <1>3
    <3>2. m \in abandoned
      BY <3>1, <2>3, <1>5, <1>6
    <3>3. Status(m) = "held" /\ Status(m)' = "lost"
      BY <3>1, <3>2, <2>3, <1>6 DEF Status
    <3> QED
      BY <3>2, <3>3, <2>3, <1>4, <1>6 DEF StatusStep
  <2> QED
    BY <2>1, <2>2, <2>3
<1>7. CASE m \in Events /\ ran' = ran \cup {m} /\ UNCHANGED abandoned
  <2>1. HeldSomewhere(m)
    BY <1>m DEF HeldSomewhere
  <2>2. CASE m \in ran
    <3>1. Status(m)' = Status(m)
      BY <2>2, <1>7 DEF Status
    <3> QED
      BY <3>1, <1>4, <1>7 DEF StatusStep
  <2>3. CASE m \notin ran
    <3>1. Status(m) = "held" /\ Status(m)' = "finished"
      BY <2>1, <2>3, <1>7 DEF Status
    <3> QED
      BY <3>1, <1>4, <1>7 DEF StatusStep
  <2> QED
    BY <2>2, <2>3
<1>8. CASE m \in Events /\ abandoned' = abandoned \cup {m} /\ UNCHANGED ran
  <2>1. HeldSomewhere(m)
    BY <1>m DEF HeldSomewhere
  <2>2. \/ Status(m) \in {"held", "finished"} /\ Status(m)' = Status(m)
        \/ Status(m) = "held" /\ Status(m)' = "lost"
    BY <2>1, <1>8 DEF Status
  <2> QED
    BY <2>2, <1>4, <1>8 DEF StatusStep
<1> QED
  BY <1>m, <1>6, <1>7, <1>8, Endings

LEMMA StatusOfProducer ==
  ASSUME Queue, ProducerStep
  PROVE  StatusStep
<1>1. UNCHANGED <<pel, broker, ran, abandoned, slot>>
  BY DEF ProducerStep, TakeKey, AddToStream, ProducerDies, taskVars
<1>t. /\ high \in Seq(HighEvents) /\ standard \in Seq(Events \ HighEvents)
      /\ adding \in [Producers -> Events \cup {NoEvent}]
  BY TypesSplit DEF Queue, RestTyped
<1>s. \A e \in Events :
        /\ e \notin keys => Fresh(e) /\ e \notin Unread
                            /\ \A p \in Producers : adding[p] # e
        /\ \A p \in Producers : adding[p] = e =>
             /\ Fresh(e) /\ e \notin Unread
             /\ \A q \in Producers : adding[q] = e => q = p
  BY DEF Queue, Streams
<1>h. \A e \in Events :
        Fresh(e) /\ e \notin Unread => ~HeldSomewhere(e) /\ e \notin ran \cup abandoned
  BY DEF Fresh, HeldSomewhere, Unread, Queued, Ended
<1>u. ASSUME UNCHANGED <<high, standard>>
      PROVE  \A e \in Events : HeldSomewhere(e)' <=> HeldSomewhere(e)
  BY <1>u, <1>1 DEF HeldSomewhere
<1>x. ASSUME NEW e \in Events, HeldSomewhere(e)' <=> HeldSomewhere(e),
             e \in keys' <=> e \in keys,
             \A p \in Producers : adding'[p] = e <=> adding[p] = e
      PROVE  Status(e)' = Status(e)
  BY <1>x, <1>1 DEF Status
<1>2. ASSUME NEW p \in Producers, NEW o \in Events, TakeKey(p, o)
      PROVE  StatusStep
  <2>1. /\ o \notin keys /\ keys' = keys \cup {o} /\ adding[p] = NoEvent
        /\ adding' = [adding EXCEPT ![p] = o] /\ UNCHANGED <<high, standard>>
    BY <1>2 DEF TakeKey, KeyIsFree
  <2>2. adding'[p] = o /\ \A q \in Producers \ {p} : adding'[q] = adding[q]
    BY <2>1, <1>t
  <2>3. ~HeldSomewhere(o) /\ o \notin ran \cup abandoned
    BY <2>1, <1>s, <1>h
  <2>4. Status(o) = "new"
    BY <2>1, <2>3 DEF Status
  <2>5. ~HeldSomewhere(o)' /\ o \notin ran' \cup abandoned'
    BY <2>1, <2>3, <1>u, <1>1
  <2>6. Status(o)' = "new"
    BY <2>2, <2>5 DEF Status
  <2>7. \A e \in Events \ {o} : Status(e)' = Status(e)
    BY <2>1, <2>2, <1>u, <1>x, PipelineAssumption
  <2> QED
    BY <1>1, <2>4, <2>6, <2>7 DEF StatusStep
<1>3. ASSUME NEW p \in Producers, AddToStream(p) \/ ProducerDies(p)
      PROVE  StatusStep
  <2>1. PICK o \in Events : o = adding[p]
    BY <1>3, <1>t DEF AddToStream, ProducerDies
  <2>2. keys' = keys /\ adding' = [adding EXCEPT ![p] = NoEvent]
    BY <1>3 DEF AddToStream, ProducerDies
  <2>3. /\ \A q \in Producers : adding'[q] # o
        /\ \A e \in Events \ {o} : \A q \in Producers : adding'[q] = e <=> adding[q] = e
    BY <2>1, <2>2, <1>s, <1>t, PipelineAssumption
  <2>4. ~HeldSomewhere(o) /\ o \notin ran \cup abandoned /\ o \in keys
    BY <2>1, <1>s, <1>h
  <2>5. Status(o) = "new"
    BY <2>1, <2>4 DEF Status
  <2>6. CASE AddToStream(p)
    <3>1. \/ high' = Append(high, o) /\ standard' = standard /\ o \in HighEvents
          \/ standard' = Append(standard, o) /\ high' = high /\ o \in Events \ HighEvents
      BY <2>1, <2>6 DEF AddToStream
    <3>2. Unread' = Unread \cup {o}
      <4>1. CASE high' = Append(high, o) /\ standard' = standard /\ o \in HighEvents
        <5>1. Elems(high') = Elems(high) \cup {o} /\ Elems(standard') = Elems(standard)
          BY <4>1, <1>t, AppendElems
        <5> QED
          BY <5>1 DEF Unread
      <4>2. CASE standard' = Append(standard, o) /\ high' = high /\ o \in Events \ HighEvents
        <5>1. Elems(standard') = Elems(standard) \cup {o} /\ Elems(high') = Elems(high)
          BY <4>2, <1>t, AppendElems
        <5> QED
          BY <5>1 DEF Unread
      <4> QED
        BY <3>1, <4>1, <4>2
    <3>3. \A e \in Events \ {o} : HeldSomewhere(e)' <=> HeldSomewhere(e)
      BY <3>2, <1>1 DEF HeldSomewhere, Unread
    <3>4. HeldSomewhere(o)' /\ o \notin ran' \cup abandoned'
      BY <3>2, <2>4, <1>1 DEF HeldSomewhere, Unread
    <3>5. Status(o)' = "held"
      BY <3>4 DEF Status
    <3>6. \A e \in Events \ {o} : Status(e)' = Status(e)
      BY <3>3, <2>2, <2>3, <1>x
    <3> QED
      BY <1>1, <2>5, <3>5, <3>6 DEF StatusStep
  <2>7. CASE ProducerDies(p)
    <3>1. \A e \in Events : HeldSomewhere(e)' <=> HeldSomewhere(e)
      BY <2>7, <1>u DEF ProducerDies
    <3>2. ~HeldSomewhere(o)' /\ o \notin ran' \cup abandoned' /\ o \in keys'
      BY <3>1, <2>4, <2>2, <1>1
    <3>3. Status(o)' = "torn"
      BY <3>2, <2>3 DEF Status
    <3>4. \A e \in Events \ {o} : Status(e)' = Status(e)
      BY <3>1, <2>2, <2>3, <1>x
    <3> QED
      BY <1>1, <2>5, <3>3, <3>4 DEF StatusStep
  <2> QED
    BY <1>3, <2>6, <2>7
<1> QED
  BY <1>2, <1>3 DEF ProducerStep

LEMMA StatusOfTicks ==
  ASSUME Queue, BeatDrain \/ KeyExpires \/ \E o \in Events : ReclaimStale(o)
  PROVE  StatusStep
<1>1. UNCHANGED <<keys, adding, high, standard, pel, slot, ran, abandoned>>
  BY DEF BeatDrain, KeyExpires, ReclaimStale, Delay, streamVars, taskVars
<1>n. NoEvent \notin Events /\ TypeOK /\ 0 \in 0..MaxRetries
  BY PipelineAssumption DEF Queue
<1>2. \A e \in Events : HeldSomewhere(e)' <=> HeldSomewhere(e)
  <2>1. ASSUME NEW e \in Events, Queued(e)' => Queued(e) \/ e \in pel, Queued(e) => Queued(e)'
        PROVE  HeldSomewhere(e)' <=> HeldSomewhere(e)
    BY <2>1, <1>1 DEF HeldSomewhere, Queued
  <2>2. CASE BeatDrain
    <3>1. broker' = Append(broker, DrainTask)
      BY <2>2 DEF BeatDrain
    <3>2. \A e \in Events : Queued(e)' <=> Queued(e)
      BY <3>1, <1>n, QueuedSteps, Messages
    <3> QED
      BY <3>2, <2>1
  <2>3. CASE KeyExpires
    <3>1. \A e \in Events : Queued(e)' <=> Queued(e)
      BY <2>3 DEF KeyExpires, taskVars, Queued
    <3> QED
      BY <3>1, <2>1
  <2>4. ASSUME NEW o \in Events, ReclaimStale(o)
        PROVE  \A e \in Events : HeldSomewhere(e)' <=> HeldSomewhere(e)
    <3>1. o \in pel /\ broker' = Append(broker, EventTask(o, 0))
      BY <2>4 DEF ReclaimStale, Delay
    <3>2. \A e \in Events : Queued(e)' <=> Queued(e) \/ e = o
      BY <3>1, <1>n, QueuedSteps, Messages
    <3> QED
      BY <3>1, <3>2, <2>1
  <2> QED
    BY <2>2, <2>3, <2>4
<1>3. \A e \in Events : Status(e)' = Status(e)
  BY <1>1, <1>2 DEF Status
<1> QED
  BY <1>1, <1>3 DEF StatusStep

\* The queue implements HandOver: whatever dies, an event once added to its
\* stream is unread, pending, in a task message or in a worker until it has run,
\* or until a task ended for it without running it and no copy of it is left;
\* it is then lost for good (enqueue, claim_next, drain_event_stream,
\* reclaim_stale, process_agent_event).
THEOREM ImplementsHandOver == Spec => HeldUntilRunOrAbandoned
<1>1. Init => Promise!Init
  <2> SUFFICES ASSUME Init PROVE Promise!Init
    OBVIOUS
  <2>1. /\ Elems(high) = {} /\ Elems(standard) = {} /\ Elems(broker) = {}
        /\ keys = {} /\ pel = {} /\ ran = {} /\ abandoned = {}
        /\ \A w \in Slots : slot[w].ev = NoEvent
    BY DEF Init, Elems, Idle
  <2>2. \A e \in Events : ~HeldSomewhere(e)
    BY <2>1, PipelineAssumption DEF HeldSomewhere
  <2>3. \A e \in Events : Status(e) = "new"
    BY <2>1, <2>2 DEF Status
  <2> QED
    BY <2>3 DEF Init, Promise!Init
<1>2. Queue /\ [Next]_vars => [Promise!Next]_(<<[e \in Events |-> Status(e)], abandoned>>)
  <2> SUFFICES ASSUME Queue, [Next]_vars PROVE StatusStep
    BY StatusSteps
  <2>1. CASE UNCHANGED vars
    <3>1. \A e \in Events : HeldSomewhere(e)' <=> HeldSomewhere(e)
      BY <2>1 DEF vars, streamVars, taskVars, HeldSomewhere
    <3>2. \A e \in Events : Status(e)' = Status(e)
      BY <2>1, <3>1 DEF vars, streamVars, taskVars, Status
    <3> QED
      BY <3>2, <2>1 DEF StatusStep, vars, taskVars
  <2> QED
    BY <2>1, StatusOfProducer, StatusOfTicks, StatusOfSlot DEF Next, ProducerStep, SlotStep
<1> QED
  BY <1>1, <1>2, Invariance, PTL DEF Spec, HeldUntilRunOrAbandoned, Promise!Spec
=============================================================================
