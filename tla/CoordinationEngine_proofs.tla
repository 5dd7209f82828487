---------------------- MODULE CoordinationEngine_proofs ----------------------
(***************************************************************************)
(* Proofs about CoordinationEngine, for any events of any kinds, any number *)
(* of deliveries, workers, tries and faults.  Three invariants:             *)
(*   Fitting: the types, and what a task holds at each place of its run;    *)
(*   Rows:    which rows of the timeline the tasks under way answer for;    *)
(*   Rests:   what has run of each plan, and who may run the rest of it.    *)
(* Each action is first reduced to how it moves its task (Exits, Stays,     *)
(* Advances, Pushes, Pops); each invariant is then shown per move.          *)
(***************************************************************************)
EXTENDS CoordinationEngine, TLAPS

-----------------------------------------------------------------------------
(* The inductive invariant.                                                *)

Over   == {"unlock", "done"}
Places == {"idle", "queued", "lock"} \cup Over \cup Body
Frames == [plan : Suffixes, step : 0..8]
TaskSet == [at : Places, event : Events \cup {None}, stack : Seq(Frames),
            ctx : SUBSET {"po", "grn", "erp"}, locked : BOOLEAN,
            named : BOOLEAN, result : Results, tries : 0..MaxTries]

BoxTyped ==
  /\ exists \in BOOLEAN /\ waiting \in Waits \cup {None}
  /\ pending \in Suffixes \cup {None}
  /\ lock \in Deliveries \cup {None}
  /\ opened \subseteq Keys /\ closed \subseteq Keys
  /\ acted \subseteq Keys /\ excused \subseteq Keys
  /\ ran \in [Deliveries -> Seq(Nat)]
  /\ faults \in 0..MaxFaults

Typed == BoxTyped /\ task \in [Deliveries -> TaskSet]

Depth(d) == Len(task[d].stack)
Base(d)  == task[d].stack[1]

\* What a task holds fits its place: a plan of its own delivery, and above it
\* only a resumed plan of a delivery that is over.
Fits(d) ==
  /\ task[d].at = "idle" <=> task[d].event = None
  /\ task[d].at \in {"idle", "queued"} \cup Over <=> Depth(d) = 0
  /\ Depth(d) <= 2
  /\ Depth(d) = 2 => task[d].at \in Body
  /\ task[d].at = "return" => Depth(d) = 2
  /\ Depth(d) > 0 =>
       /\ Base(d).plan.of = d
       /\ ~task[d].named => Base(d).plan.kind = "email"
       /\ Top(d).step <= StepCount(Top(d).plan)
       /\ task[d].at \in {"lock", "act", "post", "save"} => ~AtEnd(Top(d))
       /\ task[d].at = "save" => task[d].result \in Waits
       /\ /\ task[d].at \in {"post", "save"}
          /\ task[d].result \in Waits \cup {"stop"}
          => Top(d).plan.kind # "grn_confirmed"
  /\ Depth(d) = 2 =>
       /\ task[d].named
       /\ ~AtEnd(Base(d)) /\ Action(Base(d)) = "resume"
       /\ Top(d).plan.kind # "grn_confirmed"
       /\ task[Top(d).plan.of].at \in Over
  /\ task[d].tries > 0 =>
       Depth(d) > 0 /\ ~AtEnd(Base(d)) /\ Action(Base(d)) = "resume"
  /\ task[d].locked => lock = d
  /\ task[d].at = "unlock" => task[d].locked

\* The saved plan is the rest of a delivery that is over.
Saved ==
  pending # None =>
    /\ StepCount(pending) > 0 /\ pending.kind # "grn_confirmed"
    /\ task[pending.of].at \in Over

Fitting == Typed /\ Saved /\ \A d \in Deliveries : Fits(d)

\* The i-th plan of a task is in an action that has its timeline row.
Under(d, i) ==
  /\ task[d].named /\ task[d].at \in Body /\ i \in 1..Depth(d)
  /\ ~AtEnd(task[d].stack[i])
  /\ i = Depth(d) => task[d].at \in {"act", "post"}

PlanKey(d, i) == Key(task[d].stack[i])
Acting(d, i)  == Under(d, i) /\ (i = Depth(d) => task[d].at = "act")

Rows ==
  /\ acted \subseteq opened
  /\ \A d \in Deliveries, i \in 1..2 : Acting(d, i) => PlanKey(d, i) \in opened
  /\ \A k \in opened :
       \/ \E d \in Deliveries, i \in 1..2 : Under(d, i) /\ PlanKey(d, i) = k
       \/ k \in closed \cup excused

\* The i-th plan of a task may still run actions, none before its bound.
Holds(d, i) ==
  i \in 1..Depth(d) /\ (task[d].at = "return" => i = 1)
Owner(d, i) == task[d].stack[i].plan.of

\* The top plan has yet to run the action it stands at.
Fresh(d) ==
  \/ task[d].at \in {"lock", "pre"}
  \/ task[d].at = "act" /\ ~(task[d].tries > 0 /\ Action(Top(d)) = "resume")
First(f)    == f.plan.from + f.step
Bound(d, i) ==
  IF i = Depth(d) /\ Fresh(d) THEN First(task[d].stack[i])
                              ELSE First(task[d].stack[i]) + 1

Below(r, m) == \A j \in 1..Len(r) : r[j] < m
Rising(r)   == \A i \in 1..(Len(r) - 1) : r[i] < r[i + 1]

Rests ==
  /\ \A d \in Deliveries : Rising(ran[d])
  /\ \A d \in Deliveries, i \in 1..2 :
       Holds(d, i) => Below(ran[Owner(d, i)], Bound(d, i))
  /\ pending # None => Below(ran[pending.of], pending.from)
  /\ \A d \in Deliveries : task[d].at \in {"idle", "queued"} => ran[d] = <<>>
  /\ \A d, u \in Deliveries :
       Holds(d, 2) /\ Holds(u, 2) /\ Owner(d, 2) = Owner(u, 2) => d = u
  /\ \A d \in Deliveries :
       Holds(d, 2) /\ pending # None => pending.of # Owner(d, 2)

-----------------------------------------------------------------------------
(* Lemmas about plans, stacks and tasks.                                   *)

LEMMA SuffixForm ==
  Suffixes = [of : Deliveries, kind : Kinds, from : 0..7]
<1>1. ASSUME NEW x \in Suffixes PROVE x \in [of : Deliveries, kind : Kinds, from : 0..7]
  <2>1. PICK d \in Deliveries, k \in Kinds, i \in 0..7 : x = Plan(d, k, i)
    BY DEF Suffixes
  <2> QED
    BY <2>1 DEF Plan
<1>2. ASSUME NEW x \in [of : Deliveries, kind : Kinds, from : 0..7] PROVE x \in Suffixes
  <2>1. x = Plan(x.of, x.kind, x.from)
    BY DEF Plan
  <2> QED
    BY <2>1 DEF Suffixes
<1> QED
  BY <1>1, <1>2

LEMMA PlanFacts ==
  /\ \A k \in Kinds :
       /\ Len(Actions(k)) \in 1..8
       /\ \A i \in 1..Len(Actions(k)) :
            /\ i \in DOMAIN Actions(k)
            /\ Actions(k)[i] = "resume" => k = "grn_confirmed"
  /\ Actions("grn_confirmed")[1] = "clear_waiting"
  /\ Actions("grn_confirmed")[2] = "resume"
  /\ Len(Actions("grn_confirmed")) = 2
<1>1. ASSUME NEW k \in Kinds
      PROVE  /\ Len(Actions(k)) \in 1..8
             /\ \A i \in 1..Len(Actions(k)) :
                  /\ i \in DOMAIN Actions(k)
                  /\ Actions(k)[i] = "resume" => k = "grn_confirmed"
  <2>1. CASE k = "email"
    BY <2>1 DEF Actions
  <2>2. CASE k = "reply"
    BY <2>2 DEF Actions
  <2>3. CASE k = "approved"
    BY <2>3 DEF Actions
  <2>4. CASE k = "grn_confirmed"
    BY <2>4 DEF Actions
  <2>5. CASE k = "grn_check"
    BY <2>5 DEF Actions
  <2>6. CASE k = "erp_recheck"
    BY <2>6 DEF Actions
  <2> QED
    BY <2>1, <2>2, <2>3, <2>4, <2>5, <2>6 DEF Kinds
<1>2. /\ Actions("grn_confirmed")[1] = "clear_waiting"
      /\ Actions("grn_confirmed")[2] = "resume"
      /\ Len(Actions("grn_confirmed")) = 2
  BY DEF Actions
<1> QED
  BY <1>1, <1>2

LEMMA Numbers ==
  ASSUME NEW n \in 1..8, NEW a \in 0..7, NEW m \in Int, m = n - a
  PROVE  /\ m <= 8
         /\ \A b \in 0..8 : b < m => /\ a + b + 1 \in 1..n /\ a + b + 1 \in 1..8
                                     /\ a + b \in 0..7 /\ b \in 0..7
OBVIOUS

LEMMA FrameFacts ==
  ASSUME NEW f \in Frames
  PROVE  /\ f.plan \in Suffixes /\ f.step \in 0..8
         /\ f.plan.of \in Deliveries /\ f.plan.kind \in Kinds /\ f.plan.from \in 0..7
         /\ StepCount(f.plan) \in Int /\ StepCount(f.plan) <= 8
         /\ StepCount(f.plan) = Len(Actions(f.plan.kind)) - f.plan.from
         /\ AtEnd(f) <=> StepCount(f.plan) <= f.step
<1>1. /\ f.plan \in Suffixes /\ f.step \in 0..8
      /\ f.plan.of \in Deliveries /\ f.plan.kind \in Kinds /\ f.plan.from \in 0..7
  BY SuffixForm DEF Frames
<1>2. Len(Actions(f.plan.kind)) \in 1..8
  BY <1>1, PlanFacts
<1>3. StepCount(f.plan) = Len(Actions(f.plan.kind)) - f.plan.from
  BY DEF StepCount
<1>4. StepCount(f.plan) \in Int /\ StepCount(f.plan) <= 8
  <2>1. \A n \in 1..8, a \in 0..7 : n - a \in Int /\ n - a <= 8
    OBVIOUS
  <2> QED
    BY <1>1, <1>2, <1>3, <2>1
<1>5. AtEnd(f) <=> StepCount(f.plan) <= f.step
  BY <1>1, <1>4 DEF AtEnd
<1> QED
  BY <1>1, <1>3, <1>4, <1>5

\* An action that is due is a key of the timeline.
LEMMA KeyTyped ==
  ASSUME NEW f \in Frames, ~AtEnd(f), task[f.plan.of].event \in Events
  PROVE  /\ Key(f) \in Keys /\ f.step \in 0..7
         /\ f.plan.from + f.step \in 0..7
         /\ Action(f) = "resume" => f.plan.kind = "grn_confirmed"
<1> DEFINE k == f.plan.kind
           i == f.plan.from + f.step + 1
<1>1. /\ k \in Kinds /\ f.plan.from \in 0..7 /\ f.step \in 0..8
      /\ Len(Actions(k)) \in 1..8
      /\ StepCount(f.plan) = Len(Actions(k)) - f.plan.from
      /\ StepCount(f.plan) \in Int /\ f.step < StepCount(f.plan)
  BY FrameFacts, PlanFacts
<1>2. i \in 1..Len(Actions(k)) /\ f.step \in 0..7 /\ i \in 1..8
      /\ f.plan.from + f.step \in 0..7
  BY <1>1, Numbers
<1>3. Action(f) = Actions(k)[i] /\ i \in DOMAIN Actions(k)
  BY <1>1, <1>2, PlanFacts DEF Action
<1>4. Action(f) \in {Actions(k)[j] : j \in DOMAIN Actions(k)}
  BY <1>3
<1>5. Action(f) \in UNION {{Actions(q)[j] : j \in DOMAIN Actions(q)} : q \in Kinds}
  BY <1>1, <1>4
<1>6. Key(f) \in Keys
  BY <1>2, <1>5 DEF Key, Keys
<1>7. Action(f) = "resume" => f.plan.kind = "grn_confirmed"
  BY <1>1, <1>2, <1>3, PlanFacts
<1> QED
  BY <1>1, <1>2, <1>6, <1>7

LEMMA PushFacts ==
  ASSUME NEW s \in Seq(Frames), Len(s) = 1, NEW f \in Frames
  PROVE  /\ Append(s, f) \in Seq(Frames) /\ Len(Append(s, f)) = 2
         /\ Append(s, f)[2] = f /\ Append(s, f)[1] = s[1]
OBVIOUS

-----------------------------------------------------------------------------
(* How a step moves the task that takes it.                                *)

Moved(d) ==
  /\ task' \in [Deliveries -> TaskSet]
  /\ \A u \in Deliveries \ {d} : task'[u] = task[u]
  /\ task'[d].event = task[d].event

Exits(d) ==
  /\ Moved(d)
  /\ task'[d].stack = <<>> /\ task'[d].tries = 0 /\ task'[d].at \in Over
  /\ task'[d].at = "unlock" => task'[d].locked
  /\ task'[d].locked => task[d].locked /\ task'[d].at = "unlock"

Stays(d) ==
  /\ Moved(d)
  /\ task'[d].stack = task[d].stack /\ task'[d].tries = task[d].tries
  /\ task'[d].locked = task[d].locked
  /\ task[d].named => task'[d].named

Advances(d) ==
  /\ Moved(d)
  /\ task'[d].locked = task[d].locked /\ task'[d].named = task[d].named
  /\ task'[d].at = "pre"
  /\ Depth(d)' = Depth(d)
  /\ Top(d)'.plan = Top(d).plan
  /\ \/ Top(d)'.step = Top(d).step + 1
        /\ task'[d].tries = IF Depth(d) = 1 THEN 0 ELSE task[d].tries
     \/ Top(d)'.step = StepCount(Top(d).plan) /\ task'[d].tries = task[d].tries
        /\ task[d].result = "stop"
  /\ Depth(d) = 2 => Base(d)' = Base(d)

Pushes(d) ==
  /\ Moved(d)
  /\ task'[d].locked = task[d].locked /\ task'[d].named = task[d].named
  /\ task'[d].at = "pre" /\ task'[d].tries = task[d].tries
  /\ Depth(d)' = 2 /\ Base(d)' = Base(d) /\ Top(d)' = Frame(pending)

Pops(d) ==
  /\ Moved(d)
  /\ task'[d].locked = task[d].locked /\ task'[d].named = task[d].named
  /\ Depth(d)' = 1 /\ Top(d)' = Base(d) /\ Base(d)' = Base(d)
  /\ \/ task'[d].at = "act"
     \/ task'[d].at = "post" /\ task'[d].result \in {"ok", "abort"}

LEMMA TaskTyped ==
  ASSUME Fitting, NEW d \in Deliveries
  PROVE  /\ task[d] \in TaskSet /\ Depth(d) \in 0..2
         /\ \A i \in 1..Depth(d) : task[d].stack[i] \in Frames
         /\ Depth(d) > 0 => Top(d) \in Frames /\ Base(d) \in Frames
         /\ Depth(d) = 1 => Top(d) = Base(d)
         /\ Depth(d) = 2 => Top(d) = task[d].stack[2]
<1>1. task[d] \in TaskSet
  BY DEF Fitting, Typed
<1>m. Depth(d) <= 2
  BY DEF Fitting, Fits
<1>2. task[d].stack \in Seq(Frames)
  BY <1>1 DEF TaskSet
<1>3. Depth(d) \in 0..2 /\ \A i \in 1..Depth(d) : task[d].stack[i] \in Frames
  <2>1. Len(task[d].stack) \in Nat
        /\ \A i \in 1..Len(task[d].stack) : task[d].stack[i] \in Frames
    BY <1>2
  <2>2. Depth(d) \in Nat /\ \A i \in 1..Depth(d) : task[d].stack[i] \in Frames
    BY <2>1 DEF Depth
  <2> QED
    BY <1>m, <2>2
<1>4. Top(d) = task[d].stack[Depth(d)] /\ Base(d) = task[d].stack[1]
  BY DEF Top, Base, Depth
<1>5. Depth(d) > 0 => 1 \in 1..Depth(d) /\ Depth(d) \in 1..Depth(d)
  BY <1>3
<1>6. Depth(d) > 0 => Top(d) \in Frames /\ Base(d) \in Frames
  BY <1>3, <1>4, <1>5
<1>7. /\ Depth(d) = 1 => Top(d) = Base(d)
      /\ Depth(d) = 2 => Top(d) = task[d].stack[2]
  BY <1>4
<1> QED
  BY <1>1, <1>3, <1>6, <1>7

LEMMA IdleTyped == Idle \in TaskSet
BY EngineAssumption DEF Idle, TaskSet, Places, Results

LEMMA FinishedFields ==
  ASSUME NEW t \in TaskSet
  PROVE  /\ Finished(t) \in TaskSet /\ Finished(t).stack = <<>>
         /\ Finished(t).tries = 0 /\ Finished(t).at = "done"
         /\ Finished(t).event = t.event /\ ~Finished(t).locked
BY IdleTyped DEF Finished, Idle, TaskSet, Places, Over

LEMMA UnlockFields ==
  ASSUME NEW t \in TaskSet, NEW r,
         r = [Finished(t) EXCEPT !.at = "unlock", !.locked = TRUE]
  PROVE  /\ r \in TaskSet /\ r.stack = <<>> /\ r.tries = 0 /\ r.at = "unlock"
         /\ r.event = t.event /\ r.locked
BY IdleTyped DEF Finished, Idle, TaskSet, Places, Over

LEMMA FinishedExits ==
  ASSUME Fitting, NEW d \in Deliveries,
         task' = [task EXCEPT ![d] = Finished(task[d])]
  PROVE  Exits(d)
<1>1. task[d] \in TaskSet /\ task \in [Deliveries -> TaskSet]
  BY DEF Fitting, Typed
<1>2. task'[d] = Finished(task[d]) /\ \A u \in Deliveries \ {d} : task'[u] = task[u]
  BY <1>1
<1>3. task' \in [Deliveries -> TaskSet]
  BY <1>1, FinishedFields
<1> QED
  BY <1>1, <1>2, <1>3, FinishedFields DEF Exits, Moved, Over

LEMMA LeaveMoves ==
  ASSUME Fitting, NEW d \in Deliveries,
         task' = [task EXCEPT ![d] = Left(task[d])]
  PROVE  /\ Depth(d) = 2 => /\ Stays(d) /\ task'[d].at = "return"
                            /\ task'[d].named = task[d].named
         /\ Depth(d) # 2 => Exits(d)
<1>1. task[d] \in TaskSet /\ task \in [Deliveries -> TaskSet]
  BY DEF Fitting, Typed
<1>2. task'[d] = Left(task[d]) /\ \A u \in Deliveries \ {d} : task'[u] = task[u]
  BY <1>1
<1>3. CASE Depth(d) = 2
  <2>1. Left(task[d]) = [task[d] EXCEPT !.at = "return"]
    BY <1>3 DEF Left, Depth
  <2>2. Left(task[d]) \in TaskSet
    BY <1>1, <2>1 DEF TaskSet, Places, Body
  <2>3. task' \in [Deliveries -> TaskSet]
    BY <1>1, <2>2
  <2>4. /\ task'[d].at = "return" /\ task'[d].stack = task[d].stack
        /\ task'[d].tries = task[d].tries /\ task'[d].locked = task[d].locked
        /\ task'[d].named = task[d].named /\ task'[d].event = task[d].event
    BY <1>1, <1>2, <2>1 DEF TaskSet
  <2> QED
    BY <1>2, <1>3, <2>3, <2>4 DEF Stays, Moved
<1>4. CASE Depth(d) # 2 /\ task[d].locked
  <2>1. Left(task[d]) = [Finished(task[d]) EXCEPT !.at = "unlock", !.locked = TRUE]
    BY <1>4 DEF Left, Depth
  <2>2. /\ Left(task[d]) \in TaskSet /\ Left(task[d]).stack = <<>>
        /\ Left(task[d]).tries = 0 /\ Left(task[d]).at = "unlock"
        /\ Left(task[d]).event = task[d].event /\ Left(task[d]).locked
    BY <1>1, <2>1, UnlockFields
  <2>3. task' \in [Deliveries -> TaskSet]
    BY <1>1, <2>2
  <2> QED
    BY <1>2, <1>4, <2>2, <2>3 DEF Exits, Moved, Over
<1>5. CASE Depth(d) # 2 /\ ~task[d].locked
  <2>1. Left(task[d]) = Finished(task[d])
    BY <1>5 DEF Left, Depth
  <2> QED
    BY <1>5, <2>1, FinishedExits
<1> QED
  BY <1>1, <1>3, <1>4, <1>5 DEF TaskSet

-----------------------------------------------------------------------------
(* Fits is kept by every move.                                             *)

LEMMA DueAction ==
  ASSUME NEW f \in Frames, ~AtEnd(f)
  PROVE  /\ Action(f) = "resume" => f.plan.kind = "grn_confirmed"
         /\ f.step + 1 <= StepCount(f.plan) /\ f.plan.from + f.step \in 0..7
         /\ f.step + 1 \in 0..8 /\ StepCount(f.plan) \in 0..8
<1>1. /\ f.plan.kind \in Kinds /\ f.plan.from \in 0..7 /\ f.step \in 0..8
      /\ Len(Actions(f.plan.kind)) \in 1..8
      /\ StepCount(f.plan) = Len(Actions(f.plan.kind)) - f.plan.from
      /\ StepCount(f.plan) \in Int /\ f.step < StepCount(f.plan)
      /\ StepCount(f.plan) <= 8
  BY FrameFacts, PlanFacts
<1>2. /\ f.plan.from + f.step + 1 \in 1..Len(Actions(f.plan.kind))
      /\ f.plan.from + f.step \in 0..7
  BY <1>1, Numbers
<1>3. Action(f) = "resume" => f.plan.kind = "grn_confirmed"
  BY <1>1, <1>2, PlanFacts DEF Action
<1> QED
  BY <1>1, <1>2, <1>3

LEMMA FittingKept ==
  ASSUME Fitting, NEW d \in Deliveries, task' \in [Deliveries -> TaskSet],
         \A u \in Deliveries \ {d} : task'[u] = task[u],
         BoxTyped', Saved', Fits(d)',
         task[d].at \in Over => task'[d].at \in Over,
         \A u \in Deliveries \ {d} : task[u].locked => lock' = u
  PROVE  Fitting'
<1>1. ASSUME NEW u \in Deliveries \ {d} PROVE Fits(u)'
  <2>1. Fits(u) /\ task'[u] = task[u]
    BY DEF Fitting
  <2>2. /\ Depth(u)' = Depth(u) /\ Base(u)' = Base(u) /\ Top(u)' = Top(u)
    BY <2>1 DEF Depth, Base, Top
  <2>3. Depth(u) = 2 => task'[Top(u).plan.of].at \in Over
    <3>1. Depth(u) = 2 => Top(u).plan.of \in Deliveries
      BY TaskTyped, FrameFacts
    <3> QED
      BY <2>1, <3>1 DEF Fits
  <2>4. AtEnd(Base(u))' = AtEnd(Base(u)) /\ AtEnd(Top(u))' = AtEnd(Top(u))
        /\ Action(Base(u))' = Action(Base(u))
    BY <2>2 DEF AtEnd, Action
  <2> QED
    BY <2>1, <2>2, <2>3, <2>4 DEF Fits
<1>2. \A u \in Deliveries : Fits(u)'
  BY <1>1
<1> QED
  BY <1>2 DEF Fitting, Typed

LEMMA FitsExits ==
  ASSUME Fitting, NEW d \in Deliveries, Exits(d), task[d].at # "idle",
         task'[d].locked => lock' = d
  PROVE  Fits(d)'
<1>1. Depth(d)' = 0
  BY DEF Exits, Depth
<1>2. task'[d].event # None
  BY DEF Fitting, Fits, Exits, Moved
<1> QED
  BY <1>1, <1>2 DEF Fits, Exits, Over, Body

LEMMA FitsStays ==
  ASSUME Fitting, NEW d \in Deliveries, Stays(d), Depth(d) > 0,
         task'[d].at \in Body, lock' = lock,
         task'[d].at = "return" => Depth(d) = 2,
         task'[d].at \in {"act", "post", "save"} => ~AtEnd(Top(d)),
         task'[d].at = "save" => task'[d].result \in Waits,
         /\ task'[d].at \in {"post", "save"}
         /\ task'[d].result \in Waits \cup {"stop"}
         => Top(d).plan.kind # "grn_confirmed"
  PROVE  Fits(d)'
<1>1. /\ Depth(d)' = Depth(d) /\ Base(d)' = Base(d) /\ Top(d)' = Top(d)
  BY DEF Depth, Base, Top, Stays
<1>2. AtEnd(Base(d))' = AtEnd(Base(d)) /\ AtEnd(Top(d))' = AtEnd(Top(d))
      /\ Action(Base(d))' = Action(Base(d))
  BY <1>1 DEF AtEnd, Action
<1>3. Fits(d)
  BY DEF Fitting
<1>4. Depth(d) = 2 => task'[Top(d).plan.of].at \in Over
  <2>1. Depth(d) = 2 => Top(d).plan.of \in Deliveries
    BY TaskTyped, FrameFacts
  <2>2. Depth(d) = 2 => Top(d).plan.of # d
    BY <1>3 DEF Fits, Over, Body
  <2> QED
    BY <1>3, <2>1, <2>2 DEF Fits, Stays, Moved
<1>5. task'[d].event # None
  BY <1>3 DEF Fits, Stays, Moved
<1>6. Depth(d) \in 1..2
  BY TaskTyped
<1> QED
  BY <1>1, <1>2, <1>3, <1>4, <1>5, <1>6 DEF Fits, Stays, Body, Over

LEMMA FitsAdvances ==
  ASSUME Fitting, NEW d \in Deliveries, Advances(d), task[d].at = "post",
         lock' = lock
  PROVE  Fits(d)'
<1>1. Fits(d) /\ Depth(d) \in 1..2 /\ ~AtEnd(Top(d))
  BY TaskTyped DEF Fitting, Fits, Body, Over
<1>2. Top(d) \in Frames /\ Base(d) \in Frames
  BY <1>1, TaskTyped
<1>3. Top(d)'.step <= StepCount(Top(d).plan)
  BY <1>1, <1>2, DueAction DEF Advances
<1>4. Depth(d)' = Depth(d) /\ Top(d)'.plan = Top(d).plan
  BY DEF Advances
<1>5. CASE Depth(d) = 2
  <2>1. Base(d)' = Base(d) /\ task'[d].tries = task[d].tries
    BY <1>5 DEF Advances
  <2>2. AtEnd(Base(d))' = AtEnd(Base(d)) /\ Action(Base(d))' = Action(Base(d))
    BY <2>1 DEF AtEnd, Action
  <2>3. Top(d).plan.of \in Deliveries /\ Top(d).plan.of # d
    BY <1>1, <1>2, <1>5, FrameFacts DEF Fits, Over
  <2>4. task'[Top(d).plan.of].at \in Over
    BY <1>1, <1>5, <2>3 DEF Fits, Advances, Moved
  <2> QED
    BY <1>1, <1>3, <1>4, <1>5, <2>1, <2>2, <2>4
       DEF Fits, Advances, Moved, Body, Over
<1>6. CASE Depth(d) = 1
  <2>1. Base(d)' = Top(d)' /\ Base(d) = Top(d)
    BY <1>4, <1>6 DEF Base, Top, Depth
  <2>2. ~(task'[d].tries > 0)
    <3>1. CASE task'[d].tries = 0
      BY <3>1
    <3>2. CASE task'[d].tries = task[d].tries /\ task[d].result = "stop"
      <4>1. Top(d).plan.kind # "grn_confirmed"
        BY <1>1, <3>2 DEF Fits
      <4> QED
        BY <1>1, <1>2, <2>1, <3>2, <4>1, DueAction DEF Fits
    <3> QED
      BY <1>6, <3>1, <3>2 DEF Advances
  <2> QED
    BY <1>1, <1>3, <1>4, <1>6, <2>1, <2>2 DEF Fits, Advances, Moved, Body, Over
<1> QED
  BY <1>1, <1>5, <1>6

\* A task that is about to resume a plan runs the plan of its own delivery.
LEMMA AtResume ==
  ASSUME Fitting, NEW d \in Deliveries, At(d, "resume")
  PROVE  /\ Depth(d) = 1 /\ Top(d) = Base(d) /\ task[d].named
         /\ Base(d).plan.kind = "grn_confirmed" /\ Base(d).plan.of = d
<1>1. Fits(d) /\ Depth(d) \in 1..2 /\ ~AtEnd(Top(d))
  BY TaskTyped DEF Fitting, Fits, Body, Over, At
<1>2. Top(d).plan.kind = "grn_confirmed"
  BY <1>1, TaskTyped, DueAction DEF At
<1>3. Depth(d) = 1
  BY <1>1, <1>2 DEF Fits
<1>4. Top(d) = Base(d)
  BY <1>3, TaskTyped
<1> QED
  BY <1>1, <1>2, <1>3, <1>4 DEF Fits

LEMMA FitsPushes ==
  ASSUME Fitting, NEW d \in Deliveries, Pushes(d), At(d, "resume"),
         pending # None, lock' = lock
  PROVE  Fits(d)'
<1>1. Fits(d) /\ ~AtEnd(Base(d))
  BY AtResume DEF Fitting, Fits, At
<1>2. pending \in Suffixes /\ StepCount(pending) > 0
      /\ pending.kind # "grn_confirmed" /\ task[pending.of].at \in Over
  BY DEF Fitting, Typed, BoxTyped, Saved
<1>3. Frame(pending) \in Frames /\ Frame(pending).plan = pending
      /\ Frame(pending).step = 0
  BY <1>2 DEF Frame, Frames
<1>4. pending.of \in Deliveries /\ StepCount(pending) \in Int
  BY <1>3, FrameFacts
<1>5. pending.of # d
  BY <1>2 DEF At, Over
<1>6. task'[pending.of].at \in Over
  BY <1>2, <1>4, <1>5 DEF Pushes, Moved
<1>7. 0 <= StepCount(pending)
  BY <1>2, <1>4
<1>8. Top(d)'.plan = pending /\ Top(d)'.step = 0
  BY <1>3 DEF Pushes
<1>9. AtEnd(Base(d))' = AtEnd(Base(d)) /\ Action(Base(d))' = Action(Base(d))
  BY DEF AtEnd, Action, Pushes
<1>10. Action(Base(d)) = "resume"
  BY AtResume DEF At
<1>11. task'[d].event # None
  BY <1>1 DEF Fits, Pushes, Moved, At
<1> QED
  BY <1>1, <1>2, <1>6, <1>7, <1>8, <1>9, <1>10, <1>11, AtResume
     DEF Fits, Pushes, Body, Over

LEMMA FitsPops ==
  ASSUME Fitting, NEW d \in Deliveries, Pops(d), Depth(d) = 2, lock' = lock
  PROVE  Fits(d)'
<1>1. Fits(d)
  BY DEF Fitting
<1>2. AtEnd(Base(d))' = AtEnd(Base(d)) /\ Action(Base(d))' = Action(Base(d))
      /\ AtEnd(Top(d))' = AtEnd(Base(d))
  BY DEF AtEnd, Action, Pops
<1>3. Base(d).step <= StepCount(Base(d).plan)
  <2>1. Base(d) \in Frames
    BY TaskTyped
  <2> QED
    BY <1>1, <2>1, FrameFacts DEF Fits
<1>4. task'[d].event # None
  BY <1>1 DEF Fits, Pops, Moved, Body
<1> QED
  BY <1>1, <1>2, <1>3, <1>4 DEF Fits, Pops, Body, Over, Waits

-----------------------------------------------------------------------------
(* The steps of a plan: how each moves its task, and Fitting is kept.       *)

LEMMA TopFacts ==
  ASSUME Fitting, NEW d \in Deliveries, NEW i \in 1..Depth(d)
  PROVE  /\ task[d].stack[i] \in Frames
         /\ task[d].stack[i].plan.of \in Deliveries
         /\ task[task[d].stack[i].plan.of].at # "idle"
         /\ task[task[d].stack[i].plan.of].event \in Events
         /\ ~AtEnd(task[d].stack[i]) => Key(task[d].stack[i]) \in Keys
         /\ i = 1 => task[d].stack[i].plan.of = d
<1>1. task[d].stack[i] \in Frames /\ Fits(d) /\ Depth(d) \in 1..2
  BY TaskTyped DEF Fitting
<1>2. task[d].stack[i].plan.of \in Deliveries
  BY <1>1, FrameFacts
<1>3. task[task[d].stack[i].plan.of].at # "idle"
  <2>1. CASE i = 1
    BY <1>1, <2>1 DEF Fits, Base
  <2>2. CASE i = 2 /\ Depth(d) = 2
    BY <1>1, <2>2, TaskTyped DEF Fits, Over
  <2> QED
    BY <1>1, <2>1, <2>2
<1>4. task[task[d].stack[i].plan.of].event \in Events
  BY <1>2, <1>3 DEF Fitting, Fits, Typed, TaskSet
<1>5. ~AtEnd(task[d].stack[i]) => Key(task[d].stack[i]) \in Keys
  BY <1>1, <1>4, KeyTyped
<1>6. i = 1 => task[d].stack[i].plan.of = d
  BY <1>1 DEF Fits, Base
<1> QED
  BY <1>1, <1>2, <1>3, <1>4, <1>5, <1>6

\* A task in the body of its plan.
LEMMA InBody ==
  ASSUME Fitting, NEW d \in Deliveries, task[d].at \in Body
  PROVE  /\ Depth(d) \in 1..2 /\ Top(d) \in Frames /\ Top(d) = task[d].stack[Depth(d)]
         /\ Top(d).plan.of \in Deliveries /\ task[Top(d).plan.of].at # "idle"
         /\ task[d].at \in {"act", "post", "save"} =>
              ~AtEnd(Top(d)) /\ Key(Top(d)) \in Keys
         /\ ~AtEnd(Top(d)) => Key(Top(d)) \in Keys
         /\ task[d].event # None /\ Fits(d)
<1>1. Fits(d) /\ Depth(d) \in 1..2
  BY TaskTyped DEF Fitting, Fits, Body, Over
<1>2. Top(d) = task[d].stack[Depth(d)]
  BY DEF Top, Depth
<1>n. Depth(d) \in 1..Depth(d)
  BY <1>1
<1>3. task[d].at \in {"act", "post", "save"} => ~AtEnd(Top(d))
  BY <1>1 DEF Fits
<1>4. task[d].event # None
  BY <1>1 DEF Fits, Body
<1> QED
  BY <1>1, <1>2, <1>n, <1>3, <1>4, TopFacts

LEMMA LocksKept ==
  ASSUME Fitting, NEW d \in Deliveries, lock' = lock
  PROVE  \A u \in Deliveries \ {d} : task[u].locked => lock' = u
BY DEF Fitting, Fits

LEMMA SavedKept ==
  ASSUME Fitting, NEW d \in Deliveries, Moved(d), task[d].at \notin Over,
         pending' \in {pending, None}
  PROVE  Saved'
<1>1. CASE pending' = None
  BY <1>1 DEF Saved
<1>2. CASE pending' = pending /\ pending # None
  <2>1. pending \in Suffixes
    BY <1>2 DEF Fitting, Typed, BoxTyped
  <2>2. pending.of \in Deliveries
    BY <2>1, SuffixForm
  <2>3. task[pending.of].at \in Over
    BY <1>2 DEF Fitting, Saved
  <2>4. pending.of # d
    BY <2>3
  <2>5. task'[pending.of].at \in Over
    BY <2>2, <2>3, <2>4 DEF Moved
  <2>6. StepCount(pending)' = StepCount(pending)
    BY <1>2 DEF StepCount
  <2> QED
    BY <1>2, <2>5, <2>6 DEF Fitting, Saved
<1> QED
  BY <1>1, <1>2

LEMMA GrnActions ==
  ASSUME NEW f \in Frames, ~AtEnd(f), f.plan.kind = "grn_confirmed"
  PROVE  Action(f) \in {"clear_waiting", "resume"}
<1>1. /\ f.plan.from \in 0..7 /\ f.step \in 0..8 /\ StepCount(f.plan) \in Int
      /\ f.step < StepCount(f.plan) /\ StepCount(f.plan) = 2 - f.plan.from
  BY FrameFacts, PlanFacts
<1>2. f.plan.from + f.step + 1 \in 1..2
  BY <1>1
<1> QED
  BY <1>2, PlanFacts DEF Action

Ctx == SUBSET {"po", "grn", "erp"}

\* An action that does not resume a plan.
DidSo(d) ==
  \E result \in Results, ctx \in Ctx :
    /\ Did(d, result, ctx) /\ task[d].at = "act" /\ Action(Top(d)) # "resume"
    /\ result \in Waits \cup {"stop"} => Top(d).plan.kind # "grn_confirmed"
    /\ exists' \in BOOLEAN /\ waiting' \in {waiting, None} /\ pending' = pending

LEMMA ActShape ==
  ASSUME Fitting, NEW d \in Deliveries, Act(d)
  PROVE  DidSo(d) \/ ResumePlan(d)
<1> DEFINE a == Action(Top(d))
           c == task[d].ctx
<1>1. task[d].at = "act"
  BY DEF Act, RunPlain, CreateBox, LookupPo, LookupGrn, EvaluateGrn, CheckErp,
         EvaluateErp, ClearWaiting, PostBill, ResumePlan, At
<1>2. Top(d) \in Frames /\ ~AtEnd(Top(d))
  BY <1>1, InBody DEF Body
<1>3. a \notin {"clear_waiting", "resume"} => Top(d).plan.kind # "grn_confirmed"
  BY <1>2, GrnActions
<1>4. /\ c \in Ctx /\ c \cup {"po"} \in Ctx /\ c \cup {"grn"} \in Ctx
      /\ c \cup {"erp"} \in Ctx /\ c \ {"grn"} \in Ctx /\ c \ {"erp"} \in Ctx
  BY DEF Fitting, Typed, TaskSet, Ctx
<1>5. exists \in BOOLEAN
  BY DEF Fitting, Typed, BoxTyped
<1>6. CASE RunPlain(d)
  <2>1. PICK result \in Ends(a) : Did(d, result, c)
    BY <1>6 DEF RunPlain
  <2>2. a \notin {"clear_waiting", "resume"}
    BY <2>1 DEF Ends
  <2>3. result \in Results
    BY <2>1 DEF Did
  <2> QED
    BY <1>1, <1>3, <1>4, <1>5, <1>6, <2>1, <2>2, <2>3 DEF DidSo, RunPlain, boxVars
<1>7. CASE CreateBox(d)
  <2>1. a = "create_box" /\ exists' \in BOOLEAN /\ waiting' = waiting /\ pending' = pending
    BY <1>5, <1>7 DEF CreateBox, At
  <2>2. PICK result \in {"ok", "abort"} : Did(d, result, c)
    BY <1>7 DEF CreateBox
  <2>3. result \in Results
    BY DEF Results
  <2> QED
    BY <1>1, <1>3, <1>4, <2>1, <2>2, <2>3 DEF DidSo
<1>8. CASE LookupPo(d)
  <2>1. PICK ctx \in Ctx : Did(d, "ok", ctx)
    BY <1>4, <1>8 DEF LookupPo
  <2> QED
    BY <1>1, <1>3, <1>5, <1>8, <2>1 DEF DidSo, LookupPo, At, boxVars, Results
<1>9. CASE LookupGrn(d)
  <2>1. PICK result \in {"ok", "grn"}, ctx \in Ctx : Did(d, result, ctx)
    BY <1>4, <1>9 DEF LookupGrn
  <2>2. result \in Results
    BY DEF Results, Waits
  <2> QED
    BY <1>1, <1>3, <1>5, <1>9, <2>1, <2>2 DEF DidSo, LookupGrn, At, boxVars
<1>10. CASE EvaluateGrn(d)
  <2>1. PICK result \in {"ok", "grn", "stop", "abort"} : Did(d, result, c)
    BY <1>10 DEF EvaluateGrn
  <2>2. result \in Results
    BY DEF Results, Waits
  <2>3. /\ a = "evaluate_grn" /\ exists' = exists /\ pending' = pending
        /\ waiting' \in {waiting, None}
    BY <1>10 DEF EvaluateGrn, At
  <2> QED
    BY <1>1, <1>3, <1>4, <1>5, <2>1, <2>2, <2>3 DEF DidSo
<1>11. CASE CheckErp(d)
  <2>1. PICK ctx \in Ctx : Did(d, "ok", ctx)
    BY <1>4, <1>11 DEF CheckErp
  <2> QED
    BY <1>1, <1>3, <1>5, <1>11, <2>1 DEF DidSo, CheckErp, At, boxVars, Results
<1>12. CASE EvaluateErp(d)
  <2>1. PICK result \in {"ok", "dependency", "abort"} : Did(d, result, c)
    BY <1>12 DEF EvaluateErp
  <2>2. result \in Results
    BY DEF Results, Waits
  <2>3. /\ a = "evaluate_erp" /\ exists' = exists /\ pending' = pending
        /\ waiting' \in {waiting, None}
    BY <1>12 DEF EvaluateErp, At
  <2> QED
    BY <1>1, <1>3, <1>4, <1>5, <2>1, <2>2, <2>3 DEF DidSo
<1>13. CASE ClearWaiting(d)
  <2>1. PICK result \in {"ok", "abort"} : Did(d, result, c)
    BY <1>13 DEF ClearWaiting
  <2>2. result \in Results /\ result \notin Waits \cup {"stop"}
    BY DEF Results, Waits
  <2>3. /\ a = "clear_waiting" /\ exists' = exists /\ pending' = pending
        /\ waiting' \in {waiting, None}
    BY <1>13 DEF ClearWaiting, At
  <2> QED
    BY <1>1, <1>4, <1>5, <2>1, <2>2, <2>3 DEF DidSo
<1>14. CASE PostBill(d)
  <2>1. PICK result \in {"ok", "abort", "held"} : Did(d, result, c)
    BY <1>14 DEF PostBill
  <2>2. result \in Results
    BY DEF Results, Waits
  <2> QED
    BY <1>1, <1>3, <1>4, <1>5, <1>14, <2>1, <2>2 DEF DidSo, PostBill, At, boxVars
<1> QED
  BY <1>6, <1>7, <1>8, <1>9, <1>10, <1>11, <1>12, <1>13, <1>14 DEF Act

LEMMA DidMoves ==
  ASSUME Fitting, NEW d \in Deliveries, NEW result \in Results, NEW ctx \in Ctx,
         Did(d, result, ctx), task[d].at = "act"
  PROVE  /\ Stays(d) /\ task'[d].at = "post" /\ task'[d].result = result
         /\ task'[d].named = (task[d].named \/ (result = "ok" /\ Action(Top(d)) = "create_box"))
<1>1. task[d] \in TaskSet /\ task \in [Deliveries -> TaskSet]
  BY DEF Fitting, Typed
<1> DEFINE named == task[d].named \/ (result = "ok" /\ Action(Top(d)) = "create_box")
           r == [task[d] EXCEPT !.at = "post", !.result = result, !.ctx = ctx,
                                !.named = named]
<1>2. task' = [task EXCEPT ![d] = r]
  BY <1>1 DEF Did
<1>3. named \in BOOLEAN
  BY <1>1 DEF TaskSet
<1> HIDE DEF named
<1>4. /\ r \in TaskSet /\ r.at = "post" /\ r.result = result /\ r.named = named
      /\ r.stack = task[d].stack /\ r.event = task[d].event
      /\ r.locked = task[d].locked /\ r.tries = task[d].tries
  BY <1>1, <1>3 DEF TaskSet, Places, Body, Ctx
<1> HIDE DEF r
<1>5. task'[d] = r /\ task' \in [Deliveries -> TaskSet]
      /\ \A u \in Deliveries \ {d} : task'[u] = task[u]
  BY <1>1, <1>2, <1>4
<1>6. task[d].named => named
  BY DEF named
<1> QED
  BY <1>4, <1>5, <1>6 DEF Stays, Moved, named

LEMMA ResumeMoves ==
  ASSUME Fitting, NEW d \in Deliveries, ResumePlan(d)
  PROVE  /\ At(d, "resume") /\ pending' = None
         /\ IF pending = None
            THEN Stays(d) /\ task'[d].at = "post" /\ task'[d].result = "ok"
                 /\ task'[d].named = task[d].named
            ELSE Pushes(d)
<1>1. task[d] \in TaskSet /\ task \in [Deliveries -> TaskSet]
  BY DEF Fitting, Typed
<1>2. At(d, "resume") /\ pending' = None
  BY DEF ResumePlan, Cleared
<1>3. CASE pending = None
  <2> DEFINE r == [task[d] EXCEPT !.at = "post", !.result = "ok"]
  <2>1. task' = [task EXCEPT ![d] = r]
    BY <1>1, <1>3 DEF ResumePlan
  <2>2. /\ r \in TaskSet /\ r.at = "post" /\ r.result = "ok"
        /\ r.named = task[d].named
        /\ r.stack = task[d].stack /\ r.event = task[d].event
        /\ r.locked = task[d].locked /\ r.tries = task[d].tries
    BY <1>1 DEF TaskSet, Places, Body, Results
  <2> HIDE DEF r
  <2>3. task'[d] = r /\ task' \in [Deliveries -> TaskSet]
        /\ \A u \in Deliveries \ {d} : task'[u] = task[u]
    BY <1>1, <2>1, <2>2
  <2> QED
    BY <1>2, <1>3, <2>2, <2>3 DEF Stays, Moved
<1>4. CASE pending # None
  <2>1. Frame(pending) \in Frames
    BY <1>4 DEF Fitting, Typed, BoxTyped, Frame, Frames
  <2> DEFINE s == Append(task[d].stack, Frame(pending))
             r == [task[d] EXCEPT !.at = "pre", !.ctx = {}, !.stack = s]
  <2>2. task[d].stack \in Seq(Frames) /\ Len(task[d].stack) = 1
    BY <1>1, <1>2, AtResume DEF TaskSet, Depth
  <2>3. s \in Seq(Frames) /\ Len(s) = 2 /\ s[1] = task[d].stack[1] /\ s[2] = Frame(pending)
    BY <2>1, <2>2, PushFacts
  <2>4. task' = [task EXCEPT ![d] = r]
    <3>1. task' = [task EXCEPT ![d].at = "pre", ![d].ctx = {},
                               ![d].stack = Append(@, Frame(pending))]
      BY <1>4 DEF ResumePlan
    <3> QED
      BY <1>1, <3>1 DEF TaskSet
  <2> HIDE DEF s
  <2>5. /\ r \in TaskSet /\ r.at = "pre" /\ r.stack = s
        /\ r.named = task[d].named /\ r.event = task[d].event
        /\ r.locked = task[d].locked /\ r.tries = task[d].tries
    BY <1>1, <2>3 DEF TaskSet, Places, Body
  <2> HIDE DEF r
  <2>6. task'[d] = r /\ task' \in [Deliveries -> TaskSet]
        /\ \A u \in Deliveries \ {d} : task'[u] = task[u]
    BY <1>1, <2>4, <2>5
  <2>7. Depth(d)' = 2 /\ Base(d)' = Base(d) /\ Top(d)' = Frame(pending)
    BY <2>3, <2>5, <2>6 DEF Depth, Base, Top
  <2> QED
    BY <1>2, <1>4, <2>5, <2>6, <2>7 DEF Pushes, Moved
<1> QED
  BY <1>2, <1>3, <1>4

LEMMA ContinueMoves ==
  ASSUME Fitting, NEW d \in Deliveries, Continue(d), task[d].at = "post"
  PROVE  \/ Depth(d) = 1 /\ Exits(d) /\ Leave(d)
         \/ /\ Depth(d) = 2 /\ Stays(d) /\ task'[d].at = "return"
            /\ task'[d].named = task[d].named
         \/ /\ Stays(d) /\ task'[d].at = "save" /\ task[d].result \in Waits
            /\ task'[d].named = task[d].named /\ task'[d].result = task[d].result
         \/ Advances(d)
<1>1. task[d] \in TaskSet /\ task \in [Deliveries -> TaskSet]
  BY DEF Fitting, Typed
<1>2. Depth(d) \in 1..2 /\ ~AtEnd(Top(d)) /\ Top(d) \in Frames
      /\ Top(d) = task[d].stack[Depth(d)]
  BY InBody DEF Body
<1>3. task[d].stack \in Seq(Frames) /\ Len(task[d].stack) = Depth(d)
  BY <1>1 DEF TaskSet, Depth
<1> DEFINE n == Depth(d)
<1>4. CASE task[d].result \in {"abort", "held"}
  <2>1. task' = [task EXCEPT ![d] = Left(task[d])]
    BY <1>1, <1>4 DEF Continue, Leave, Waits
  <2>2. CASE Depth(d) = 1
    BY <2>1, <2>2, LeaveMoves DEF Leave
  <2>3. CASE Depth(d) = 2
    BY <2>1, <2>3, LeaveMoves
  <2> QED
    BY <1>2, <2>2, <2>3
<1>5. CASE task[d].result \in Waits
  <2> DEFINE r == [task[d] EXCEPT !.at = "save"]
  <2>1. task' = [task EXCEPT ![d] = r]
    BY <1>1, <1>5 DEF Continue, Go, Waits
  <2>2. /\ r \in TaskSet /\ r.at = "save" /\ r.result = task[d].result
        /\ r.named = task[d].named
        /\ r.stack = task[d].stack /\ r.event = task[d].event
        /\ r.locked = task[d].locked /\ r.tries = task[d].tries
    BY <1>1 DEF TaskSet, Places, Body
  <2> HIDE DEF r
  <2>3. task'[d] = r /\ task' \in [Deliveries -> TaskSet]
        /\ \A u \in Deliveries \ {d} : task'[u] = task[u]
    BY <1>1, <2>1, <2>2
  <2> QED
    BY <1>5, <2>2, <2>3 DEF Stays, Moved
<1>6. ASSUME task[d].result \in {"stop", "ok"} PROVE Advances(d)
  <2> DEFINE m == IF task[d].result = "stop" THEN StepCount(Top(d).plan)
                  ELSE Top(d).step + 1
             s == [task[d].stack EXCEPT ![n].step = m]
             k == IF task[d].result = "ok" /\ n = 1 THEN 0 ELSE task[d].tries
             r == [task[d] EXCEPT !.at = "pre", !.stack = s, !.tries = k]
  <2>1. m \in 0..8
    BY <1>2, DueAction
  <2>2. k \in 0..MaxTries
    BY <1>1, EngineAssumption DEF TaskSet
  <2>3. n \in 1..Len(task[d].stack)
    BY <1>2, <1>3
  <2> HIDE DEF m, k
  <2>4. /\ s \in Seq(Frames) /\ Len(s) = n
        /\ s[n].plan = Top(d).plan /\ s[n].step = m
        /\ \A j \in 1..n \ {n} : s[j] = task[d].stack[j]
    <3> DEFINE g == [task[d].stack[n] EXCEPT !.step = m]
    <3>1. g \in Frames /\ g.plan = Top(d).plan /\ g.step = m
      BY <1>2, <2>1 DEF Frames
    <3>2. s = [task[d].stack EXCEPT ![n] = g]
      OBVIOUS
    <3> HIDE DEF g
    <3>3. /\ [task[d].stack EXCEPT ![n] = g] \in Seq(Frames)
          /\ Len([task[d].stack EXCEPT ![n] = g]) = Len(task[d].stack)
      BY <1>3, <2>3, <3>1
    <3>4. \A j \in 1..Len(task[d].stack) :
            [task[d].stack EXCEPT ![n] = g][j] = IF j = n THEN g ELSE task[d].stack[j]
      BY <1>3, <2>3
    <3>5. s \in Seq(Frames) /\ Len(s) = n
      BY <1>3, <3>2, <3>3
    <3>6. \A j \in 1..n : s[j] = IF j = n THEN g ELSE task[d].stack[j]
      BY <1>3, <3>2, <3>4
    <3> HIDE DEF s
    <3>7. n \in 1..n
      BY <1>2
    <3> QED
      BY <3>1, <3>5, <3>6, <3>7
  <2>5. task' = [task EXCEPT ![d] = r]
    <3>1. CASE task[d].result = "stop"
      <4>1. m = StepCount(Top(d).plan) /\ k = task[d].tries
        BY <3>1 DEF m, k
      <4>2. task' = [task EXCEPT ![d].at = "pre",
                       ![d].stack[n].step = StepCount(Top(d).plan)]
        BY <1>3, <3>1 DEF Continue, Waits
      <4> QED
        BY <1>1, <4>1, <4>2 DEF TaskSet
    <3>2. CASE task[d].result = "ok"
      <4>1. m = task[d].stack[n].step + 1 /\ k = IF n = 1 THEN 0 ELSE task[d].tries
        BY <1>2, <3>2 DEF m, k
      <4>2. task' = [task EXCEPT ![d].at = "pre", ![d].stack[n].step = @ + 1,
                                 ![d].tries = IF n = 1 THEN 0 ELSE @]
        BY <1>3, <3>2 DEF Continue, Waits
      <4> QED
        BY <1>1, <4>1, <4>2 DEF TaskSet
    <3> QED
      BY <1>6, <3>1, <3>2
  <2> HIDE DEF s
  <2>6. /\ r \in TaskSet /\ r.at = "pre" /\ r.stack = s /\ r.tries = k
        /\ r.named = task[d].named /\ r.event = task[d].event
        /\ r.locked = task[d].locked
    BY <1>1, <2>2, <2>4 DEF TaskSet, Places, Body
  <2> HIDE DEF r
  <2>7. task'[d] = r /\ task' \in [Deliveries -> TaskSet]
        /\ \A u \in Deliveries \ {d} : task'[u] = task[u]
    BY <1>1, <2>5, <2>6
  <2>8. /\ Depth(d)' = n /\ Top(d)' = s[n] /\ Base(d)' = s[1]
    BY <2>4, <2>6, <2>7 DEF Depth, Base, Top
  <2>9. n = 2 => Base(d)' = Base(d)
    BY <2>4, <2>8 DEF Base
  <2>10. \/ m = Top(d).step + 1 /\ k = IF n = 1 THEN 0 ELSE task[d].tries
         \/ /\ m = StepCount(Top(d).plan) /\ k = task[d].tries
            /\ task[d].result = "stop"
    BY <1>6 DEF m, k
  <2> QED
    BY <2>4, <2>6, <2>7, <2>8, <2>9, <2>10 DEF Advances, Moved
<1> QED
  BY <1>1, <1>4, <1>5, <1>6 DEF TaskSet, Results

LEMMA PopMoves ==
  ASSUME Fitting, NEW d \in Deliveries, Depth(d) = 2, NEW r,
         task' = [task EXCEPT ![d] = r],
         \/ /\ task[d].tries < MaxTries
            /\ r = [task[d] EXCEPT !.at = "act", !.stack = Pop(d), !.tries = @ + 1]
         \/ \E result \in {"ok", "abort"} :
              r = [task[d] EXCEPT !.at = "post", !.stack = Pop(d), !.result = result]
  PROVE  Pops(d) /\ (task'[d].at = "act" => task'[d].tries > 0)
<1>1. task[d] \in TaskSet /\ task \in [Deliveries -> TaskSet]
  BY DEF Fitting, Typed
<1>2. task[d].stack \in Seq(Frames) /\ Len(task[d].stack) = 2
  BY <1>1 DEF TaskSet, Depth
<1>3. Pop(d) \in Seq(Frames) /\ Len(Pop(d)) = 1 /\ Pop(d)[1] = task[d].stack[1]
  BY <1>2 DEF Pop
<1>4. /\ r \in TaskSet /\ r.stack = Pop(d)
      /\ \/ r.at = "act" /\ r.tries > 0
         \/ r.at = "post" /\ r.result \in {"ok", "abort"}
      /\ r.named = task[d].named /\ r.event = task[d].event
      /\ r.locked = task[d].locked
  <2>1. CASE /\ task[d].tries < MaxTries
             /\ r = [task[d] EXCEPT !.at = "act", !.stack = Pop(d), !.tries = @ + 1]
    <3>1. task[d].tries + 1 \in 0..MaxTries /\ task[d].tries + 1 > 0
      BY <1>1, <2>1, EngineAssumption DEF TaskSet
    <3> QED
      BY <1>1, <1>3, <2>1, <3>1 DEF TaskSet, Places, Body
  <2>2. ASSUME NEW result \in {"ok", "abort"},
               r = [task[d] EXCEPT !.at = "post", !.stack = Pop(d), !.result = result]
        PROVE  /\ r \in TaskSet /\ r.stack = Pop(d)
               /\ r.at = "post" /\ r.result \in {"ok", "abort"}
               /\ r.named = task[d].named /\ r.event = task[d].event
               /\ r.locked = task[d].locked
    BY <1>1, <1>3, <2>2 DEF TaskSet, Places, Body, Results
  <2> QED
    BY <2>1, <2>2
<1>5. task'[d] = r /\ task' \in [Deliveries -> TaskSet]
      /\ \A u \in Deliveries \ {d} : task'[u] = task[u]
  BY <1>1, <1>4
<1>6. Depth(d)' = 1 /\ Top(d)' = Base(d) /\ Base(d)' = Base(d)
  BY <1>3, <1>4, <1>5 DEF Depth, Base, Top
<1> QED
  BY <1>4, <1>5, <1>6 DEF Pops, Moved

LEMMA GoStays ==
  ASSUME Fitting, NEW d \in Deliveries, NEW place \in Places, Go(d, place)
  PROVE  /\ Stays(d) /\ task'[d].at = place
         /\ task'[d].named = task[d].named /\ task'[d].result = task[d].result
<1>1. task[d] \in TaskSet /\ task \in [Deliveries -> TaskSet]
  BY DEF Fitting, Typed
<1> DEFINE r == [task[d] EXCEPT !.at = place]
<1>2. task' = [task EXCEPT ![d] = r]
  BY <1>1 DEF Go
<1>3. /\ r \in TaskSet /\ r.at = place /\ r.result = task[d].result
      /\ r.named = task[d].named
      /\ r.stack = task[d].stack /\ r.event = task[d].event
      /\ r.locked = task[d].locked /\ r.tries = task[d].tries
  BY <1>1 DEF TaskSet
<1> HIDE DEF r
<1>4. task'[d] = r /\ task' \in [Deliveries -> TaskSet]
      /\ \A u \in Deliveries \ {d} : task'[u] = task[u]
  BY <1>1, <1>2, <1>3
<1> QED
  BY <1>3, <1>4 DEF Stays, Moved

\* Variables a step of a task may leave to the end of its lemma.
LEMMA BodySteps ==
  ASSUME Fitting, NEW d \in Deliveries, task[d].at \in Body, BoxTyped', lock' = lock,
         Saved',
         \/ Exits(d)
         \/ /\ Stays(d) /\ task'[d].at \in Body
            /\ task'[d].at = "return" => Depth(d) = 2
            /\ task'[d].at \in {"act", "post", "save"} => ~AtEnd(Top(d))
            /\ task'[d].at = "save" => task'[d].result \in Waits
            /\ /\ task'[d].at \in {"post", "save"}
               /\ task'[d].result \in Waits \cup {"stop"}
               => Top(d).plan.kind # "grn_confirmed"
         \/ Advances(d) /\ task[d].at = "post"
         \/ Pushes(d) /\ At(d, "resume") /\ pending # None
         \/ Pops(d) /\ Depth(d) = 2
  PROVE  Fitting'
<1>1. \A u \in Deliveries \ {d} : task[u].locked => lock' = u
  BY LocksKept
<1>2. Moved(d)
  BY DEF Exits, Stays, Advances, Pushes, Pops
<1>3. task[d].at \notin Over \cup {"idle"} /\ Depth(d) > 0
  BY InBody DEF Body, Over
<1>4. task'[d].locked => lock' = d
  BY DEF Fitting, Fits, Exits, Stays, Advances, Pushes, Pops
<1>5. Fits(d)'
  BY <1>3, <1>4, FitsExits, FitsStays, FitsAdvances, FitsPushes, FitsPops
<1> QED
  BY <1>1, <1>2, <1>3, <1>5, FittingKept DEF Moved

LEMMA RowTyped ==
  ASSUME Fitting, NEW d \in Deliveries, task[d].at \in Body, ~AtEnd(Top(d))
  PROVE  Row(d) \subseteq Keys
BY InBody DEF Row

LEMMA PreWriteMoves ==
  ASSUME Fitting, NEW d \in Deliveries, PreWrite(d)
  PROVE  /\ Fitting' /\ Stays(d) /\ task'[d].at = "act"
         /\ task'[d].named = task[d].named
<1>1. task[d].at = "pre" /\ ~AtEnd(Top(d)) /\ Go(d, "act") /\ "act" \in Places
  BY DEF PreWrite, Places, Body
<1>2. Stays(d) /\ task'[d].at = "act" /\ task'[d].named = task[d].named
  BY <1>1, GoStays
<1>3. Row(d) \subseteq Keys
  BY <1>1, RowTyped DEF Body
<1>4. BoxTyped'
  BY <1>3 DEF PreWrite, boxVars, histVars, Fitting, Typed, BoxTyped
<1>5. Saved'
  BY <1>1, <1>2, SavedKept DEF Stays, Over, PreWrite, boxVars
<1> QED
  BY <1>1, <1>2, <1>4, <1>5, BodySteps DEF PreWrite, Body

LEMMA FaultTyped ==
  ASSUME Fitting, Fault
  PROVE  faults' \in 0..MaxFaults
BY EngineAssumption DEF Fault, Fitting, Typed, BoxTyped

LEMMA PreWriteFailsMoves ==
  ASSUME Fitting, NEW d \in Deliveries, PreWriteFails(d)
  PROVE  /\ Fitting' /\ task[d].at = "pre"
         /\ \/ Depth(d) = 1 /\ Exits(d)
            \/ /\ Depth(d) = 2 /\ Stays(d) /\ task'[d].at = "return"
               /\ task'[d].named = task[d].named
<1>1. task[d].at = "pre" /\ task' = [task EXCEPT ![d] = Left(task[d])]
  BY DEF PreWriteFails, AfterFailedPreWrite
<1>e. Depth(d) \in 1..2
  BY <1>1, InBody DEF Body
<1>d. Depth(d) = 1 \/ Depth(d) = 2
  BY <1>e
<1>2. \/ Depth(d) = 1 /\ Exits(d)
      \/ /\ Depth(d) = 2 /\ Stays(d) /\ task'[d].at = "return"
         /\ task'[d].named = task[d].named
  BY <1>1, <1>d, LeaveMoves
<1>3. BoxTyped'
  BY FaultTyped DEF PreWriteFails, rows, boxVars, histVars, Fitting, Typed, BoxTyped
<1>4. Saved'
  BY <1>1, <1>2, SavedKept DEF Exits, Stays, Over, PreWriteFails, boxVars
<1> QED
  BY <1>1, <1>2, <1>3, <1>4, BodySteps DEF PreWriteFails, Body

LEMMA RanTyped ==
  ASSUME Fitting, NEW d \in Deliveries, task[d].at = "act", NEW f, f = Top(d),
         ran' = [ran EXCEPT ![f.plan.of] = Append(@, f.plan.from + f.step)]
  PROVE  ran' \in [Deliveries -> Seq(Nat)]
<1>1. ran \in [Deliveries -> Seq(Nat)] /\ f \in Frames /\ ~AtEnd(f)
  BY InBody DEF Fitting, Typed, BoxTyped, Body
<1>2. f.plan.from + f.step \in 0..7
  BY <1>1, DueAction
<1>3. f.plan.of \in Deliveries
  BY <1>1, FrameFacts
<1> QED
  BY <1>1, <1>2, <1>3

LEMMA DidSoMoves ==
  ASSUME Fitting, NEW d \in Deliveries, DidSo(d)
  PROVE  /\ Fitting' /\ Stays(d) /\ task'[d].at = "post"
         /\ task[d].at = "act" /\ Action(Top(d)) # "resume"
         /\ LET f == Top(d) IN
            ran' = [ran EXCEPT ![f.plan.of] = Append(@, f.plan.from + f.step)]
         /\ acted' = (IF task[d].named THEN acted \cup {Key(Top(d))} ELSE acted)
         /\ UNCHANGED <<rows, excused>> /\ pending' = pending
<1>1. PICK result \in Results, ctx \in Ctx :
        /\ Did(d, result, ctx) /\ task[d].at = "act" /\ Action(Top(d)) # "resume"
        /\ result \in Waits \cup {"stop"} => Top(d).plan.kind # "grn_confirmed"
        /\ exists' \in BOOLEAN /\ waiting' \in {waiting, None} /\ pending' = pending
  BY DEF DidSo
<1>2. Stays(d) /\ task'[d].at = "post" /\ task'[d].result = result
  BY <1>1, DidMoves
<1>3. LET f == Top(d) IN
      ran' = [ran EXCEPT ![f.plan.of] = Append(@, f.plan.from + f.step)]
  BY <1>1 DEF Did
<1>4. acted' = (IF task[d].named THEN acted \cup {Key(Top(d))} ELSE acted)
      /\ UNCHANGED <<lock, rows, excused, faults>>
  BY <1>1 DEF Did
<1>5. ran' \in [Deliveries -> Seq(Nat)]
  BY <1>1, <1>3, RanTyped
<1>6. Key(Top(d)) \in Keys /\ ~AtEnd(Top(d))
  BY <1>1, InBody DEF Body
<1>7. BoxTyped'
  BY <1>1, <1>4, <1>5, <1>6 DEF rows, Fitting, Typed, BoxTyped
<1>8. Saved'
  BY <1>1, <1>2, SavedKept DEF Stays, Over
<1>9. Fitting'
  BY <1>1, <1>2, <1>4, <1>6, <1>7, <1>8, BodySteps DEF Body
<1> QED
  BY <1>1, <1>2, <1>3, <1>4, <1>9

LEMMA ResumeSteps ==
  ASSUME Fitting, NEW d \in Deliveries, ResumePlan(d)
  PROVE  Fitting'
<1>1. /\ At(d, "resume") /\ pending' = None
      /\ IF pending = None
         THEN Stays(d) /\ task'[d].at = "post" /\ task'[d].result = "ok"
              /\ task'[d].named = task[d].named
         ELSE Pushes(d)
  BY ResumeMoves
<1>2. Key(Top(d)) \in Keys /\ ~AtEnd(Top(d)) /\ task[d].at = "act"
  BY <1>1, InBody DEF At, Body
<1>3. ran' \in [Deliveries -> Seq(Nat)]
  <2>1. CASE task[d].tries = 0
    BY <1>2, <2>1, RanTyped DEF ResumePlan
  <2>2. CASE task[d].tries # 0
    BY <2>2 DEF ResumePlan, Fitting, Typed, BoxTyped
  <2> QED
    BY <2>1, <2>2
<1>4. BoxTyped'
  BY <1>1, <1>2, <1>3 DEF ResumePlan, rows, Fitting, Typed, BoxTyped
<1>5. Saved'
  BY <1>1 DEF Saved
<1>6. lock' = lock
  BY DEF ResumePlan
<1> QED
  BY <1>1, <1>2, <1>4, <1>5, <1>6, BodySteps DEF Body, Waits

LEMMA PostWriteMoves ==
  ASSUME Fitting, NEW d \in Deliveries, PostWrite(d) \/ PostWriteFails(d)
  PROVE  /\ Fitting'
         /\ \/ Depth(d) = 1 /\ Exits(d)
            \/ /\ Depth(d) = 2 /\ Stays(d) /\ task'[d].at = "return"
               /\ task'[d].named = task[d].named
            \/ /\ Stays(d) /\ task'[d].at = "save"
               /\ task'[d].named = task[d].named
            \/ Advances(d)
<1>1. task[d].at = "post" /\ Continue(d)
  BY DEF PostWrite, PostWriteFails
<1>2. \/ Depth(d) = 1 /\ Exits(d)
      \/ /\ Depth(d) = 2 /\ Stays(d) /\ task'[d].at = "return"
         /\ task'[d].named = task[d].named
      \/ /\ Stays(d) /\ task'[d].at = "save" /\ task[d].result \in Waits
         /\ task'[d].named = task[d].named /\ task'[d].result = task[d].result
      \/ Advances(d)
  BY <1>1, ContinueMoves
<1>3. Row(d) \subseteq Keys /\ Key(Top(d)) \in Keys /\ ~AtEnd(Top(d)) /\ Fits(d)
  BY <1>1, InBody, RowTyped DEF Body
<1>4. BoxTyped'
  <2>1. CASE PostWrite(d)
    BY <1>3, <2>1 DEF PostWrite, boxVars, histVars, Fitting, Typed, BoxTyped
  <2>2. CASE PostWriteFails(d)
    BY <1>3, <2>2, FaultTyped DEF PostWriteFails, boxVars, rows, Fitting, Typed, BoxTyped
  <2> QED
    BY <2>1, <2>2
<1>5. pending' = pending /\ lock' = lock
  BY DEF PostWrite, PostWriteFails, boxVars
<1>6. Saved'
  BY <1>1, <1>2, <1>5, SavedKept DEF Exits, Stays, Advances, Over
<1>7. task[d].result \in Waits => Top(d).plan.kind # "grn_confirmed"
  BY <1>1, <1>3, InBody DEF Fits, Body
<1> QED
  BY <1>1, <1>2, <1>3, <1>4, <1>5, <1>6, <1>7, BodySteps DEF Body

LEMMA RestFacts ==
  ASSUME NEW f \in Frames, ~AtEnd(f), NEW rest, rest = RemainingFrom(f.plan, f.step + 1)
  PROVE  /\ rest.of = f.plan.of /\ rest.kind = f.plan.kind
         /\ rest.from = f.plan.from + f.step + 1
         /\ StepCount(rest) > 0 => rest \in Suffixes
<1>1. /\ f.plan \in [of : Deliveries, kind : Kinds, from : 0..7] /\ f.step \in 0..8
      /\ f.plan.from + f.step \in 0..7
  BY FrameFacts, SuffixForm, DueAction
<1>2. rest = [f.plan EXCEPT !.from = f.plan.from + f.step + 1]
  BY <1>1 DEF RemainingFrom
<1>3. /\ rest = [of |-> f.plan.of, kind |-> f.plan.kind,
                 from |-> f.plan.from + f.step + 1]
  BY <1>1, <1>2
<1>4. /\ rest.of = f.plan.of /\ rest.kind = f.plan.kind
      /\ rest.from = f.plan.from + f.step + 1
  BY <1>3
<1>5. ASSUME StepCount(rest) > 0 PROVE rest \in Suffixes
  <2>1. Len(Actions(f.plan.kind)) \in 1..8
    BY <1>1, PlanFacts
  <2>2. StepCount(rest) = Len(Actions(f.plan.kind)) - rest.from
    BY <1>4 DEF StepCount
  <2>3. rest.from \in 1..8
    BY <1>1, <1>4
  <2>4. rest.from \in 0..7
    <3>1. \A n \in 1..8, k \in 1..8 : n - k > 0 => k \in 0..7
      OBVIOUS
    <3> QED
      BY <1>5, <2>1, <2>2, <2>3, <3>1
  <2> QED
    BY <1>1, <1>3, <1>4, <2>4, SuffixForm
<1> QED
  BY <1>4, <1>5

\* The wait and the rest of the plan, once saved.
LEMMA WaitSaved ==
  ASSUME Fitting, NEW d \in Deliveries, SavedWait(d), task[d].at = "save", Moved(d),
         Depth(d) = 1 => task'[d].at \in Over
  PROVE  /\ waiting' \in Waits /\ pending' \in Suffixes \cup {None} /\ Saved'
         /\ \/ pending' = pending
            \/ /\ pending' \in Suffixes /\ pending'.of = Top(d).plan.of
               /\ pending'.from = Top(d).plan.from + Top(d).step + 1
<1>1. /\ Top(d) \in Frames /\ ~AtEnd(Top(d)) /\ Fits(d) /\ Depth(d) \in 1..2
      /\ Top(d).plan.of \in Deliveries
  BY InBody DEF Body
<1> DEFINE rest == RemainingFrom(Top(d).plan, Top(d).step + 1)
<1>2. /\ rest.of = Top(d).plan.of /\ rest.kind = Top(d).plan.kind
      /\ rest.from = Top(d).plan.from + Top(d).step + 1
      /\ StepCount(rest) > 0 => rest \in Suffixes
  BY <1>1, RestFacts
<1>3. waiting' \in Waits /\ Top(d).plan.kind # "grn_confirmed"
  BY <1>1 DEF Fits, SavedWait
<1>4. CASE StepCount(rest) > 0
  <2>1. pending' = rest
    BY <1>4 DEF SavedWait
  <2>2. task'[Top(d).plan.of].at \in Over
    <3>1. CASE Depth(d) = 1
      BY <1>1, <3>1, TaskTyped DEF Fits
    <3>2. CASE Depth(d) = 2
      BY <1>1, <3>2 DEF Fits, Moved, Over
    <3> QED
      BY <1>1, <3>1, <3>2
  <2> HIDE DEF rest
  <2>3. Saved'
    <3>1. StepCount(pending)' = StepCount(rest)
      BY <2>1 DEF StepCount
    <3> QED
      BY <1>2, <1>3, <1>4, <2>1, <2>2, <3>1 DEF Saved
  <2> QED
    BY <1>2, <1>3, <1>4, <2>1, <2>3
<1>5. CASE ~(StepCount(rest) > 0)
  <2>1. pending' = pending
    BY <1>5 DEF SavedWait
  <2>2. Saved'
    BY <2>1, SavedKept DEF Over
  <2> QED
    BY <1>3, <2>1, <2>2 DEF Fitting, Typed, BoxTyped
<1> QED
  BY <1>4, <1>5

LEMMA SaveWaitMoves ==
  ASSUME Fitting, NEW d \in Deliveries, SaveWait(d)
  PROVE  /\ Fitting' /\ task[d].at = "save"
         /\ \/ Depth(d) = 1 /\ Exits(d)
            \/ /\ Depth(d) = 2 /\ Stays(d) /\ task'[d].at = "return"
               /\ task'[d].named = task[d].named
         /\ \/ pending' = pending
            \/ /\ pending' \in Suffixes /\ pending'.of = Top(d).plan.of
               /\ pending'.from = Top(d).plan.from + Top(d).step + 1
<1>1. /\ task[d].at = "save" /\ task' = [task EXCEPT ![d] = Left(task[d])]
      /\ SavedWait(d)
  BY DEF SaveWait, Leave
<1>e. Depth(d) \in 1..2
  BY <1>1, InBody DEF Body
<1>2. Depth(d) = 1 \/ Depth(d) = 2
  BY <1>e
<1>3. \/ Depth(d) = 1 /\ Exits(d)
      \/ /\ Depth(d) = 2 /\ Stays(d) /\ task'[d].at = "return"
         /\ task'[d].named = task[d].named
  BY <1>1, <1>2, LeaveMoves
<1>4. /\ waiting' \in Waits /\ pending' \in Suffixes \cup {None} /\ Saved'
      /\ \/ pending' = pending
         \/ /\ pending' \in Suffixes /\ pending'.of = Top(d).plan.of
            /\ pending'.from = Top(d).plan.from + Top(d).step + 1
  BY <1>1, <1>3, WaitSaved DEF Exits, Stays
<1>5. BoxTyped'
  BY <1>4 DEF SaveWait, rows, histVars, Fitting, Typed, BoxTyped
<1> QED
  BY <1>1, <1>3, <1>4, <1>5, BodySteps DEF SaveWait, Body

LEMMA CompleteMoves ==
  ASSUME Fitting, NEW d \in Deliveries, Complete(d)
  PROVE  /\ Fitting' /\ task[d].at = "pre" /\ AtEnd(Top(d))
         /\ \/ Depth(d) = 1 /\ Exits(d)
            \/ /\ Depth(d) = 2 /\ Stays(d) /\ task'[d].at = "return"
               /\ task'[d].named = task[d].named
         /\ pending' \in {pending, None}
<1>1. /\ task[d].at = "pre" /\ task' = [task EXCEPT ![d] = Left(task[d])]
      /\ AtEnd(Top(d))
  BY DEF Complete, Leave
<1>e. Depth(d) \in 1..2
  BY <1>1, InBody DEF Body
<1>2. Depth(d) = 1 \/ Depth(d) = 2
  BY <1>e
<1>3. \/ Depth(d) = 1 /\ Exits(d)
      \/ /\ Depth(d) = 2 /\ Stays(d) /\ task'[d].at = "return"
         /\ task'[d].named = task[d].named
  BY <1>1, <1>2, LeaveMoves
<1>4. pending' \in {pending, None}
  BY DEF Complete
<1>5. BoxTyped'
  BY <1>4, FaultTyped DEF Complete, rows, histVars, Fitting, Typed, BoxTyped
<1>6. Saved'
  BY <1>1, <1>3, <1>4, SavedKept DEF Exits, Stays, Over
<1> QED
  BY <1>1, <1>3, <1>4, <1>5, <1>6, BodySteps DEF Complete, Body

LEMMA ReturnMoves ==
  ASSUME Fitting, NEW d \in Deliveries, Return(d)
  PROVE  /\ Fitting' /\ Pops(d) /\ Depth(d) = 2 /\ task'[d].at = "post"
<1>1. task[d].at = "return" /\ Depth(d) = 2
  BY DEF Return, Fitting, Fits
<1> DEFINE r == [task[d] EXCEPT !.at = "post", !.stack = Pop(d), !.result = "ok"]
<1>2. task[d] \in TaskSet /\ task \in [Deliveries -> TaskSet]
  BY DEF Fitting, Typed
<1>3. task' = [task EXCEPT ![d] = r]
  BY <1>2 DEF Return, TaskSet
<1>4. Pops(d)
  BY <1>1, <1>3, PopMoves
<1>5. task'[d].at = "post"
  BY <1>2, <1>3 DEF TaskSet
<1>6. BoxTyped'
  BY DEF Return, boxVars, rows, histVars, Fitting, Typed, BoxTyped
<1>7. Saved'
  BY <1>1, <1>4, SavedKept DEF Pops, Over, Return, boxVars
<1> QED
  BY <1>1, <1>4, <1>5, <1>6, <1>7, BodySteps DEF Return, Body

LEMMA UnwindMoves ==
  ASSUME Fitting, NEW d \in Deliveries, Unwind(d), task[d].at \in Body
  PROVE  \/ Depth(d) = 1 /\ Exits(d) /\ Leave(d)
         \/ /\ Depth(d) = 2 /\ Pops(d)
            /\ task'[d].at = "act" => task'[d].tries > 0
<1>1. task[d] \in TaskSet /\ task \in [Deliveries -> TaskSet] /\ Depth(d) \in 1..2
  BY InBody DEF Fitting, Typed
<1>2. Nested(d) <=> Depth(d) = 2
  BY DEF Nested, Depth
<1>3. CASE ~Nested(d)
  <2>1. task' = [task EXCEPT ![d] = Left(task[d])]
    BY <1>3 DEF Unwind, Leave
  <2>2. Depth(d) = 1 /\ Depth(d) # 2
    BY <1>1, <1>2, <1>3
  <2>3. Exits(d)
    BY <2>1, <2>2, LeaveMoves
  <2> QED
    BY <1>3, <2>2, <2>3 DEF Unwind
<1>4. CASE /\ Nested(d) /\ TriesLeft(d)
           /\ task' = [task EXCEPT ![d].at = "act", ![d].stack = Pop(d),
                                   ![d].tries = @ + 1]
  <2> DEFINE r == [task[d] EXCEPT !.at = "act", !.stack = Pop(d), !.tries = @ + 1]
  <2>1. task' = [task EXCEPT ![d] = r]
    BY <1>1, <1>4 DEF TaskSet
  <2>2. task[d].tries < MaxTries
    BY <1>4 DEF TriesLeft
  <2>3. Pops(d) /\ (task'[d].at = "act" => task'[d].tries > 0)
    BY <1>2, <1>4, <2>1, <2>2, PopMoves
  <2> QED
    BY <1>2, <1>4, <2>3
<1>5. CASE /\ Nested(d)
           /\ task' = [task EXCEPT ![d].at = "post", ![d].stack = Pop(d),
                                   ![d].result = "abort"]
  <2> DEFINE r == [task[d] EXCEPT !.at = "post", !.stack = Pop(d), !.result = "abort"]
  <2>1. task' = [task EXCEPT ![d] = r]
    BY <1>1, <1>5 DEF TaskSet
  <2>2. Pops(d) /\ (task'[d].at = "act" => task'[d].tries > 0)
    BY <1>2, <1>5, <2>1, PopMoves
  <2> QED
    BY <1>2, <1>5, <2>2
<1> QED
  BY <1>3, <1>4, <1>5 DEF Unwind

\* What a time-out writes besides the task.
LEMMA TimeOutWrites ==
  ASSUME Fitting, NEW d \in Deliveries, ResumeTimesOut(d)
  PROVE  /\ Depth(d) = 2 /\ task[d].at \in Body
         /\ \/ opened' = opened
            \/ /\ opened' = opened \cup {Key(Top(d))} /\ Key(Top(d)) \in excused'
               /\ task[d].at = "pre" /\ ~AtEnd(Top(d))
         /\ closed \subseteq closed' /\ closed' \subseteq Keys
         /\ excused \subseteq excused' /\ excused' \subseteq Keys
         /\ task[d].at \in {"act", "post"} => Key(Top(d)) \in closed'
         /\ \/ UNCHANGED waiting /\ pending' \in {pending, None}
            \/ task[d].at = "save" /\ SavedWait(d)
<1>1. Depth(d) = 2 /\ task[d].at \in Body
  BY DEF ResumeTimesOut, Nested, Depth
<1>2. Fits(d) /\ (~AtEnd(Top(d)) => Key(Top(d)) \in Keys)
      /\ (task[d].at \in {"act", "post"} => ~AtEnd(Top(d)))
  BY <1>1, InBody
<1>3. Row(d) = {Key(Top(d))} /\ Cancelled(d) = {Key(Top(d))}
  BY <1>1, <1>2 DEF Fits, Row, Cancelled
<1>4. closed \subseteq Keys /\ excused \subseteq Keys
  BY DEF Fitting, Typed, BoxTyped
<1> DEFINE k == Key(Top(d))
<1>5. \/ /\ task[d].at \in {"act", "post"}
         /\ closed' = closed \cup {k} /\ opened' = opened /\ excused' = excused
         /\ waiting' = waiting /\ pending' = pending
      \/ /\ task[d].at = "pre" /\ ~AtEnd(Top(d)) /\ closed' = closed
         /\ \/ opened' = opened \cup {k} /\ excused' = excused \cup {k}
            \/ opened' = opened /\ excused' = excused
         /\ waiting' = waiting /\ pending' = pending
      \/ /\ task[d].at \in {"pre", "save", "return"}
         /\ closed' = closed /\ opened' = opened /\ excused' = excused
         /\ \/ waiting' = waiting /\ pending' \in {pending, None}
            \/ task[d].at = "save" /\ SavedWait(d)
  BY <1>3, Zenon DEF ResumeTimesOut, rows
<1> HIDE DEF k
<1>6. /\ \/ opened' = opened
         \/ /\ opened' = opened \cup {k} /\ k \in excused'
            /\ task[d].at = "pre" /\ ~AtEnd(Top(d))
      /\ closed \subseteq closed' /\ excused \subseteq excused'
      /\ task[d].at \in {"act", "post"} => k \in closed'
      /\ \/ waiting' = waiting /\ pending' \in {pending, None}
         \/ task[d].at = "save" /\ SavedWait(d)
  BY <1>5
<1>8. /\ closed' \subseteq Keys
      /\ excused' \subseteq Keys
  BY <1>2, <1>4, <1>5 DEF k
<1> QED
  BY <1>1, <1>6, <1>8 DEF k

LEMMA TimeOutMoves ==
  ASSUME Fitting, NEW d \in Deliveries, ResumeTimesOut(d)
  PROVE  /\ Fitting' /\ Pops(d)
         /\ task'[d].at = "act" => task'[d].tries > 0
         /\ \/ pending' \in {pending, None}
            \/ /\ pending' \in Suffixes /\ pending'.of = Top(d).plan.of
               /\ pending'.from = Top(d).plan.from + Top(d).step + 1
               /\ task[d].at = "save"
<1>1. Depth(d) = 2 /\ task[d].at \in Body
  BY TimeOutWrites
<1>2. Depth(d) # 1 /\ Unwind(d)
  BY <1>1 DEF ResumeTimesOut
<1>3. Pops(d) /\ (task'[d].at = "act" => task'[d].tries > 0)
  BY <1>1, <1>2, UnwindMoves
<1>4. task[d].at \notin Over /\ Moved(d)
  BY <1>1, <1>3 DEF Body, Over, Pops
<1>5. /\ waiting' \in Waits \cup {None} /\ pending' \in Suffixes \cup {None} /\ Saved'
      /\ \/ pending' \in {pending, None}
         \/ /\ pending' \in Suffixes /\ pending'.of = Top(d).plan.of
            /\ pending'.from = Top(d).plan.from + Top(d).step + 1
            /\ task[d].at = "save"
  <2>1. CASE UNCHANGED waiting /\ pending' \in {pending, None}
    <3>1. Saved'
      BY <1>4, <2>1, SavedKept
    <3> QED
      BY <2>1, <3>1 DEF Fitting, Typed, BoxTyped
  <2>2. CASE task[d].at = "save" /\ SavedWait(d)
    BY <1>2, <1>4, <2>2, WaitSaved
  <2> QED
    BY <2>1, <2>2, TimeOutWrites
<1>6. opened' \subseteq Keys /\ closed' \subseteq Keys /\ excused' \subseteq Keys
  <2>1. opened \subseteq Keys
    BY DEF Fitting, Typed, BoxTyped
  <2> QED
    BY <1>1, <2>1, TimeOutWrites, InBody
<1>7. BoxTyped'
  BY <1>5, <1>6 DEF ResumeTimesOut, Fitting, Typed, BoxTyped
<1>8. lock' = lock
  BY DEF ResumeTimesOut
<1> QED
  BY <1>1, <1>3, <1>5, <1>7, <1>8, BodySteps

LEMMA RaiseMoves ==
  ASSUME Fitting, NEW d \in Deliveries, BodyRaises(d)
  PROVE  /\ Fitting' /\ task[d].at \in {"act", "save"}
         /\ \/ Depth(d) = 1 /\ Exits(d)
            \/ Depth(d) = 2 /\ Pops(d) /\ (task'[d].at = "act" => task'[d].tries > 0)
<1>1. task[d].at \in {"act", "save"} /\ task[d].at \in Body
  BY DEF BodyRaises, At, Body
<1>2. \/ Depth(d) = 1 /\ Exits(d)
      \/ Depth(d) = 2 /\ Pops(d) /\ (task'[d].at = "act" => task'[d].tries > 0)
  BY <1>1, UnwindMoves DEF BodyRaises
<1>3. Key(Top(d)) \in Keys
  BY <1>1, InBody
<1>4. BoxTyped'
  BY <1>3, FaultTyped DEF BodyRaises, boxVars, rows, Fitting, Typed, BoxTyped
<1>5. Saved'
  BY <1>1, <1>2, SavedKept DEF BodyRaises, boxVars, Over, Exits, Pops
<1>6. lock' = lock
  BY DEF BodyRaises
<1> QED
  BY <1>1, <1>2, <1>4, <1>5, <1>6, BodySteps

LEMMA SavedExits ==
  ASSUME Fitting, NEW d \in Deliveries, Exits(d), pending' = pending
  PROVE  Saved'
<1>1. CASE pending = None
  BY <1>1 DEF Saved
<1>2. CASE pending # None
  <2>1. pending.of \in Deliveries /\ task[pending.of].at \in Over
    BY <1>2, SuffixForm DEF Fitting, Typed, BoxTyped, Saved
  <2>2. task'[pending.of].at \in Over
    BY <2>1 DEF Exits, Moved
  <2>3. StepCount(pending)' = StepCount(pending)
    BY DEF StepCount
  <2> QED
    BY <1>2, <2>2, <2>3 DEF Fitting, Saved
<1> QED
  BY <1>1, <1>2

LEMMA CrashMoves ==
  ASSUME Fitting, NEW d \in Deliveries, Crash(d)
  PROVE  /\ Fitting' /\ Exits(d)
         /\ excused' = excused \cup
              {Key(task[d].stack[i]) : i \in {j \in 1..Depth(d) :
                                                ~AtEnd(task[d].stack[j])}}
<1>1. task[d].at # "idle" /\ task' = [task EXCEPT ![d] = Finished(task[d])]
      /\ task[d].at \in Body \cup {"lock", "unlock"}
  BY DEF Crash, Body
<1>2. Exits(d) /\ task'[d].at = "done" /\ ~task'[d].locked
  <2>1. task[d] \in TaskSet /\ task \in [Deliveries -> TaskSet]
    BY DEF Fitting, Typed
  <2> QED
    BY <1>1, <2>1, FinishedExits, FinishedFields
<1>3. DOMAIN task[d].stack = 1..Depth(d)
  BY DEF Fitting, Typed, TaskSet, Depth
<1>4. excused' = excused \cup
              {Key(task[d].stack[i]) : i \in {j \in 1..Depth(d) :
                                                ~AtEnd(task[d].stack[j])}}
  BY <1>3 DEF Crash
<1>5. excused' \subseteq Keys
  <2>1. \A i \in 1..Depth(d) : ~AtEnd(task[d].stack[i]) => Key(task[d].stack[i]) \in Keys
    BY TopFacts
  <2> QED
    BY <1>4, <2>1 DEF Fitting, Typed, BoxTyped
<1>6. BoxTyped'
  BY <1>5, FaultTyped DEF Crash, boxVars, rows, Fitting, Typed, BoxTyped
<1>7. Saved'
  BY <1>2, SavedExits DEF Crash, boxVars
<1>8. \A u \in Deliveries \ {d} : task[u].locked => lock' = u
  BY DEF Crash, Fitting, Fits
<1>9. Fits(d)'
  BY <1>1, <1>2, FitsExits
<1> QED
  BY <1>2, <1>4, <1>6, <1>7, <1>8, <1>9, FittingKept DEF Exits, Moved

LEMMA UnlockMoves ==
  ASSUME Fitting, NEW d \in Deliveries, Unlock(d)
  PROVE  Fitting' /\ Exits(d)
<1>1. /\ task[d].at = "unlock" /\ task' = [task EXCEPT ![d] = Finished(task[d])]
      /\ lock' = None
  BY DEF Unlock, ReleasedLock
<1>2. Exits(d) /\ ~task'[d].locked
  <2>1. task[d] \in TaskSet /\ task \in [Deliveries -> TaskSet]
    BY DEF Fitting, Typed
  <2> QED
    BY <1>1, <2>1, FinishedExits, FinishedFields
<1>3. lock = d /\ task[d].at # "idle"
  BY <1>1 DEF Fitting, Fits
<1>4. \A u \in Deliveries \ {d} : task[u].locked => lock' = u
  BY <1>3 DEF Fitting, Fits
<1>5. BoxTyped'
  BY <1>1 DEF Unlock, boxVars, rows, histVars, Fitting, Typed, BoxTyped
<1>6. Saved'
  BY <1>2, SavedExits DEF Unlock, boxVars
<1>7. Fits(d)'
  BY <1>2, <1>3, FitsExits
<1> QED
  BY <1>2, <1>4, <1>5, <1>6, <1>7, FittingKept DEF Exits, Moved

LEMMA LockHeldMoves ==
  ASSUME Fitting, NEW d \in Deliveries, LockHeld(d)
  PROVE  Fitting' /\ Exits(d)
<1>1. /\ task[d].at = "lock" /\ task' = [task EXCEPT ![d] = Finished(task[d])]
      /\ lock' = lock
  BY DEF LockHeld
<1>2. Exits(d) /\ ~task'[d].locked
  <2>1. task[d] \in TaskSet /\ task \in [Deliveries -> TaskSet]
    BY DEF Fitting, Typed
  <2> QED
    BY <1>1, <2>1, FinishedExits, FinishedFields
<1>3. \A u \in Deliveries \ {d} : task[u].locked => lock' = u
  BY <1>1, LocksKept
<1>4. BoxTyped'
  BY DEF LockHeld, boxVars, rows, histVars, Fitting, Typed, BoxTyped
<1>5. Saved'
  BY <1>2, SavedExits DEF LockHeld, boxVars
<1>6. Fits(d)'
  BY <1>1, <1>2, FitsExits
<1> QED
  BY <1>2, <1>3, <1>4, <1>5, <1>6, FittingKept DEF Exits, Moved

\* A task at the lock has its own plan, of which nothing ran.
LEMMA AtLock ==
  ASSUME Fitting, NEW d \in Deliveries, task[d].at = "lock"
  PROVE  Depth(d) = 1 /\ Fits(d) /\ ~AtEnd(Top(d)) /\ task[d].event # None
<1>1. Fits(d) /\ Depth(d) \in 0..2
  BY TaskTyped DEF Fitting
<1>2. Depth(d) # 0 /\ Depth(d) # 2
  BY <1>1 DEF Fits, Over, Body
<1> QED
  BY <1>1, <1>2 DEF Fits

LEMMA AcquireLockMoves ==
  ASSUME Fitting, NEW d \in Deliveries, AcquireLock(d)
  PROVE  /\ Fitting' /\ Moved(d) /\ task'[d].at = "pre"
         /\ task'[d].stack = task[d].stack /\ task'[d].named = task[d].named
         /\ task[d].at = "lock" /\ task'[d].tries = task[d].tries
<1>1. /\ task[d].at = "lock" /\ lock = None /\ lock' = d
      /\ task' = [task EXCEPT ![d].at = "pre", ![d].locked = TRUE]
  BY DEF AcquireLock, LockFree
<1> DEFINE r == [task[d] EXCEPT !.at = "pre", !.locked = TRUE]
<1>2. task[d] \in TaskSet /\ task \in [Deliveries -> TaskSet]
  BY DEF Fitting, Typed
<1>3. task' = [task EXCEPT ![d] = r]
  BY <1>1, <1>2
<1>4. /\ r \in TaskSet /\ r.at = "pre" /\ r.stack = task[d].stack
      /\ r.event = task[d].event /\ r.named = task[d].named
      /\ r.tries = task[d].tries
  BY <1>2 DEF TaskSet, Places, Body
<1> HIDE DEF r
<1>5. task'[d] = r /\ Moved(d)
  BY <1>2, <1>3, <1>4 DEF Moved
<1>6. \A u \in Deliveries \ {d} : task[u].locked => lock' = u
  BY <1>1, EngineAssumption DEF Fitting, Fits, Deliveries
<1>7. BoxTyped'
  BY <1>1 DEF AcquireLock, boxVars, rows, histVars, Fitting, Typed, BoxTyped
<1>8. Saved'
  BY <1>1, <1>5, SavedKept DEF AcquireLock, boxVars, Over
<1>9. Depth(d)' = Depth(d) /\ Base(d)' = Base(d) /\ Top(d)' = Top(d)
  BY <1>4, <1>5 DEF Depth, Base, Top
<1>10. AtEnd(Base(d))' = AtEnd(Base(d)) /\ Action(Base(d))' = Action(Base(d))
  BY <1>9 DEF AtEnd, Action
<1>11. Fits(d)'
  BY <1>1, <1>4, <1>5, <1>9, <1>10, AtLock DEF Fits, Over, Body
<1> QED
  BY <1>1, <1>4, <1>5, <1>6, <1>7, <1>8, <1>11, FittingKept DEF Moved, Over

LEMMA NoLockInfraMoves ==
  ASSUME Fitting, NEW d \in Deliveries, NoLockInfra(d)
  PROVE  /\ Fitting' /\ Moved(d) /\ task'[d].at = "pre"
         /\ task'[d].stack = task[d].stack /\ task'[d].named = task[d].named
         /\ task[d].at = "lock" /\ task'[d].tries = task[d].tries
<1>1. task[d].at = "lock" /\ Go(d, "pre") /\ "pre" \in Places /\ lock' = lock
  BY DEF NoLockInfra, Places, Body
<1>2. Stays(d) /\ task'[d].at = "pre" /\ task'[d].named = task[d].named
  BY <1>1, GoStays
<1>3. BoxTyped'
  BY FaultTyped DEF NoLockInfra, boxVars, rows, histVars, Fitting, Typed, BoxTyped
<1>4. Saved'
  BY <1>1, <1>2, SavedKept DEF NoLockInfra, boxVars, Over, Stays
<1>5. Fits(d)'
  BY <1>1, <1>2, AtLock, FitsStays DEF Body
<1>6. \A u \in Deliveries \ {d} : task[u].locked => lock' = u
  BY <1>1, LocksKept
<1> QED
  BY <1>1, <1>2, <1>3, <1>4, <1>5, <1>6, FittingKept DEF Moved, Over, Stays

LEMMA DispatchMoves ==
  ASSUME Fitting, NEW d \in Deliveries, Dispatch(d)
  PROVE  /\ Fitting' /\ Moved(d) /\ task'[d].at \in {"lock", "pre"}
         /\ task[d].at = "queued" /\ task'[d].tries = 0
         /\ Depth(d)' = 1 /\ Base(d)'.plan.of = d
<1> DEFINE sent  == KindOf[task[d].event]
           kind  == IF sent = "email" /\ exists THEN "reply" ELSE sent
           named == exists \/ sent # "email"
           place == IF named THEN "lock" ELSE "pre"
           plan  == Plan(d, kind, 0)
           r == [task[d] EXCEPT !.at = place, !.named = named,
                                !.stack = <<Frame(plan)>>]
<1>1. /\ task[d].at = "queued" /\ lock' = lock
      /\ task' = [task EXCEPT ![d].at = place, ![d].named = named,
                              ![d].stack = <<Frame(plan)>>]
  BY DEF Dispatch
<1>2. task[d] \in TaskSet /\ task \in [Deliveries -> TaskSet]
      /\ exists \in BOOLEAN /\ Fits(d)
  BY DEF Fitting, Typed, BoxTyped
<1>3. task[d].event \in Events /\ Depth(d) = 0 /\ task[d].tries = 0
  BY <1>1, <1>2 DEF Fits, TaskSet
<1>4. sent \in Kinds
  BY <1>3, EngineAssumption
<1>5. kind \in Kinds /\ named \in BOOLEAN /\ (~named => kind = "email")
  BY <1>2, <1>4 DEF Kinds
<1>6. place \in {"lock", "pre"}
  OBVIOUS
<1>7. task' = [task EXCEPT ![d] = r]
  BY <1>1, <1>2
<1> HIDE DEF sent, kind, named, place
<1>8. plan \in Suffixes /\ plan.of = d /\ plan.kind = kind /\ plan.from = 0
  BY <1>5 DEF Suffixes, Plan
<1>9. Frame(plan) \in Frames /\ Frame(plan).plan = plan /\ Frame(plan).step = 0
  BY <1>8 DEF Frame, Frames
<1>10. StepCount(plan) \in 1..8
  <2>1. Len(Actions(kind)) \in 1..8
    BY <1>5, PlanFacts
  <2>2. StepCount(plan) = Len(Actions(kind)) - 0
    BY <1>8 DEF StepCount
  <2>3. \A n \in 1..8 : n - 0 \in 1..8
    OBVIOUS
  <2> QED
    BY <2>1, <2>2, <2>3
<1> HIDE DEF plan
<1> DEFINE s == <<Frame(plan)>>
<1>s. s \in Seq(Frames) /\ Len(s) = 1 /\ s[1] = Frame(plan)
  BY <1>9
<1> HIDE DEF s
<1>11. /\ r \in TaskSet /\ r.at = place /\ r.stack = s
       /\ r.event = task[d].event /\ r.named = named
       /\ r.tries = task[d].tries /\ r.locked = task[d].locked
  BY <1>2, <1>5, <1>6, <1>s DEF TaskSet, Places, Body, s
<1> HIDE DEF r
<1>12. task'[d] = r /\ Moved(d)
  BY <1>2, <1>7, <1>11 DEF Moved
<1>13. Depth(d)' = 1 /\ Base(d)' = Frame(plan) /\ Top(d)' = Frame(plan)
  BY <1>11, <1>12, <1>s DEF Depth, Base, Top
<1>14. /\ Base(d)'.plan = plan /\ Top(d)'.plan = plan
       /\ Base(d)'.step = 0 /\ Top(d)'.step = 0
  BY <1>9, <1>13
<1>15. ~AtEnd(Top(d))' /\ Top(d)'.step <= StepCount(Top(d).plan)'
  <2>1. StepCount(Top(d).plan)' = StepCount(plan)
    BY <1>14 DEF StepCount
  <2> QED
    BY <1>10, <1>14, <2>1 DEF AtEnd
<1>16. Fits(d)'
  BY <1>1, <1>2, <1>3, <1>5, <1>6, <1>8, <1>11, <1>12, <1>13, <1>14, <1>15
     DEF Fits, Over, Body
<1>17. \A u \in Deliveries \ {d} : task[u].locked => lock' = u
  BY <1>1, LocksKept
<1>18. BoxTyped'
  BY DEF Dispatch, boxVars, rows, histVars, Fitting, Typed, BoxTyped
<1>19. Saved'
  BY <1>1, <1>12, SavedKept DEF Dispatch, boxVars, Over
<1> QED
  BY <1>1, <1>3, <1>6, <1>8, <1>11, <1>12, <1>13, <1>14, <1>16, <1>17, <1>18, <1>19,
     FittingKept DEF Moved, Over

LEMMA EnqueueMoves ==
  ASSUME Fitting, NEW e \in Events, Enqueue(e)
  PROVE  \E d \in Deliveries :
           /\ Fitting' /\ task[d].at = "idle" /\ task'[d].at = "queued"
           /\ \A u \in Deliveries \ {d} : task'[u] = task[u]
           /\ task'[d].stack = task[d].stack
<1>1. PICK d \in Deliveries :
        /\ task[d].at = "idle"
        /\ task' = [task EXCEPT ![d].at = "queued", ![d].event = e]
  BY DEF Enqueue
<1> DEFINE r == [task[d] EXCEPT !.at = "queued", !.event = e]
<1>2. task[d] \in TaskSet /\ task \in [Deliveries -> TaskSet] /\ Fits(d)
  BY DEF Fitting, Typed
<1>3. task' = [task EXCEPT ![d] = r]
  BY <1>1, <1>2
<1>4. /\ r \in TaskSet /\ r.at = "queued" /\ r.stack = task[d].stack /\ r.event = e
      /\ r.tries = task[d].tries /\ r.locked = task[d].locked
  BY <1>2 DEF TaskSet, Places
<1> HIDE DEF r
<1>5. /\ task'[d] = r /\ task' \in [Deliveries -> TaskSet]
      /\ \A u \in Deliveries \ {d} : task'[u] = task[u]
  BY <1>2, <1>3, <1>4
<1>6. lock' = lock /\ pending' = pending /\ BoxTyped'
  BY DEF Enqueue, boxVars, rows, histVars, Fitting, Typed, BoxTyped
<1>7. Saved'
  <2>1. CASE pending = None
    BY <1>6, <2>1 DEF Saved
  <2>2. CASE pending # None
    <3>1. pending.of \in Deliveries /\ task[pending.of].at \in Over
      BY <2>2, SuffixForm DEF Fitting, Typed, BoxTyped, Saved
    <3>2. pending.of # d
      BY <1>1, <3>1 DEF Over
    <3>3. task'[pending.of].at \in Over
      BY <1>5, <3>1, <3>2
    <3>4. StepCount(pending)' = StepCount(pending)
      BY <1>6 DEF StepCount
    <3> QED
      BY <1>6, <2>2, <3>3, <3>4 DEF Fitting, Saved
  <2> QED
    BY <2>1, <2>2
<1>8. Depth(d) = 0 /\ Depth(d)' = 0
  BY <1>1, <1>2, <1>4, <1>5 DEF Fits, Depth
<1>9. e # None
  BY EngineAssumption
<1>10. Fits(d)'
  BY <1>1, <1>2, <1>4, <1>5, <1>6, <1>8, <1>9 DEF Fits, Over, Body
<1>11. \A u \in Deliveries \ {d} : task[u].locked => lock' = u
  BY <1>6, LocksKept
<1>12. Fitting'
  BY <1>1, <1>5, <1>6, <1>7, <1>10, <1>11, FittingKept DEF Over
<1> QED
  BY <1>1, <1>4, <1>5, <1>12

-----------------------------------------------------------------------------
(* Fitting is an invariant.                                                *)

LEMMA InitFits == Init => Fitting
<1> SUFFICES ASSUME Init PROVE Fitting
  OBVIOUS
<1>1. task \in [Deliveries -> TaskSet]
  BY IdleTyped DEF Init
<1>2. BoxTyped
  <2>1. <<>> \in Seq(Nat)
    OBVIOUS
  <2>2. ran \in [Deliveries -> Seq(Nat)]
    BY <2>1 DEF Init
  <2>3. faults \in 0..MaxFaults
    BY EngineAssumption DEF Init
  <2> QED
    BY <2>2, <2>3 DEF Init, BoxTyped
<1>3. Saved
  BY DEF Init, Saved
<1>4. ASSUME NEW d \in Deliveries PROVE Fits(d)
  <2>1. task[d] = Idle
    BY DEF Init
  <2>2. /\ task[d].at = "idle" /\ task[d].event = None /\ Depth(d) = 0
        /\ task[d].tries = 0 /\ task[d].locked = FALSE
    BY <2>1 DEF Idle, Depth
  <2> QED
    BY <2>2 DEF Fits, Over, Body
<1> QED
  BY <1>1, <1>2, <1>3, <1>4 DEF Fitting, Typed

LEMMA StutterFits == Fitting /\ UNCHANGED vars => Fitting'
<1> SUFFICES ASSUME Fitting, UNCHANGED vars PROVE Fitting'
  OBVIOUS
<1>1. /\ task' = task /\ lock' = lock /\ pending' = pending
      /\ Typed'
  BY DEF vars, boxVars, rows, histVars, Fitting, Typed, BoxTyped
<1>2. Saved'
  BY <1>1 DEF Fitting, Saved, StepCount
<1>3. ASSUME NEW d \in Deliveries PROVE Fits(d)'
  <2>1. Fits(d) /\ Depth(d)' = Depth(d) /\ Base(d)' = Base(d) /\ Top(d)' = Top(d)
    BY <1>1 DEF Fitting, Depth, Base, Top
  <2>2. AtEnd(Base(d))' = AtEnd(Base(d)) /\ AtEnd(Top(d))' = AtEnd(Top(d))
        /\ Action(Base(d))' = Action(Base(d))
    BY <2>1 DEF AtEnd, Action
  <2> QED
    BY <1>1, <2>1, <2>2 DEF Fits
<1> QED
  BY <1>1, <1>2, <1>3 DEF Fitting

LEMMA NextFits == Fitting /\ Next => Fitting'
<1> SUFFICES ASSUME Fitting, Next PROVE Fitting'
  OBVIOUS
<1>1. ASSUME NEW e \in Events, Enqueue(e) PROVE Fitting'
  BY <1>1, EnqueueMoves
<1>2. ASSUME NEW d \in Deliveries, Dispatch(d) PROVE Fitting'
  BY <1>2, DispatchMoves
<1>3. ASSUME NEW d \in Deliveries, Step(d) PROVE Fitting'
  <2>1. ASSUME Act(d) PROVE Fitting'
    BY <2>1, ActShape, DidSoMoves, ResumeSteps
  <2> QED
    BY <1>3, <2>1, AcquireLockMoves, LockHeldMoves, PreWriteMoves, PostWriteMoves,
       SaveWaitMoves, CompleteMoves, ReturnMoves, UnlockMoves DEF Step
<1>4. ASSUME NEW d \in Deliveries,
             \/ ResumeTimesOut(d) \/ NoLockInfra(d) \/ PreWriteFails(d)
             \/ PostWriteFails(d) \/ BodyRaises(d) \/ Crash(d)
      PROVE  Fitting'
  BY <1>4, TimeOutMoves, NoLockInfraMoves, PreWriteFailsMoves, PostWriteMoves,
     RaiseMoves, CrashMoves
<1> QED
  BY <1>1, <1>2, <1>3, <1>4 DEF Next

\* Type correctness: the box, its timeline and the tasks, whatever events are
\* delivered, redelivered, resumed, timed out or lost in a crash (execute and
\* what it calls).
THEOREM TypeCorrect == Spec => []TypeOK
<1>1. Fitting => TypeOK
  <2> SUFFICES ASSUME Fitting PROVE TypeOK
    OBVIOUS
  <2>1. ASSUME NEW d \in Deliveries
        PROVE  /\ task[d].at \in {"idle", "queued", "lock", "unlock", "done"} \cup Body
               /\ task[d].event \in Events \cup {None}
               /\ Len(task[d].stack) <= 2
               /\ \A i \in DOMAIN task[d].stack : task[d].stack[i].plan \in Suffixes
               /\ task[d].result \in Results /\ task[d].tries \in 0..MaxTries
    <3>1. task[d] \in TaskSet /\ Depth(d) <= 2
      BY DEF Fitting, Typed, Fits
    <3>2. ASSUME NEW i \in DOMAIN task[d].stack
          PROVE  task[d].stack[i].plan \in Suffixes
      <4>1. i \in 1..Depth(d)
        BY <3>1, <3>2 DEF TaskSet, Depth
      <4> QED
        BY <4>1, TaskTyped, FrameFacts
    <3> QED
      BY <3>1, <3>2 DEF TaskSet, Places, Over, Depth
  <2> QED
    BY <2>1 DEF TypeOK, Fitting, Typed, BoxTyped
<1>2. Fitting /\ [Next]_vars => Fitting'
  BY StutterFits, NextFits
<1> QED
  BY <1>1, <1>2, InitFits, PTL DEF Spec

\* Mutual exclusion: of two tasks that run plans of the box at once, one runs
\* without the advisory lock (CoordinationEngine.execute).
THEOREM TakeTurns == Spec => []EnginesTakeTurns
<1>1. Fitting => EnginesTakeTurns
  BY DEF Fitting, Fits, EnginesTakeTurns
<1>2. Fitting /\ [Next]_vars => Fitting'
  BY StutterFits, NextFits
<1> QED
  BY <1>1, <1>2, InitFits, PTL DEF Spec

-----------------------------------------------------------------------------
(* The timeline: Rows is kept by every move.                               *)

Grows == opened \subseteq opened' /\ closed \subseteq closed' /\ excused \subseteq excused'

LEMMA KeySame ==
  ASSUME Fitting, NEW d \in Deliveries,
         \A u \in Deliveries \ {d} : task'[u] = task[u],
         task[d].at # "idle" => task'[d].event = task[d].event,
         NEW u \in Deliveries, NEW i \in 1..Depth(u),
         task'[u].stack[i] = task[u].stack[i]
  PROVE  /\ PlanKey(u, i)' = PlanKey(u, i)
         /\ AtEnd(task[u].stack[i])' = AtEnd(task[u].stack[i])
<1> DEFINE f == task[u].stack[i]
<1>1. f.plan.of \in Deliveries /\ task[f.plan.of].at # "idle"
  BY TopFacts
<1>2. task'[f.plan.of].event = task[f.plan.of].event
  BY <1>1
<1>3. task'[u].stack[i] = f
  OBVIOUS
<1> HIDE DEF f
<1>4. PlanKey(u, i)' = <<task'[f.plan.of].event, f.step, Action(f)>>
  BY <1>3 DEF PlanKey, Key, Action
<1>5. PlanKey(u, i) = <<task[f.plan.of].event, f.step, Action(f)>>
  BY DEF PlanKey, Key, f
<1>6. AtEnd(task[u].stack[i])' = AtEnd(f)
  BY <1>3 DEF AtEnd
<1> QED
  BY <1>2, <1>4, <1>5, <1>6 DEF f

LEMMA RowsKept ==
  ASSUME Fitting, Rows, NEW d \in Deliveries,
         \A u \in Deliveries \ {d} : task'[u] = task[u],
         task[d].at # "idle" => task'[d].event = task[d].event,
         Grows, acted' \subseteq opened',
         \A i \in 1..2 : Acting(d, i)' => PlanKey(d, i)' \in opened',
         \A i \in 1..2 : Under(d, i) =>
           \/ Under(d, i)' /\ PlanKey(d, i)' = PlanKey(d, i)
           \/ PlanKey(d, i) \in closed' \cup excused',
         \A k \in opened' \ opened :
           \/ \E i \in 1..2 : Under(d, i)' /\ PlanKey(d, i)' = k
           \/ k \in closed' \cup excused'
  PROVE  Rows'
<1>1. ASSUME NEW u \in Deliveries \ {d}, NEW i \in 1..2
      PROVE  /\ Under(u, i)' = Under(u, i) /\ Acting(u, i)' = Acting(u, i)
             /\ Under(u, i) => PlanKey(u, i)' = PlanKey(u, i)
  <2>1. task'[u] = task[u]
    OBVIOUS
  <2>2. Depth(u)' = Depth(u)
    BY <2>1 DEF Depth
  <2>3. Under(u, i)' = Under(u, i)
    BY <2>1, <2>2 DEF Under, AtEnd
  <2>4. Acting(u, i)' = Acting(u, i)
    BY <2>1, <2>2, <2>3 DEF Acting
  <2>5. Under(u, i) => PlanKey(u, i)' = PlanKey(u, i)
    BY <2>1, KeySame DEF Under
  <2> QED
    BY <2>3, <2>4, <2>5
<1>2. ASSUME NEW u \in Deliveries, NEW i \in 1..2, Acting(u, i)'
      PROVE  PlanKey(u, i)' \in opened'
  <2>1. CASE u = d
    BY <1>2, <2>1
  <2>2. CASE u # d
    <3>1. Acting(u, i) /\ Under(u, i)
      BY <1>1, <1>2, <2>2 DEF Acting
    <3>2. PlanKey(u, i) \in opened
      BY <3>1 DEF Rows
    <3> QED
      BY <1>1, <2>2, <3>1, <3>2 DEF Grows
  <2> QED
    BY <2>1, <2>2
<1>3. ASSUME NEW k \in opened'
      PROVE  \/ \E u \in Deliveries, i \in 1..2 : Under(u, i)' /\ PlanKey(u, i)' = k
             \/ k \in closed' \cup excused'
  <2>1. CASE k \notin opened
    BY <1>3, <2>1
  <2>2. CASE k \in opened /\ k \notin closed \cup excused
    <3>1. PICK u \in Deliveries, i \in 1..2 : Under(u, i) /\ PlanKey(u, i) = k
      BY <2>2 DEF Rows
    <3>2. CASE u = d
      BY <3>1, <3>2
    <3>3. CASE u # d
      BY <1>1, <3>1, <3>3
    <3> QED
      BY <3>2, <3>3
  <2>3. CASE k \in closed \cup excused
    BY <2>3 DEF Grows
  <2> QED
    BY <2>1, <2>2, <2>3
<1> QED
  BY <1>2, <1>3 DEF Rows

\* A task that ends its plans closes or excuses what it had under way.
LEMMA RowsExits ==
  ASSUME Fitting, Rows, NEW d \in Deliveries, Exits(d), Grows,
         opened' = opened, acted' = acted,
         \A i \in 1..2 : Under(d, i) => PlanKey(d, i) \in closed' \cup excused'
  PROVE  Rows'
<1>1. Depth(d)' = 0
  BY DEF Exits, Depth
<1>2. \A i \in 1..2 : ~Under(d, i)' /\ ~Acting(d, i)'
  BY <1>1 DEF Under, Acting
<1>3. acted' \subseteq opened'
  BY DEF Rows
<1> QED
  BY <1>2, <1>3, RowsKept DEF Exits, Moved

LEMMA UnderTop ==
  ASSUME Fitting, NEW d \in Deliveries, task[d].at \in Body
  PROVE  /\ Depth(d) \in 1..2 /\ PlanKey(d, Depth(d)) = Key(Top(d))
         /\ \A i \in 1..2 :
              /\ Under(d, i) => i = Depth(d) \/ (i = 1 /\ Depth(d) = 2)
              /\ Under(d, i) /\ i = Depth(d)
                 => task[d].at \in {"act", "post"} /\ task[d].named
         /\ Depth(d) = 2 => Under(d, 1) /\ Acting(d, 1)
<1>1. Depth(d) \in 1..2 /\ Fits(d)
  BY InBody
<1>2. PlanKey(d, Depth(d)) = Key(Top(d))
  BY DEF PlanKey, Top, Depth
<1>3. \A i \in 1..2 :
        /\ Under(d, i) => i = Depth(d) \/ (i = 1 /\ Depth(d) = 2)
        /\ Under(d, i) /\ i = Depth(d)
           => task[d].at \in {"act", "post"} /\ task[d].named
  BY <1>1 DEF Under
<1>4. Depth(d) = 2 => Under(d, 1) /\ Acting(d, 1)
  BY <1>1 DEF Fits, Under, Acting, Base
<1> QED
  BY <1>1, <1>2, <1>3, <1>4

LEMMA RowsStays ==
  ASSUME Fitting, Rows, NEW d \in Deliveries, Stays(d), Grows,
         task[d].at \in Body, task'[d].at \in Body,
         task'[d].named # task[d].named => Depth(d) = 1,
         acted' \subseteq opened',
         task'[d].at = "act" /\ task'[d].named => Key(Top(d)) \in opened',
         task[d].at \in {"act", "post"} /\ task[d].named =>
           task'[d].at \in {"act", "post"} \/ Key(Top(d)) \in closed' \cup excused',
         \/ opened' = opened
         \/ /\ opened' = opened \cup {Key(Top(d))} /\ ~AtEnd(Top(d))
            /\ task'[d].at = "act" /\ task'[d].named
         \/ opened' = opened \cup {Key(Top(d))} /\ Key(Top(d)) \in excused'
  PROVE  Rows'
<1>1. /\ task'[d].stack = task[d].stack /\ task'[d].event = task[d].event
      /\ Depth(d)' = Depth(d)
      /\ \A u \in Deliveries \ {d} : task'[u] = task[u]
      /\ task[d].named => task'[d].named
  BY DEF Stays, Moved, Depth
<1>2. \A i \in 1..Depth(d) :
        /\ PlanKey(d, i)' = PlanKey(d, i)
        /\ AtEnd(task[d].stack[i])' = AtEnd(task[d].stack[i])
  BY <1>1, KeySame
<1>3. /\ Depth(d) \in 1..2 /\ Depth(d) \in 1..Depth(d)
      /\ PlanKey(d, Depth(d)) = Key(Top(d)) /\ Top(d) = task[d].stack[Depth(d)]
  BY UnderTop DEF Top, Depth
<1>4. ASSUME NEW i \in 1..2, Acting(d, i)' PROVE PlanKey(d, i)' \in opened'
  <2>1. Under(d, i)' /\ i \in 1..Depth(d)
    BY <1>1, <1>4 DEF Acting, Under
  <2>2. CASE i = Depth(d)
    <3>1. task'[d].at = "act" /\ task'[d].named
      BY <1>1, <1>4, <2>1, <2>2 DEF Acting, Under
    <3> QED
      BY <1>2, <1>3, <2>1, <2>2, <3>1
  <2>3. CASE i # Depth(d)
    <3>1. i = 1 /\ Depth(d) = 2
      BY <1>3, <2>1, <2>3
    <3>2. Acting(d, 1)
      BY <3>1, UnderTop
    <3>3. PlanKey(d, 1) \in opened
      BY <3>2 DEF Rows
    <3> QED
      BY <1>2, <2>1, <3>1, <3>3 DEF Grows
  <2> QED
    BY <2>2, <2>3
<1>5. ASSUME NEW i \in 1..2, Under(d, i)
      PROVE  \/ Under(d, i)' /\ PlanKey(d, i)' = PlanKey(d, i)
             \/ PlanKey(d, i) \in closed' \cup excused'
  <2>1. i \in 1..Depth(d) /\ task[d].named /\ ~AtEnd(task[d].stack[i])
    BY <1>5 DEF Under
  <2>2. PlanKey(d, i)' = PlanKey(d, i) /\ ~AtEnd(task[d].stack[i])'
    BY <1>2, <2>1
  <2>3. CASE i = Depth(d)
    <3>1. task[d].at \in {"act", "post"}
      BY <1>5, <2>3 DEF Under
    <3>2. CASE task'[d].at \in {"act", "post"}
      BY <1>1, <2>1, <2>2, <3>2 DEF Under
    <3>3. CASE Key(Top(d)) \in closed' \cup excused'
      BY <1>3, <2>3, <3>3
    <3> QED
      BY <2>1, <3>1, <3>2, <3>3
  <2>4. CASE i # Depth(d)
    BY <1>1, <2>1, <2>2, <2>4 DEF Under
  <2> QED
    BY <2>3, <2>4
<1>6. ASSUME NEW k \in opened' \ opened
      PROVE  \/ \E i \in 1..2 : Under(d, i)' /\ PlanKey(d, i)' = k
             \/ k \in closed' \cup excused'
  <2>1. k = Key(Top(d))
    BY <1>6
  <2>2. CASE Key(Top(d)) \in excused'
    BY <2>1, <2>2
  <2>3. CASE ~AtEnd(Top(d)) /\ task'[d].at = "act" /\ task'[d].named
    <3>1. PICK n \in 1..2 : n = Depth(d)
      BY <1>3
    <3>2. ~AtEnd(task[d].stack[n])' /\ PlanKey(d, n)' = k
      BY <1>2, <1>3, <2>1, <2>3, <3>1
    <3>3. Under(d, n)'
      BY <1>1, <1>3, <2>3, <3>1, <3>2 DEF Under, Body
    <3> QED
      BY <3>2, <3>3
  <2> QED
    BY <1>6, <2>2, <2>3
<1> QED
  BY <1>1, <1>4, <1>5, <1>6, RowsKept

LEMMA RowsAdvances ==
  ASSUME Fitting, Rows, NEW d \in Deliveries, Advances(d), Grows,
         task[d].at = "post", opened' = opened, acted' = acted,
         task[d].named => Key(Top(d)) \in closed' \cup excused'
  PROVE  Rows'
<1>1. /\ task'[d].event = task[d].event /\ Depth(d)' = Depth(d)
      /\ task'[d].named = task[d].named /\ task'[d].at = "pre"
      /\ \A u \in Deliveries \ {d} : task'[u] = task[u]
      /\ Depth(d) = 2 => task'[d].stack[1] = task[d].stack[1]
  BY DEF Advances, Moved, Base
<1>2. Depth(d) \in 1..2 /\ PlanKey(d, Depth(d)) = Key(Top(d))
  BY UnderTop DEF Body
<1>3. Depth(d) = 2 =>
        /\ PlanKey(d, 1)' = PlanKey(d, 1) /\ Under(d, 1) /\ Acting(d, 1)
        /\ AtEnd(task[d].stack[1])' = AtEnd(task[d].stack[1])
  <2>1. Depth(d) = 2 => 1 \in 1..Depth(d)
    OBVIOUS
  <2> QED
    BY <1>1, <2>1, KeySame, UnderTop DEF Body
<1>4. ASSUME NEW i \in 1..2, Acting(d, i)' PROVE PlanKey(d, i)' \in opened'
  <2>1. i # Depth(d) /\ i \in 1..Depth(d)
    BY <1>1, <1>4 DEF Acting, Under
  <2>2. i = 1 /\ Depth(d) = 2
    BY <1>2, <2>1
  <2>3. PlanKey(d, 1) \in opened
    BY <1>3, <2>2 DEF Rows
  <2> QED
    BY <1>3, <2>2, <2>3
<1>5. ASSUME NEW i \in 1..2, Under(d, i)
      PROVE  \/ Under(d, i)' /\ PlanKey(d, i)' = PlanKey(d, i)
             \/ PlanKey(d, i) \in closed' \cup excused'
  <2>1. CASE i = Depth(d)
    BY <1>2, <1>5, <2>1 DEF Under
  <2>2. CASE i = 1 /\ Depth(d) = 2
    <3>1. Under(d, 1)'
      BY <1>1, <1>3, <1>5, <2>2 DEF Under, Body
    <3> QED
      BY <1>3, <2>2, <3>1
  <2> QED
    BY <1>5, <2>1, <2>2, UnderTop DEF Body
<1>6. acted' \subseteq opened'
  BY DEF Rows
<1> QED
  BY <1>1, <1>4, <1>5, <1>6, RowsKept

LEMMA RowsPushes ==
  ASSUME Fitting, Rows, NEW d \in Deliveries, Pushes(d), Grows, At(d, "resume"),
         opened' = opened, acted' = acted \cup {Key(Top(d))}
  PROVE  Rows'
<1>1. /\ task'[d].event = task[d].event /\ Depth(d)' = 2
      /\ task'[d].named = task[d].named /\ task'[d].at = "pre"
      /\ \A u \in Deliveries \ {d} : task'[u] = task[u]
      /\ task'[d].stack[1] = task[d].stack[1]
  BY DEF Pushes, Moved, Base
<1>2. /\ Depth(d) = 1 /\ task[d].named /\ task[d].at = "act"
      /\ PlanKey(d, 1) = Key(Top(d)) /\ ~AtEnd(task[d].stack[1])
  <2>1. Depth(d) = 1 /\ task[d].named /\ task[d].at = "act"
    BY AtResume DEF At
  <2>2. Top(d) = task[d].stack[1]
    BY <2>1 DEF Top, Depth
  <2> QED
    BY <2>1, <2>2, InBody DEF PlanKey, Body
<1>3. Under(d, 1) /\ Acting(d, 1)
  BY <1>2 DEF Under, Acting, Body
<1>4. PlanKey(d, 1) \in opened
  BY <1>3 DEF Rows
<1>5. PlanKey(d, 1)' = PlanKey(d, 1)
      /\ AtEnd(task[d].stack[1])' = AtEnd(task[d].stack[1])
  <2>1. 1 \in 1..Depth(d)
    BY <1>2
  <2> QED
    BY <1>1, <2>1, KeySame
<1>6. Under(d, 1)' /\ ~Acting(d, 2)'
  BY <1>1, <1>2, <1>5 DEF Under, Acting, Body
<1>7. acted' \subseteq opened'
  BY <1>2, <1>4 DEF Rows
<1>8. \A i \in 1..2 : Acting(d, i)' => PlanKey(d, i)' \in opened'
  BY <1>4, <1>5, <1>6
<1>9. \A i \in 1..2 : Under(d, i) => Under(d, i)' /\ PlanKey(d, i)' = PlanKey(d, i)
  BY <1>2, <1>5, <1>6 DEF Under
<1> QED
  BY <1>1, <1>7, <1>8, <1>9, RowsKept

LEMMA RowsPops ==
  ASSUME Fitting, Rows, NEW d \in Deliveries, Pops(d), Grows, Depth(d) = 2,
         task[d].at \in Body, acted' = acted,
         \/ opened' = opened
         \/ opened' = opened \cup {Key(Top(d))} /\ Key(Top(d)) \in excused',
         task[d].at \in {"act", "post"} => Key(Top(d)) \in closed' \cup excused'
  PROVE  Rows'
<1>1. /\ task'[d].event = task[d].event /\ Depth(d)' = 1
      /\ task'[d].named = task[d].named /\ task'[d].at \in {"act", "post"}
      /\ \A u \in Deliveries \ {d} : task'[u] = task[u]
      /\ task'[d].stack[1] = task[d].stack[1]
  BY DEF Pops, Moved, Base
<1>2. Under(d, 1) /\ Acting(d, 1) /\ PlanKey(d, 2) = Key(Top(d))
  BY UnderTop
<1>3. PlanKey(d, 1) \in opened
  BY <1>2 DEF Rows
<1>4. PlanKey(d, 1)' = PlanKey(d, 1)
      /\ AtEnd(task[d].stack[1])' = AtEnd(task[d].stack[1])
  <2>1. 1 \in 1..Depth(d)
    OBVIOUS
  <2> QED
    BY <1>1, <2>1, KeySame
<1>5. Under(d, 1)' /\ ~Under(d, 2)' /\ ~Acting(d, 2)'
  BY <1>1, <1>2, <1>4 DEF Under, Acting, Body
<1>6. \A i \in 1..2 : Acting(d, i)' => PlanKey(d, i)' \in opened'
  BY <1>3, <1>4, <1>5 DEF Grows
<1>7. \A i \in 1..2 : Under(d, i) =>
        \/ Under(d, i)' /\ PlanKey(d, i)' = PlanKey(d, i)
        \/ PlanKey(d, i) \in closed' \cup excused'
  BY <1>2, <1>4, <1>5, UnderTop
<1>8. acted' \subseteq opened'
  BY DEF Rows, Grows
<1> QED
  BY <1>1, <1>6, <1>7, <1>8, RowsKept

\* A step outside the plan's body.
LEMMA RowsOutside ==
  ASSUME Fitting, Rows, NEW d \in Deliveries,
         \A u \in Deliveries \ {d} : task'[u] = task[u],
         task[d].at # "idle" => task'[d].event = task[d].event,
         UNCHANGED <<rows, excused, acted>>, task[d].at \notin Body,
         task'[d].at \in Body => Depth(d)' = 1 /\ task'[d].at = "pre"
  PROVE  Rows'
<1>1. \A i \in 1..2 : ~Under(d, i)
  BY DEF Under
<1>2. \A i \in 1..2 : ~Acting(d, i)'
  BY DEF Acting, Under
<1>3. Grows /\ acted' \subseteq opened' /\ opened' = opened
  BY DEF Grows, Rows, rows
<1> QED
  BY <1>1, <1>2, <1>3, RowsKept

LEMMA OutsideKeepsRows ==
  ASSUME Fitting, Rows, NEW d \in Deliveries,
         \/ Dispatch(d) \/ AcquireLock(d) \/ NoLockInfra(d) \/ LockHeld(d)
         \/ Unlock(d)
  PROVE  Rows'
<1>1. /\ \A u \in Deliveries \ {d} : task'[u] = task[u]
      /\ task'[d].event = task[d].event
  BY DispatchMoves, AcquireLockMoves, NoLockInfraMoves, LockHeldMoves, UnlockMoves
     DEF Moved, Exits
<1>2. UNCHANGED <<rows, excused, acted>>
  BY DEF Dispatch, AcquireLock, NoLockInfra, LockHeld, Unlock, histVars
<1>3. task[d].at \notin Body
  BY DEF Dispatch, AcquireLock, NoLockInfra, LockHeld, Unlock, Body
<1>4. task'[d].at \in Body => Depth(d)' = 1 /\ task'[d].at = "pre"
  <2>1. CASE Dispatch(d)
    BY <2>1, DispatchMoves DEF Body
  <2>2. CASE AcquireLock(d) \/ NoLockInfra(d)
    <3>1. /\ task'[d].at = "pre" /\ task'[d].stack = task[d].stack
          /\ task[d].at = "lock"
      BY <2>2, AcquireLockMoves, NoLockInfraMoves
    <3>2. Depth(d)' = Depth(d)
      BY <3>1 DEF Depth
    <3> QED
      BY <3>1, <3>2, AtLock
  <2>3. CASE LockHeld(d) \/ Unlock(d)
    BY <2>3, LockHeldMoves, UnlockMoves DEF Exits, Over, Body
  <2> QED
    BY <2>1, <2>2, <2>3
<1> QED
  BY <1>1, <1>2, <1>3, <1>4, RowsOutside

LEMMA EnqueueKeepsRows ==
  ASSUME Fitting, Rows, NEW e \in Events, Enqueue(e)
  PROVE  Rows'
<1>1. PICK d \in Deliveries :
        /\ task[d].at = "idle" /\ task'[d].at = "queued"
        /\ \A u \in Deliveries \ {d} : task'[u] = task[u]
  BY EnqueueMoves
<1>2. UNCHANGED <<rows, excused, acted>>
  BY DEF Enqueue, histVars
<1> QED
  BY <1>1, <1>2, RowsOutside DEF Body

LEMMA PreWriteKeepsRows ==
  ASSUME Fitting, Rows, NEW d \in Deliveries, PreWrite(d)
  PROVE  Rows'
<1>1. /\ Stays(d) /\ task'[d].at = "act" /\ task'[d].named = task[d].named
      /\ task[d].at = "pre" /\ ~AtEnd(Top(d))
      /\ opened' = opened \cup Row(d) /\ closed' = closed
      /\ excused' = excused /\ acted' = acted
  BY PreWriteMoves DEF PreWrite, histVars
<1>2. Grows /\ acted' \subseteq opened'
  BY <1>1 DEF Grows, Rows
<1>3. CASE task[d].named
  <2>1. Row(d) = {Key(Top(d))}
    BY <1>3 DEF Row
  <2> QED
    BY <1>1, <1>2, <1>3, <2>1, RowsStays DEF Body
<1>4. CASE ~task[d].named
  <2>1. Row(d) = {}
    BY <1>4 DEF Row
  <2> QED
    BY <1>1, <1>2, <1>4, <2>1, RowsStays DEF Body
<1> QED
  BY <1>3, <1>4

LEMMA PreWriteFailsKeepsRows ==
  ASSUME Fitting, Rows, NEW d \in Deliveries, PreWriteFails(d)
  PROVE  Rows'
<1>1. /\ task[d].at = "pre"
      /\ \/ Depth(d) = 1 /\ Exits(d)
         \/ /\ Depth(d) = 2 /\ Stays(d) /\ task'[d].at = "return"
            /\ task'[d].named = task[d].named
      /\ UNCHANGED <<rows, excused, acted>>
  BY PreWriteFailsMoves DEF PreWriteFails, histVars
<1>2. Grows /\ acted' \subseteq opened' /\ opened' = opened /\ acted' = acted
  BY <1>1 DEF Grows, Rows, rows
<1>3. CASE Depth(d) = 1 /\ Exits(d)
  <2>1. \A i \in 1..2 : ~Under(d, i)
    BY <1>1, <1>3, UnderTop DEF Body
  <2> QED
    BY <1>2, <1>3, <2>1, RowsExits
<1>4. CASE Stays(d) /\ task'[d].at = "return" /\ task'[d].named = task[d].named
  BY <1>1, <1>2, <1>4, RowsStays DEF Body
<1> QED
  BY <1>1, <1>3, <1>4

LEMMA ActKeepsRows ==
  ASSUME Fitting, Rows, NEW d \in Deliveries, Act(d)
  PROVE  Rows'
<1>1. CASE DidSo(d)
  <2>1. /\ Stays(d) /\ task'[d].at = "post" /\ task[d].at = "act"
        /\ acted' = (IF task[d].named THEN acted \cup {Key(Top(d))} ELSE acted)
        /\ UNCHANGED <<rows, excused>>
    BY <1>1, DidSoMoves
  <2>2. task[d].named => Acting(d, Depth(d)) /\ Depth(d) \in 1..2
    BY <2>1, InBody DEF Acting, Under, Body
  <2>3. task[d].named => Key(Top(d)) \in opened
    BY <2>1, <2>2, UnderTop DEF Rows, Body
  <2>4. Grows /\ acted' \subseteq opened' /\ opened' = opened
    BY <2>1, <2>3 DEF Grows, Rows, rows
  <2>5. task'[d].named # task[d].named => Depth(d) = 1
    <3>1. Depth(d) = 2 => task[d].named /\ task'[d].named
      BY <2>1 DEF Fitting, Fits, Stays
    <3>2. task[d].named \in BOOLEAN /\ task'[d].named \in BOOLEAN
      BY <2>1 DEF Fitting, Typed, TaskSet, Stays, Moved
    <3> QED
      BY <2>1, <3>1, <3>2, InBody DEF Body
  <2> QED
    BY <2>1, <2>4, <2>5, RowsStays DEF Body
<1>2. CASE ResumePlan(d)
  <2>1. /\ At(d, "resume") /\ acted' = acted \cup {Key(Top(d))}
        /\ UNCHANGED <<rows, excused>>
    BY <1>2 DEF ResumePlan
  <2>2. Grows /\ opened' = opened
    BY <2>1 DEF Grows, rows
  <2>3. CASE pending # None
    BY <1>2, <2>1, <2>2, <2>3, ResumeMoves, RowsPushes
  <2>4. CASE pending = None
    <3>1. /\ Stays(d) /\ task'[d].at = "post" /\ task'[d].named = task[d].named
      BY <1>2, <2>4, ResumeMoves
    <3>2. Depth(d) = 1 /\ task[d].named /\ task[d].at = "act"
      BY <2>1, AtResume DEF At
    <3>3. Acting(d, 1) /\ PlanKey(d, 1) = Key(Top(d))
      BY <3>2, InBody, UnderTop DEF Acting, Under, Body
    <3>4. acted' \subseteq opened'
      BY <2>1, <2>2, <3>3 DEF Rows
    <3> QED
      BY <2>2, <3>1, <3>2, <3>4, RowsStays DEF Body
  <2> QED
    BY <2>3, <2>4
<1> QED
  BY <1>1, <1>2, ActShape

LEMMA PostWriteKeepsRows ==
  ASSUME Fitting, Rows, NEW d \in Deliveries, PostWrite(d) \/ PostWriteFails(d)
  PROVE  Rows'
<1>1. task[d].at = "post" /\ opened' = opened /\ acted' = acted
      /\ closed \subseteq closed' /\ excused \subseteq excused'
  BY DEF PostWrite, PostWriteFails, rows, histVars
<1>2. task[d].named => Key(Top(d)) \in closed' \cup excused'
  BY DEF PostWrite, PostWriteFails, Row
<1>3. Grows /\ acted' \subseteq opened'
  BY <1>1 DEF Grows, Rows
<1>4. CASE Depth(d) = 1 /\ Exits(d)
  <2>1. \A i \in 1..2 : Under(d, i) => PlanKey(d, i) \in closed' \cup excused'
    BY <1>1, <1>2, <1>4, UnderTop DEF Body
  <2> QED
    BY <1>1, <1>3, <1>4, <2>1, RowsExits
<1>5. CASE /\ Stays(d) /\ task'[d].at \in {"return", "save"}
           /\ task'[d].named = task[d].named
  BY <1>1, <1>2, <1>3, <1>5, RowsStays DEF Body
<1>6. CASE Advances(d)
  BY <1>1, <1>2, <1>3, <1>6, RowsAdvances
<1> QED
  BY <1>4, <1>5, <1>6, PostWriteMoves

LEMMA LeavingKeepsRows ==
  ASSUME Fitting, Rows, NEW d \in Deliveries, SaveWait(d) \/ Complete(d)
  PROVE  Rows'
<1>1. /\ task[d].at \in {"pre", "save"}
      /\ \/ Depth(d) = 1 /\ Exits(d)
         \/ /\ Depth(d) = 2 /\ Stays(d) /\ task'[d].at = "return"
            /\ task'[d].named = task[d].named
      /\ UNCHANGED <<rows, excused, acted>>
  BY SaveWaitMoves, CompleteMoves DEF SaveWait, Complete, histVars
<1>2. Grows /\ acted' \subseteq opened' /\ opened' = opened /\ acted' = acted
  BY <1>1 DEF Grows, Rows, rows
<1>3. CASE Depth(d) = 1 /\ Exits(d)
  <2>1. \A i \in 1..2 : ~Under(d, i)
    BY <1>1, <1>3, UnderTop DEF Body
  <2> QED
    BY <1>2, <1>3, <2>1, RowsExits
<1>4. CASE Stays(d) /\ task'[d].at = "return" /\ task'[d].named = task[d].named
  BY <1>1, <1>2, <1>4, RowsStays DEF Body
<1> QED
  BY <1>1, <1>3, <1>4

LEMMA PoppingKeepsRows ==
  ASSUME Fitting, Rows, NEW d \in Deliveries, Return(d) \/ ResumeTimesOut(d)
  PROVE  Rows'
<1>1. CASE Return(d)
  <2>1. /\ Pops(d) /\ Depth(d) = 2 /\ task[d].at = "return"
        /\ UNCHANGED <<rows, excused, acted>>
    BY <1>1, ReturnMoves DEF Return, histVars
  <2>2. Grows /\ opened' = opened /\ acted' = acted
    BY <2>1 DEF Grows, rows
  <2> QED
    BY <2>1, <2>2, RowsPops DEF Body
<1>2. CASE ResumeTimesOut(d)
  <2>1. Pops(d) /\ Depth(d) = 2 /\ task[d].at \in Body /\ acted' = acted
    BY <1>2, TimeOutMoves, TimeOutWrites DEF ResumeTimesOut
  <2>2. /\ \/ opened' = opened
           \/ opened' = opened \cup {Key(Top(d))} /\ Key(Top(d)) \in excused'
        /\ closed \subseteq closed' /\ excused \subseteq excused'
        /\ task[d].at \in {"act", "post"} => Key(Top(d)) \in closed'
    BY <1>2, TimeOutWrites
  <2>3. Grows
    BY <2>2 DEF Grows
  <2> QED
    BY <2>1, <2>2, <2>3, RowsPops
<1> QED
  BY <1>1, <1>2

LEMMA RaiseKeepsRows ==
  ASSUME Fitting, Rows, NEW d \in Deliveries, BodyRaises(d)
  PROVE  Rows'
<1>1. /\ task[d].at \in {"act", "save"}
      /\ \/ Depth(d) = 1 /\ Exits(d)
         \/ Depth(d) = 2 /\ Pops(d)
  BY RaiseMoves
<1>2. /\ UNCHANGED <<rows, acted>> /\ excused \subseteq excused'
      /\ task[d].at = "act" => Key(Top(d)) \in excused'
  BY DEF BodyRaises
<1>3. Grows /\ opened' = opened /\ acted' = acted
  BY <1>2 DEF Grows, rows
<1>4. CASE Depth(d) = 1 /\ Exits(d)
  <2>1. \A i \in 1..2 : Under(d, i) => PlanKey(d, i) \in closed' \cup excused'
    BY <1>1, <1>2, <1>4, UnderTop DEF Body
  <2> QED
    BY <1>3, <1>4, <2>1, RowsExits
<1>5. CASE Depth(d) = 2 /\ Pops(d)
  BY <1>1, <1>2, <1>3, <1>5, RowsPops DEF Body
<1> QED
  BY <1>1, <1>4, <1>5

LEMMA CrashKeepsRows ==
  ASSUME Fitting, Rows, NEW d \in Deliveries, Crash(d)
  PROVE  Rows'
<1>1. /\ Exits(d) /\ UNCHANGED <<rows, acted>>
      /\ excused' = excused \cup
              {Key(task[d].stack[i]) : i \in {j \in 1..Depth(d) :
                                                ~AtEnd(task[d].stack[j])}}
  BY CrashMoves DEF Crash
<1>2. Grows /\ opened' = opened /\ acted' = acted
  BY <1>1 DEF Grows, rows
<1>3. \A i \in 1..2 : Under(d, i) => PlanKey(d, i) \in excused'
  BY <1>1 DEF Under, PlanKey
<1> QED
  BY <1>1, <1>2, <1>3, RowsExits

LEMMA InitRows == Init => Rows
BY DEF Init, Rows, Acting, Under, Depth, Idle, Body

LEMMA StutterRows == Fitting /\ Rows /\ UNCHANGED vars => Rows'
<1> SUFFICES ASSUME Fitting, Rows, UNCHANGED vars PROVE Rows'
  OBVIOUS
<1>1. /\ task' = task /\ acted' = acted /\ opened' = opened /\ closed' = closed
      /\ excused' = excused
  BY DEF vars, rows, histVars
<1>2. \A d \in Deliveries, i \in 1..2 :
        /\ Under(d, i)' = Under(d, i) /\ Acting(d, i)' = Acting(d, i)
        /\ PlanKey(d, i)' = PlanKey(d, i)
  BY <1>1 DEF Under, Acting, PlanKey, Key, Action, Depth, AtEnd
<1> QED
  BY <1>1, <1>2 DEF Rows

LEMMA NextRows == Fitting /\ Rows /\ Next => Rows'
<1> SUFFICES ASSUME Fitting, Rows, Next PROVE Rows'
  OBVIOUS
<1>1. ASSUME NEW e \in Events, Enqueue(e) PROVE Rows'
  BY <1>1, EnqueueKeepsRows
<1>2. ASSUME NEW d \in Deliveries, Dispatch(d) \/ Step(d) PROVE Rows'
  BY <1>2, OutsideKeepsRows, PreWriteKeepsRows, ActKeepsRows, PostWriteKeepsRows,
     LeavingKeepsRows, PoppingKeepsRows DEF Step
<1>3. ASSUME NEW d \in Deliveries,
             \/ ResumeTimesOut(d) \/ NoLockInfra(d) \/ PreWriteFails(d)
             \/ PostWriteFails(d) \/ BodyRaises(d) \/ Crash(d)
      PROVE  Rows'
  BY <1>3, PoppingKeepsRows, OutsideKeepsRows, PreWriteFailsKeepsRows,
     PostWriteKeepsRows, RaiseKeepsRows, CrashKeepsRows
<1> QED
  BY <1>1, <1>2, <1>3 DEF Next

LEMMA RowsInvariant == Spec => [](Fitting /\ Rows)
<1>1. Init => Fitting /\ Rows
  BY InitFits, InitRows
<1>2. (Fitting /\ Rows) /\ [Next]_vars => (Fitting /\ Rows)'
  BY StutterFits, StutterRows, NextFits, NextRows
<1> QED
  BY <1>1, <1>2, PTL DEF Spec

\* Rule 1: no action runs on the box before its "executing" row is on the
\* timeline, nested plans and tries after a time-out included (_pre_write).
THEOREM RecordedFirst == Spec => []RecordedBeforeRun
<1>1. Fitting /\ Rows => RecordedBeforeRun
  BY DEF Rows, RecordedBeforeRun
<1> QED
  BY <1>1, RowsInvariant, PTL

\* No row stays "executing" unless a fault the model names took its result
\* row: its action is under way or it is closed (_execute_body, _post_write).
THEOREM RowsClosed == Spec => []ExecutingRowsAreClosed
<1>1. Fitting /\ Rows => ExecutingRowsAreClosed
  <2> SUFFICES ASSUME Fitting, Rows, NEW k \in opened, k \notin closed \cup excused
               PROVE  UnderWay(k)
    BY DEF ExecutingRowsAreClosed
  <2>1. PICK d \in Deliveries, i \in 1..2 : Under(d, i) /\ PlanKey(d, i) = k
    BY DEF Rows
  <2>2. i \in DOMAIN task[d].stack
    BY <2>1 DEF Under, Depth, Fitting, Typed, TaskSet
  <2> QED
    BY <2>1, <2>2 DEF UnderWay, Under, PlanKey, Depth
<1> QED
  BY <1>1, RowsInvariant, PTL

-----------------------------------------------------------------------------
(* What ran, and what each plan may still run: Rests is kept.               *)

LEMMA BelowMore ==
  ASSUME NEW r \in Seq(Nat), NEW m \in Int, NEW n \in Int, m <= n, Below(r, m)
  PROVE  Below(r, n)
<1>1. \A j \in 1..Len(r) : r[j] \in Nat /\ r[j] < m
  BY DEF Below
<1> QED
  BY <1>1 DEF Below

LEMMA AppendRises ==
  ASSUME NEW r \in Seq(Nat), NEW x \in Nat, Below(r, x), Rising(r)
  PROVE  Rising(Append(r, x)) /\ Below(Append(r, x), x + 1)
<1> DEFINE s == Append(r, x)
           n == Len(r)
<1>1. /\ n \in Nat /\ Len(s) = n + 1 /\ s[n + 1] = x
      /\ \A j \in 1..n : s[j] = r[j] /\ r[j] \in Nat
  OBVIOUS
<1>2. \A j \in 1..n : r[j] < x
  BY DEF Below
<1>3. \A j \in 1..(n - 1) : r[j] < r[j + 1]
  BY DEF Rising
<1> HIDE DEF s, n
<1>4. ASSUME NEW j \in 1..(Len(s) - 1) PROVE s[j] < s[j + 1]
  <2>1. j \in 1..n
    BY <1>1
  <2>2. CASE j = n
    BY <1>1, <1>2, <2>1, <2>2
  <2>3. CASE j # n
    <3>1. j \in 1..(n - 1) /\ j + 1 \in 1..n
      BY <1>1, <2>1, <2>3
    <3> QED
      BY <1>1, <1>3, <2>1, <3>1
  <2> QED
    BY <2>2, <2>3
<1>5. ASSUME NEW j \in 1..Len(s) PROVE s[j] < x + 1
  <2>1. j \in 1..n \/ j = n + 1
    BY <1>1
  <2>2. CASE j \in 1..n
    <3>1. s[j] \in Nat /\ s[j] < x
      BY <1>1, <1>2, <2>2
    <3> QED
      BY <3>1
  <2>3. CASE j = n + 1
    BY <1>1, <2>3
  <2> QED
    BY <2>1, <2>2, <2>3
<1> QED
  BY <1>4, <1>5 DEF Rising, Below, s

LEMMA BoundTyped ==
  ASSUME Fitting, NEW d \in Deliveries, NEW i \in 1..Depth(d)
  PROVE  /\ First(task[d].stack[i]) \in Nat /\ Bound(d, i) \in Int
         /\ First(task[d].stack[i]) <= Bound(d, i)
         /\ Bound(d, i) <= First(task[d].stack[i]) + 1
         /\ Owner(d, i) \in Deliveries
<1> DEFINE f == task[d].stack[i]
<1>1. f.plan.from \in 0..7 /\ f.step \in 0..8 /\ f.plan.of \in Deliveries
  BY TaskTyped, FrameFacts
<1>2. First(f) \in Nat
  <2>1. \A a \in 0..7, b \in 0..8 : a + b \in Nat
    OBVIOUS
  <2> QED
    BY <1>1, <2>1 DEF First
<1> HIDE DEF f
<1>3. Bound(d, i) = First(f) \/ Bound(d, i) = First(f) + 1
  BY DEF Bound, f
<1> QED
  BY <1>1, <1>2, <1>3 DEF f, Owner

\* No other plan under way, and no saved one, is of the same delivery as the
\* plan a task is running.
LEMMA OneHolder ==
  ASSUME Fitting, Rests, NEW d \in Deliveries, task[d].at \in Body \ {"return"}
  PROVE  /\ Holds(d, Depth(d)) /\ Depth(d) \in 1..2
         /\ Owner(d, Depth(d)) = Top(d).plan.of
         /\ \A u \in Deliveries, i \in 1..2 :
              Holds(u, i) /\ Owner(u, i) = Top(d).plan.of => u = d /\ i = Depth(d)
         /\ pending # None => pending.of # Top(d).plan.of
<1>1. Depth(d) \in 1..2 /\ Fits(d) /\ Top(d) = task[d].stack[Depth(d)]
  BY InBody
<1>2. Holds(d, Depth(d)) /\ Owner(d, Depth(d)) = Top(d).plan.of
  BY <1>1 DEF Holds, Owner
<1>3. Depth(d) = 1 => Top(d).plan.of = d
  BY <1>1, TaskTyped DEF Fits
<1>4. Depth(d) = 2 => task[Top(d).plan.of].at \in Over
  BY <1>1 DEF Fits
<1>5. ASSUME NEW u \in Deliveries, NEW i \in 1..2, Holds(u, i),
             Owner(u, i) = Top(d).plan.of
      PROVE  u = d /\ i = Depth(d)
  <2>1. Fits(u) /\ Depth(u) \in 0..2 /\ i \in 1..Depth(u)
    BY <1>5, TaskTyped DEF Fitting, Holds
  <2>2. CASE i = 1
    <3>1. Owner(u, 1) = u /\ task[u].at \notin Over
      BY <2>1, <2>2 DEF Fits, Owner, Base
    <3>2. Depth(d) = 1
      BY <1>1, <1>4, <1>5, <2>2, <3>1
    <3> QED
      BY <1>3, <1>5, <2>2, <3>1, <3>2
  <2>3. CASE i = 2
    <3>1. Depth(u) = 2 /\ Owner(u, 2) = Top(u).plan.of
      BY <2>1, <2>3, TaskTyped DEF Owner
    <3>2. task[Owner(u, 2)].at \in Over
      BY <2>1, <3>1 DEF Fits
    <3>3. Depth(d) # 1
      BY <1>3, <1>5, <2>3, <3>2 DEF Body, Over
    <3>4. Depth(d) = 2
      BY <1>1, <3>3
    <3> QED
      BY <1>2, <1>5, <2>3, <3>4 DEF Rests
  <2> QED
    BY <2>2, <2>3
<1>6. pending # None => pending.of # Top(d).plan.of
  <2>1. CASE Depth(d) = 1
    BY <1>3, <2>1 DEF Fitting, Saved, Body, Over
  <2>2. CASE Depth(d) = 2
    BY <1>2, <2>2 DEF Rests
  <2> QED
    BY <1>1, <2>1, <2>2
<1> QED
  BY <1>1, <1>2, <1>5, <1>6

\* The plan that a step saves: nothing it holds ran, and nobody else holds it.
Handed ==
  /\ Below(ran[pending'.of], pending'.from)
  /\ \A u \in Deliveries : Holds(u, 2)' => Owner(u, 2)' # pending'.of

\* A step that runs no action.
LEMMA RestsKept ==
  ASSUME Fitting, Rests, NEW d \in Deliveries,
         \A u \in Deliveries \ {d} : task'[u] = task[u],
         ran' = ran,
         task'[d].at \in {"idle", "queued"} => task[d].at \in {"idle", "queued"},
         \A i \in 1..2 : Holds(d, i)' => Below(ran[Owner(d, i)'], Bound(d, i)'),
         Holds(d, 2)' => Holds(d, 2) /\ Owner(d, 2)' = Owner(d, 2),
         pending' \in {pending, None} \/ Handed
  PROVE  Rests'
<1>1. ASSUME NEW u \in Deliveries \ {d}, NEW i \in 1..2
      PROVE  /\ Holds(u, i)' = Holds(u, i) /\ Owner(u, i)' = Owner(u, i)
             /\ Bound(u, i)' = Bound(u, i)
  <2>1. task'[u] = task[u]
    OBVIOUS
  <2>2. Depth(u)' = Depth(u) /\ Top(u)' = Top(u)
    BY <2>1 DEF Depth, Top
  <2>3. Fresh(u)' = Fresh(u)
    BY <2>1, <2>2 DEF Fresh, Action
  <2> QED
    BY <2>1, <2>2, <2>3 DEF Holds, Owner, Bound, First
<1>2. ASSUME NEW u \in Deliveries PROVE Rising(ran[u])'
  BY DEF Rests, Rising
<1>3. ASSUME NEW u \in Deliveries, NEW i \in 1..2, Holds(u, i)'
      PROVE  Below(ran[Owner(u, i)], Bound(u, i))'
  <2>1. CASE u = d
    BY <1>3, <2>1 DEF Below
  <2>2. CASE u # d
    <3>1. Below(ran[Owner(u, i)], Bound(u, i))
      BY <1>1, <1>3, <2>2 DEF Rests
    <3> QED
      BY <1>1, <2>2, <3>1 DEF Below
  <2> QED
    BY <2>1, <2>2
<1>4. \A u \in Deliveries : Holds(u, 2)' => Holds(u, 2) /\ Owner(u, 2)' = Owner(u, 2)
  BY <1>1
<1>5. (pending # None => Below(ran[pending.of], pending.from))'
  BY DEF Rests, Below, Handed
<1>6. \A u \in Deliveries :
        (task[u].at \in {"idle", "queued"} => ran[u] = <<>>)'
  BY DEF Rests
<1>7. \A u, v \in Deliveries :
        (Holds(u, 2) /\ Holds(v, 2) /\ Owner(u, 2) = Owner(v, 2) => u = v)'
  BY <1>4 DEF Rests
<1>8. \A u \in Deliveries :
        (Holds(u, 2) /\ pending # None => pending.of # Owner(u, 2))'
  BY <1>4 DEF Rests, Handed
<1> QED
  BY <1>2, <1>3, <1>5, <1>6, <1>7, <1>8 DEF Rests

LEMMA RestsExits ==
  ASSUME Fitting, Rests, NEW d \in Deliveries, Exits(d), ran' = ran,
         pending' \in {pending, None} \/ Handed
  PROVE  Rests'
<1>1. Depth(d)' = 0
  BY DEF Exits, Depth
<1>2. \A i \in 1..2 : ~Holds(d, i)'
  BY <1>1 DEF Holds
<1> QED
  BY <1>2, RestsKept DEF Exits, Moved, Over

\* A task whose plans stay as they are.
LEMMA RestsStays ==
  ASSUME Fitting, Rests, NEW d \in Deliveries, ran' = ran,
         \A u \in Deliveries \ {d} : task'[u] = task[u],
         task'[d].stack = task[d].stack,
         task'[d].at \notin {"idle", "queued"}, task[d].at # "return",
         Fresh(d)' => Fresh(d) \/ task'[d].at = "return",
         pending' \in {pending, None} \/ Handed
  PROVE  Rests'
<1>1. Depth(d)' = Depth(d) /\ Depth(d) \in 0..2
  BY TaskTyped DEF Depth
<1>2. Fresh(d)' => Fresh(d)
  BY DEF Fresh
<1>3. ASSUME NEW i \in 1..2, Holds(d, i)'
      PROVE  /\ Holds(d, i) /\ Owner(d, i)' = Owner(d, i)
             /\ Below(ran[Owner(d, i)'], Bound(d, i)')
  <2>1. Holds(d, i) /\ Owner(d, i)' = Owner(d, i) /\ i \in 1..Depth(d)
    BY <1>1, <1>3 DEF Holds, Owner
  <2>2. First(task[d].stack[i])' = First(task[d].stack[i])
    BY DEF First
  <2>3. First(task[d].stack[i]) \in Nat /\ Bound(d, i) \in Int /\ Owner(d, i) \in Deliveries
    BY <2>1, BoundTyped
  <2>4. Bound(d, i)' \in Int /\ Bound(d, i) <= Bound(d, i)'
    <3>1. CASE i = Depth(d) /\ Fresh(d)'
      BY <1>1, <1>2, <2>2, <2>3, <3>1 DEF Bound
    <3>2. CASE ~(i = Depth(d) /\ Fresh(d)')
      <4>1. Bound(d, i)' = First(task[d].stack[i]) + 1
        BY <1>1, <2>2, <3>2 DEF Bound
      <4> QED
        BY <2>1, <2>3, <4>1, BoundTyped
    <3> QED
      BY <3>1, <3>2
  <2>5. ran[Owner(d, i)] \in Seq(Nat) /\ Below(ran[Owner(d, i)], Bound(d, i))
    BY <2>1, <2>3 DEF Fitting, Typed, BoxTyped, Rests
  <2> QED
    BY <2>1, <2>3, <2>4, <2>5, BelowMore
<1> QED
  BY <1>3, RestsKept

LEMMA RestsAdvances ==
  ASSUME Fitting, Rests, NEW d \in Deliveries, Advances(d), ran' = ran,
         task[d].at = "post", pending' = pending
  PROVE  Rests'
<1>1. /\ Depth(d)' = Depth(d) /\ Depth(d) \in 1..2 /\ Top(d) \in Frames /\ ~AtEnd(Top(d))
      /\ Top(d) = task[d].stack[Depth(d)] /\ Top(d)' = task'[d].stack[Depth(d)]
      /\ Holds(d, Depth(d)) /\ Owner(d, Depth(d)) = Top(d).plan.of
  BY InBody, OneHolder DEF Body, Advances, Top, Depth
<1>2. /\ Top(d)'.plan = Top(d).plan /\ task'[d].at = "pre"
      /\ \/ Top(d)'.step = Top(d).step + 1
         \/ Top(d)'.step = StepCount(Top(d).plan)
      /\ Depth(d) = 2 => task'[d].stack[1] = task[d].stack[1]
      /\ \A u \in Deliveries \ {d} : task'[u] = task[u]
  BY DEF Advances, Moved, Base
<1>3. \A i \in 1..2 : Holds(d, i)' => Holds(d, i) /\ Owner(d, i)' = Owner(d, i)
  BY <1>1, <1>2 DEF Holds, Owner
<1>4. ASSUME NEW i \in 1..2, Holds(d, i)'
      PROVE  Below(ran[Owner(d, i)'], Bound(d, i)')
  <2>1. Holds(d, i) /\ Owner(d, i)' = Owner(d, i) /\ i \in 1..Depth(d)
    BY <1>3, <1>4 DEF Holds
  <2>2. /\ First(task[d].stack[i]) \in Nat /\ Owner(d, i) \in Deliveries
        /\ Bound(d, i) = First(task[d].stack[i]) + 1
    BY <2>1, BoundTyped DEF Bound, Fresh
  <2>3. ran[Owner(d, i)] \in Seq(Nat) /\ Below(ran[Owner(d, i)], Bound(d, i))
    BY <2>1, <2>2 DEF Fitting, Typed, BoxTyped, Rests
  <2>4. Bound(d, i)' \in Int /\ Bound(d, i) <= Bound(d, i)'
    <3>1. CASE i # Depth(d)
      <4>1. task'[d].stack[i] = task[d].stack[i]
        BY <1>1, <1>2, <2>1, <3>1
      <4>2. Bound(d, i)' = First(task[d].stack[i]) + 1
        BY <1>1, <3>1, <4>1 DEF Bound, First
      <4> QED
        BY <2>2, <4>2
    <3>2. CASE i = Depth(d)
      <4>1. Bound(d, i)' = Top(d).plan.from + Top(d)'.step
        BY <1>1, <1>2, <3>2 DEF Bound, Fresh, First
      <4>2. Bound(d, i) = Top(d).plan.from + Top(d).step + 1
        BY <1>1, <2>2, <3>2 DEF First
      <4>3. /\ Top(d).plan.from \in 0..7 /\ Top(d).step \in 0..8
            /\ StepCount(Top(d).plan) \in Int /\ Top(d).step + 1 <= StepCount(Top(d).plan)
        BY <1>1, FrameFacts, DueAction
      <4>4. Top(d)'.step \in Int /\ Top(d).step + 1 <= Top(d)'.step
        BY <1>2, <4>3
      <4> QED
        BY <4>1, <4>2, <4>3, <4>4
    <3> QED
      BY <3>1, <3>2
  <2> QED
    BY <2>1, <2>2, <2>3, <2>4, BelowMore
<1> QED
  BY <1>2, <1>3, <1>4, RestsKept

\* The action that resumed a plan ran when the plan is over.
LEMMA RestsPops ==
  ASSUME Fitting, Rests, NEW d \in Deliveries, Pops(d), Depth(d) = 2, ran' = ran,
         task[d].at \in Body, task'[d].at = "act" => task'[d].tries > 0,
         pending' \in {pending, None} \/ Handed
  PROVE  Rests'
<1>1. /\ Depth(d)' = 1 /\ task'[d].stack[1] = task[d].stack[1]
      /\ Top(d)' = task[d].stack[1] /\ task'[d].at \in {"act", "post"}
      /\ \A u \in Deliveries \ {d} : task'[u] = task[u]
  BY DEF Pops, Moved, Base
<1>2. Action(task[d].stack[1]) = "resume"
  BY DEF Fitting, Fits, Base
<1>3. ~Fresh(d)'
  BY <1>1, <1>2 DEF Fresh, Action
<1>4. Holds(d, 1) /\ ~Holds(d, 2)'
  BY <1>1 DEF Holds
<1>5. Bound(d, 1) = First(task[d].stack[1]) + 1
      /\ Bound(d, 1)' = First(task[d].stack[1]) + 1
  BY <1>1, <1>3 DEF Bound, First
<1>6. Owner(d, 1)' = Owner(d, 1)
  BY <1>1 DEF Owner
<1>7. \A i \in 1..2 : Holds(d, i)' => Below(ran[Owner(d, i)'], Bound(d, i)')
  BY <1>4, <1>5, <1>6 DEF Rests
<1> QED
  BY <1>1, <1>4, <1>7, RestsKept

\* A wait hands on what is left of the plan.
LEMMA WaitHands ==
  ASSUME Fitting, Rests, NEW d \in Deliveries, task[d].at = "save",
         pending'.of = Top(d).plan.of,
         pending'.from = Top(d).plan.from + Top(d).step + 1,
         \A u \in Deliveries \ {d} : task'[u] = task[u],
         ~Holds(d, 2)'
  PROVE  Handed
<1>1. /\ Holds(d, Depth(d)) /\ Depth(d) \in 1..2
      /\ Owner(d, Depth(d)) = Top(d).plan.of
      /\ \A u \in Deliveries, i \in 1..2 :
              Holds(u, i) /\ Owner(u, i) = Top(d).plan.of => u = d /\ i = Depth(d)
  BY OneHolder DEF Body
<1>2. Bound(d, Depth(d)) = pending'.from
  BY DEF Bound, Fresh, First, Top, Depth
<1>3. Below(ran[pending'.of], pending'.from)
  BY <1>1, <1>2 DEF Rests
<1>4. ASSUME NEW u \in Deliveries, Holds(u, 2)' PROVE Owner(u, 2)' # pending'.of
  <2>1. u # d
    BY <1>4
  <2>2. Holds(u, 2) /\ Owner(u, 2)' = Owner(u, 2)
    BY <1>4, <2>1 DEF Holds, Owner, Depth
  <2> QED
    BY <1>1, <2>1, <2>2
<1> QED
  BY <1>3, <1>4 DEF Handed

\* The action a task stands at is on record, once, as the last of its plan.
RanOnce(d) ==
  /\ \A u \in Deliveries : Rising(ran'[u])
  /\ Below(ran'[Top(d).plan.of], First(Top(d)) + 1)
  /\ \A u \in Deliveries \ {Top(d).plan.of} : ran'[u] = ran[u]

LEMMA RunsOnce ==
  ASSUME Fitting, Rests, NEW d \in Deliveries, task[d].at = "act",
         \/ Fresh(d) /\ LET f == Top(d) IN
              ran' = [ran EXCEPT ![f.plan.of] = Append(@, f.plan.from + f.step)]
         \/ ~Fresh(d) /\ ran' = ran
  PROVE  RanOnce(d)
<1> DEFINE o == Top(d).plan.of
           x == First(Top(d))
<1>1. /\ Holds(d, Depth(d)) /\ Depth(d) \in 1..2 /\ Owner(d, Depth(d)) = o
      /\ Top(d) = task[d].stack[Depth(d)] /\ o \in Deliveries
  BY OneHolder, InBody DEF Body
<1>2. x \in Nat
  <2>1. Top(d) \in Frames /\ ~AtEnd(Top(d))
    BY InBody DEF Body
  <2>2. x \in 0..7
    BY <2>1, DueAction DEF First
  <2> QED
    BY <2>2
<1>3. Below(ran[o], Bound(d, Depth(d)))
  BY <1>1 DEF Rests
<1>4. ran[o] \in Seq(Nat) /\ ran \in [Deliveries -> Seq(Nat)]
  BY <1>1 DEF Fitting, Typed, BoxTyped
<1>5. CASE /\ Fresh(d) /\ LET f == Top(d) IN
              ran' = [ran EXCEPT ![f.plan.of] = Append(@, f.plan.from + f.step)]
  <2>1. Bound(d, Depth(d)) = x
    BY <1>1, <1>5 DEF Bound
  <2>2. Rising(ran[o])
    BY <1>1 DEF Rests
  <2> DEFINE r == Append(ran[o], x)
  <2>3. Rising(r) /\ Below(r, x + 1)
    BY <1>2, <1>3, <1>4, <2>1, <2>2, AppendRises
  <2>4. ran' = [ran EXCEPT ![o] = r]
    BY <1>5 DEF First
  <2> HIDE DEF r
  <2>5. ran'[o] = r /\ \A u \in Deliveries \ {o} : ran'[u] = ran[u]
    BY <1>1, <1>4, <2>4
  <2>6. \A u \in Deliveries : Rising(ran'[u])
    BY <2>3, <2>5 DEF Rests
  <2> QED
    BY <2>3, <2>5, <2>6 DEF RanOnce
<1>6. CASE ~Fresh(d) /\ ran' = ran
  <2>1. Bound(d, Depth(d)) = x + 1
    BY <1>1, <1>6 DEF Bound
  <2> QED
    BY <1>3, <1>6, <2>1 DEF RanOnce, Rests
<1> QED
  BY <1>5, <1>6

\* What a step that runs an action keeps, of the plans of all tasks.
LEMMA OthersRest ==
  ASSUME Fitting, Rests, NEW d \in Deliveries, task[d].at = "act", RanOnce(d),
         \A u \in Deliveries \ {d} : task'[u] = task[u],
         task'[d].at \notin {"idle", "queued"},
         NEW u \in Deliveries
  PROVE  /\ (task[u].at \in {"idle", "queued"} => ran[u] = <<>>)'
         /\ \A i \in 1..2 : u # d =>
              /\ Holds(u, i)' => Holds(u, i) /\ Owner(u, i)' = Owner(u, i)
              /\ (Holds(u, i) => Below(ran[Owner(u, i)], Bound(u, i)))'
<1> DEFINE o == Top(d).plan.of
<1>1. /\ \A v \in Deliveries, i \in 1..2 :
              Holds(v, i) /\ Owner(v, i) = o => v = d /\ i = Depth(d)
      /\ o \in Deliveries /\ task[o].at \notin {"idle", "queued"}
  <2>1. task[o].at # "idle" /\ o \in Deliveries
    BY InBody DEF Body
  <2>2. task[o].at # "queued"
    <3>1. Fits(d) /\ (Depth(d) = 1 \/ Depth(d) = 2)
      BY InBody DEF Body
    <3>2. CASE Depth(d) = 1
      BY <3>1, <3>2, TaskTyped DEF Fits
    <3>3. CASE Depth(d) = 2
      BY <3>1, <3>3 DEF Fits, Over
    <3> QED
      BY <3>1, <3>2, <3>3
  <2> QED
    BY <2>1, <2>2, OneHolder DEF Body
<1>2. (task[u].at \in {"idle", "queued"} => ran[u] = <<>>)'
  <2> SUFFICES ASSUME task'[u].at \in {"idle", "queued"} PROVE ran'[u] = <<>>
    OBVIOUS
  <2>1. u # d /\ task[u].at \in {"idle", "queued"}
    OBVIOUS
  <2>2. u # o
    BY <1>1, <2>1
  <2> QED
    BY <2>1, <2>2 DEF RanOnce, Rests
<1>3. ASSUME NEW i \in 1..2, u # d
      PROVE  /\ Holds(u, i)' => Holds(u, i) /\ Owner(u, i)' = Owner(u, i)
             /\ (Holds(u, i) => Below(ran[Owner(u, i)], Bound(u, i)))'
  <2>1. task'[u] = task[u]
    BY <1>3
  <2>2. Depth(u)' = Depth(u) /\ Top(u)' = Top(u)
    BY <2>1 DEF Depth, Top
  <2>3. /\ Holds(u, i)' = Holds(u, i) /\ Owner(u, i)' = Owner(u, i)
        /\ Bound(u, i)' = Bound(u, i)
    BY <2>1, <2>2 DEF Holds, Owner, Bound, First, Fresh, Action
  <2>4. ASSUME Holds(u, i) PROVE Below(ran'[Owner(u, i)], Bound(u, i))
    <3>1. Owner(u, i) # o /\ Owner(u, i) \in Deliveries
      BY <1>1, <1>3, <2>4, BoundTyped DEF Holds
    <3> QED
      BY <2>4, <3>1 DEF RanOnce, Rests
  <2> QED
    BY <2>3, <2>4 DEF Below
<1> QED
  BY <1>2, <1>3

LEMMA RestsRuns ==
  ASSUME Fitting, Rests, NEW d \in Deliveries, task[d].at = "act", RanOnce(d),
         Stays(d), task'[d].at = "post", pending' \in {pending, None}
  PROVE  Rests'
<1> DEFINE o == Top(d).plan.of
<1>1. /\ Depth(d)' = Depth(d) /\ task'[d].stack = task[d].stack
      /\ \A u \in Deliveries \ {d} : task'[u] = task[u]
  BY DEF Stays, Moved, Depth
<1>2. /\ Holds(d, Depth(d)) /\ Depth(d) \in 1..2 /\ Owner(d, Depth(d)) = o
      /\ Top(d) = task[d].stack[Depth(d)] /\ o \in Deliveries
      /\ \A v \in Deliveries, i \in 1..2 :
              Holds(v, i) /\ Owner(v, i) = o => v = d /\ i = Depth(d)
      /\ pending # None => pending.of # o
  BY OneHolder, InBody DEF Body
<1>3. \A i \in 1..2 : Holds(d, i)' => Holds(d, i) /\ Owner(d, i)' = Owner(d, i)
                                      /\ i \in 1..Depth(d)
  BY <1>1 DEF Holds, Owner
<1>4. ASSUME NEW i \in 1..2, Holds(d, i)'
      PROVE  Below(ran[Owner(d, i)], Bound(d, i))'
  <2>1. Bound(d, i)' = First(task[d].stack[i]) + 1
    BY <1>1 DEF Bound, Fresh, First
  <2>2. CASE i = Depth(d)
    BY <1>2, <1>3, <1>4, <2>1, <2>2 DEF RanOnce, Below
  <2>3. CASE i # Depth(d)
    <3>1. Owner(d, i) # o /\ Owner(d, i) \in Deliveries
      BY <1>2, <1>3, <1>4, <2>3, BoundTyped
    <3>2. Bound(d, i) = First(task[d].stack[i]) + 1
      BY <2>3 DEF Bound
    <3>3. Below(ran[Owner(d, i)], Bound(d, i))
      BY <1>3, <1>4 DEF Rests
    <3> QED
      BY <1>3, <1>4, <2>1, <3>1, <3>2, <3>3 DEF RanOnce, Below
  <2> QED
    BY <2>2, <2>3
<1>5. \A u \in Deliveries, i \in 1..2 :
        /\ Holds(u, i)' => Holds(u, i) /\ Owner(u, i)' = Owner(u, i)
        /\ (Holds(u, i) => Below(ran[Owner(u, i)], Bound(u, i)))'
        /\ (task[u].at \in {"idle", "queued"} => ran[u] = <<>>)'
  BY <1>1, <1>3, <1>4, OthersRest
<1>6. (pending # None => Below(ran[pending.of], pending.from))'
  <2>1. CASE pending' = None
    BY <2>1
  <2>2. CASE pending' = pending /\ pending # None
    <3>1. pending.of \in Deliveries
      BY <2>2, SuffixForm DEF Fitting, Typed, BoxTyped
    <3> QED
      BY <1>2, <2>2, <3>1 DEF RanOnce, Rests, Below
  <2> QED
    BY <2>1, <2>2
<1>7. \A u \in Deliveries : Rising(ran[u])'
  BY DEF RanOnce, Rising
<1>8. \A u, v \in Deliveries :
        (Holds(u, 2) /\ Holds(v, 2) /\ Owner(u, 2) = Owner(v, 2) => u = v)'
  BY <1>5 DEF Rests
<1>9. \A u \in Deliveries :
        (Holds(u, 2) /\ pending # None => pending.of # Owner(u, 2))'
  BY <1>5 DEF Rests
<1> QED
  BY <1>5, <1>6, <1>7, <1>8, <1>9 DEF Rests

LEMMA RestsPushes ==
  ASSUME Fitting, Rests, NEW d \in Deliveries, At(d, "resume"), RanOnce(d),
         Pushes(d), pending # None, pending' = None
  PROVE  Rests'
<1>1. /\ Depth(d)' = 2 /\ task'[d].stack[1] = task[d].stack[1]
      /\ task'[d].stack[2] = Frame(pending) /\ task'[d].at = "pre"
      /\ \A u \in Deliveries \ {d} : task'[u] = task[u]
  BY DEF Pushes, Moved, Depth, Base, Top
<1>2. /\ Depth(d) = 1 /\ task[d].at = "act" /\ Top(d).plan.of = d
      /\ Top(d) = task[d].stack[1]
  BY AtResume DEF At, Base
<1>3. /\ pending.of # d /\ pending.of \in Deliveries /\ pending.from \in 0..7
      /\ \A v \in Deliveries : Holds(v, 2) => Owner(v, 2) # pending.of
  <2>1. pending.of # d
    BY <1>2, OneHolder DEF Body
  <2>2. pending.of \in Deliveries /\ pending.from \in 0..7
    BY SuffixForm DEF Fitting, Typed, BoxTyped
  <2> QED
    BY <2>1, <2>2 DEF Rests
<1>4. Owner(d, 1)' = d /\ Owner(d, 2)' = pending.of
  BY <1>1, <1>2 DEF Owner, Frame
<1>5. Below(ran[Owner(d, 1)], Bound(d, 1))'
  <2>1. Bound(d, 1)' = First(Top(d)) + 1
    BY <1>1, <1>2 DEF Bound, First
  <2> QED
    BY <1>2, <1>4, <2>1 DEF RanOnce, Below
<1>6. Below(ran[Owner(d, 2)], Bound(d, 2))'
  <2>1. Bound(d, 2)' = pending.from + 0
    BY <1>1 DEF Bound, Fresh, First, Frame
  <2>2. Bound(d, 2)' = pending.from
    BY <1>3, <2>1
  <2>3. ran'[pending.of] = ran[pending.of]
    BY <1>2, <1>3 DEF RanOnce
  <2> QED
    BY <1>4, <2>2, <2>3 DEF Rests, Below
<1>7. \A i \in 1..2 : i = 1 \/ i = 2
  OBVIOUS
<1>8. \A u \in Deliveries, i \in 1..2 :
        /\ (Holds(u, i) => Below(ran[Owner(u, i)], Bound(u, i)))'
        /\ (task[u].at \in {"idle", "queued"} => ran[u] = <<>>)'
        /\ u # d /\ Holds(u, i)' => Holds(u, i) /\ Owner(u, i)' = Owner(u, i)
  BY <1>1, <1>2, <1>5, <1>6, <1>7, OthersRest
<1>9. \A u \in Deliveries : Rising(ran[u])'
  BY DEF RanOnce, Rising
<1>10. \A u, v \in Deliveries :
        (Holds(u, 2) /\ Holds(v, 2) /\ Owner(u, 2) = Owner(v, 2) => u = v)'
  BY <1>3, <1>4, <1>8 DEF Rests
<1> QED
  BY <1>8, <1>9, <1>10 DEF Rests

LEMMA ActKeepsRests ==
  ASSUME Fitting, Rests, NEW d \in Deliveries, Act(d)
  PROVE  Rests'
<1>1. CASE DidSo(d)
  <2>1. /\ Stays(d) /\ task'[d].at = "post" /\ pending' = pending
        /\ task[d].at = "act" /\ Action(Top(d)) # "resume"
        /\ LET f == Top(d) IN
           ran' = [ran EXCEPT ![f.plan.of] = Append(@, f.plan.from + f.step)]
    BY <1>1, DidSoMoves
  <2>2. RanOnce(d)
    BY <2>1, RunsOnce DEF Fresh
  <2> QED
    BY <2>1, <2>2, RestsRuns
<1>2. CASE ResumePlan(d)
  <2>1. /\ At(d, "resume") /\ task[d].at = "act" /\ Action(Top(d)) = "resume"
        /\ task[d].tries \in 0..MaxTries
    BY <1>2 DEF ResumePlan, At, Fitting, Typed, TaskSet
  <2>2. RanOnce(d)
    <3>1. CASE task[d].tries = 0
      <4>1. Fresh(d)
        BY <2>1, <3>1 DEF Fresh
      <4>2. LET f == Top(d) IN
            ran' = [ran EXCEPT ![f.plan.of] = Append(@, f.plan.from + f.step)]
        BY <1>2, <3>1 DEF ResumePlan
      <4> QED
        BY <2>1, <4>1, <4>2, RunsOnce
    <3>2. CASE task[d].tries # 0
      <4>1. task[d].tries > 0
        BY <2>1, <3>2, EngineAssumption
      <4>2. ~Fresh(d)
        BY <2>1, <4>1 DEF Fresh
      <4>3. ran' = ran
        BY <1>2, <3>2 DEF ResumePlan
      <4> QED
        BY <2>1, <4>2, <4>3, RunsOnce
    <3> QED
      BY <3>1, <3>2
  <2>3. CASE pending = None
    BY <1>2, <2>1, <2>2, <2>3, ResumeMoves, RestsRuns
  <2>4. CASE pending # None
    BY <1>2, <2>1, <2>2, <2>4, ResumeMoves, RestsPushes
  <2> QED
    BY <2>3, <2>4
<1> QED
  BY <1>1, <1>2, ActShape

LEMMA OutsideKeepsRests ==
  ASSUME Fitting, Rests, NEW d \in Deliveries,
         \/ Dispatch(d) \/ AcquireLock(d) \/ NoLockInfra(d) \/ LockHeld(d)
         \/ Unlock(d)
  PROVE  Rests'
<1>1. ran' = ran /\ pending' = pending
  BY DEF Dispatch, AcquireLock, NoLockInfra, LockHeld, Unlock, histVars, boxVars
<1>2. CASE LockHeld(d) \/ Unlock(d)
  BY <1>1, <1>2, LockHeldMoves, UnlockMoves, RestsExits
<1>3. CASE AcquireLock(d) \/ NoLockInfra(d)
  <2>1. /\ Moved(d) /\ task'[d].at = "pre" /\ task'[d].stack = task[d].stack
        /\ task[d].at = "lock"
    BY <1>3, AcquireLockMoves, NoLockInfraMoves
  <2>2. Fresh(d)
    BY <2>1 DEF Fresh
  <2> QED
    BY <1>1, <2>1, <2>2, RestsStays DEF Moved
<1>4. CASE Dispatch(d)
  <2>1. /\ Moved(d) /\ task'[d].at \in {"lock", "pre"} /\ task[d].at = "queued"
        /\ Depth(d)' = 1 /\ Base(d)'.plan.of = d
    BY <1>4, DispatchMoves
  <2>2. ran[d] = <<>>
    BY <2>1 DEF Rests
  <2>3. ~Holds(d, 2)' /\ Owner(d, 1)' = d
    BY <2>1 DEF Holds, Owner, Base
  <2>4. Below(ran[Owner(d, 1)'], Bound(d, 1)')
    BY <2>2, <2>3 DEF Below
  <2>5. \A i \in 1..2 : Holds(d, i)' => Below(ran[Owner(d, i)'], Bound(d, i)')
    BY <2>3, <2>4
  <2> QED
    BY <1>1, <2>1, <2>3, <2>5, RestsKept DEF Moved
<1> QED
  BY <1>2, <1>3, <1>4

LEMMA EnqueueKeepsRests ==
  ASSUME Fitting, Rests, NEW e \in Events, Enqueue(e)
  PROVE  Rests'
<1>1. PICK d \in Deliveries :
        /\ task[d].at = "idle" /\ task'[d].at = "queued"
        /\ \A u \in Deliveries \ {d} : task'[u] = task[u]
        /\ task'[d].stack = task[d].stack
  BY EnqueueMoves
<1>2. Depth(d)' = 0
  BY <1>1 DEF Fitting, Fits, Depth
<1>3. \A i \in 1..2 : ~Holds(d, i)'
  BY <1>2 DEF Holds
<1>4. ran' = ran /\ pending' = pending
  BY DEF Enqueue, histVars, boxVars
<1> QED
  BY <1>1, <1>3, <1>4, RestsKept

LEMMA PreWriteKeepsRests ==
  ASSUME Fitting, Rests, NEW d \in Deliveries, PreWrite(d) \/ PreWriteFails(d)
  PROVE  Rests'
<1>1. /\ ran' = ran /\ pending' = pending /\ task[d].at = "pre" /\ Fresh(d)
  BY DEF PreWrite, PreWriteFails, histVars, boxVars, Fresh
<1>2. Exits(d) \/ (Stays(d) /\ task'[d].at \in {"act", "return"})
  BY PreWriteMoves, PreWriteFailsMoves
<1> QED
  BY <1>1, <1>2, RestsExits, RestsStays DEF Stays, Moved

LEMMA PostWriteKeepsRests ==
  ASSUME Fitting, Rests, NEW d \in Deliveries, PostWrite(d) \/ PostWriteFails(d)
  PROVE  Rests'
<1>1. /\ ran' = ran /\ pending' = pending /\ task[d].at = "post"
  BY DEF PostWrite, PostWriteFails, histVars, boxVars
<1>2. CASE Exits(d)
  BY <1>1, <1>2, RestsExits
<1>3. CASE Stays(d) /\ task'[d].at \in {"return", "save"}
  <2>1. ~Fresh(d)'
    BY <1>3 DEF Fresh
  <2> QED
    BY <1>1, <1>3, <2>1, RestsStays DEF Stays, Moved
<1>4. CASE Advances(d)
  BY <1>1, <1>4, RestsAdvances
<1> QED
  BY <1>2, <1>3, <1>4, PostWriteMoves

LEMMA LeavingKeepsRests ==
  ASSUME Fitting, Rests, NEW d \in Deliveries, SaveWait(d) \/ Complete(d)
  PROVE  Rests'
<1>1. /\ ran' = ran /\ task[d].at \in {"pre", "save"}
      /\ Exits(d) \/ (Stays(d) /\ task'[d].at = "return")
      /\ \/ pending' \in {pending, None}
         \/ /\ pending'.of = Top(d).plan.of /\ task[d].at = "save"
            /\ pending'.from = Top(d).plan.from + Top(d).step + 1
  BY SaveWaitMoves, CompleteMoves DEF SaveWait, Complete, histVars
<1>2. /\ ~Holds(d, 2)' /\ \A u \in Deliveries \ {d} : task'[u] = task[u]
      /\ ~Fresh(d)'
  BY <1>1 DEF Holds, Exits, Stays, Moved, Depth, Fresh, Over
<1>3. pending' \in {pending, None} \/ Handed
  BY <1>1, <1>2, WaitHands
<1>4. CASE Exits(d)
  BY <1>1, <1>3, <1>4, RestsExits
<1>5. CASE Stays(d) /\ task'[d].at = "return"
  BY <1>1, <1>2, <1>3, <1>5, RestsStays DEF Stays, Moved
<1> QED
  BY <1>1, <1>4, <1>5

LEMMA UnwindingKeepsRests ==
  ASSUME Fitting, Rests, NEW d \in Deliveries,
         Return(d) \/ ResumeTimesOut(d) \/ BodyRaises(d)
  PROVE  Rests'
<1>1. /\ ran' = ran /\ task[d].at \in Body
      /\ \/ Exits(d)
         \/ /\ Depth(d) = 2 /\ Pops(d)
            /\ task'[d].at = "act" => task'[d].tries > 0
      /\ \/ pending' \in {pending, None}
         \/ /\ pending'.of = Top(d).plan.of /\ task[d].at = "save"
            /\ pending'.from = Top(d).plan.from + Top(d).step + 1
  <2>1. CASE Return(d)
    BY <2>1, ReturnMoves DEF Return, histVars, boxVars, Body
  <2>2. CASE ResumeTimesOut(d)
    BY <2>2, TimeOutMoves, TimeOutWrites DEF ResumeTimesOut
  <2>3. CASE BodyRaises(d)
    BY <2>3, RaiseMoves DEF BodyRaises, boxVars, Body
  <2> QED
    BY <2>1, <2>2, <2>3
<1>2. /\ ~Holds(d, 2)' /\ \A u \in Deliveries \ {d} : task'[u] = task[u]
  <2>1. Depth(d)' = 0 \/ Depth(d)' = 1
    BY <1>1 DEF Exits, Pops, Depth
  <2> QED
    BY <1>1, <2>1 DEF Holds, Exits, Pops, Moved
<1>3. pending' \in {pending, None} \/ Handed
  BY <1>1, <1>2, WaitHands
<1> QED
  BY <1>1, <1>3, RestsExits, RestsPops

LEMMA CrashKeepsRests ==
  ASSUME Fitting, Rests, NEW d \in Deliveries, Crash(d)
  PROVE  Rests'
BY CrashMoves, RestsExits DEF Crash, boxVars

LEMMA InitRests == Init => Rests
<1> SUFFICES ASSUME Init PROVE Rests
  OBVIOUS
<1>1. \A d \in Deliveries : ran[d] = <<>> /\ Depth(d) = 0
  BY DEF Init, Depth, Idle
<1>2. \A d \in Deliveries, i \in 1..2 : ~Holds(d, i)
  BY <1>1 DEF Holds
<1>3. \A d \in Deliveries : Rising(ran[d])
  BY <1>1 DEF Rising
<1> QED
  BY <1>1, <1>2, <1>3 DEF Rests, Init

LEMMA StutterRests == Fitting /\ Rests /\ UNCHANGED vars => Rests'
<1> SUFFICES ASSUME Fitting, Rests, UNCHANGED vars PROVE Rests'
  OBVIOUS
<1>1. /\ task' = task /\ ran' = ran /\ pending' = pending
  BY DEF vars, boxVars, histVars
<1>2. \A d \in Deliveries, i \in 1..2 :
        /\ Holds(d, i)' = Holds(d, i) /\ Owner(d, i)' = Owner(d, i)
        /\ Bound(d, i)' = Bound(d, i)
  BY <1>1 DEF Holds, Owner, Bound, First, Fresh, Depth, Top, Action
<1> QED
  BY <1>1, <1>2 DEF Rests, Below, Rising

LEMMA NextRests == Fitting /\ Rests /\ Next => Rests'
<1> SUFFICES ASSUME Fitting, Rests, Next PROVE Rests'
  OBVIOUS
<1>1. ASSUME NEW e \in Events, Enqueue(e) PROVE Rests'
  BY <1>1, EnqueueKeepsRests
<1>2. ASSUME NEW d \in Deliveries, Dispatch(d) \/ Step(d) PROVE Rests'
  BY <1>2, OutsideKeepsRests, PreWriteKeepsRests, ActKeepsRests, PostWriteKeepsRests,
     LeavingKeepsRests, UnwindingKeepsRests DEF Step
<1>3. ASSUME NEW d \in Deliveries,
             \/ ResumeTimesOut(d) \/ NoLockInfra(d) \/ PreWriteFails(d)
             \/ PostWriteFails(d) \/ BodyRaises(d) \/ Crash(d)
      PROVE  Rests'
  BY <1>3, UnwindingKeepsRests, OutsideKeepsRests, PreWriteKeepsRests,
     PostWriteKeepsRests, CrashKeepsRests
<1> QED
  BY <1>1, <1>2, <1>3 DEF Next

\* The actions planned for a delivery run in their order and each at most
\* once, whichever tasks take the plan up after its waits, time-outs and
\* crashes (remaining_from, _cas_clear_pending_plan).
THEOREM RunOnce == Spec => []ActionsRunOnce
<1>1. Init => Fitting /\ Rests
  BY InitFits, InitRests
<1>2. (Fitting /\ Rests) /\ [Next]_vars => (Fitting /\ Rests)'
  BY StutterFits, StutterRests, NextFits, NextRests
<1>3. Fitting /\ Rests => ActionsRunOnce
  BY DEF Rests, Rising, ActionsRunOnce
<1> QED
  BY <1>1, <1>2, <1>3, PTL DEF Spec

-----------------------------------------------------------------------------
(* The lock: who is inside, and what a task inside cannot do.              *)

Outside == {"idle", "queued", "lock", "done"}

\* The lock and the tasks agree on who holds it, and the holder is in its run.
Held ==
  \A d \in Deliveries :
    /\ lock = d => task[d].locked
    /\ task[d].locked => lock = d /\ task[d].at \notin Outside

OnlyMoves(d) == \A u \in Deliveries \ {d} : task'[u] = task[u]

Keeps(d) ==
  /\ OnlyMoves(d) /\ lock' = lock /\ task'[d].locked = task[d].locked
  /\ task'[d].at \in Outside => ~task[d].locked
Takes(d) ==
  /\ OnlyMoves(d) /\ lock = None /\ lock' = d
  /\ task'[d].locked /\ task'[d].at = "pre"
Drops(d) ==
  /\ OnlyMoves(d) /\ lock = d /\ lock' = None /\ ~task'[d].locked

\* A task that leaves its plan keeps its lock, and goes to release it.
LEMMA LeavingKeeps ==
  ASSUME Fitting, Held, NEW d \in Deliveries, task[d].at \in Body,
         task' = [task EXCEPT ![d] = Left(task[d])], lock' = lock
  PROVE  Keeps(d)
<1>1. task[d] \in TaskSet /\ task \in [Deliveries -> TaskSet]
  BY DEF Fitting, Typed
<1>2. task'[d] = Left(task[d]) /\ OnlyMoves(d)
  BY <1>1 DEF OnlyMoves
<1>3. CASE Len(task[d].stack) = 2
  <2>1. task'[d].locked = task[d].locked /\ task'[d].at = "return"
    BY <1>1, <1>2, <1>3 DEF Left, TaskSet
  <2> QED
    BY <1>2, <2>1 DEF Keeps, Outside
<1>4. CASE Len(task[d].stack) # 2 /\ task[d].locked
  <2>1. task'[d] = [Finished(task[d]) EXCEPT !.at = "unlock", !.locked = TRUE]
    BY <1>2, <1>4 DEF Left
  <2>2. task'[d].locked /\ task'[d].at = "unlock" /\ task'[d] \in TaskSet
    BY <1>1, <2>1, UnlockFields
  <2>3. task'[d].locked = task[d].locked
    BY <1>1, <1>4, <2>2 DEF TaskSet
  <2> QED
    BY <1>2, <2>2, <2>3 DEF Keeps, Outside
<1>5. CASE Len(task[d].stack) # 2 /\ ~task[d].locked
  <2>1. task'[d] = Finished(task[d])
    BY <1>2, <1>5 DEF Left
  <2>2. ~task'[d].locked /\ task'[d] \in TaskSet
    BY <1>1, <2>1, FinishedFields
  <2>3. task'[d].locked = task[d].locked
    BY <1>1, <1>5, <2>2 DEF TaskSet
  <2> QED
    BY <1>2, <1>5, <2>3 DEF Keeps
<1> QED
  BY <1>3, <1>4, <1>5

\* A move within the run of a task leaves its lock alone.
LEMMA MovingKeeps ==
  ASSUME Fitting, Held, NEW d \in Deliveries, lock' = lock,
         Stays(d) \/ Advances(d) \/ Pushes(d) \/ Pops(d),
         task'[d].at \notin Outside
  PROVE  Keeps(d)
BY DEF Stays, Advances, Pushes, Pops, Moved, Keeps, OnlyMoves

LEMMA RunKeeps ==
  ASSUME Fitting, Held, NEW d \in Deliveries,
         \/ PreWrite(d) \/ PreWriteFails(d) \/ Act(d) \/ PostWrite(d)
         \/ PostWriteFails(d) \/ SaveWait(d) \/ Complete(d) \/ Return(d)
         \/ ResumeTimesOut(d) \/ BodyRaises(d)
  PROVE  Keeps(d)
<1>1. lock' = lock
  <2>1. ASSUME Act(d) PROVE lock' = lock
    BY <2>1 DEF Act, RunPlain, CreateBox, LookupPo, LookupGrn, EvaluateGrn, CheckErp,
       EvaluateErp, ClearWaiting, PostBill, ResumePlan, Did
  <2> QED
    BY <2>1 DEF PreWrite, PreWriteFails, PostWrite, PostWriteFails, SaveWait, Complete,
       Return, ResumeTimesOut, BodyRaises
<1>2. CASE Leave(d) /\ task[d].at \in Body
  BY <1>1, <1>2, LeavingKeeps DEF Leave
<1>3. CASE PreWrite(d)
  BY <1>1, <1>3, PreWriteMoves, MovingKeeps DEF Outside
<1>4. CASE PreWriteFails(d)
  BY <1>1, <1>4, LeavingKeeps DEF PreWriteFails, AfterFailedPreWrite, Body
<1>5. CASE Act(d)
  <2>1. CASE DidSo(d)
    BY <1>1, <2>1, DidSoMoves, MovingKeeps DEF Outside
  <2>2. CASE ResumePlan(d)
    BY <1>1, <2>2, ResumeMoves, MovingKeeps DEF Pushes, Outside
  <2> QED
    BY <1>5, <2>1, <2>2, ActShape
<1>6. CASE PostWrite(d) \/ PostWriteFails(d)
  <2>1. task[d].at = "post" /\ Continue(d)
    BY <1>6 DEF PostWrite, PostWriteFails
  <2>2. \/ Leave(d)
        \/ /\ Stays(d) \/ Advances(d)
           /\ task'[d].at \in {"return", "save", "pre"}
    BY <2>1, ContinueMoves DEF Advances
  <2>3. CASE Leave(d)
    BY <1>2, <2>1, <2>3 DEF Body
  <2>4. CASE (Stays(d) \/ Advances(d)) /\ task'[d].at \in {"return", "save", "pre"}
    BY <1>1, <2>4, MovingKeeps DEF Outside
  <2> QED
    BY <2>2, <2>3, <2>4
<1>7. CASE SaveWait(d) \/ Complete(d)
  BY <1>2, <1>7 DEF SaveWait, Complete, Body
<1>8. CASE Return(d)
  BY <1>1, <1>8, ReturnMoves, MovingKeeps DEF Outside
<1>9. CASE ResumeTimesOut(d)
  <2>1. Pops(d)
    BY <1>9, TimeOutMoves
  <2>2. task'[d].at \notin Outside
    BY <2>1 DEF Pops, Outside
  <2> QED
    BY <1>1, <2>1, <2>2, MovingKeeps
<1>10. CASE BodyRaises(d)
  <2>1. task[d].at \in Body /\ Unwind(d)
    BY <1>10 DEF BodyRaises, At, Body
  <2>2. Leave(d) \/ Pops(d)
    BY <2>1, UnwindMoves
  <2>3. CASE Pops(d)
    <3>1. task'[d].at \notin Outside
      BY <2>3 DEF Pops, Outside
    <3> QED
      BY <1>1, <2>3, <3>1, MovingKeeps
  <2> QED
    BY <1>2, <2>1, <2>2, <2>3
<1> QED
  BY <1>3, <1>4, <1>5, <1>6, <1>7, <1>8, <1>9, <1>10

\* Each step leaves the lock alone, takes a free one, or gives up its own.
LEMMA LockSteps ==
  ASSUME Fitting, Held, NEW d \in Deliveries,
         \/ Dispatch(d) \/ Step(d) \/ ResumeTimesOut(d)
         \/ NoLockInfra(d) \/ PreWriteFails(d) \/ PostWriteFails(d)
         \/ BodyRaises(d) \/ Crash(d)
  PROVE  Keeps(d) \/ Takes(d) \/ Drops(d)
<1>1. task[d] \in TaskSet /\ task \in [Deliveries -> TaskSet]
  BY DEF Fitting, Typed
<1>2. CASE Dispatch(d)
  <2>1. /\ OnlyMoves(d) /\ lock' = lock /\ task[d].at = "queued"
    BY <1>2, DispatchMoves DEF Dispatch, Moved, OnlyMoves
  <2>2. task'[d].locked = task[d].locked
    <3>1. PICK a, b, c : task' = [task EXCEPT ![d].at = a, ![d].named = b, ![d].stack = c]
      BY <1>2 DEF Dispatch
    <3> QED
      BY <1>1, <3>1 DEF TaskSet
  <2>3. ~task[d].locked
    BY <2>1 DEF Held, Outside
  <2> QED
    BY <2>1, <2>2, <2>3 DEF Keeps
<1>3. CASE AcquireLock(d)
  <2>1. /\ OnlyMoves(d) /\ lock = None /\ lock' = d
    BY <1>3, AcquireLockMoves DEF AcquireLock, LockFree, Moved, OnlyMoves
  <2>2. task'[d].locked /\ task'[d].at = "pre"
    BY <1>1, <1>3 DEF AcquireLock, TaskSet
  <2> QED
    BY <2>1, <2>2 DEF Takes
<1>4. CASE LockHeld(d)
  <2>1. task'[d] = Finished(task[d]) /\ lock' = lock /\ OnlyMoves(d)
    BY <1>1, <1>4 DEF LockHeld, OnlyMoves
  <2>2. ~task[d].locked
    BY <1>4 DEF Held, Outside, LockHeld
  <2>3. ~task'[d].locked /\ task'[d].locked \in BOOLEAN /\ task[d].locked \in BOOLEAN
    BY <1>1, <2>1, FinishedFields DEF TaskSet
  <2> QED
    BY <2>1, <2>2, <2>3 DEF Keeps
<1>5. CASE NoLockInfra(d)
  <2>1. Stays(d) /\ task'[d].at = "pre" /\ lock' = lock
    BY <1>5, GoStays DEF NoLockInfra, Places, Body
  <2> QED
    BY <2>1, MovingKeeps DEF Outside
<1>6. CASE Unlock(d)
  <2>1. task'[d] = Finished(task[d]) /\ lock' = None /\ OnlyMoves(d)
    BY <1>1, <1>6 DEF Unlock, OnlyMoves, ReleasedLock
  <2>2. lock = d
    BY <1>6 DEF Fitting, Fits, Unlock
  <2> QED
    BY <1>1, <2>1, <2>2, FinishedFields DEF Drops
<1>7. CASE Crash(d)
  <2>1. task'[d] = Finished(task[d]) /\ OnlyMoves(d)
        /\ lock' = IF task[d].locked THEN None ELSE lock
    BY <1>1, <1>7 DEF Crash, OnlyMoves
  <2>2. CASE task[d].locked
    BY <1>1, <2>1, <2>2, FinishedFields DEF Drops, Held
  <2>3. CASE ~task[d].locked
    <3>1. ~task'[d].locked /\ task'[d].locked \in BOOLEAN /\ task[d].locked \in BOOLEAN
      BY <1>1, <2>1, FinishedFields DEF TaskSet
    <3> QED
      BY <2>1, <2>3, <3>1 DEF Keeps
  <2> QED
    BY <2>2, <2>3
<1> QED
  BY <1>2, <1>3, <1>4, <1>5, <1>6, <1>7, RunKeeps DEF Step

LEMMA LockMoves ==
  ASSUME Fitting, Held, NEW d \in Deliveries, Keeps(d) \/ Takes(d) \/ Drops(d)
  PROVE  /\ Held'
         /\ [BoxLock!Next]_<<lock, {u \in Deliveries : task[u].locked}>>
<1>1. d # None
  BY EngineAssumption DEF Deliveries
<1>2. CASE Keeps(d)
  <2>1. \A u \in Deliveries : task'[u].locked = task[u].locked
    BY <1>2 DEF Keeps, OnlyMoves
  <2>2. {u \in Deliveries : task'[u].locked} = {u \in Deliveries : task[u].locked}
    BY <2>1
  <2> QED
    BY <1>2, <2>1, <2>2 DEF Keeps, OnlyMoves, Held
<1>3. CASE Takes(d)
  <2>1. \A u \in Deliveries : ~task[u].locked
    BY <1>1, <1>3, EngineAssumption DEF Takes, Held, Deliveries
  <2>2. {u \in Deliveries : task'[u].locked} = {u \in Deliveries : task[u].locked} \cup {d}
    BY <1>3, <2>1 DEF Takes, OnlyMoves
  <2> QED
    BY <1>3, <2>1, <2>2 DEF Takes, OnlyMoves, Held, Outside, BoxLock!Next, BoxLock!Enter
<1>4. CASE Drops(d)
  <2>1. \A u \in Deliveries \ {d} : ~task[u].locked
    BY <1>4 DEF Drops, Held
  <2>2. {u \in Deliveries : task'[u].locked} = {u \in Deliveries : task[u].locked} \ {d}
    BY <1>4, <2>1 DEF Drops, OnlyMoves
  <2> QED
    BY <1>1, <1>4, <2>1, <2>2, EngineAssumption
       DEF Drops, OnlyMoves, Held, Deliveries, BoxLock!Next, BoxLock!Exit
<1> QED
  BY <1>2, <1>3, <1>4

LEMMA EnqueueLock ==
  ASSUME Fitting, Held, NEW e \in Events, Enqueue(e)
  PROVE  \E d \in Deliveries : Keeps(d)
<1>1. PICK d \in Deliveries :
        /\ task[d].at = "idle"
        /\ task' = [task EXCEPT ![d].at = "queued", ![d].event = e]
  BY DEF Enqueue
<1>2. task[d] \in TaskSet /\ task \in [Deliveries -> TaskSet]
  BY DEF Fitting, Typed
<1>3. task'[d].locked = task[d].locked /\ OnlyMoves(d) /\ lock' = lock
  BY <1>1, <1>2 DEF TaskSet, OnlyMoves, Enqueue
<1>4. ~task[d].locked
  BY <1>1 DEF Held, Outside
<1> QED
  BY <1>3, <1>4 DEF Keeps

LEMMA LockKept ==
  Fitting /\ Held /\ [Next]_vars
    => Held' /\ [BoxLock!Next]_<<lock, {u \in Deliveries : task[u].locked}>>
<1> SUFFICES ASSUME Fitting, Held, [Next]_vars
             PROVE  Held' /\ [BoxLock!Next]_<<lock, {u \in Deliveries : task[u].locked}>>
  OBVIOUS
<1>1. CASE UNCHANGED vars
  BY <1>1 DEF vars, Held
<1>2. ASSUME NEW e \in Events, Enqueue(e)
      PROVE  Held' /\ [BoxLock!Next]_<<lock, {u \in Deliveries : task[u].locked}>>
  BY <1>2, EnqueueLock, LockMoves
<1>3. ASSUME NEW d \in Deliveries,
             \/ Dispatch(d) \/ Step(d) \/ ResumeTimesOut(d)
             \/ NoLockInfra(d) \/ PreWriteFails(d) \/ PostWriteFails(d)
             \/ BodyRaises(d) \/ Crash(d)
      PROVE  Held' /\ [BoxLock!Next]_<<lock, {u \in Deliveries : task[u].locked}>>
  BY <1>3, LockSteps, LockMoves
<1> QED
  BY <1>1, <1>2, <1>3 DEF Next

LEMMA InitHeld == Init => Held /\ BoxLock!Init
<1> SUFFICES ASSUME Init PROVE Held /\ BoxLock!Init
  OBVIOUS
<1>1. \A d \in Deliveries : ~task[d].locked /\ lock # d
  BY EngineAssumption DEF Init, Idle, Deliveries
<1>2. {d \in Deliveries : task[d].locked} = {}
  BY <1>1
<1> QED
  BY <1>1, <1>2 DEF Init, Held, BoxLock!Init

\* However the plans end, the box's lock is a mutex of its tasks: none takes it
\* while it is held, the one that took it gives it back, and a lock with no
\* task inside is free (execute and its finally, the worker's session).
THEOREM EngineImplementsMutex == Spec => ImplementsMutex
<1>1. Init => Fitting /\ Held /\ BoxLock!Init
  BY InitFits, InitHeld
<1>2. Fitting /\ Held /\ [Next]_vars => (Fitting /\ Held)'
  BY StutterFits, NextFits, LockKept
<1>3. Fitting /\ Held /\ [Next]_vars
        => [BoxLock!Next]_<<lock, {d \in Deliveries : task[d].locked}>>
  BY LockKept
<1> QED
  BY <1>1, <1>2, <1>3, PTL DEF Spec, ImplementsMutex, BoxLock!Spec
=============================================================================
