----------------------- MODULE ApprovalDispatch_proofs -----------------------
(***************************************************************************)
(* Proofs about ApprovalDispatch, for any numbers of dispatchers, reapers, *)
(* scribes, calls and failures.                                            *)
(***************************************************************************)
EXTENDS ApprovalDispatch, FiniteSetTheorems, TLAPS

-----------------------------------------------------------------------------
(* The inductive invariant.                                                *)

\* A reaper is never where the steps of a dispatcher ask for the lock, and
\* the holder of the lock is past that.
LockFits ==
  \A w \in Workers :
    /\ pc[w] \in {"read", "lock"} => w \notin Reapers
    /\ lock = w => pc[w] \notin Unlocked

\* The workers that are past it without the lock.
Unguarded == {w \in Workers : pc[w] \notin Unlocked /\ lock # w}

UnguardedFits == IsFiniteSet(Unguarded) /\ Cardinality(Unguarded) <= bare

\* A record of a delivered card names a card people have got ...
Fits(rec) ==
  /\ rec.status \in {"dispatched", "orphan"} => rec.card \in 1..cards
  /\ rec.status = "dispatched" => thread # 0

RecordsFit == Fits(record) /\ \A s \in Scribes : Fits(copy[s])

\* ... and so does a worker that has one in hand.
Carrying == {"save", "settle", "flip", "orphan", "claim", "resave", "restate",
             "merge"}
HeldFits ==
  \A w \in Workers :
    /\ pc[w] \in Carrying => held[w] \in 1..cards
    /\ pc[w] \in {"settle", "flip", "restate", "merge"} => thread # 0

\* The workers that found no card and may send one, and those that have sent
\* one and not saved it.
Sending == {w \in Workers : pc[w] \in {"route", "pending", "deliver"}}
Saving == {w \in Workers : pc[w] = "save"}

\* While the row has no thread, every card out is lost or about to be saved;
\* the cards that may yet be sent are paid for; and with the lock at hand
\* nobody is about to send or save one for a row that has a thread.
CardsFit ==
  /\ thread = 0 => cards <= slips + Cardinality(Saving)
  /\ cards + Cardinality(Sending) <= 1 + slips + bare
  /\ bare = 0 => \A w \in Sending \cup Saving : thread = 0

IInv == TypeOK /\ LockFits /\ UnguardedFits /\ RecordsFit /\ HeldFits /\ CardsFit

-----------------------------------------------------------------------------
(* Lemmas.                                                                 *)

\* One worker at a time is past its lock, when every call could try it.
LEMMA Exclusion ==
  ASSUME UnguardedFits, bare = 0, NEW v \in Workers, NEW w \in Workers,
         pc[v] \notin Unlocked, pc[w] \notin Unlocked
  PROVE  v = w
<1>1. Unguarded = {}
  <2>1. Cardinality(Unguarded) = 0
    BY FS_CardinalityType DEF UnguardedFits
  <2> QED
    BY <2>1, FS_EmptySet DEF UnguardedFits
<1> QED
  BY <1>1 DEF Unguarded

\* At most one worker past the lock has it, so those that send or save a card,
\* together with one that is about to send, number no more than the calls that
\* went ahead without the lock, and one.
LEMMA SendersArePaidFor ==
  ASSUME TypeOK, UnguardedFits
  PROVE  /\ IsFiniteSet(Sending) /\ Cardinality(Sending) \in Nat
         /\ IsFiniteSet(Saving) /\ Cardinality(Saving) \in Nat
         /\ \A w \in Workers : pc[w] \notin Unlocked \cup {"save"} =>
              /\ Cardinality(Sending \cup {w}) \in Nat
              /\ Cardinality(Saving) + Cardinality(Sending \cup {w}) <= 1 + bare
<1> DEFINE Past == Unguarded \cup {lock}
<1>1. /\ IsFiniteSet(Past) /\ Cardinality(Past) \in Nat
      /\ Cardinality(Past) <= 1 + bare
  <2>1. IsFiniteSet(Unguarded) /\ Cardinality(Unguarded) \in Nat
        /\ Cardinality(Unguarded) <= bare /\ bare \in Nat
    BY FS_CardinalityType DEF UnguardedFits, TypeOK
  <2>2. /\ IsFiniteSet(Past)
        /\ Cardinality(Past) \in {Cardinality(Unguarded), Cardinality(Unguarded) + 1}
    BY <2>1, FS_AddElement
  <2> HIDE DEF Past
  <2> QED
    BY <2>1, <2>2
<1>2. \A w \in Workers : pc[w] \notin Unlocked => w \in Past
  BY DEF Unguarded
<1>3. Sending \subseteq Past /\ Saving \subseteq Past
  BY <1>2 DEF Sending, Saving, Unlocked
<1> HIDE DEF Past
<1>4. ASSUME NEW S, S \subseteq Past
      PROVE  IsFiniteSet(S) /\ Cardinality(S) \in Nat /\ Cardinality(S) <= 1 + bare
  <2>1. IsFiniteSet(S) /\ Cardinality(S) \in Nat /\ Cardinality(S) <= Cardinality(Past)
    BY <1>1, <1>4, FS_Subset, FS_CardinalityType
  <2> QED
    BY <1>1, <2>1 DEF TypeOK
<1>5. /\ IsFiniteSet(Sending) /\ Cardinality(Sending) \in Nat
      /\ IsFiniteSet(Saving) /\ Cardinality(Saving) \in Nat
  BY <1>3, <1>4
<1>6. ASSUME NEW w \in Workers, pc[w] \notin Unlocked \cup {"save"}
      PROVE  /\ Cardinality(Sending \cup {w}) \in Nat
             /\ Cardinality(Saving) + Cardinality(Sending \cup {w}) <= 1 + bare
  <2> DEFINE T == Sending \cup {w}
  <2>1. T \subseteq Past /\ Saving \cup T \subseteq Past /\ Saving \cap T = {}
    BY <1>2, <1>3, <1>6 DEF Sending, Saving
  <2>2. IsFiniteSet(T) /\ Cardinality(T) \in Nat
    BY <1>4, <2>1
  <2>3. Cardinality(Saving \cup T) <= 1 + bare
    BY <1>4, <2>1
  <2>4. Cardinality(Saving \cup T)
          = Cardinality(Saving) + Cardinality(T) - Cardinality(Saving \cap T)
    BY <1>5, <2>2, FS_Union
  <2>5. Cardinality(Saving \cap T) = 0
    BY <2>1, FS_EmptySet
  <2> HIDE DEF T
  <2>6. Cardinality(Saving) + Cardinality(T) <= 1 + bare
    BY <1>5, <2>2, <2>3, <2>4, <2>5
  <2> QED
    BY <2>2, <2>6 DEF T
<1> QED
  BY <1>5, <1>6

-----------------------------------------------------------------------------
(* IInv is inductive.                                                      *)

\* The initial states satisfy the invariant.
LEMMA InitIInv == Init => IInv
<1> SUFFICES ASSUME Init PROVE IInv
  OBVIOUS
<1>1. TypeOK
  <2>1. state \in APState /\ NoRecord \in Record /\ "idle" \in PCs
    BY DEF Init, APState, NoRecord, Record, PCs
  <2> QED
    BY <2>1 DEF Init, TypeOK
<1>2. LockFits
  BY DispatchActors DEF Init, LockFits, Unlocked
<1>3. RecordsFit /\ HeldFits
  BY DEF Init, RecordsFit, Fits, HeldFits, NoRecord, Carrying
<1>4. Unguarded = {} /\ Sending = {} /\ Saving = {}
  BY DEF Init, Unguarded, Unlocked, Sending, Saving
<1>5. UnguardedFits /\ CardsFit
  BY <1>4, FS_EmptySet DEF Init, UnguardedFits, CardsFit
<1> QED
  BY <1>1, <1>2, <1>3, <1>5 DEF IInv

\* Every step keeps the types.
LEMMA TypeStep == ASSUME TypeOK, [Next]_vars PROVE TypeOK'
<1>1. CASE UNCHANGED vars
  BY <1>1 DEF vars, TypeOK
<1>2. ASSUME NEW w \in Workers, Route(w) \/ Reap(w) PROVE TypeOK'
  <2>1. CASE Route(w)
    BY <2>1 DEF Route, Goto, TypeOK, slack, locks, PCs
  <2>2. CASE Reap(w)
    <3>1. record.card \in Nat
      BY DEF TypeOK, Record
    <3> QED
      BY <2>2, <3>1 DEF Reap, Goto, TypeOK, slack, locks, bounds, PCs
  <2> QED
    BY <1>2, <2>1, <2>2
<1>3. ASSUME NEW w \in Workers, Step(w) PROVE TypeOK'
  <2>1. CASE Read(w) \/ Recheck(w) \/ Look(w) \/ Thread(w) \/ Refuse(w)
    BY <2>1 DEF Read, Recheck, Look, Thread, Refuse, Goto, TypeOK,
                slack, locks, bounds, PCs
  <2>2. CASE Acquire(w)
    BY <1>3, <2>2 DEF Acquire, End, Goto, TypeOK, slack, bounds, PCs
  <2>9. CASE Release(w)
    <3>1. lock' \in Workers \cup {NoWorker}
      BY <2>9 DEF Release, TypeOK
    <3> QED
      BY <2>9, <3>1 DEF Release, End, Goto, TypeOK, slack, bounds, PCs
  <2>8. CASE AcquireFails(w)
    BY <2>8 DEF AcquireFails, Misfortune, Goto, TypeOK, slack, PCs
  <2>3. CASE Validate(w) \/ Rejoin(w) \/ ToApproval(w) \/ Settle(w) \/ Restate(w)
    BY <2>3 DEF Validate, Rejoin, ToApproval, Settle, Restate, Request, Goto,
                TypeOK, slack, locks, bounds, PCs, APState
  <2>4. CASE Pending(w) \/ Failed(w) \/ Flip(w) \/ Orphan(w) \/ Merge(w)
    <3>1. record' \in Record
      BY <2>4 DEF Pending, Failed, Flip, Orphan, Merge, Dispatched, TypeOK, Record
    <3> QED
      BY <2>4, <3>1 DEF Pending, Failed, Flip, Orphan, Merge, Goto, TypeOK,
                        slack, locks, bounds, PCs
  <2>5. CASE Deliver(w)
    BY <2>5 DEF Deliver, Goto, TypeOK, locks, bounds, PCs
  <2>6. CASE ReadFails(w) \/ LoseReply(w) \/ SaveFails(w) \/ WriteFails(w)
             \/ ReapFails(w)
    <3>1. slips' \in Nat /\ cards' \in Nat /\ events' \in Nat
      BY <2>6 DEF ReadFails, LoseReply, SaveFails, WriteFails, ReapFails,
                  Misfortune, TypeOK, slack, locks
    <3>2. pc' \in [Workers -> PCs]
      BY <2>6 DEF ReadFails, LoseReply, SaveFails, WriteFails, ReapFails, Goto,
                  TypeOK, PCs
    <3> QED
      BY <2>6, <3>1, <3>2
         DEF ReadFails, LoseReply, SaveFails, WriteFails, ReapFails, TypeOK, slack, locks
  <2>7. CASE Save(w) \/ Resave(w)
    BY <2>7 DEF Save, Resave, Goto, TypeOK, slack, locks, bounds, PCs
  <2> QED
    BY <1>3, <2>1, <2>2, <2>3, <2>4, <2>5, <2>6, <2>7, <2>8, <2>9 DEF Step
<1>4. ASSUME NEW w \in Workers, Crash(w) PROVE TypeOK'
  BY <1>4 DEF Crash, End, Misfortune, Goto, TypeOK, PCs
<1>5. ASSUME NEW s \in Scribes, ScribeReads(s) \/ ScribeWrites(s) PROVE TypeOK'
  BY <1>5 DEF ScribeReads, ScribeWrites, TypeOK, slack, locks, bounds
<1>6. ASSUME NEW t \in APState, MoveOn(t) PROVE TypeOK'
  BY <1>6 DEF MoveOn, TypeOK, slack, locks, bounds
<1> QED
  BY <1>1, <1>2, <1>3, <1>4, <1>5, <1>6 DEF Next

\* What a step does to the lock and to the place of its worker: the worker
\* stays past the lock, or before it; or it goes past it with the lock, or
\* without; or it ends its call and lets go of the lock, if it has it.
Stays(w) == /\ UNCHANGED locks
            /\ \E p : /\ p \in Unlocked <=> pc[w] \in Unlocked
                      /\ p \in {"read", "lock"} => w \notin Reapers
                      /\ Goto(w, p)
Enters(w) == /\ lock = NoWorker /\ lock' = w /\ bare' = bare
             /\ \E p : p \notin Unlocked /\ Goto(w, p)
EntersUnguarded(w) == /\ lock' = lock /\ bare' = bare + 1 /\ pc[w] \in Unlocked
                      /\ \E p : p \notin Unlocked /\ Goto(w, p)
Leaves(w) == /\ lock' = IF lock = w THEN NoWorker ELSE lock
             /\ bare' = bare /\ Goto(w, "idle")

\* Every step is one of these, or one of the item and its metadata alone.
LEMMA StepMoves ==
  ASSUME TypeOK, LockFits, [Next]_vars
  PROVE  \/ \E w \in Workers : \/ Stays(w) \/ Enters(w)
                               \/ EntersUnguarded(w) \/ Leaves(w)
         \/ UNCHANGED <<lock, bare, pc>>
<1>1. ASSUME NEW w \in Workers, Route(w) \/ Reap(w) PROVE Stays(w)
  BY <1>1, DispatchActors DEF Route, Reap, Stays, Unlocked, Goto, locks
<1>2. ASSUME NEW w \in Workers, Read(w) \/ ReadFails(w) PROVE Stays(w)
  BY <1>2 DEF Read, ReadFails, LockFits, Stays, Unlocked, Goto, locks
<1>3. ASSUME NEW w \in Workers, Acquire(w) PROVE Enters(w) \/ Stays(w)
  BY <1>3 DEF Acquire, End, Enters, Stays, Unlocked, Goto, locks
<1>4. ASSUME NEW w \in Workers, AcquireFails(w) PROVE EntersUnguarded(w)
  <2>1. lock' = lock /\ bare' = bare + 1 /\ pc[w] \in Unlocked
    BY <1>4 DEF AcquireFails, Unlocked
  <2>2. Goto(w, "resave") \/ Goto(w, "recheck")
    BY <1>4 DEF AcquireFails
  <2>3. "resave" \notin Unlocked /\ "recheck" \notin Unlocked
    BY DEF Unlocked
  <2> QED
    BY <2>1, <2>2, <2>3 DEF EntersUnguarded
<1>5. ASSUME NEW w \in Workers,
             Recheck(w) \/ Look(w) \/ Validate(w) \/ Thread(w) \/ Rejoin(w)
             \/ ToApproval(w) \/ Pending(w) \/ Deliver(w) \/ LoseReply(w)
             \/ Refuse(w) \/ Failed(w)
      PROVE  Stays(w)
  <2>1. pc[w] \notin Unlocked /\ UNCHANGED locks
    BY <1>5 DEF Recheck, Look, Validate, Thread, Rejoin, ToApproval, Pending, Deliver,
                LoseReply, Refuse, Failed, Unlocked
  <2>2. \E p : p \notin Unlocked /\ Goto(w, p)
    BY <1>5 DEF Recheck, Look, Validate, Thread, Rejoin, ToApproval, Pending, Deliver,
                LoseReply, Refuse, Failed, Request, Unlocked
  <2> QED
    BY <2>1, <2>2 DEF Stays, Unlocked
<1>6. ASSUME NEW w \in Workers,
             Save(w) \/ SaveFails(w) \/ Settle(w) \/ Flip(w) \/ Orphan(w)
             \/ WriteFails(w) \/ Resave(w) \/ Restate(w) \/ Merge(w) \/ ReapFails(w)
      PROVE  Stays(w)
  <2>1. pc[w] \notin Unlocked /\ UNCHANGED locks
    BY <1>6 DEF Save, SaveFails, Settle, Flip, Orphan, WriteFails, Resave, Restate,
                Merge, ReapFails, Unlocked
  <2>2. \E p : p \notin Unlocked /\ Goto(w, p)
    BY <1>6 DEF Save, SaveFails, Settle, Flip, Orphan, WriteFails, Resave, Restate,
                Merge, ReapFails, Request, Unlocked
  <2> QED
    BY <2>1, <2>2 DEF Stays, Unlocked
<1>7. ASSUME NEW w \in Workers, Release(w) \/ Crash(w) PROVE Leaves(w)
  BY <1>7 DEF Release, Crash, End, Leaves
<1>8. ASSUME NEW s \in Scribes, ScribeReads(s) \/ ScribeWrites(s)
      PROVE  UNCHANGED <<lock, bare, pc>>
  BY <1>8 DEF ScribeReads, ScribeWrites, locks
<1>9. ASSUME NEW t \in APState, MoveOn(t) PROVE UNCHANGED <<lock, bare, pc>>
  BY <1>9 DEF MoveOn, locks
<1>10. CASE UNCHANGED vars
  BY <1>10 DEF vars
<1> QED
  BY <1>1, <1>2, <1>3, <1>4, <1>5, <1>6, <1>7, <1>8, <1>9, <1>10 DEF Next, Step

\* Every step keeps the lock with a worker that is past it, or with nobody.
LEMMA LockStep == ASSUME TypeOK, LockFits, [Next]_vars PROVE LockFits'
<1> USE DispatchActors
<1>1. ASSUME NEW w \in Workers, Stays(w) PROVE LockFits'
  BY <1>1 DEF Stays, Goto, locks, LockFits, TypeOK
<1>2. ASSUME NEW w \in Workers, Enters(w) PROVE LockFits'
  BY <1>2 DEF Enters, Goto, LockFits, Unlocked, TypeOK
<1>3. ASSUME NEW w \in Workers, EntersUnguarded(w) PROVE LockFits'
  BY <1>3 DEF EntersUnguarded, Goto, LockFits, Unlocked, TypeOK
<1>4. ASSUME NEW w \in Workers, Leaves(w) PROVE LockFits'
  BY <1>4 DEF Leaves, Goto, LockFits, Unlocked, TypeOK
<1>5. CASE UNCHANGED <<lock, bare, pc>>
  BY <1>5 DEF LockFits
<1> QED
  BY <1>1, <1>2, <1>3, <1>4, <1>5, StepMoves

\* Every step keeps count of the calls without the lock.
LEMMA UnguardedStep ==
  ASSUME TypeOK, LockFits, UnguardedFits, [Next]_vars
  PROVE  UnguardedFits'
<1>a. /\ bare \in Nat /\ IsFiniteSet(Unguarded)
      /\ Cardinality(Unguarded) <= bare /\ Cardinality(Unguarded) \in Nat
  BY FS_CardinalityType DEF TypeOK, UnguardedFits
\* Nobody joins them.
<1>1. ASSUME Unguarded' \subseteq Unguarded, bare' = bare PROVE UnguardedFits'
  <2>1. /\ IsFiniteSet(Unguarded') /\ Cardinality(Unguarded') \in Nat
        /\ Cardinality(Unguarded') <= Cardinality(Unguarded)
    BY <1>a, <1>1, FS_Subset, FS_CardinalityType
  <2>2. Cardinality(Unguarded') <= bare'
    BY <1>a, <1>1, <2>1
  <2> QED
    BY <2>1, <2>2 DEF UnguardedFits
<1>2. ASSUME NEW w \in Workers, Stays(w) PROVE UnguardedFits'
  <2>1. Unguarded' \subseteq Unguarded
    BY <1>2 DEF Stays, Goto, locks, TypeOK, Unguarded
  <2> QED
    BY <1>1, <1>2, <2>1 DEF Stays, locks
<1>3. ASSUME NEW w \in Workers, Enters(w) PROVE UnguardedFits'
  <2>1. Unguarded' \subseteq Unguarded
    BY <1>3, DispatchActors DEF Enters, Goto, TypeOK, Unguarded
  <2> QED
    BY <1>1, <1>3, <2>1 DEF Enters
\* One more goes ahead, and is counted.
<1>4. ASSUME NEW w \in Workers, EntersUnguarded(w) PROVE UnguardedFits'
  <2>1. Unguarded' \subseteq Unguarded \cup {w} /\ bare' = bare + 1
    BY <1>4 DEF EntersUnguarded, Goto, TypeOK, Unguarded
  <2>2. /\ IsFiniteSet(Unguarded \cup {w})
        /\ Cardinality(Unguarded \cup {w})
             \in {Cardinality(Unguarded), Cardinality(Unguarded) + 1}
    BY <1>a, FS_AddElement
  <2>3. /\ IsFiniteSet(Unguarded') /\ Cardinality(Unguarded') \in Nat
        /\ Cardinality(Unguarded') <= Cardinality(Unguarded \cup {w})
    BY <2>1, <2>2, FS_Subset, FS_CardinalityType
  <2>4. Cardinality(Unguarded') <= bare'
    BY <1>a, <2>1, <2>2, <2>3
  <2> QED
    BY <2>3, <2>4 DEF UnguardedFits
<1>5. ASSUME NEW w \in Workers, Leaves(w) PROVE UnguardedFits'
  <2>1. Unguarded' \subseteq Unguarded
    BY <1>5 DEF Leaves, Goto, LockFits, TypeOK, Unguarded, Unlocked
  <2> QED
    BY <1>1, <1>5, <2>1 DEF Leaves
<1>6. CASE UNCHANGED <<lock, bare, pc>>
  <2>1. Unguarded' = Unguarded
    BY <1>6 DEF Unguarded
  <2> QED
    BY <1>1, <1>6, <2>1
<1> QED
  BY <1>2, <1>3, <1>4, <1>5, <1>6, StepMoves

\* Cards are never taken back, and the row's thread is never cleared.
LEMMA CardsStay ==
  ASSUME TypeOK, LockFits, HeldFits, [Next]_vars
  PROVE  cards <= cards' /\ (thread # 0 => thread' # 0)
<1>1. ASSUME NEW w \in Workers, Save(w) \/ Resave(w) \/ Deliver(w) \/ LoseReply(w)
      PROVE  cards <= cards' /\ (thread # 0 => thread' # 0)
  BY <1>1 DEF Save, Resave, Deliver, LoseReply, HeldFits, Carrying, TypeOK, slack
<1>2. ASSUME UNCHANGED <<cards, thread>>
      PROVE  cards <= cards' /\ (thread # 0 => thread' # 0)
  BY <1>2 DEF TypeOK
<1>3. \/ UNCHANGED <<cards, thread>>
      \/ \E w \in Workers : Save(w) \/ Resave(w) \/ Deliver(w) \/ LoseReply(w)
  BY DEF Next, vars, Route, Reap, Step, Crash, ScribeReads, ScribeWrites, MoveOn,
         Read, Acquire, AcquireFails, Recheck, ReadFails, Look, Validate, Thread, Rejoin,
         ToApproval, Pending, Refuse, Failed, SaveFails, Settle, Flip, Orphan, WriteFails,
         Restate, Merge, ReapFails, Release, slack
<1> QED
  BY <1>1, <1>2, <1>3

\* Every step keeps the records of delivered cards true.
LEMMA RecordsStep ==
  ASSUME TypeOK, TypeOK', LockFits, RecordsFit, HeldFits, [Next]_vars
  PROVE  RecordsFit'
<1>0. cards <= cards' /\ (thread # 0 => thread' # 0)
  BY CardsStay
<1>1. ASSUME UNCHANGED <<record, copy>> PROVE RecordsFit'
  BY <1>0, <1>1 DEF RecordsFit, Fits, TypeOK, Record
<1>2. ASSUME NEW w \in Workers,
             Pending(w) \/ Failed(w) \/ Flip(w) \/ Orphan(w) \/ Merge(w)
      PROVE  RecordsFit'
  <2>1. Fits(record)'
    BY <1>2 DEF Pending, Failed, Flip, Orphan, Merge, Dispatched, HeldFits,
                Carrying, Fits, TypeOK, slack
  <2>2. \A s \in Scribes : Fits(copy[s])'
    BY <1>0, <1>2 DEF Pending, Failed, Flip, Orphan, Merge, RecordsFit, Fits,
                      TypeOK, Record
  <2> QED
    BY <2>1, <2>2 DEF RecordsFit
<1>3. ASSUME NEW s \in Scribes, ScribeReads(s) \/ ScribeWrites(s) PROVE RecordsFit'
  BY <1>3 DEF ScribeReads, ScribeWrites, RecordsFit, Fits, TypeOK, slack
<1>4. \/ UNCHANGED <<record, copy>>
      \/ \E w \in Workers : Pending(w) \/ Failed(w) \/ Flip(w) \/ Orphan(w) \/ Merge(w)
      \/ \E s \in Scribes : ScribeReads(s) \/ ScribeWrites(s)
  BY DEF Next, vars, Route, Reap, Step, Crash, MoveOn, Read, Acquire, AcquireFails,
         Recheck, ReadFails, Look, Validate, Thread, Rejoin, ToApproval, Deliver, LoseReply, Refuse,
         Save, SaveFails, Settle, WriteFails, Resave, Restate, ReapFails, Release
<1> QED
  BY <1>1, <1>2, <1>3, <1>4

\* Every step keeps what a worker carries a card people have got.
LEMMA HeldStep ==
  ASSUME TypeOK, TypeOK', LockFits, RecordsFit, HeldFits, CardsFit, [Next]_vars
  PROVE  HeldFits'
<1>0. cards <= cards' /\ (thread # 0 => thread' # 0)
  BY CardsStay
<1>1. ASSUME UNCHANGED <<pc, held>> PROVE HeldFits'
  BY <1>0, <1>1 DEF HeldFits, TypeOK
<1>2. ASSUME NEW w \in Workers, Goto(w, pc'[w]), pc'[w] \notin Carrying,
             \A v \in Workers \ {w} : held'[v] = held[v]
      PROVE  HeldFits'
  BY <1>0, <1>2 DEF HeldFits, Goto, Carrying, TypeOK
<1>3. ASSUME NEW w \in Workers, Deliver(w) PROVE HeldFits'
  BY <1>0, <1>3 DEF Deliver, HeldFits, Goto, TypeOK
<1>4. ASSUME NEW w \in Workers, Reap(w) PROVE HeldFits'
  BY <1>0, <1>4 DEF Reap, Orphaned, HeldFits, RecordsFit, Fits, Goto, TypeOK
<1>5. ASSUME NEW w \in Workers, Acquire(w) \/ AcquireFails(w) PROVE HeldFits'
  BY <1>0, <1>5, DispatchActors
     DEF Acquire, AcquireFails, End, HeldFits, LockFits, Carrying, Goto, TypeOK
<1>6. ASSUME NEW w \in Workers, Save(w) \/ Resave(w) PROVE HeldFits'
  BY <1>0, <1>6 DEF Save, Resave, HeldFits, Carrying, Goto, TypeOK
<1>7. ASSUME NEW w \in Workers, SaveFails(w) \/ Settle(w) \/ Restate(w)
      PROVE  HeldFits'
  BY <1>0, <1>7
     DEF SaveFails, Settle, Restate, Request, HeldFits, Carrying, Goto, TypeOK
<1>8. \/ UNCHANGED <<pc, held>>
      \/ \E w \in Workers :
           Deliver(w) \/ Reap(w) \/ Acquire(w) \/ AcquireFails(w) \/ Save(w)
             \/ Resave(w) \/ SaveFails(w) \/ Settle(w) \/ Restate(w)
      \/ \E w \in Workers :
           /\ Goto(w, pc'[w]) /\ pc'[w] \notin Carrying
           /\ \A v \in Workers \ {w} : held'[v] = held[v]
  <2>1. ASSUME NEW w \in Workers, Route(w) \/ Crash(w)
        PROVE  /\ Goto(w, pc'[w]) /\ pc'[w] \notin Carrying
               /\ \A v \in Workers \ {w} : held'[v] = held[v]
    BY <2>1 DEF Route, Crash, End, Goto, Carrying, TypeOK
  <2>2. ASSUME NEW w \in Workers, Step(w),
               ~(Deliver(w) \/ Acquire(w) \/ AcquireFails(w) \/ Save(w)
                   \/ Resave(w) \/ SaveFails(w) \/ Settle(w) \/ Restate(w))
        PROVE  /\ Goto(w, pc'[w]) /\ pc'[w] \notin Carrying
               /\ \A v \in Workers \ {w} : held'[v] = held[v]
    BY <2>2
       DEF Step, Read, Recheck, ReadFails, Look, Validate, Thread, Rejoin, ToApproval,
           Pending, LoseReply, Refuse, Failed, Flip, Orphan, WriteFails, Merge,
           ReapFails, Release, Request, End, Goto, Carrying, TypeOK
  <2> QED
    BY <2>1, <2>2 DEF Next, vars, ScribeReads, ScribeWrites, MoveOn
<1> QED
  BY <1>1, <1>2, <1>3, <1>4, <1>5, <1>6, <1>7, <1>8


\* Every step keeps the count of the cards.
LEMMA CardsStep ==
  ASSUME TypeOK, TypeOK', UnguardedFits, HeldFits, CardsFit, [Next]_vars
  PROVE  CardsFit'
<1>a. /\ cards \in Nat /\ slips \in Nat /\ bare \in Nat /\ thread \in Nat
      /\ cards' \in Nat /\ slips' \in Nat /\ bare' \in Nat
      /\ IsFiniteSet(Sending) /\ Cardinality(Sending) \in Nat
      /\ IsFiniteSet(Saving) /\ Cardinality(Saving) \in Nat
  BY SendersArePaidFor DEF TypeOK
<1>b. /\ thread = 0 => cards <= slips + Cardinality(Saving)
      /\ cards + Cardinality(Sending) <= 1 + slips + bare
      /\ bare = 0 => \A w \in Sending \cup Saving : thread = 0
  BY DEF CardsFit
\* Nobody comes to send or to save a card.
<1>1. ASSUME UNCHANGED <<cards, slips, thread>>, bare' \in {bare, bare + 1},
             Sending' \subseteq Sending, Saving' = Saving
      PROVE  CardsFit'
  <2>1. Cardinality(Sending') \in Nat /\ Cardinality(Sending') <= Cardinality(Sending)
    BY <1>a, <1>1, FS_Subset, FS_CardinalityType
  <2>2. cards' + Cardinality(Sending') <= 1 + slips' + bare'
    BY <1>a, <1>b, <1>1, <2>1
  <2>3. thread' = 0 => cards' <= slips' + Cardinality(Saving')
    BY <1>b, <1>1
  <2>4. bare' = 0 => \A w \in Sending' \cup Saving' : thread' = 0
    BY <1>a, <1>b, <1>1
  <2> QED
    BY <2>2, <2>3, <2>4 DEF CardsFit
<1>2. ASSUME NEW w \in Workers, NEW p, Goto(w, p), UNCHANGED <<cards, slips, thread>>,
             bare' \in {bare, bare + 1}, pc[w] # "save", p # "save",
             p \in {"route", "pending", "deliver"} => w \in Sending
      PROVE  CardsFit'
  <2>1. Sending' \subseteq Sending /\ Saving' = Saving
    BY <1>2 DEF Goto, TypeOK, Sending, Saving
  <2> QED
    BY <1>1, <1>2, <2>1
\* The look at the Slack columns finds no card: the call will send one.
<1>3. ASSUME NEW w \in Workers, Thread(w) PROVE CardsFit'
  <2>1. CASE thread # 0
    BY <1>2, <1>3, <2>1 DEF Thread, Rejoins, slack, locks
  <2>2. CASE thread = 0
    <3>1. /\ pc[w] = "thread" /\ Goto(w, "route")
          /\ UNCHANGED <<cards, slips, bare, thread>>
      BY <1>3, <2>2 DEF Thread, Rejoins, slack, locks
    <3>2. Sending' = Sending \cup {w} /\ Saving' = Saving
      BY <3>1 DEF Goto, TypeOK, Sending, Saving
    <3>3. /\ Cardinality(Sending') \in Nat
          /\ Cardinality(Saving) + Cardinality(Sending') <= 1 + bare
      BY <3>1, <3>2, SendersArePaidFor DEF Unlocked
    <3>4. cards' + Cardinality(Sending') <= 1 + slips' + bare'
      BY <1>a, <1>b, <2>2, <3>1, <3>3
    <3> QED
      BY <1>b, <2>2, <3>1, <3>2, <3>4 DEF CardsFit
  <2> QED
    BY <2>1, <2>2
\* One sender less, one card more, and one more to save.
<1>4. ASSUME NEW w \in Workers, Deliver(w) PROVE CardsFit'
  <2>1. /\ pc[w] = "deliver" /\ Goto(w, "save") /\ cards' = cards + 1
        /\ UNCHANGED <<slips, bare, thread>>
    BY <1>4 DEF Deliver, locks
  <2>2. /\ w \in Sending /\ Sending' = Sending \ {w}
        /\ w \notin Saving /\ Saving' = Saving \cup {w}
    BY <2>1 DEF Goto, TypeOK, Sending, Saving
  <2>3. /\ Cardinality(Sending') = Cardinality(Sending) - 1
        /\ Cardinality(Saving') = Cardinality(Saving) + 1
    BY <1>a, <2>2, FS_AddElement, FS_RemoveElement
  <2>4. /\ cards' + Cardinality(Sending') <= 1 + slips' + bare'
        /\ thread' = 0 => cards' <= slips' + Cardinality(Saving')
    BY <1>a, <1>b, <2>1, <2>3
  <2>5. bare' = 0 => \A v \in Sending' \cup Saving' : thread' = 0
    BY <1>b, <2>1, <2>2
  <2> QED
    BY <2>4, <2>5 DEF CardsFit
\* The card is out and lost.
<1>5. ASSUME NEW w \in Workers, LoseReply(w) PROVE CardsFit'
  <2>1. /\ pc[w] = "deliver" /\ cards' = cards + 1 /\ slips' = slips + 1
        /\ UNCHANGED <<bare, thread>> /\ \E p \in {"deliver", "failed"} : Goto(w, p)
    BY <1>5 DEF LoseReply, locks
  <2>2. Sending' \subseteq Sending /\ Saving' = Saving
    BY <2>1 DEF Goto, TypeOK, Sending, Saving
  <2>3. Cardinality(Sending') \in Nat /\ Cardinality(Sending') <= Cardinality(Sending)
    BY <1>a, <2>2, FS_Subset, FS_CardinalityType
  <2>4. cards' + Cardinality(Sending') <= 1 + slips' + bare'
    BY <1>a, <1>b, <2>1, <2>3
  <2>5. thread' = 0 => cards' <= slips' + Cardinality(Saving')
    BY <1>a, <1>b, <2>1, <2>2
  <2>6. bare' = 0 => \A v \in Sending' \cup Saving' : thread' = 0
    BY <1>b, <2>1, <2>2
  <2> QED
    BY <2>4, <2>5, <2>6 DEF CardsFit
\* The row gets a thread, and with the lock at hand nobody else is near.
<1>6. ASSUME NEW w \in Workers, Save(w) \/ Resave(w) PROVE CardsFit'
  <2>1. thread' # 0 /\ UNCHANGED <<cards, slips, bare>>
    BY <1>6 DEF Save, Resave, HeldFits, Carrying, TypeOK, slack, locks
  <2>2. /\ pc[w] \notin Unlocked \cup {"route", "pending", "deliver"}
        /\ Goto(w, "settle") \/ Goto(w, "restate")
    BY <1>6 DEF Save, Resave, Unlocked
  <2>3. Sending' = Sending /\ Saving' \subseteq Saving \ {w}
    BY <2>2 DEF Goto, TypeOK, Sending, Saving
  <2>4. bare = 0 => Sending = {} /\ Saving \subseteq {w}
    <3>1. ASSUME bare = 0, NEW v \in Sending \cup Saving PROVE v = w
      BY <2>2, <3>1, Exclusion DEF Sending, Saving, Unlocked
    <3>2. w \notin Sending
      BY <2>2 DEF Sending
    <3> QED
      BY <3>1, <3>2
  <2>5. bare' = 0 => Sending' \cup Saving' = {}
    BY <2>1, <2>3, <2>4
  <2> QED
    BY <1>b, <2>1, <2>3, <2>5 DEF CardsFit
\* A card that was about to be saved is lost.
<1>7. ASSUME NEW w \in Workers, SaveFails(w) \/ Crash(w) PROVE CardsFit'
  <2>1. /\ UNCHANGED <<cards, bare, thread>>
        /\ Goto(w, "orphan") \/ Goto(w, "idle")
        /\ slips' = IF pc[w] = "save" THEN slips + 1 ELSE slips
    BY <1>7 DEF SaveFails, Crash, End, locks
  <2>2. CASE pc[w] = "save"
    <3>1. Sending' = Sending /\ w \in Saving /\ Saving' = Saving \ {w}
      BY <2>1, <2>2 DEF Goto, TypeOK, Sending, Saving
    <3>2. Cardinality(Saving') = Cardinality(Saving) - 1
      BY <1>a, <3>1, FS_RemoveElement
    <3>3. /\ cards' + Cardinality(Sending') <= 1 + slips' + bare'
          /\ thread' = 0 => cards' <= slips' + Cardinality(Saving')
      BY <1>a, <1>b, <2>1, <2>2, <3>1, <3>2
    <3>4. bare' = 0 => \A v \in Sending' \cup Saving' : thread' = 0
      BY <1>b, <2>1, <3>1
    <3> QED
      BY <3>3, <3>4 DEF CardsFit
  <2>3. CASE pc[w] # "save"
    BY <1>2, <2>1, <2>3
  <2> QED
    BY <2>2, <2>3
<1>8. ASSUME NEW w \in Workers,
             Route(w) \/ Reap(w) \/ Read(w) \/ Acquire(w) \/ AcquireFails(w)
             \/ Recheck(w) \/ ReadFails(w) \/ Look(w) \/ Validate(w) \/ Rejoin(w)
      PROVE  CardsFit'
  <2>1. /\ UNCHANGED <<cards, slips, thread>> /\ bare' \in {bare, bare + 1}
        /\ pc[w] # "save"
    BY <1>8 DEF Route, Reap, Read, Acquire, AcquireFails, Recheck, ReadFails, Look,
                Validate, Rejoin, slack, locks
  <2>2. \E p : p \notin {"route", "pending", "deliver", "save"} /\ Goto(w, p)
    BY <1>8 DEF Route, Reap, Read, Acquire, AcquireFails, Recheck, ReadFails, Look,
                Validate, Rejoin, Request, End
  <2> QED
    BY <1>2, <2>1, <2>2
<1>9. ASSUME NEW w \in Workers,
             ToApproval(w) \/ Pending(w) \/ Refuse(w) \/ Failed(w) \/ WriteFails(w)
      PROVE  CardsFit'
  <2>1. UNCHANGED <<cards, slips, thread, bare>> /\ pc[w] # "save"
    BY <1>9 DEF ToApproval, Pending, Refuse, Failed, WriteFails, slack, locks
  <2>2. \E p : /\ p # "save" /\ Goto(w, p)
               /\ p \in {"route", "pending", "deliver"} => w \in Sending
    BY <1>9 DEF ToApproval, Pending, Refuse, Failed, WriteFails, Request, Sending
  <2> QED
    BY <1>2, <2>1, <2>2
<1>10. ASSUME NEW w \in Workers,
              Settle(w) \/ Flip(w) \/ Orphan(w) \/ Restate(w) \/ Merge(w)
              \/ ReapFails(w) \/ Release(w)
       PROVE  CardsFit'
  <2>1. UNCHANGED <<cards, slips, thread, bare>> /\ pc[w] # "save"
    BY <1>10 DEF Settle, Flip, Orphan, Restate, Merge, ReapFails, Release, slack, locks
  <2>2. \E p : p \notin {"route", "pending", "deliver", "save"} /\ Goto(w, p)
    BY <1>10 DEF Settle, Flip, Orphan, Restate, Merge, ReapFails, Release, Request, End
  <2> QED
    BY <1>2, <2>1, <2>2
<1>11. ASSUME UNCHANGED <<cards, slips, thread, bare, pc>> PROVE CardsFit'
  <2>1. Sending' = Sending /\ Saving' = Saving
    BY <1>11 DEF Sending, Saving
  <2> QED
    BY <1>1, <1>11, <2>1
<1>12. ASSUME NEW s \in Scribes, ScribeReads(s) \/ ScribeWrites(s)
       PROVE  UNCHANGED <<cards, slips, thread, bare, pc>>
  BY <1>12 DEF ScribeReads, ScribeWrites, slack, locks
<1>13. ASSUME NEW t \in APState, MoveOn(t)
       PROVE  UNCHANGED <<cards, slips, thread, bare, pc>>
  BY <1>13 DEF MoveOn, slack, locks
<1>14. CASE UNCHANGED vars
  BY <1>11, <1>14 DEF vars
<1> QED
  BY <1>3, <1>4, <1>5, <1>6, <1>7, <1>8, <1>9, <1>10, <1>11, <1>12, <1>13, <1>14
     DEF Next, Step

\* Under the invariant, what was lost pays for the cards, with one to spare
\* while a call is about to send.
LEMMA CardsArePaidFor ==
  ASSUME IInv
  PROVE  /\ cards \in Nat /\ slips \in Nat /\ bare \in Nat
         /\ cards <= 1 + slips + bare
         /\ \A w \in Workers : pc[w] = "deliver" => cards <= slips + bare
<1>1. /\ cards \in Nat /\ slips \in Nat /\ bare \in Nat
      /\ IsFiniteSet(Sending) /\ Cardinality(Sending) \in Nat
      /\ cards + Cardinality(Sending) <= 1 + slips + bare
  BY SendersArePaidFor DEF IInv, TypeOK, CardsFit
<1>2. ASSUME NEW w \in Workers, pc[w] = "deliver" PROVE Cardinality(Sending) # 0
  BY <1>1, <1>2, FS_EmptySet DEF Sending
<1> QED
  BY <1>1, <1>2

\* IInv is an invariant.
LEMMA Invariance == Spec => []IInv
<1>1. Init => IInv
  BY InitIInv
<1>2. IInv /\ [Next]_vars => IInv'
  <2> SUFFICES ASSUME IInv, [Next]_vars PROVE IInv'
    OBVIOUS
  <2>1. TypeOK /\ LockFits /\ UnguardedFits /\ RecordsFit /\ HeldFits /\ CardsFit
    BY DEF IInv
  <2>2. TypeOK' /\ LockFits' /\ UnguardedFits'
    BY <2>1, TypeStep, LockStep, UnguardedStep
  <2> QED
    BY <2>1, <2>2, RecordsStep, HeldStep, CardsStep DEF IInv
<1> QED
  BY <1>1, <1>2, PTL DEF Spec

-----------------------------------------------------------------------------
(* The theorems.                                                           *)

\* The item, the dispatch record and the workers keep to their types.
THEOREM TypeCorrect == Spec => []TypeOK
<1>1. IInv => TypeOK
  BY DEF IInv
<1> QED
  BY <1>1, Invariance, PTL

\* However many dispatches overlap, fail and are recovered, people get one
\* card, and one more for each card lost before it was saved and each call
\* that could not try the lock.
THEOREM CardsNeedSlips == Spec => []ExtraCardsNeedASlip
<1>1. IInv => ExtraCardsNeedASlip
  BY CardsArePaidFor DEF ExtraCardsNeedASlip
<1> QED
  BY <1>1, Invariance, PTL

\* A record that says "dispatched" names a card that is out, and the row has
\* a thread, however many writers put old copies of the metadata back.
THEOREM DispatchesAreTrue == Spec => []DispatchedHasThread
<1>1. IInv => DispatchedHasThread
  BY DEF IInv, RecordsFit, Fits, DispatchedHasThread
<1> QED
  BY <1>1, Invariance, PTL

\* An item with a saved card gets no other, as long as every call could try
\* the lock.
THEOREM RoutedItemsStayQuiet == Spec => RoutedItemsGetNoCard
<1>1. IInv /\ [Next]_vars => [cards' # cards => thread = 0 \/ bare > 0]_vars
  <2> SUFFICES ASSUME IInv, [Next]_vars, cards' # cards, bare = 0 PROVE thread = 0
    BY DEF vars, IInv, TypeOK
  <2>1. PICK w \in Workers : Deliver(w) \/ LoseReply(w)
    BY DEF Next, vars, Route, Reap, Step, Crash, ScribeReads, ScribeWrites,
           MoveOn, Read, Acquire, AcquireFails, Recheck, ReadFails, Look, Validate,
           Thread, Rejoin, ToApproval, Pending, Refuse, Failed, Save, SaveFails, Settle, Flip,
           Orphan, WriteFails, Resave, Restate, Merge, ReapFails, Release, slack
  <2> QED
    BY <2>1 DEF Deliver, LoseReply, IInv, CardsFit, Sending
<1> QED
  BY <1>1, Invariance, PTL DEF Spec, RoutedItemsGetNoCard

\* Every card beyond the first takes a misfortune of its own: a crash, a
\* failed write, a lost reply or a lock that could not be tried.
THEOREM MisfortunesPayForCards == Spec => [](cards <= 1 + events)
<1>1. Init => slips + bare <= events
  BY DEF Init
<1>2. IInv /\ slips + bare <= events /\ [Next]_vars => (slips + bare <= events)'
  <2> SUFFICES ASSUME IInv, slips + bare <= events, [Next]_vars
               PROVE  slips' + bare' <= events'
    OBVIOUS
  <2>a. slips \in Nat /\ bare \in Nat /\ events \in Nat
    BY DEF IInv, TypeOK
  <2>1. ASSUME NEW w \in Workers,
               LoseReply(w) \/ SaveFails(w) \/ Crash(w) \/ AcquireFails(w)
        PROVE  slips' + bare' <= events'
    BY <2>a, <2>1 DEF LoseReply, SaveFails, Crash, AcquireFails, Misfortune, slack, locks
  <2>2. ASSUME NEW w \in Workers, ReadFails(w) \/ WriteFails(w) \/ ReapFails(w)
        PROVE  slips' + bare' <= events'
    BY <2>a, <2>2 DEF ReadFails, WriteFails, ReapFails, Misfortune, slack, locks
  <2>3. \/ UNCHANGED <<slips, bare, events>>
        \/ \E w \in Workers : LoseReply(w) \/ SaveFails(w) \/ Crash(w) \/ AcquireFails(w)
        \/ \E w \in Workers : ReadFails(w) \/ WriteFails(w) \/ ReapFails(w)
    BY DEF Next, vars, Route, Reap, Step, ScribeReads, ScribeWrites, MoveOn, Read,
           Acquire, Recheck, Look, Validate, Thread, Rejoin, ToApproval, Pending,
           Deliver, Refuse, Failed, Save, Settle, Flip, Orphan, Resave, Restate,
           Merge, Release, slack, locks, bounds
  <2> QED
    BY <2>1, <2>2, <2>3
<1>3. IInv /\ slips + bare <= events => cards <= 1 + events
  BY CardsArePaidFor DEF IInv, TypeOK
<1> QED
  BY <1>1, <1>2, <1>3, Invariance, PTL DEF Spec

-----------------------------------------------------------------------------
(* The box lock is a mutex.                                                *)

\* Of the dispatchers and reapers at work on an item, one has the lock, the
\* one that it names; nobody takes a lock that is held, and a lock that is
\* held belongs to work that is under way.
THEOREM DispatchImplementsMutex == Spec => ImplementsMutex
<1> DEFINE inside == {w \in Workers : pc[w] \notin Unlocked /\ lock = w}
<1>1. LockFits => inside = {w \in Workers : lock = w}
  BY DEF LockFits
<1>2. LockFits' => inside' = {w \in Workers : lock' = w}
  BY DEF LockFits
<1>3. Init => BoxLock!Init
  <2> SUFFICES ASSUME Init PROVE lock = NoWorker /\ inside = {}
    BY DEF BoxLock!Init
  <2>1. lock = NoWorker /\ LockFits
    BY InitIInv DEF Init, IInv
  <2> QED
    BY <1>1, <2>1, DispatchActors
<1>4. IInv /\ IInv' /\ [Next]_vars => [BoxLock!Next]_<<lock, inside>>
  <2> SUFFICES ASSUME IInv, IInv', [Next]_vars
               PROVE  BoxLock!Next \/ UNCHANGED <<lock, inside>>
    OBVIOUS
  <2>1. /\ inside = {w \in Workers : lock = w}
        /\ inside' = {w \in Workers : lock' = w}
    BY <1>1, <1>2 DEF IInv
  <2>5. \/ lock' = lock
        \/ \E w \in Workers : \/ lock = NoWorker /\ lock' = w
                              \/ lock = w /\ lock' = NoWorker
    BY StepMoves DEF IInv, Stays, Enters, EntersUnguarded, Leaves, locks
  <2> HIDE DEF inside
  <2>2. CASE lock' = lock
    BY <2>1, <2>2
  <2>3. ASSUME NEW w \in Workers, lock = NoWorker, lock' = w PROVE BoxLock!Enter(w)
    <3>1. inside' = inside \cup {w}
      BY <2>1, <2>3, DispatchActors
    <3> QED
      BY <2>3, <3>1 DEF BoxLock!Enter, inside
  <2>4. ASSUME NEW w \in Workers, lock = w, lock' = NoWorker PROVE BoxLock!Exit(w)
    <3>1. inside' = inside \ {w}
      BY <2>1, <2>4, DispatchActors
    <3> QED
      BY <2>4, <3>1 DEF BoxLock!Exit, inside
  <2> QED
    BY <2>2, <2>3, <2>4, <2>5 DEF BoxLock!Next
<1> QED
  BY <1>3, <1>4, Invariance, PTL DEF Spec, ImplementsMutex, BoxLock!Spec

-----------------------------------------------------------------------------
(* Dispatching is an external effect with a promise.                       *)

\* The row's thread is a card people have got.
ThreadFits == thread \in 0..cards

\* Only what a worker carries becomes the row's thread.
LEMMA ThreadStep ==
  ASSUME IInv, ThreadFits, [Next]_vars
  PROVE  ThreadFits'
<1>1. ASSUME NEW w \in Workers, Save(w) \/ Resave(w) PROVE ThreadFits'
  BY <1>1 DEF Save, Resave, IInv, HeldFits, Carrying, TypeOK, ThreadFits, slack
<1>2. CASE thread' = thread
  <2>1. cards <= cards' /\ cards \in Nat /\ cards' \in Nat
    BY CardsStay, TypeStep DEF IInv, TypeOK
  <2> QED
    BY <1>2, <2>1 DEF ThreadFits
<1>3. thread' = thread \/ \E w \in Workers : Save(w) \/ Resave(w)
  BY DEF Next, vars, Route, Reap, Step, Crash, ScribeReads, ScribeWrites, MoveOn, Read,
         Acquire, AcquireFails, Recheck, ReadFails, Look, Validate, Thread, Rejoin,
         ToApproval, Pending, Deliver, LoseReply, Refuse, Failed, SaveFails, Settle, Flip, Orphan,
         WriteFails, Restate, Merge, ReapFails, Release
<1> QED
  BY <1>1, <1>2, <1>3

\* Every step of the dispatch is a step of the promise, or none.
LEMMA EffectStep ==
  ASSUME IInv, ThreadFits, [Next]_vars
  PROVE  Card!Next \/ UNCHANGED <<cards, slips + bare, thread, record.status = "dispatched">>
<1>a. TypeOK /\ RecordsFit /\ HeldFits /\ CardsFit /\ LockFits
  BY DEF IInv
<1>b. cards \in Nat /\ slips \in Nat /\ bare \in Nat /\ thread \in 0..cards
  BY <1>a DEF TypeOK, ThreadFits
\* The card goes out where what was lost pays for those that are out.
<1>1. ASSUME NEW w \in Workers, Deliver(w) PROVE Card!Make
  <2>1. cards <= slips + bare
    BY <1>1, CardsArePaidFor DEF Deliver
  <2> QED
    BY <1>1, <2>1 DEF Deliver, Card!Make, locks
<1>2. ASSUME NEW w \in Workers, LoseReply(w) PROVE Card!Lose
  <2>1. /\ cards' = cards + 1 /\ slips' = slips + 1
        /\ UNCHANGED <<bare, thread, record>>
    BY <1>2 DEF LoseReply, locks
  <2>2. slips' + bare' = slips + bare + 1
    BY <1>b, <2>1
  <2> QED
    BY <2>1, <2>2 DEF Card!Lose
\* A card is lost before it was saved, or a call goes ahead without the lock.
<1>3. ASSUME NEW w \in Workers, SaveFails(w) \/ Crash(w) \/ AcquireFails(w)
      PROVE  Card!Lose \/ UNCHANGED <<cards, slips + bare, thread, record.status = "dispatched">>
  <2>1. /\ UNCHANGED <<cards, thread, record>>
        /\ \/ UNCHANGED <<slips, bare>>
           \/ slips' = slips + 1 /\ bare' = bare
           \/ slips' = slips /\ bare' = bare + 1
    BY <1>3 DEF SaveFails, Crash, AcquireFails, slack, locks
  <2>2. slips' + bare' \in {slips + bare, slips + bare + 1}
    BY <1>b, <2>1
  <2> QED
    BY <2>1, <2>2 DEF Card!Lose
\* A card in hand is put on the row; only a reaper's can replace another.
<1>4. ASSUME NEW w \in Workers, Save(w) \/ Resave(w)
      PROVE  \E n \in 1..cards : Card!Know(n)
  <2>1. /\ held[w] \in 1..cards /\ thread' = held[w] /\ UNCHANGED <<record, cards, slips, bare>>
    BY <1>a, <1>4 DEF Save, Resave, HeldFits, Carrying, slack, locks
  <2>2. thread \notin {0, held[w]} => slips + bare > 0
    <3>1. cards <= 1 + slips + bare
      BY CardsArePaidFor
    <3> QED
      BY <1>b, <2>1, <3>1
  <2> QED
    BY <2>1, <2>2 DEF Card!Know
\* The record is written: claimed with a thread, or taken back.
<1>5. ASSUME UNCHANGED <<cards, slips, bare, thread>>, TypeOK',
             record'.status = "dispatched" => thread # 0
      PROVE  Card!Claim \/ Card!Retract
  BY <1>5 DEF Card!Claim, Card!Retract
<1>6. ASSUME NEW w \in Workers, Pending(w) \/ Failed(w) \/ Flip(w) \/ Orphan(w) \/ Merge(w)
      PROVE  Card!Claim \/ Card!Retract
  <2>1. UNCHANGED <<cards, slips, bare, thread>> /\ (record'.status = "dispatched" => thread # 0)
    BY <1>a, <1>6 DEF Pending, Failed, Flip, Orphan, Merge, Dispatched, HeldFits, slack,
                      locks
  <2> QED
    BY <1>a, <1>5, <2>1, TypeStep
<1>7. ASSUME NEW s \in Scribes, ScribeWrites(s) PROVE Card!Claim \/ Card!Retract
  <2>1. UNCHANGED <<cards, slips, bare, thread>> /\ (record'.status = "dispatched" => thread # 0)
    BY <1>a, <1>7 DEF ScribeWrites, RecordsFit, Fits, slack, locks
  <2> QED
    BY <1>a, <1>5, <2>1, TypeStep
<1>8. \/ UNCHANGED <<cards, slips, bare, thread, record>>
      \/ \E w \in Workers : Deliver(w) \/ LoseReply(w) \/ SaveFails(w) \/ Crash(w)
                            \/ AcquireFails(w) \/ Save(w) \/ Resave(w) \/ Pending(w) \/ Failed(w)
                            \/ Flip(w) \/ Orphan(w) \/ Merge(w)
      \/ \E s \in Scribes : ScribeWrites(s)
  BY DEF Next, vars, Route, Reap, Step, ScribeReads, MoveOn, Read, Acquire, Recheck,
         ReadFails, Look, Validate, Thread, Rejoin, ToApproval, Refuse, Settle,
         WriteFails, Restate, ReapFails, Release, slack, locks
<1> QED
  BY <1>1, <1>2, <1>3, <1>4, <1>6, <1>7, <1>8 DEF Card!Next

\* However dispatches, reapers and writers of old metadata interleave, die or
\* fail: a card goes out only where none is known or one may be lost, the row
\* names a card that is out, another one replaces it only after a loss, and
\* "dispatched" is on record only while there is a thread to answer with.
THEOREM DispatchImplementsEffect == Spec => ImplementsExternalEffect
<1>1. Init => Card!Init /\ ThreadFits
  BY DEF Init, NoRecord, Card!Init, ThreadFits
<1>2. IInv /\ ThreadFits /\ [Next]_vars => ThreadFits'
  BY ThreadStep
<1>3. IInv /\ ThreadFits /\ [Next]_vars
        => [Card!Next]_<<cards, slips + bare, thread, record.status = "dispatched">>
  BY EffectStep
<1> QED
  BY <1>1, <1>2, <1>3, Invariance, PTL DEF Spec, ImplementsExternalEffect, Card!Spec
=============================================================================
